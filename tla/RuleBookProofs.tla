--------------------------- MODULE RuleBookProofs ---------------------------
(* Proofs about the rule table, for any merchants, items, processes and       *)
(* faults: types, then that hits are matches, that a corrected item is        *)
(* learned, that what is booked without the user is vetted, and that every    *)
(* circle of waits has a batch and a correction in it.                        *)
EXTENDS RuleBook, FiniteSetTheorems, WellFoundedInduction, TLAPS

\* What the fields of a transaction can be.
LEMMA OpFields ==
  ASSUME NEW o \in Op
  PROVE  /\ o # NoOp
         /\ o.kind \in {"ingest", "batch", "correct", "approve"}
         /\ o.merchant \in Names
         /\ o.merchant # NoName => o.merchant \in RuleIds
         /\ o.picked \subseteq Items
         /\ o.kind = "ingest" => o.picked = {}
         /\ o.kind = "correct" => o.category \in Categories
         /\ o.rulesOnly \in BOOLEAN
         /\ o.rulesOnly => o.kind = "batch"
  BY RuleBookAssumption DEF Op, Names, RuleIds

\* What the fields of a row, and of a row as it was read, can be.
LEMMA RowFields ==
  /\ NoRule \notin Row /\ NoRule \notin Seen
  /\ \A row \in Row : row.category \in Categories /\ row.hits \in Nat
  /\ \A row \in Row, n \in Nat :
        /\ [row EXCEPT !.hits = n] \in Row
        /\ [row EXCEPT !.hits = n].hits = n
        /\ [row EXCEPT !.hits = n].category = row.category
  /\ \A s \in Seen : s.id \in RuleIds /\ s.category \in Categories /\ s.hits \in Nat
  /\ \A c \in Categories, n \in Nat : [category |-> c, hits |-> n] \in Row
  /\ \A id \in RuleIds, c \in Categories, n \in Nat :
        [id |-> id, category |-> c, hits |-> n] \in Seen
  BY RuleBookAssumption DEF Row, Seen

\* What the fields of a result can be.
LEMMA ResultFields ==
  ASSUME NEW c \in Categories, NEW source \in {"rule", "llm", "hint"}, NEW auto \in BOOLEAN,
         NEW r, r = [category |-> c, source |-> source, auto |-> auto]
  PROVE  r \in Result
  BY DEF Result

-----------------------------------------------------------------------------
(* What belongs to a process, and what a step of another one leaves of it. *)

ProcessTyped(p) ==
    /\ op[p] \in Op \union {NoOp}
    /\ pc[p] \in {"idle", "match", "hit", "ask", "ask_again", "item",
                  "learn", "insert", "update", "commit"}
    /\ pc[p] = "idle" <=> op[p] = NoOp
    /\ seen[p] \in Seen \union {NoRule}
    /\ writes[p] \in [RuleIds -> Row \union {NoRule}]
    /\ held[p] \subseteq Items
    /\ result[p] \in Result \union {NoResult}
    /\ marks[p] \in [RuleIds -> Nat]

TablesTyped ==
    /\ book \in [RuleIds -> Row \union {NoRule}]
    /\ items \in [Items -> {"pending", "approved", "corrected"}]
    /\ started \in 0 .. MaxStarted /\ faults \in 0 .. MaxFaults
    /\ matched \in [RuleIds -> Nat]
    /\ taught \in [RuleIds -> SUBSET Categories]

Domains ==
    /\ op = [p \in Processes |-> op[p]]
    /\ pc = [p \in Processes |-> pc[p]]
    /\ seen = [p \in Processes |-> seen[p]]
    /\ writes = [p \in Processes |-> writes[p]]
    /\ held = [p \in Processes |-> held[p]]
    /\ result = [p \in Processes |-> result[p]]
    /\ marks = [p \in Processes |-> marks[p]]

LEMMA TypeParts ==
  TypeOK <=> Domains /\ TablesTyped /\ \A p \in Processes : ProcessTyped(p)
<1>1. TypeOK => Domains /\ TablesTyped /\ \A p \in Processes : ProcessTyped(p)
  BY DEF TypeOK, Domains, TablesTyped, ProcessTyped
<1>2. ASSUME Domains, TablesTyped, \A p \in Processes : ProcessTyped(p) PROVE TypeOK
  <2>1. op \in [Processes -> Op \union {NoOp}]
    BY <1>2 DEF Domains, ProcessTyped
  <2>2. pc \in [Processes -> {"idle", "match", "hit", "ask", "ask_again", "item",
                              "learn", "insert", "update", "commit"}]
    BY <1>2 DEF Domains, ProcessTyped
  <2>3. seen \in [Processes -> Seen \union {NoRule}]
    BY <1>2 DEF Domains, ProcessTyped
  <2>4. writes \in [Processes -> [RuleIds -> Row \union {NoRule}]]
    BY <1>2 DEF Domains, ProcessTyped
  <2>5. /\ result \in [Processes -> Result \union {NoResult}]
        /\ held \in [Processes -> SUBSET Items]
    BY <1>2 DEF Domains, ProcessTyped
  <2>6. marks \in [Processes -> [RuleIds -> Nat]]
    BY <1>2 DEF Domains, ProcessTyped
  <2>7. QED
    BY <1>2, <2>1, <2>2, <2>3, <2>4, <2>5, <2>6 DEF TypeOK, TablesTyped, ProcessTyped
<1>3. QED
  BY <1>1, <1>2

\* The result of one process: a conjunct of AutoBookedIsVetted.
Vetted(p) ==
    result[p] # NoResult /\ result[p].auto =>
        \/ result[p].source = "rule" /\ result[p].category \in taught[seen[p].id]
        \/ result[p].source = "llm" /\ result[p].category \in Candidates

\* All that the invariant says of one process.
ProcessInv(p) == ProcessTyped(p) /\ ReadsAreEarned(p) /\ InOrder(p) /\ Vetted(p)

Learned ==
    \A i \in Items :
        items[i] = "corrected" /\ MerchantOf[i] # NoName => book[MerchantOf[i]] # NoRule

Parts ==
    /\ Domains /\ TablesTyped /\ RowsAreEarned /\ RuleLocksExclude /\ Learned
    /\ \A p \in Processes : ProcessInv(p)

LEMMA PartsOfInv == BookInv <=> Parts
  BY TypeParts DEF Parts, BookInv, ProcessInv, Learned, Vetted, AutoBookedIsVetted

LEMMA InvParts ==
  BookInv <=> /\ Domains /\ TablesTyped /\ RowsAreEarned /\ RuleLocksExclude /\ Learned
              /\ \A p \in Processes : ProcessInv(p)
  BY PartsOfInv DEF Parts

\* A step of p leaves the transactions of the others alone.
Untouched(q) ==
    /\ op'[q] = op[q] /\ pc'[q] = pc[q] /\ seen'[q] = seen[q]
    /\ writes'[q] = writes[q] /\ held'[q] = held[q]
    /\ result'[q] = result[q] /\ marks'[q] = marks[q]

\* The committed table only grows: rules stay, and so does what they learned.
Grows ==
    /\ \A id \in RuleIds : book[id] # NoRule => book'[id] # NoRule
    /\ \A id \in RuleIds : taught[id] \subseteq taught'[id]
    /\ \A id \in RuleIds : matched[id] =< matched'[id]

LEMMA UntouchedKeeps ==
  ASSUME TablesTyped, TablesTyped', Grows, NEW q \in Processes, ProcessInv(q), Untouched(q)
  PROVE  ProcessInv(q)'
<1>1. ProcessTyped(q)'
  BY DEF ProcessInv, ProcessTyped, Untouched
<1>2. Written(q)' = Written(q) /\ Written(q) \subseteq RuleIds
  BY DEF Written, Untouched
<1>3. ReadsAreEarned(q)'
  <2> ProcessTyped(q) /\ ReadsAreEarned(q)
    BY DEF ProcessInv
  <2>1. ASSUME seen[q] # NoRule
        PROVE  /\ book'[seen[q].id] # NoRule
               /\ seen[q].category \in taught'[seen[q].id]
               /\ seen[q].hits =< matched'[seen[q].id] + marks[q][seen[q].id]
    <3>1. seen[q].id \in RuleIds /\ seen[q].hits \in Nat
      BY <2>1, RowFields DEF ProcessTyped
    <3>2. /\ matched[seen[q].id] \in Nat /\ matched'[seen[q].id] \in Nat
          /\ marks[q][seen[q].id] \in Nat
      BY <3>1 DEF ProcessTyped, TablesTyped
    <3>3. QED
      BY <2>1, <3>1, <3>2 DEF ReadsAreEarned, Grows
  <2>2. ASSUME NEW id \in Written(q)
        PROVE  /\ writes[q][id].hits =< matched'[id] + marks[q][id]
               /\ op[q].kind # "correct" =>
                    book'[id] # NoRule /\ writes[q][id].category \in taught'[id]
    <3>1. id \in RuleIds /\ writes[q][id] \in Row
      BY <1>2 DEF Written, ProcessTyped
    <3>2. writes[q][id].hits \in Nat /\ matched[id] \in Nat /\ matched'[id] \in Nat /\ marks[q][id] \in Nat
      BY <3>1, RowFields DEF ProcessTyped, TablesTyped
    <3>3. QED
      BY <3>1, <3>2 DEF ReadsAreEarned, Grows
  <2>3. QED
    BY <1>2, <2>1, <2>2 DEF ReadsAreEarned, Untouched
<1>4. InOrder(q)'
  <2> ProcessTyped(q) /\ InOrder(q)
    BY DEF ProcessInv
  <2>1. op[q] # NoOp /\ op[q].merchant # NoName => op[q].merchant \in RuleIds
    BY OpFields DEF ProcessTyped
  <2>2. /\ op[q] # NoOp /\ pc[q] = "update" => op[q].merchant # NoName
        /\ op[q] # NoOp /\ op[q].merchant # NoName /\ book[op[q].merchant] # NoRule
              => book'[op[q].merchant] # NoRule
    BY <2>1 DEF InOrder, Grows
  <2>3. QED
    BY <1>2, <2>2 DEF InOrder, Untouched
<1>5. Vetted(q)'
  <2> ProcessTyped(q) /\ InOrder(q) /\ Vetted(q)
    BY DEF ProcessInv
  <2>1. result[q] # NoResult /\ result[q].source = "rule" => seen[q].id \in RuleIds
    BY RowFields DEF InOrder, ProcessTyped
  <2>2. QED
    BY <2>1 DEF Vetted, Untouched, Grows
<1>6. QED
  BY <1>1, <1>3, <1>4, <1>5 DEF ProcessInv

-----------------------------------------------------------------------------
(* One step of one process: where it may write. *)

Step(p) == Start(p) \/ Continue(p) \/ Fault(p)

\* A process writes its own transaction only.
LEMMA Isolated ==
  ASSUME Domains, NEW p \in Processes, Step(p)
  PROVE  Domains' /\ \A q \in Processes \ {p} : Untouched(q)
<1> USE DEF Goto, Domains, Untouched
<1>1. CASE Start(p)
  BY <1>1 DEF Start, Ingest, Reclassify, Correct, Approve, Begin
<1>2. CASE MatchRule(p)
  BY <1>2 DEF MatchRule
<1>3. CASE CountHit(p)
  <2>1. writes' = [writes EXCEPT ![p] = writes'[p]] /\ marks' = [marks EXCEPT ![p] = marks'[p]]
    BY <1>3 DEF CountHit
  <2>2. pc' = [pc EXCEPT ![p] = pc'[p]] /\ result' = [result EXCEPT ![p] = result'[p]]
    BY <1>3 DEF CountHit, Classified
  <2>3. UNCHANGED <<op, seen, held>>
    BY <1>3 DEF CountHit
  <2>4. QED
    BY <2>1, <2>2, <2>3
<1>4. CASE \/ \E category \in Candidates, auto \in BOOLEAN : ModelAnswers(p, category, auto)
           \/ \E category \in Categories : Fallback(p, category)
  BY <1>4 DEF ModelAnswers, Fallback, Classified
<1>5. CASE OutOfRange(p) \/ LockItem(p) \/ Learn(p)
  BY <1>5 DEF OutOfRange, LockItem, Learn
<1>6. CASE InsertRule(p) \/ UpdateRule(p)
  <2>1. writes' = [writes EXCEPT ![p] = writes'[p]]
    BY <1>6 DEF InsertRule, UpdateRule, WriteRule
  <2>2. QED
    BY <1>6, <2>1 DEF InsertRule, UpdateRule, WriteRule
<1>7. CASE Commit(p) \/ UniqueViolation(p) \/ DeadlockVictim(p) \/ Fault(p)
  BY <1>7 DEF Commit, UniqueViolation, DeadlockVictim, Fault, Rollback, End
<1>8. QED
  BY <1>1, <1>2, <1>3, <1>4, <1>5, <1>6, <1>7 DEF Step, Continue

\* Only a commit changes the tables.
LEMMA Quiet ==
  ASSUME NEW p \in Processes, Step(p), ~Commit(p)
  PROVE  UNCHANGED <<book, items, matched, taught>>
  BY DEF Step, Start, Ingest, Reclassify, Correct, Approve, Begin, Continue, MatchRule, CountHit,
     ModelAnswers, Fallback, OutOfRange, LockItem, Learn, InsertRule, UpdateRule, WriteRule,
     UniqueViolation, DeadlockVictim, Fault, Rollback

\* The bounds on the counters.
LEMMA Counted ==
  ASSUME TablesTyped, NEW p \in Processes, Step(p)
  PROVE  started' \in 0 .. MaxStarted /\ faults' \in 0 .. MaxFaults
<1> USE RuleBookAssumption DEF TablesTyped
<1>1. CASE Start(p)
  BY <1>1 DEF Start, Ingest, Reclassify, Correct, Approve, Begin
<1>2. CASE Fault(p)
  BY <1>2 DEF Fault, Rollback
<1>3. CASE Continue(p)
  BY <1>3 DEF Continue, MatchRule, CountHit, ModelAnswers, Fallback, OutOfRange, LockItem, Learn,
     InsertRule, UpdateRule, WriteRule, Commit, UniqueViolation, DeadlockVictim, Rollback
<1>4. QED
  BY <1>1, <1>2, <1>3 DEF Step

\* What p sees in the table, and the rule that hits.
LEMMA Views ==
  ASSUME BookInv, NEW p \in Processes, op[p] # NoOp
  PROVE  /\ op[p] \in Op /\ Broad \in RuleIds
         /\ op[p].merchant # NoName => op[p].merchant \in RuleIds
         /\ Hitting(p) \in {op[p].merchant, Broad}
         /\ Hit(p) # NoRule => op[p].merchant # NoName /\ Hit(p) = View(p, Hitting(p))
         /\ Written(p) \subseteq RuleIds
         /\ \A id \in Written(p) : writes[p][id] \in Row
         /\ \A id \in RuleIds : View(p, id) \in Row \union {NoRule}
         /\ \A id \in RuleIds : id \in Written(p) => View(p, id) = writes[p][id]
         /\ \A id \in RuleIds : id \notin Written(p) => View(p, id) = book[id]
<1>1. ProcessTyped(p) /\ TablesTyped
  BY InvParts DEF ProcessInv
<1>2. /\ op[p] \in Op /\ Broad \in RuleIds
      /\ op[p].merchant # NoName => op[p].merchant \in RuleIds
  BY <1>1, OpFields DEF ProcessTyped, RuleIds
<1>3. QED
  BY <1>1, <1>2 DEF ProcessTyped, TablesTyped, Hitting, Hit, Written, View

\* What p sees was taught, and counts matches that committed or are its own.
LEMMA ViewsAreEarned ==
  ASSUME BookInv, NEW p \in Processes, op[p] # NoOp, op[p].kind # "correct",
         NEW id \in RuleIds, View(p, id) # NoRule
  PROVE  /\ View(p, id) \in Row
         /\ book[id] # NoRule
         /\ View(p, id).category \in taught[id]
         /\ View(p, id).hits =< matched[id] + marks[p][id]
<1>1. ReadsAreEarned(p) /\ ProcessTyped(p) /\ RowsAreEarned /\ TablesTyped
  BY InvParts DEF ProcessInv
<1>2. View(p, id) \in Row
  BY Views
<1>3. View(p, id).hits \in Nat /\ matched[id] \in Nat /\ marks[p][id] \in Nat
  BY <1>1, <1>2, RowFields DEF TablesTyped, ProcessTyped
<1>4. CASE id \in Written(p)
  BY <1>1, <1>2, <1>4, Views DEF ReadsAreEarned
<1>5. CASE id \notin Written(p)
  BY <1>1, <1>2, <1>3, <1>5, Views DEF RowsAreEarned
<1>6. QED
  BY <1>4, <1>5

\* A process that has ended its transaction.
LEMMA Ended ==
  ASSUME BookInv, NEW p \in Processes, End(p)
  PROVE  ProcessInv(p)' /\ Written(p)' = {}
<1>1. /\ op'[p] = NoOp /\ pc'[p] = "idle" /\ seen'[p] = NoRule
      /\ writes'[p] = NoWrites /\ held'[p] = {}
      /\ result'[p] = NoResult /\ marks'[p] = NoMarks
  BY InvParts DEF End, Goto, Domains
<1>2. Written(p)' = {}
  BY <1>1 DEF Written, NoWrites
<1>3. ProcessTyped(p)'
  BY <1>1 DEF ProcessTyped, NoWrites, NoMarks
<1>4. ReadsAreEarned(p)'
  BY <1>1, <1>2 DEF ReadsAreEarned
<1>5. InOrder(p)'
  BY <1>1, <1>2 DEF InOrder
<1>6. Vetted(p)'
  BY <1>1 DEF Vetted
<1>7. QED
  BY <1>2, <1>3, <1>4, <1>5, <1>6 DEF ProcessInv

-----------------------------------------------------------------------------
(* What a step makes of its own process. *)

\* A new transaction has read and written nothing.
LEMMA StartStep ==
  ASSUME BookInv, NEW p \in Processes, Start(p)
  PROVE  ProcessInv(p)'
<1> Domains /\ ProcessInv(p) /\ TablesTyped
  BY InvParts
<1>1. /\ pc[p] = "idle" /\ pc'[p] \in {"match", "item"}
      /\ UNCHANGED <<book, seen, writes, held, result, marks, matched, taught>>
  BY DEF Start, Ingest, Reclassify, Correct, Approve, Begin, Goto, Domains
<1>2. /\ op'[p] \in Op
      /\ pc'[p] = "item" <=> op'[p].kind \in {"correct", "approve"}
      /\ op'[p].kind \in {"batch", "correct"} =>
            \E i \in Items : op'[p].picked = {i} /\ op'[p].merchant = MerchantOf[i]
      /\ op'[p].kind = "approve" => op'[p].merchant = NoName
  <2>1. ASSUME NEW m \in Names, Ingest(p, m)
        PROVE  /\ op'[p] \in Op /\ op'[p].kind = "ingest" /\ pc'[p] = "match"
    BY <2>1 DEF Ingest, Begin, Goto, Domains, Op
  <2>2. ASSUME NEW i \in Items, NEW rulesOnly \in BOOLEAN, Reclassify(p, i, rulesOnly)
        PROVE  /\ op'[p] \in Op /\ op'[p].kind = "batch" /\ pc'[p] = "match"
               /\ op'[p].picked = {i} /\ op'[p].merchant = MerchantOf[i]
    BY <2>2, RuleBookAssumption DEF Reclassify, Begin, Goto, Domains, Op
  <2>3. ASSUME NEW i \in Items, NEW category \in Categories, Correct(p, i, category)
        PROVE  /\ op'[p] \in Op /\ op'[p].kind = "correct" /\ pc'[p] = "item"
               /\ op'[p].picked = {i} /\ op'[p].merchant = MerchantOf[i]
    BY <2>3, RuleBookAssumption DEF Correct, Begin, Goto, Domains, Op
  <2>4. ASSUME NEW picked \in SUBSET Items, Approve(p, picked)
        PROVE  /\ op'[p] \in Op /\ op'[p].kind = "approve" /\ pc'[p] = "item"
               /\ op'[p].merchant = NoName
    BY <2>4 DEF Approve, Begin, Goto, Domains, Op
  <2>5. CASE \E m \in Names : Ingest(p, m)
    BY <2>1, <2>5
  <2>6. CASE \E i \in Items, rulesOnly \in BOOLEAN : Reclassify(p, i, rulesOnly)
    BY <2>2, <2>6
  <2>7. CASE \E i \in Items, category \in Categories : Correct(p, i, category)
    BY <2>3, <2>7
  <2>8. CASE \E picked \in SUBSET Items : Approve(p, picked)
    BY <2>4, <2>8
  <2>9. QED
    BY <2>5, <2>6, <2>7, <2>8 DEF Start
<1>3. Written(p)' = {} /\ result'[p] = NoResult /\ held'[p] = {}
  BY <1>1 DEF Written, ProcessInv, InOrder
<1>4. ProcessTyped(p)'
  BY <1>1, <1>2, OpFields DEF ProcessInv, ProcessTyped
<1>5. ReadsAreEarned(p)'
  BY <1>1, <1>3 DEF ProcessInv, ReadsAreEarned
<1>6. InOrder(p)'
  BY <1>1, <1>2, <1>3, OpFields DEF InOrder
<1>7. Vetted(p)'
  BY <1>3 DEF Vetted
<1>8. QED
  BY <1>4, <1>5, <1>6, <1>7 DEF ProcessInv

\* What is read comes from a row that p sees.
LEMMA MatchStep ==
  ASSUME BookInv, NEW p \in Processes, MatchRule(p)
  PROVE  ProcessInv(p)'
<1> DEFINE id == Hitting(p)
           row == Hit(p)
<1> Domains /\ ProcessInv(p) /\ TablesTyped
  BY InvParts
<1>1. /\ pc[p] = "match" /\ op[p] # NoOp
      /\ UNCHANGED <<book, writes, held, result, marks, matched, taught>>
      /\ Written(p)' = Written(p)
  BY DEF MatchRule, ProcessInv, ProcessTyped, Written
<1>2. op[p] \in Op /\ op[p].kind \in {"ingest", "batch"} /\ result[p] = NoResult
  BY <1>1, Views, OpFields DEF ProcessInv, InOrder
<1>3. CASE row # NoRule
  <2>1. /\ op'[p] = op[p] /\ pc'[p] = "hit"
        /\ seen'[p] = [id |-> id, category |-> row.category, hits |-> row.hits]
    BY <1>3 DEF MatchRule, Goto, Domains
  <2>2. /\ id \in RuleIds /\ id \in {op[p].merchant, Broad}
        /\ op[p].merchant # NoName /\ row = View(p, id)
    BY <1>1, <1>3, Views
  <2>3. /\ row \in Row /\ book[id] # NoRule /\ row.category \in taught[id]
        /\ row.hits =< matched[id] + marks[p][id]
    BY <1>1, <1>2, <1>3, <2>2, ViewsAreEarned
  <2>4. seen'[p] \in Seen /\ seen'[p] # NoRule
    BY <2>1, <2>2, <2>3, RowFields
  <2>5. ProcessTyped(p)'
    BY <1>1, <1>2, <2>1, <2>4 DEF ProcessInv, ProcessTyped
  <2>6. ReadsAreEarned(p)'
    BY <1>1, <2>1, <2>3 DEF ProcessInv, ReadsAreEarned
  <2>7. op[p].kind = "batch" => Written(p) \in {{}, {Broad}} \/ id \in Written(p)
    <3>1. ASSUME op[p].kind = "batch", Written(p) = {op[p].merchant} PROVE id \in Written(p)
      <4>1. View(p, op[p].merchant) # NoRule
        BY <1>1, <2>2, <3>1, Views, RowFields
      <4>2. QED
        BY <3>1, <4>1 DEF Hitting
    <3>2. op[p].kind = "batch" => Written(p) \in {{}, {op[p].merchant}, {Broad}}
      BY <1>1 DEF ProcessInv, InOrder
    <3>3. QED
      BY <3>1, <3>2
  <2>8. InOrder(p)'
    BY <1>1, <1>2, <2>1, <2>2, <2>4, <2>7 DEF ProcessInv, InOrder
  <2>9. QED
    BY <1>1, <1>2, <2>5, <2>6, <2>8 DEF ProcessInv, Vetted
<1>4. CASE row = NoRule
  <2>1. /\ seen'[p] = seen[p]
        /\ \/ op[p].rulesOnly /\ op'[p] = NoOp /\ pc'[p] = "idle"
           \/ op'[p] = op[p] /\ pc'[p] = "ask"
    BY <1>4 DEF MatchRule, Goto, Domains
  <2>2. Written(p) = {}
    <3>1. CASE op[p].merchant = NoName
      BY <1>1, <3>1 DEF ProcessInv, InOrder
    <3>2. CASE op[p].merchant # NoName
      <4>1. View(p, op[p].merchant) = NoRule /\ View(p, Broad) = NoRule
        BY <1>4, <3>2 DEF Hit, Hitting
      <4>2. op[p].merchant \notin Written(p) /\ Broad \notin Written(p)
        BY <1>1, <3>2, <4>1, Views, RowFields
      <4>3. QED
        BY <1>1, <4>2 DEF ProcessInv, InOrder
    <3>3. QED
      BY <3>1, <3>2
  <2>3. held[p] = {}
    BY <1>1 DEF ProcessInv, ProcessTyped, InOrder, MatchRule, Op
  <2>4. ProcessTyped(p)'
    BY <1>1, <1>2, <2>1 DEF ProcessInv, ProcessTyped
  <2>5. ReadsAreEarned(p)'
    BY <1>1, <2>1, <2>2 DEF ProcessInv, ReadsAreEarned
  <2>6. InOrder(p)'
    BY <1>1, <1>2, <2>1, <2>2, <2>3 DEF ProcessInv, InOrder
  <2>7. QED
    BY <1>1, <1>2, <2>4, <2>5, <2>6 DEF ProcessInv, Vetted
<1>5. QED
  BY <1>3, <1>4

\* The count that is written is one more than the one that was read.
LEMMA HitStep ==
  ASSUME BookInv, NEW p \in Processes, CountHit(p)
  PROVE  ProcessInv(p)' /\ Written(p)' = Written(p) \union {seen[p].id}
<1> DEFINE id == seen[p].id
           row == [View(p, id) EXCEPT !.hits = seen[p].hits + 1]
<1> Domains /\ ProcessInv(p) /\ TablesTyped
  BY InvParts
<1>1. /\ pc[p] = "hit" /\ op[p] \in Op /\ seen[p] \in Seen /\ seen[p] # NoRule /\ id \in RuleIds
      /\ UNCHANGED <<book, op, seen, held, matched, taught>> /\ result[p] = NoResult
  BY RowFields DEF CountHit, ProcessInv, ProcessTyped, InOrder
<1>2. /\ op[p] # NoOp /\ op[p].kind \in {"ingest", "batch"} /\ id \in {op[p].merchant, Broad}
  BY <1>1, OpFields DEF ProcessInv, InOrder
<1>3. /\ book[id] # NoRule /\ seen[p].category \in taught[id]
      /\ seen[p].hits =< matched[id] + marks[p][id]
  BY <1>1 DEF ProcessInv, ReadsAreEarned
<1>4. View(p, id) \in Row /\ View(p, id).category \in taught[id]
  <2>1. View(p, id) # NoRule
    BY <1>1, <1>2, <1>3, Views, RowFields
  <2>2. QED
    BY <1>1, <1>2, <2>1, ViewsAreEarned
<1>5. seen[p].hits + 1 \in Nat /\ marks[p][id] \in Nat /\ matched[id] \in Nat
  BY <1>1, RowFields DEF ProcessInv, ProcessTyped, TablesTyped
<1>6. row \in Row /\ row.hits = seen[p].hits + 1 /\ row.category \in taught[id] /\ row # NoRule
  BY <1>4, <1>5, RowFields
<1> HIDE DEF row
<1>7. /\ writes'[p] = [writes[p] EXCEPT ![id] = row]
      /\ marks'[p] = [marks[p] EXCEPT ![id] = marks[p][id] + 1]
  BY DEF CountHit, row, Domains
<1>8. Written(p)' = Written(p) \union {id}
  BY <1>1, <1>6, <1>7 DEF Written, ProcessInv, ProcessTyped
<1>9. \/ /\ op[p].rulesOnly /\ Written(p) = {}
         /\ pc'[p] = "match" /\ result'[p] = NoResult
      \/ /\ pc'[p] = (IF op[p].kind = "ingest" THEN "commit" ELSE "item")
         /\ result'[p] = [category |-> seen[p].category, source |-> "rule", auto |-> TRUE]
  BY <1>1 DEF CountHit, Classified, Goto, Domains
<1>10. ProcessTyped(p)'
  <2>1. result'[p] \in Result \union {NoResult}
    <3>1. seen[p].category \in Categories
      BY <1>1, RowFields
    <3>2. result'[p] = NoResult \/ result'[p] \in Result
      BY <1>9, <3>1, ResultFields, Zenon
    <3>3. QED
      BY <3>2
  <2>2. writes'[p] \in [RuleIds -> Row \union {NoRule}] /\ marks'[p] \in [RuleIds -> Nat]
    <3>1. writes[p] \in [RuleIds -> Row \union {NoRule}] /\ marks[p] \in [RuleIds -> Nat]
      BY DEF ProcessInv, ProcessTyped
    <3>2. marks[p][id] + 1 \in Nat
      BY <1>5
    <3>3. QED
      BY <1>6, <1>7, <3>1, <3>2
  <2>3. pc'[p] \in {"match", "item", "commit"}
    BY <1>9
  <2>4. QED
    BY <1>1, <1>2, <2>1, <2>2, <2>3 DEF ProcessInv, ProcessTyped
<1>11. ReadsAreEarned(p)'
  <2>1. /\ writes'[p][id] = row /\ marks'[p][id] = marks[p][id] + 1
        /\ \A o \in RuleIds \ {id} : writes'[p][o] = writes[p][o] /\ marks'[p][o] = marks[p][o]
    BY <1>1, <1>7 DEF ProcessInv, ProcessTyped
  <2>2. seen[p].hits =< matched[id] + marks'[p][id] /\ row.hits =< matched[id] + marks'[p][id]
    BY <1>1, <1>3, <1>5, <1>6, <2>1, RowFields
  <2>3. Written(p) \subseteq RuleIds
    BY DEF Written
  <2>4. ASSUME NEW o \in Written(p)'
        PROVE  /\ writes'[p][o].hits =< matched[o] + marks'[p][o]
               /\ book[o] # NoRule /\ writes'[p][o].category \in taught[o]
    <3>1. CASE o = id
      BY <1>3, <1>6, <2>1, <2>2, <3>1
    <3>2. CASE o # id
      BY <1>2, <1>8, <2>1, <2>3, <2>4, <3>2 DEF ProcessInv, ReadsAreEarned
    <3>3. QED
      BY <3>1, <3>2
  <2>5. QED
    BY <1>1, <1>3, <2>2, <2>4 DEF ReadsAreEarned
<1>12. InOrder(p)'
  <2>1. op[p].kind = "ingest" => ~op[p].rulesOnly
    BY <1>1, OpFields
  <2>2. op'[p] = op[p] /\ seen'[p] = seen[p]
    BY <1>1
  <2>3. pc'[p] = "match" => Written(p)' = {id}
    BY <1>8, <1>9
  <2>4. QED
    BY <1>1, <1>2, <1>8, <1>9, <2>1, <2>2, <2>3 DEF ProcessInv, InOrder
<1>13. Vetted(p)'
  BY <1>1, <1>3, <1>9 DEF Vetted
<1>14. QED
  BY <1>8, <1>10, <1>11, <1>12, <1>13 DEF ProcessInv

\* The model, its second chance, and the fallback.
LEMMA AskStep ==
  ASSUME BookInv, NEW p \in Processes,
         \/ \E category \in Candidates, auto \in BOOLEAN : ModelAnswers(p, category, auto)
         \/ OutOfRange(p)
         \/ \E category \in Categories : Fallback(p, category)
  PROVE  ProcessInv(p)' /\ Written(p)' = Written(p)
<1> Domains /\ ProcessInv(p) /\ TablesTyped
  BY InvParts
<1>1. /\ pc[p] \in {"ask", "ask_again"} /\ result[p] = NoResult /\ op[p] \in Op
      /\ UNCHANGED <<book, op, seen, writes, held, marks, taught, matched>>
      /\ Written(p)' = Written(p)
  BY DEF ModelAnswers, OutOfRange, Fallback, ProcessInv, InOrder, ProcessTyped, Written
<1>2. \/ pc'[p] = "ask_again" /\ result'[p] = NoResult
      \/ /\ pc'[p] = (IF op[p].kind = "ingest" THEN "commit" ELSE "item")
         /\ result'[p] \in Result /\ result'[p].source # "rule"
         /\ result'[p].auto => result'[p].source = "llm" /\ result'[p].category \in Candidates
  <2>1. CASE OutOfRange(p)
    BY <1>1, <2>1 DEF OutOfRange, Goto, Domains
  <2>2. ASSUME NEW c \in Categories, Fallback(p, c)
        PROVE  /\ pc'[p] = (IF op[p].kind = "ingest" THEN "commit" ELSE "item")
               /\ result'[p] = [category |-> c, source |-> "hint", auto |-> FALSE]
    BY <2>2 DEF Fallback, Classified, Goto, Domains
  <2>3. ASSUME NEW c \in Candidates, NEW auto \in BOOLEAN, ModelAnswers(p, c, auto)
        PROVE  /\ pc'[p] = (IF op[p].kind = "ingest" THEN "commit" ELSE "item")
               /\ result'[p] = [category |-> c, source |-> "llm", auto |-> auto]
    BY <2>3 DEF ModelAnswers, Classified, Goto, Domains
  <2>4. ASSUME NEW c \in Categories, Fallback(p, c)
        PROVE  result'[p] \in Result /\ result'[p].source # "rule" /\ ~result'[p].auto
    <3>1. result'[p] = [category |-> c, source |-> "hint", auto |-> FALSE]
      BY <2>2, <2>4
    <3>2. result'[p] \in Result
      BY <3>1, ResultFields, Zenon
    <3>3. result'[p].source # "rule"
      BY <3>1
    <3>4. result'[p].auto = FALSE
      BY <3>1
    <3>5. QED
      BY <3>2, <3>3, <3>4
  <2>5. ASSUME NEW c \in Candidates, NEW auto \in BOOLEAN, ModelAnswers(p, c, auto)
        PROVE  /\ result'[p] \in Result /\ result'[p].source = "llm"
               /\ result'[p].category \in Candidates
    <3>1. c \in Categories
      BY DEF Categories
    <3>2. result'[p] = [category |-> c, source |-> "llm", auto |-> auto]
      BY <2>3, <2>5
    <3>3. result'[p] \in Result
      BY <3>1, <3>2, ResultFields, Zenon
    <3>4. result'[p].source = "llm" /\ result'[p].category = c
      BY <3>2
    <3>5. QED
      BY <3>3, <3>4
  <2>6. CASE \E c \in Categories : Fallback(p, c)
    BY <2>2, <2>4, <2>6
  <2>7. CASE \E c \in Candidates, auto \in BOOLEAN : ModelAnswers(p, c, auto)
    BY <2>3, <2>5, <2>7
  <2>8. QED
    BY <2>1, <2>6, <2>7
<1>3. op[p] # NoOp /\ op[p].kind \in {"ingest", "batch"}
  BY <1>1, OpFields DEF ProcessInv, InOrder
<1>4. ProcessTyped(p)'
  BY <1>1, <1>2, <1>3 DEF ProcessInv, ProcessTyped
<1>5. ReadsAreEarned(p)'
  BY <1>1 DEF ProcessInv, ReadsAreEarned
<1>6. InOrder(p)'
  BY <1>1, <1>2, <1>3 DEF ProcessInv, InOrder
<1>7. Vetted(p)'
  BY <1>2 DEF Vetted
<1>8. QED
  BY <1>1, <1>4, <1>5, <1>6, <1>7 DEF ProcessInv

\* An item is locked: for an approval the next by id.
LEMMA LockStep ==
  ASSUME BookInv, NEW p \in Processes, LockItem(p)
  PROVE  ProcessInv(p)' /\ Written(p)' = Written(p)
<1> Domains /\ ProcessInv(p) /\ TablesTyped
  BY InvParts
<1>1. PICK i \in Items :
        /\ IsNext(p, i)
        /\ held' = [held EXCEPT ![p] = @ \union {i}]
        /\ Goto(p, IF op[p].picked # held[p] \union {i} THEN "item"
                   ELSE IF op[p].kind = "correct" THEN "learn" ELSE "commit")
  BY DEF LockItem
<1>2. /\ pc[p] = "item" /\ op[p] \in Op /\ op[p] # NoOp
      /\ UNCHANGED <<book, op, seen, writes, result, marks, taught, matched>>
      /\ Written(p)' = Written(p)
  BY DEF LockItem, ProcessInv, ProcessTyped, Written
<1>3. held'[p] = held[p] \union {i} /\ held[p] \subseteq op[p].picked
  BY <1>1, <1>2 DEF Domains, ProcessInv, InOrder
<1>4. op[p].kind \in {"batch", "correct", "approve"}
  BY <1>2, OpFields DEF ProcessInv, InOrder
<1>5. /\ op[p].kind \in {"batch", "correct"} => op[p].picked = held[p] \union {i}
      /\ op[p].kind = "correct" => Written(p) = {}
  BY <1>1, <1>2 DEF IsNext, ProcessInv, InOrder
<1>6. \/ pc'[p] = "item" /\ op[p].kind = "approve"
      \/ pc'[p] = "learn" /\ op[p].kind = "correct"
      \/ pc'[p] = "commit" /\ op[p].kind \in {"batch", "approve"}
  BY <1>1, <1>4, <1>5 DEF Goto, Domains
<1>7. \A h \in held'[p], j \in op[p].picked \ held'[p] : h < j
  <2> SUFFICES ASSUME NEW h \in held'[p], NEW j \in op[p].picked \ held'[p] PROVE h < j
    OBVIOUS
  <2>1. CASE h \in held[p]
    BY <1>2, <1>3, <2>1 DEF ProcessInv, InOrder
  <2>2. CASE h = i
    <3>1. i =< j /\ i # j
      BY <1>1, <1>3 DEF IsNext
    <3>2. i \in Nat /\ j \in Nat
      BY <1>2, OpFields, RuleBookAssumption
    <3>3. QED
      BY <2>2, <3>1, <3>2
  <2>3. QED
    BY <1>3, <2>1, <2>2
<1>8. ProcessTyped(p)'
  BY <1>2, <1>3, <1>6 DEF ProcessInv, ProcessTyped
<1>9. ReadsAreEarned(p)'
  BY <1>2 DEF ProcessInv, ReadsAreEarned
<1>10. held'[p] \subseteq op[p].picked
  BY <1>1, <1>3 DEF IsNext
<1>11. InOrder(p)'
  BY <1>2, <1>5, <1>6, <1>7, <1>10 DEF ProcessInv, InOrder
<1>12. Vetted(p)'
  BY <1>2 DEF ProcessInv, Vetted
<1>13. QED
  BY <1>2, <1>8, <1>9, <1>11, <1>12 DEF ProcessInv

\* A correction looks for its rule, unless its item names nobody.
LEMMA LearnStep ==
  ASSUME BookInv, NEW p \in Processes, Learn(p)
  PROVE  ProcessInv(p)' /\ Written(p)' = Written(p)
<1> Domains /\ ProcessInv(p) /\ TablesTyped
  BY InvParts
<1>1. /\ pc[p] = "learn" /\ op[p] \in Op /\ op[p] # NoOp
      /\ UNCHANGED <<book, op, seen, writes, held, result, marks, taught, matched>>
      /\ Written(p)' = Written(p)
  BY DEF Learn, ProcessInv, ProcessTyped, Written
<1>2. op[p].kind = "correct" /\ Written(p) = {}
  BY <1>1, OpFields DEF ProcessInv, InOrder
<1>3. \/ pc'[p] = "insert" /\ op[p].merchant # NoName
      \/ pc'[p] = "update" /\ op[p].merchant # NoName /\ book[op[p].merchant] # NoRule
      \/ pc'[p] = "commit" /\ (op[p].merchant = NoName \/ book[op[p].merchant] # NoRule)
  BY DEF Learn, Goto, Domains
<1>4. ProcessTyped(p)'
  BY <1>1, <1>2, <1>3 DEF ProcessInv, ProcessTyped
<1>5. ReadsAreEarned(p)'
  BY <1>1 DEF ProcessInv, ReadsAreEarned
<1>6. InOrder(p)'
  BY <1>1, <1>2, <1>3 DEF ProcessInv, InOrder
<1>7. Vetted(p)'
  BY <1>1 DEF ProcessInv, Vetted
<1>8. QED
  BY <1>1, <1>4, <1>5, <1>6, <1>7 DEF ProcessInv

\* What a correction writes keeps the count that is committed.
LEMMA WriteStep ==
  ASSUME BookInv, NEW p \in Processes, InsertRule(p) \/ UpdateRule(p)
  PROVE  ProcessInv(p)' /\ Written(p)' = {op[p].merchant}
<1> DEFINE exact == op[p].merchant
<1> Domains /\ ProcessInv(p) /\ TablesTyped /\ RowsAreEarned
  BY InvParts
<1>1. /\ pc[p] \in {"insert", "update"} /\ op[p] \in Op /\ op[p] # NoOp
      /\ UNCHANGED <<book, op, seen, held, result, marks, taught, matched>>
      /\ pc'[p] = "commit"
  BY DEF InsertRule, UpdateRule, WriteRule, Goto, Domains, ProcessInv, ProcessTyped
<1>2. op[p].kind = "correct" /\ exact \in RuleIds /\ op[p].category \in Categories /\ Written(p) = {}
  BY <1>1, OpFields DEF ProcessInv, InOrder
<1>3. marks[p][exact] \in Nat /\ matched[exact] \in Nat
  BY <1>2 DEF ProcessInv, ProcessTyped, TablesTyped
<1>4. PICK n \in Nat : /\ writes'[p] = [writes[p] EXCEPT ![exact] = [category |-> op[p].category, hits |-> n]]
                        /\ n =< matched[exact]
  <2>1. CASE InsertRule(p)
    <3>1. writes'[p] = [writes[p] EXCEPT ![exact] = [category |-> op[p].category, hits |-> 0]]
      BY <2>1 DEF InsertRule, WriteRule, Domains
    <3>2. 0 \in Nat /\ 0 =< matched[exact]
      BY <1>3
    <3>3. QED
      BY <3>1, <3>2
  <2>2. CASE UpdateRule(p)
    <3>1. pc[p] = "update" /\ book[exact] # NoRule
      BY <1>1, <1>2, <2>2 DEF UpdateRule, ProcessInv, InOrder
    <3>2. book[exact] \in Row /\ book[exact].hits \in Nat /\ book[exact].hits =< matched[exact]
      BY <1>2, <3>1, RowFields DEF TablesTyped, RowsAreEarned
    <3>3. QED
      BY <2>2, <3>2 DEF UpdateRule, WriteRule, Domains
  <2>3. QED
    BY <2>1, <2>2
<1> DEFINE row == [category |-> op[p].category, hits |-> n]
<1>5. row \in Row /\ row # NoRule /\ row.hits = n
  BY <1>2, RowFields
<1> HIDE DEF row
<1>6. writes'[p] = [writes[p] EXCEPT ![exact] = row]
  BY <1>4 DEF row
<1>7. Written(p)' = {exact} /\ writes'[p][exact] = row
  BY <1>2, <1>5, <1>6 DEF Written, ProcessInv, ProcessTyped
<1>8. ProcessTyped(p)'
  <2>1. writes[p] \in [RuleIds -> Row \union {NoRule}]
    BY DEF ProcessInv, ProcessTyped
  <2>2. writes'[p] \in [RuleIds -> Row \union {NoRule}]
    BY <1>2, <1>5, <1>6, <2>1
  <2>3. QED
    BY <1>1, <2>2 DEF ProcessInv, ProcessTyped
<1>9. ReadsAreEarned(p)'
  BY <1>1, <1>2, <1>3, <1>4, <1>5, <1>7 DEF ProcessInv, ReadsAreEarned
<1>10. InOrder(p)'
  BY <1>1, <1>2, <1>7 DEF ProcessInv, InOrder
<1>11. Vetted(p)'
  BY <1>1 DEF ProcessInv, Vetted
<1>12. QED
  BY <1>7, <1>8, <1>9, <1>10, <1>11 DEF ProcessInv

-----------------------------------------------------------------------------
(* What a step makes of the tables and the locks. *)

\* A commit publishes what was written, and the table grows by it.
LEMMA CommitStep ==
  ASSUME BookInv, NEW p \in Processes, Commit(p)
  PROVE  TablesTyped' /\ Grows /\ RowsAreEarned' /\ Learned'
<1> Domains /\ ProcessInv(p) /\ TablesTyped /\ RowsAreEarned /\ Learned
  BY InvParts
<1>1. pc[p] = "commit" /\ op[p] # NoOp /\ op[p] \in Op
  BY Views DEF Commit, ProcessInv, ProcessTyped
<1>2. /\ book' = [id \in RuleIds |-> View(p, id)]
      /\ matched' = [id \in RuleIds |-> matched[id] + marks[p][id]]
      /\ taught' = [id \in RuleIds |->
                      IF id \in Written(p) THEN taught[id] \union {writes[p][id].category}
                      ELSE taught[id]]
      /\ UNCHANGED <<started, faults>>
  BY DEF Commit
<1>3. ASSUME NEW id \in RuleIds
      PROVE  /\ book'[id] = View(p, id) /\ book'[id] \in Row \union {NoRule}
             /\ id \in Written(p) => book'[id] = writes[p][id] /\ book'[id] # NoRule
             /\ id \notin Written(p) => book'[id] = book[id] /\ taught'[id] = taught[id]
             /\ id \in Written(p) => taught'[id] = taught[id] \union {writes[p][id].category}
             /\ matched'[id] \in Nat /\ matched[id] \in Nat /\ marks[p][id] \in Nat
             /\ matched'[id] = matched[id] + marks[p][id]
  BY <1>1, <1>2, Views, RowFields DEF TablesTyped, ProcessInv, ProcessTyped
<1>4. items' \in [Items -> {"pending", "approved", "corrected"}]
  <2>1. ASSUME NEW i \in Items PROVE StatusAfter(p, i) \in {"pending", "approved", "corrected"}
    BY DEF StatusAfter, TablesTyped
  <2>2. QED
    BY <2>1 DEF Commit, TablesTyped
<1>5. TablesTyped'
  <2>1. \A id \in RuleIds : taught'[id] \in SUBSET Categories
    BY <1>1, <1>3, Views, RowFields DEF TablesTyped
  <2>2. QED
    BY <1>2, <1>3, <1>4, <2>1 DEF TablesTyped
<1>6. Grows
  BY <1>3 DEF Grows
<1>7. RowsAreEarned'
  <2> SUFFICES ASSUME NEW id \in RuleIds, book'[id] # NoRule
               PROVE  book'[id].category \in taught'[id] /\ book'[id].hits =< matched'[id]
    BY DEF RowsAreEarned
  <2>1. CASE id \in Written(p)
    BY <1>3, <2>1 DEF ProcessInv, ReadsAreEarned
  <2>2. CASE id \notin Written(p)
    <3>1. book[id] \in Row /\ book[id].hits \in Nat
      BY <1>3, <2>2, RowFields DEF TablesTyped
    <3>2. QED
      BY <1>3, <2>2, <3>1 DEF RowsAreEarned
  <2>3. QED
    BY <2>1, <2>2
<1>8. Learned'
  <2> SUFFICES ASSUME NEW i \in Items, items'[i] = "corrected", MerchantOf[i] # NoName
               PROVE  book'[MerchantOf[i]] # NoRule
    BY DEF Learned
  <2>1. MerchantOf[i] \in RuleIds
    BY RuleBookAssumption DEF Names, RuleIds
  <2>2. CASE items[i] = "corrected"
    BY <1>6, <2>1, <2>2 DEF Learned, Grows
  <2>3. CASE items[i] # "corrected"
    <3>1. i \in op[p].picked /\ StatusAfter(p, i) = "corrected"
      BY <2>3 DEF Commit
    <3>2. op[p].kind = "correct"
      BY <2>3, <3>1 DEF StatusAfter
    <3>3. op[p].merchant = MerchantOf[i]
      BY <1>1, <3>1, <3>2 DEF ProcessInv, InOrder
    <3>4. book[op[p].merchant] # NoRule \/ op[p].merchant \in Written(p)
      <4>1. pc[p] = "commit" /\ op[p] # NoOp
        BY <1>1 DEF Commit, ProcessInv, ProcessTyped
      <4>2. op[p].merchant # NoName
        BY <3>3
      <4>3. QED
        BY <1>1, <3>2, <4>1, <4>2 DEF ProcessInv, InOrder
    <3>5. QED
      BY <1>3, <1>6, <2>1, <3>3, <3>4 DEF Grows
  <2>4. QED
    BY <2>2, <2>3
<1>9. QED
  BY <1>5, <1>6, <1>7, <1>8

\* Any step: the tables.
LEMMA TablesStep ==
  ASSUME BookInv, NEW p \in Processes, Step(p)
  PROVE  TablesTyped' /\ Grows /\ RowsAreEarned' /\ Learned'
<1> TablesTyped /\ RowsAreEarned /\ Learned
  BY InvParts
<1>1. CASE Commit(p)
  BY <1>1, CommitStep
<1>2. CASE ~Commit(p)
  <2>1. UNCHANGED <<book, items, matched, taught>>
    BY <1>2, Quiet
  <2>2. \A id \in RuleIds : matched[id] \in Nat
    BY DEF TablesTyped
  <2>3. QED
    BY <2>1, <2>2, Counted DEF TablesTyped, Grows, RowsAreEarned, Learned
<1>3. QED
  BY <1>1, <1>2

\* Any step: the process that makes it.
LEMMA ProcessStep ==
  ASSUME BookInv, NEW p \in Processes, Step(p)
  PROVE  ProcessInv(p)'
<1>1. CASE Start(p)
  BY <1>1, StartStep
<1>2. CASE MatchRule(p)
  BY <1>2, MatchStep
<1>3. CASE CountHit(p)
  BY <1>3, HitStep
<1>4. CASE \/ \E category \in Candidates, auto \in BOOLEAN : ModelAnswers(p, category, auto)
           \/ OutOfRange(p)
           \/ \E category \in Categories : Fallback(p, category)
  BY <1>4, AskStep
<1>5. CASE LockItem(p) \/ Learn(p)
  BY <1>5, LockStep, LearnStep
<1>6. CASE InsertRule(p) \/ UpdateRule(p)
  BY <1>6, WriteStep
<1>7. CASE Commit(p) \/ UniqueViolation(p) \/ DeadlockVictim(p) \/ Fault(p)
  BY <1>7, Ended DEF Commit, UniqueViolation, DeadlockVictim, Fault, Rollback
<1>8. QED
  BY <1>1, <1>2, <1>3, <1>4, <1>5, <1>6, <1>7 DEF Step, Continue

\* A row is written only when no other transaction holds it.
LEMMA LocksStep ==
  ASSUME BookInv, NEW p \in Processes, Step(p)
  PROVE  RuleLocksExclude'
<1> Domains /\ RuleLocksExclude /\ ProcessInv(p)
  BY InvParts
<1>1. \A q \in Processes \ {p} : Written(q)' = Written(q)
  BY Isolated DEF Untouched, Written
<1>2. SUFFICES \A q \in Processes \ {p} : Written(p)' \intersect Written(q) = {}
  BY <1>1 DEF RuleLocksExclude
<1>3. CASE Written(p)' \subseteq Written(p)
  BY <1>3 DEF RuleLocksExclude
<1>4. CASE CountHit(p)
  <2>1. \A q \in Processes \ {p} : seen[p].id \notin Written(q)
    BY <1>4 DEF CountHit, Free, WaitsFor
  <2>2. QED
    BY <1>4, <2>1, HitStep DEF RuleLocksExclude
<1>5. CASE InsertRule(p) \/ UpdateRule(p)
  <2>1. \A q \in Processes \ {p} : op[p].merchant \notin Written(q)
    BY <1>5 DEF InsertRule, UpdateRule, Free, WaitsFor
  <2>2. QED
    BY <1>5, <2>1, WriteStep
<1>6. CASE Start(p) \/ MatchRule(p)
  <2>1. writes' = writes
    BY <1>6 DEF Start, Ingest, Reclassify, Correct, Approve, Begin, MatchRule
  <2>2. QED
    BY <1>3, <2>1 DEF Written
<1>7. CASE Commit(p) \/ UniqueViolation(p) \/ DeadlockVictim(p) \/ Fault(p)
  BY <1>7, Ended DEF Commit, UniqueViolation, DeadlockVictim, Fault, Rollback
<1>8. QED
  BY <1>3, <1>4, <1>5, <1>6, <1>7, AskStep, LockStep, LearnStep DEF Step, Continue

-----------------------------------------------------------------------------
(* The invariant. *)

LEMMA InitInv == Init => BookInv
<1> SUFFICES ASSUME Init PROVE BookInv
  OBVIOUS
<1> USE RuleBookAssumption
<1>1. PICK c \in Categories : book \in [RuleIds -> {NoRule, [category |-> c, hits |-> 0]}]
  BY DEF Init
<1>2. \A id \in RuleIds : book[id] = NoRule \/ book[id] = [category |-> c, hits |-> 0]
  BY <1>1
<1>3. c \in Categories /\ [category |-> c, hits |-> 0] \in Row
  BY RowFields
<1>4. Domains
  BY DEF Init, Domains
<1>5. TablesTyped
  <2>1. book \in [RuleIds -> Row \union {NoRule}]
    BY <1>1, <1>3
  <2>2. \A id \in RuleIds : book[id] # NoRule => book[id].category \in Categories
    BY <2>1, RowFields
  <2>3. taught \in [RuleIds -> SUBSET Categories]
    BY <2>2 DEF Init
  <2>4. QED
    BY <2>1, <2>3 DEF Init, TablesTyped
<1>6. RowsAreEarned
  BY <1>2 DEF Init, RowsAreEarned
<1>7. Learned
  BY DEF Init, Learned
<1>8. \A p \in Processes : Written(p) = {}
  BY DEF Init, NoWrites, Written
<1>9. RuleLocksExclude
  BY <1>8 DEF RuleLocksExclude
<1>10. ASSUME NEW p \in Processes PROVE ProcessInv(p)
  <2>1. /\ op[p] = NoOp /\ pc[p] = "idle" /\ seen[p] = NoRule
        /\ writes[p] = NoWrites /\ held[p] = {}
        /\ result[p] = NoResult /\ marks[p] = NoMarks
    BY DEF Init
  <2>2. QED
    BY <1>8, <2>1 DEF ProcessInv, ProcessTyped, ReadsAreEarned, InOrder, Vetted, NoWrites, NoMarks
<1>11. QED
  BY <1>4, <1>5, <1>6, <1>7, <1>9, <1>10, InvParts

\* A step of one process keeps what is said of all of them.
LEMMA StepInv ==
  ASSUME BookInv, NEW p \in Processes, Step(p)
  PROVE  BookInv'
<1> Domains /\ TablesTyped /\ \A q \in Processes : ProcessInv(q)
  BY InvParts
<1>1. Domains' /\ \A q \in Processes \ {p} : Untouched(q)
  BY Isolated
<1>2. TablesTyped' /\ Grows /\ RowsAreEarned' /\ Learned'
  BY TablesStep
<1>3. \A q \in Processes : ProcessInv(q)'
  BY <1>1, <1>2, ProcessStep, UntouchedKeeps
<1>4. RuleLocksExclude'
  BY LocksStep
<1>5. Parts'
  BY <1>1, <1>2, <1>3, <1>4 DEF Parts
<1>6. QED
  BY <1>5, PartsOfInv, PTL

\* A step that leaves every variable as it is.
LEMMA StutterInv ==
  ASSUME BookInv, UNCHANGED vars
  PROVE  BookInv'
<1> Domains /\ TablesTyped /\ RowsAreEarned /\ Learned /\ RuleLocksExclude
    /\ \A q \in Processes : ProcessInv(q)
  BY InvParts
<1> USE DEF vars
<1>1. Domains' /\ TablesTyped' /\ RowsAreEarned' /\ Learned'
  BY DEF Domains, TablesTyped, RowsAreEarned, Learned
<1>2. Grows
  BY DEF Grows, TablesTyped
<1>3. \A q \in Processes : ProcessInv(q)'
  BY <1>1, <1>2, UntouchedKeeps DEF Untouched
<1>4. RuleLocksExclude'
  BY DEF RuleLocksExclude, Written
<1>5. Parts'
  BY <1>1, <1>3, <1>4 DEF Parts
<1>6. QED
  BY <1>5, PartsOfInv, PTL

\* The inductive invariant holds throughout.
THEOREM BookInvHolds == Spec => []BookInv
<1>1. BookInv /\ [Next]_vars => BookInv'
  BY StepInv, StutterInv DEF Next, Step
<1>2. QED
  BY <1>1, InitInv, PTL DEF Spec

\* Every variable has its type.
THEOREM RuleBookTypeCorrect == Spec => []TypeOK
<1>1. BookInv => TypeOK
  BY DEF BookInv
<1>2. QED
  BY <1>1, BookInvHolds, PTL

\* A hit count is never above the matches that committed: no match of a
\* transaction that was rolled back is counted, in whatever order transactions
\* read, wait for and write the count.
THEOREM NoHitUnmatched == Spec => []HitsAreMatches
<1>1. BookInv => HitsAreMatches
  BY DEF BookInv, RowsAreEarned, HitsAreMatches
<1>2. QED
  BY <1>1, BookInvHolds, PTL

\* The exact rule of a corrected item's merchant, if it names one, is in the
\* table, with a category that it was given before.
THEOREM CorrectionsTeach == Spec => []CorrectedIsLearned
<1>1. BookInv => CorrectedIsLearned
  <2> SUFFICES ASSUME BookInv, NEW i \in Items, items[i] = "corrected", MerchantOf[i] # NoName
               PROVE  /\ book[MerchantOf[i]] # NoRule
                      /\ book[MerchantOf[i]].category \in taught[MerchantOf[i]]
    BY DEF CorrectedIsLearned
  <2>1. MerchantOf[i] \in RuleIds
    BY RuleBookAssumption DEF Names, RuleIds
  <2>2. QED
    BY <2>1, InvParts DEF Learned, RowsAreEarned
<1>2. QED
  BY <1>1, BookInvHolds, PTL

\* What is booked without the user comes from a rule that was taught it or from
\* the model's candidates.
THEOREM NothingUnvettedIsBooked == Spec => []AutoBookedIsVetted
<1>1. BookInv => AutoBookedIsVetted
  BY DEF BookInv
<1>2. QED
  BY <1>1, BookInvHolds, PTL

-----------------------------------------------------------------------------
(* Circles of waits. *)

\* Who waits for whom: who waits for a rule is a batch, an ingest task that holds
\* nothing, or a correction that holds its item alone.
LEMMA Waits ==
  ASSUME BookInv, NEW p \in Processes, NEW q \in Processes, WaitsFor(p, q)
  PROVE  /\ op[p] \in Op /\ op[p] # NoOp /\ op[q] \in Op /\ op[q] # NoOp
         /\ pc[p] \in {"hit", "insert", "update", "item"}
         /\ op[p].kind = "ingest" => Written(p) = {} /\ held[p] = {}
         /\ op[p].kind = "batch" => pc[p] \in {"hit", "item"} /\ held[p] = {}
         /\ op[p].kind = "correct" =>
                /\ pc[p] # "hit" /\ Written(p) = {}
                /\ pc[p] = "item" => held[p] = {}
         /\ op[p].kind = "approve" => pc[p] = "item" /\ Written(p) = {}
         /\ pc[p] = "item" => \E i \in held[q] : IsNext(p, i)
         /\ pc[p] = "hit" => seen[p].id \in Written(q)
         /\ pc[p] \in {"insert", "update"} => op[p].merchant \in Written(q)
<1> ProcessInv(p) /\ ProcessInv(q)
  BY InvParts
<1>1. pc[p] \in {"hit", "insert", "update", "item"}
  BY DEF WaitsFor
<1>2. op[p] # NoOp /\ op[p] \in Op
  BY <1>1 DEF ProcessInv, ProcessTyped
<1>3. Written(q) # {} \/ held[q] # {}
  BY DEF WaitsFor
<1>4. op[q] # NoOp /\ op[q] \in Op
  BY <1>3 DEF ProcessInv, ProcessTyped, InOrder
<1>5. /\ op[p].kind = "ingest" => Written(p) = {} /\ held[p] = {}
      /\ op[p].kind = "batch" => pc[p] \in {"hit", "item"} /\ held[p] = {}
      /\ op[p].kind = "correct" =>
             /\ pc[p] # "hit" /\ Written(p) = {}
             /\ pc[p] = "item" => held[p] = {}
      /\ op[p].kind = "approve" => pc[p] = "item" /\ Written(p) = {}
  BY <1>1, <1>2, OpFields DEF ProcessInv, InOrder
<1>6. QED
  BY <1>1, <1>2, <1>4, <1>5 DEF WaitsFor

\* Who is waited for and waits itself.
LEMMA WaitedFor ==
  ASSUME BookInv, NEW p \in Processes, NEW q \in Processes, NEW r \in Processes,
         WaitsFor(p, q), WaitsFor(q, r)
  PROVE  /\ op[q].kind \in {"batch", "correct", "approve"}
         /\ op[q].kind = "batch" => pc[p] # "item" /\ Written(q) # {}
         /\ op[q].kind = "correct" => pc[p] = "item" /\ pc[q] \in {"insert", "update"}
         /\ op[q].kind = "approve" => pc[p] = "item"
<1>1. op[q].kind \in {"ingest", "batch", "correct", "approve"}
  BY Waits, OpFields
<1>2. CASE pc[p] = "item"
  <2>1. held[q] # {}
    BY <1>2, Waits
  <2>2. QED
    BY <1>1, <1>2, <2>1, Waits
<1>3. CASE pc[p] # "item"
  <2>1. Written(q) # {}
    BY <1>3, Waits
  <2>2. QED
    BY <1>1, <1>3, <2>1, Waits
<1>4. QED
  BY <1>2, <1>3

\* The items after the one that p waits for.
Beyond(p) == {j \in Items : \E i \in Items : IsNext(p, i) /\ i < j}

\* An approval that waits for another one waits for a lower id than that does.
LEMMA ApprovalsAscend ==
  ASSUME BookInv, NEW p \in Processes, NEW q \in Processes, NEW r \in Processes,
         WaitsFor(p, q), WaitsFor(q, r), op[p].kind = "approve", op[q].kind = "approve"
  PROVE  Beyond(q) \subseteq Beyond(p) /\ Beyond(q) # Beyond(p)
<1>1. PICK i \in held[q] : IsNext(p, i)
  BY Waits
<1>2. PICK k \in held[r] : IsNext(q, k)
  BY Waits
<1>3. /\ op[p] \in Op /\ op[q] \in Op /\ op[p] # NoOp /\ op[q] # NoOp
  BY Waits
<1>4. i \in Items /\ k \in Items /\ i \in Nat /\ k \in Nat
  BY <1>1, <1>2, <1>3, OpFields, RuleBookAssumption DEF IsNext
<1>5. i < k
  BY <1>1, <1>2, <1>3, InvParts DEF IsNext, ProcessInv, InOrder
<1>6. ASSUME NEW j \in Items, NEW l \in Items, IsNext(q, l), l < j PROVE i < j
  <2>1. l = k
    <3>1. l \in Nat /\ l =< k /\ k =< l
      BY <1>2, <1>6, RuleBookAssumption DEF IsNext
    <3>2. QED
      BY <1>4, <3>1
  <2>2. j \in Nat
    BY RuleBookAssumption
  <2>3. QED
    BY <1>4, <1>5, <1>6, <2>1, <2>2
<1>7. Beyond(q) \subseteq Beyond(p)
  BY <1>1, <1>4, <1>6 DEF Beyond
<1>8. k \in Beyond(p)
  BY <1>1, <1>4, <1>5 DEF Beyond
<1>9. k \notin Beyond(q)
  <2> SUFFICES ASSUME NEW l \in Items, IsNext(q, l), l < k PROVE FALSE
    BY DEF Beyond
  <2>1. l \in Nat /\ k =< l
    BY <1>2, RuleBookAssumption DEF IsNext
  <2>2. QED
    BY <1>4, <2>1
<1>10. QED
  BY <1>7, <1>8, <1>9

\* Where approvals wait in a circle, one of them waits for a correction that waits
\* for a rule: the one that waits for the highest id.
LEMMA ApprovalsWaitForCorrections ==
  ASSUME BookInv, NEW S \in SUBSET Processes, Circle(S),
         \E p \in S : op[p].kind = "approve"
  PROVE  \E q \in S : op[q].kind = "correct"
<1> DEFINE A == {p \in S : op[p].kind = "approve"}
           T == {Beyond(p) : p \in A}
<1>1. T # {} /\ T \subseteq FiniteSubsetsOf(Items)
  <2>1. ASSUME NEW p \in A PROVE Beyond(p) \in SUBSET Items /\ IsFiniteSet(Beyond(p))
    <3>1. Beyond(p) \in SUBSET Items
      BY DEF Beyond
    <3>2. QED
      BY <3>1, RuleBookAssumption, FS_Subset
  <2>2. QED
    BY <2>1 DEF FiniteSubsetsOf
<1>2. PICK least \in T : \A B \in T : <<B, least>> \notin StrictSubsetOrdering(Items)
  BY <1>1, WFMin, FS_StrictSubsetOrderingWellFounded
<1>3. PICK p \in A : least = Beyond(p)
  BY <1>2
<1>4. PICK q \in S : WaitsFor(p, q)
  BY <1>3 DEF Circle
<1>5. PICK r \in S : WaitsFor(q, r)
  BY <1>4 DEF Circle
<1>6. pc[p] = "item"
  BY <1>3, <1>4, Waits
<1>7. op[q].kind # "approve"
  <2> SUFFICES ASSUME op[q].kind = "approve" PROVE FALSE
    OBVIOUS
  <2>1. Beyond(q) \subseteq least /\ Beyond(q) # least
    BY <1>3, <1>4, <1>5, ApprovalsAscend
  <2>2. Beyond(q) \in T /\ Beyond(q) \in SUBSET Items /\ least \in SUBSET Items
    BY <1>3 DEF Beyond
  <2>3. <<Beyond(q), least>> \in StrictSubsetOrdering(Items)
    BY <2>1, <2>2 DEF StrictSubsetOrdering
  <2>4. QED
    BY <1>2, <2>2, <2>3
<1>8. op[q].kind = "correct"
  BY <1>3, <1>4, <1>5, <1>6, <1>7, WaitedFor
<1>9. QED
  BY <1>4, <1>8

\* Every circle of waits has a correction and a batch in it, and nothing else but
\* approvals: a correction is waited for only while it holds an item and waits for
\* a rule itself, which then a batch holds; approvals alone ascend; and two batches
\* never hold the same rule.
THEOREM CollisionsTakeTwoKinds == Spec => []CirclesTakeABatchAndACorrection
<1>1. ASSUME BookInv, NEW S \in SUBSET Processes, Circle(S)
      PROVE  {op[p].kind : p \in S} \in {{"batch", "correct"}, {"batch", "correct", "approve"}}
  <2>1. ASSUME NEW q \in S
        PROVE  \E p \in S, r \in S : WaitsFor(p, q) /\ WaitsFor(q, r)
    BY <1>1 DEF Circle
  <2>2. ASSUME NEW q \in S PROVE op[q].kind \in {"batch", "correct", "approve"}
    <3>1. PICK p \in S, r \in S : WaitsFor(p, q) /\ WaitsFor(q, r)
      BY <2>1
    <3>2. QED
      BY <1>1, <3>1, WaitedFor
  <2>3. ASSUME NEW q \in S, op[q].kind = "correct"
        PROVE  \E r \in S : op[r].kind = "batch"
    <3>1. PICK p \in S, r \in S : WaitsFor(p, q) /\ WaitsFor(q, r)
      BY <2>1
    <3>2. PICK s \in S : WaitsFor(r, s)
      BY <1>1 DEF Circle
    <3>3. pc[q] \in {"insert", "update"}
      BY <1>1, <2>3, <3>1, WaitedFor
    <3>4. op[r].kind = "batch"
      BY <1>1, <2>2, <3>1, <3>2, <3>3, WaitedFor
    <3>5. QED
      BY <3>4
  <2>4. \E q \in S : op[q].kind = "correct"
    <3> SUFFICES ASSUME \A q \in S : op[q].kind # "correct" PROVE FALSE
      OBVIOUS
    <3>0. \A q \in S : op[q].kind = "batch"
      BY <1>1, <2>2, ApprovalsWaitForCorrections
    <3>1. ASSUME NEW q \in S
          PROVE  op[q].kind = "batch" /\ pc[q] = "hit" /\ Written(q) = {Broad}
      <4>1. PICK p \in S, r \in S : WaitsFor(p, q) /\ WaitsFor(q, r)
        BY <2>1
      <4>2. PICK s \in S : WaitsFor(r, s)
        BY <1>1 DEF Circle
      <4>3. op[q].kind = "batch" /\ op[r].kind = "batch"
        BY <3>0
      <4>4. pc[q] # "item" /\ Written(q) # {}
        BY <1>1, <4>1, <4>2, <4>3, WaitedFor
      <4>5. pc[q] = "hit" /\ seen[q].id \in Written(r) /\ q # r /\ op[q] # NoOp
        BY <1>1, <4>1, <4>3, <4>4, Waits DEF WaitsFor
      <4>6. seen[q].id \notin Written(q)
        BY <1>1, <4>5, InvParts DEF RuleLocksExclude
      <4>7. QED
        BY <1>1, <4>3, <4>4, <4>5, <4>6, InvParts DEF ProcessInv, InOrder
    <3>2. PICK q \in S : TRUE
      BY <1>1 DEF Circle
    <3>3. PICK r \in S : WaitsFor(q, r)
      BY <1>1 DEF Circle
    <3>4. q # r
      BY <3>3 DEF WaitsFor
    <3>5. QED
      BY <1>1, <3>1, <3>4, InvParts DEF RuleLocksExclude
  <2>5. PICK q \in S : op[q].kind = "correct"
    BY <2>4
  <2>6. PICK r \in S : op[r].kind = "batch"
    BY <2>3, <2>5
  <2>7. CASE \E p \in S : op[p].kind = "approve"
    BY <2>2, <2>5, <2>6, <2>7
  <2>8. CASE \A p \in S : op[p].kind # "approve"
    BY <2>2, <2>5, <2>6, <2>8
  <2>9. QED
    BY <2>7, <2>8
<1>2. BookInv => CirclesTakeABatchAndACorrection
  BY <1>1 DEF CirclesTakeABatchAndACorrection, Waiting
<1>3. QED
  BY <1>2, BookInvHolds, PTL
=============================================================================
