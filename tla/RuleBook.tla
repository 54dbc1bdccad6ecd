------------------------------ MODULE RuleBook ------------------------------
(***************************************************************************)
(* The rule table and the transactions that meet in it: ingest tasks and   *)
(* batches that classify (match_rule, then the model), corrections that     *)
(* learn (learn_rule), and approvals, of one item or of all, that lock the *)
(* items the others need.  PostgreSQL runs them at READ COMMITTED: a       *)
(* SELECT reads what is committed and the transaction's own writes, an     *)
(* UPDATE takes the row's lock and keeps it to the end of the transaction, *)
(* an INSERT waits for an uncommitted one of the same key.                 *)
(*                                                                         *)
(* The rules are one exact rule per merchant and a broader one (contains)  *)
(* that hits every merchant.  A batch is here the transaction of one of    *)
(* its items; ReviewDesk models the loop.  A rejection locks and writes its *)
(* one item as the approval of one item does, and is not repeated here.    *)
(***************************************************************************)
EXTENDS Naturals, FiniteSets

CONSTANTS
    Merchants,     \* normalized counterparties; each is the key of its exact rule
    NoName,        \* the empty counterparty of a bill that names none
    Broad,         \* the key of the broader rule
    Candidates,    \* the categories offered to the model
    Hint,          \* a category that is not offered: a bill's hint, a user's own
    Items,         \* review items
    MerchantOf,    \* the counterparty of each item, or NoName
    Workers,       \* worker processes, which run the tasks
    Sessions,      \* requests of the user being served
    MaxStarted,    \* bound: transactions begun
    MaxFaults,     \* bound: transactions that fail for other reasons
    NoRule, NoOp, NoResult

Processes == Workers \union Sessions
RuleIds == Merchants \union {Broad}
Categories == Candidates \union {Hint}
Row == [category : Categories, hits : Nat]
Seen == [id : RuleIds, category : Categories, hits : Nat]
Names == Merchants \union {NoName}
Op == [kind : {"ingest"}, merchant : Names, picked : {{}},
       category : {NoRule}, rulesOnly : {FALSE}]
      \union [kind : {"batch"}, merchant : Names, picked : SUBSET Items,
              category : {NoRule}, rulesOnly : BOOLEAN]
      \union [kind : {"correct"}, merchant : Names, picked : SUBSET Items,
              category : Categories, rulesOnly : {FALSE}]
      \union [kind : {"approve"}, merchant : {NoName}, picked : SUBSET Items,
              category : {NoRule}, rulesOnly : {FALSE}]
Result == [category : Categories, source : {"rule", "llm", "hint"}, auto : BOOLEAN]

ASSUME RuleBookAssumption ==
    /\ Broad \notin Merchants
    /\ Hint \notin Candidates
    /\ NoName \notin RuleIds
    /\ Items \subseteq Nat /\ IsFiniteSet(Items)
    /\ MerchantOf \in [Items -> Names]
    /\ NoRule \notin Row \union Seen /\ NoOp \notin Op /\ NoResult \notin Result
    /\ MaxStarted \in Nat /\ MaxFaults \in Nat

VARIABLES
    book,     \* the committed rows of the rule table
    items,    \* the committed status of the items
    op,       \* the transaction each process runs
    pc,       \* and where it is
    seen,     \* the rule its last SELECT returned
    writes,   \* the rule rows it has written and locked, not committed
    held,     \* the items it has written and locked, not committed
    result,   \* the ClassificationResult
    marks,    \* how often it raised each rule's hit count
    started, faults,
    matched,  \* history: the hits of each rule that committed
    taught    \* history: the categories each rule was ever given

vars == <<book, items, op, pc, seen, writes, held, result, marks, started, faults,
          matched, taught>>

NoWrites == [id \in RuleIds |-> NoRule]
NoMarks == [id \in RuleIds |-> 0]

\* Rules that were learned before, or put in by hand.
Init ==
    /\ \E category \in Categories :
          book \in [RuleIds -> {NoRule, [category |-> category, hits |-> 0]}]
    /\ items = [i \in Items |-> "pending"]
    /\ op = [p \in Processes |-> NoOp]
    /\ pc = [p \in Processes |-> "idle"]
    /\ seen = [p \in Processes |-> NoRule]
    /\ writes = [p \in Processes |-> NoWrites]
    /\ held = [p \in Processes |-> {}]
    /\ result = [p \in Processes |-> NoResult]
    /\ marks = [p \in Processes |-> NoMarks]
    /\ started = 0 /\ faults = 0
    /\ matched = [id \in RuleIds |-> 0]
    /\ taught = [id \in RuleIds |-> IF book[id] = NoRule THEN {} ELSE {book[id].category}]

Goto(p, label) == pc' = [pc EXCEPT ![p] = label]

-----------------------------------------------------------------------------
(* Locks. *)

\* The rule rows p has locked.
Written(p) == {id \in RuleIds : writes[p][id] # NoRule}

\* The item p locks next: approve-all goes through the pending items by id.
IsNext(p, i) ==
    /\ i \in op[p].picked \ held[p]
    /\ \A j \in op[p].picked \ held[p] : i =< j

\* The rule or item whose lock p needs for its next step.
WaitsFor(p, q) ==
    /\ p # q
    /\ \/ pc[p] = "hit" /\ seen[p].id \in Written(q)
       \/ pc[p] \in {"insert", "update"} /\ op[p].merchant \in Written(q)
       \/ pc[p] = "item" /\ \E i \in held[q] : IsNext(p, i)

Free(p) == \A q \in Processes : ~WaitsFor(p, q)

Waiting == {p \in Processes : ~Free(p)}

\* Processes that wait for each other in a circle.
Circle(S) ==
    /\ S # {}
    /\ \A p \in S : \E q \in S : WaitsFor(p, q)
    /\ \A q \in S : \E p \in S : WaitsFor(p, q)

-----------------------------------------------------------------------------
(* Transactions begin. *)

Begin(p, label) ==
    /\ pc[p] = "idle"
    /\ started < MaxStarted
    /\ started' = started + 1
    /\ Goto(p, label)
    /\ UNCHANGED <<book, items, seen, writes, held, result, marks, faults, matched, taught>>

\* An ingest task has claimed its fingerprint and classifies.
Ingest(p, m) ==
    /\ Begin(p, "match")
    /\ op' = [op EXCEPT ![p] = [kind |-> "ingest", merchant |-> m, picked |-> {},
                                category |-> NoRule, rulesOnly |-> FALSE]]

\* A batch comes to an item that its list showed as pending.
Reclassify(p, i, rulesOnly) ==
    /\ items[i] = "pending"
    /\ Begin(p, "match")
    /\ op' = [op EXCEPT ![p] = [kind |-> "batch", merchant |-> MerchantOf[i], picked |-> {i},
                                category |-> NoRule, rulesOnly |-> rulesOnly]]

\* The user corrects an item to any category; _get_pending_item saw it pending.
Correct(p, i, category) ==
    /\ items[i] = "pending"
    /\ Begin(p, "item")
    /\ op' = [op EXCEPT ![p] = [kind |-> "correct", merchant |-> MerchantOf[i], picked |-> {i},
                                category |-> category, rulesOnly |-> FALSE]]

\* The user approves one item, or all that list_pending shows.
Approve(p, picked) ==
    /\ Begin(p, "item")
    /\ picked # {} /\ \A i \in picked : items[i] = "pending"
    /\ Cardinality(picked) = 1 \/ picked = {i \in Items : items[i] = "pending"}
    /\ op' = [op EXCEPT ![p] = [kind |-> "approve", merchant |-> NoName, picked |-> picked,
                                category |-> NoRule, rulesOnly |-> FALSE]]

-----------------------------------------------------------------------------
(* Classification: match_rule, then the model, then the fallback. *)

\* What p's SELECT returns: its own writes, else what is committed.
View(p, id) == IF id \in Written(p) THEN writes[p][id] ELSE book[id]

\* The rule that hits: the exact one before the broader one.
Hitting(p) ==
    LET exact == op[p].merchant IN
    IF View(p, exact) # NoRule THEN exact ELSE Broad

\* The row it hits; a bill that names nobody hits none.
Hit(p) == IF op[p].merchant = NoName THEN NoRule ELSE View(p, Hitting(p))

\* Mutant of MatchRule: the batch leaves the item and stays in its transaction.
SkipForgets(p) ==
    /\ pc[p] = "match"
    /\ Hit(p) = NoRule
    /\ op[p].rulesOnly
    /\ Goto(p, "idle")
    /\ UNCHANGED <<book, items, op, seen, writes, held, result, marks, started, faults, matched, taught>>

\* match_rule's SELECT.  Without a hit a rules-only batch is done with the item.
MatchRule(p) ==
    LET id == Hitting(p)
        row == Hit(p)
    IN
    /\ pc[p] = "match"
    /\ IF row # NoRule
       THEN /\ seen' = [seen EXCEPT ![p] =
                          [id |-> id, category |-> row.category, hits |-> row.hits]]
            /\ Goto(p, "hit")
            /\ UNCHANGED op
       ELSE /\ IF op[p].rulesOnly
               THEN Goto(p, "idle") /\ op' = [op EXCEPT ![p] = NoOp]
               ELSE Goto(p, "ask") /\ UNCHANGED op
            /\ UNCHANGED seen
    /\ UNCHANGED <<book, items, writes, held, result, marks, started, faults, matched, taught>>

\* A result is known: an ingest task goes on to its end, a batch to its item.
Classified(p, chosen, origin, booked) ==
    /\ result' = [result EXCEPT ![p] = [category |-> chosen, source |-> origin, auto |-> booked]]
    /\ Goto(p, IF op[p].kind = "ingest" THEN "commit" ELSE "item")

\* Mutant of CountHit: the hit is counted outside the transaction.
CountedAtOnce(p) ==
    LET id == seen[p].id
        row == [book[id] EXCEPT !.hits = seen[p].hits + 1]
    IN
    /\ pc[p] = "hit" /\ Free(p)
    /\ book' = [book EXCEPT ![id] = row]
    /\ writes' = [writes EXCEPT ![p][id] = row]
    /\ marks' = [marks EXCEPT ![p][id] = @ + 1]
    /\ Classified(p, seen[p].category, "rule", TRUE)
    /\ UNCHANGED <<items, op, seen, held, started, faults, matched, taught>>

\* Mutant of CountHit: every rule that hits is counted, not only the first.
CountEveryHit(p) ==
    LET id == seen[p].id
        others == {o \in {op[p].merchant, Broad} \ ({id} \union Written(p)) :
                      book[o] # NoRule}
    IN
    /\ pc[p] = "hit" /\ Free(p)
    /\ writes' = [writes EXCEPT ![p][id] = [View(p, id) EXCEPT !.hits = seen[p].hits + 1]]
    /\ marks' = [marks EXCEPT ![p][id] = @ + 1]
    /\ IF others = {}
       THEN /\ Classified(p, seen[p].category, "rule", TRUE)
            /\ UNCHANGED seen
       ELSE /\ \E o \in others : seen' = [seen EXCEPT ![p] =
                     [id |-> o, category |-> book[o].category, hits |-> book[o].hits]]
            /\ UNCHANGED <<pc, result>>
    /\ UNCHANGED <<book, items, op, held, started, faults, matched, taught>>

\* match_rule's UPDATE, once the row is free: the hit count becomes the count
\* that was read plus one, the other columns are left as they are now.  A
\* rules-only batch matches a second time, inside classify.
CountHit(p) ==
    LET id == seen[p].id
        again == op[p].rulesOnly /\ Written(p) = {}
    IN
    /\ pc[p] = "hit" /\ Free(p)
    /\ writes' = [writes EXCEPT ![p][id] = [View(p, id) EXCEPT !.hits = seen[p].hits + 1]]
    /\ marks' = [marks EXCEPT ![p][id] = @ + 1]
    /\ IF again
       THEN Goto(p, "match") /\ UNCHANGED result
       ELSE Classified(p, seen[p].category, "rule", TRUE)
    /\ UNCHANGED <<book, items, op, seen, held, started, faults, matched, taught>>

\* The model answers with a candidate, with a confidence above or below the
\* threshold.
ModelAnswers(p, category, auto) ==
    /\ pc[p] \in {"ask", "ask_again"}
    /\ Classified(p, category, "llm", auto)
    /\ UNCHANGED <<book, items, op, seen, writes, held, marks, started, faults, matched, taught>>

\* The model's first category is no candidate: it is asked once more.
OutOfRange(p) ==
    /\ pc[p] = "ask"
    /\ Goto(p, "ask_again")
    /\ UNCHANGED <<book, items, op, seen, writes, held, result, marks, started, faults, matched, taught>>

\* Mutant of Fallback: the second answer is taken as it is.
TakesSecondAnswer(p, category) ==
    /\ pc[p] \in {"ask", "ask_again"}
    /\ Classified(p, category, "llm", TRUE)
    /\ UNCHANGED <<book, items, op, seen, writes, held, marks, started, faults, matched, taught>>

\* A call fails, or the second answer is no candidate either: LLMError, and
\* the bill's hint (0.3) or the catch-all category (0.0), both below the
\* threshold (0.9 by default).
Fallback(p, category) ==
    /\ pc[p] \in {"ask", "ask_again"}
    /\ Classified(p, category, "hint", FALSE)
    /\ UNCHANGED <<book, items, op, seen, writes, held, marks, started, faults, matched, taught>>

-----------------------------------------------------------------------------
(* Corrections, and the end of a transaction. *)

\* Mutant of LockItem: the decision is committed before the rule is learned.
DecidesFirst(p) ==
    /\ pc[p] = "item" /\ Free(p)
    /\ held' = [held EXCEPT ![p] = op[p].picked]
    /\ Goto(p, IF op[p].kind = "correct" THEN "learn" ELSE "commit")
    /\ items' = IF op[p].kind = "correct"
                THEN [i \in Items |-> IF i \in op[p].picked THEN "corrected" ELSE items[i]]
                ELSE items
    /\ UNCHANGED <<book, op, seen, writes, result, marks, started, faults, matched, taught>>

\* An item's UPDATE, once the row is free: the autoflush before learn_rule's
\* SELECT, the batch's approval or refreshed suggestion, or the flush of one
\* approval after the other.
LockItem(p) ==
    /\ pc[p] = "item" /\ Free(p)
    /\ \E i \in Items :
          /\ IsNext(p, i)
          /\ held' = [held EXCEPT ![p] = @ \union {i}]
          /\ Goto(p, IF op[p].picked # held[p] \union {i} THEN "item"
                     ELSE IF op[p].kind = "correct" THEN "learn" ELSE "commit")
    /\ UNCHANGED <<book, items, op, seen, writes, result, marks, started, faults, matched, taught>>

\* learn_rule's SELECT.  An assignment of the same category issues no UPDATE,
\* and an item that names no merchant teaches no rule.
Learn(p) ==
    LET merchant == op[p].merchant IN
    /\ pc[p] = "learn"
    /\ Goto(p, IF merchant = NoName THEN "commit"
               ELSE IF book[merchant] = NoRule THEN "insert"
               ELSE IF book[merchant].category # op[p].category THEN "update"
               ELSE "commit")
    /\ UNCHANGED <<book, items, op, seen, writes, held, result, marks, started, faults, matched, taught>>

WriteRule(p, category, hits) ==
    /\ writes' = [writes EXCEPT ![p][op[p].merchant] = [category |-> category, hits |-> hits]]
    /\ Goto(p, "commit")
    /\ UNCHANGED <<book, items, op, seen, held, result, marks, started, faults, matched, taught>>

InsertRule(p) ==
    /\ pc[p] = "insert" /\ Free(p)
    /\ book[op[p].merchant] = NoRule
    /\ WriteRule(p, op[p].category, 0)

UpdateRule(p) ==
    /\ pc[p] = "update" /\ Free(p)
    /\ WriteRule(p, op[p].category, book[op[p].merchant].hits)

\* The transaction is over and its locks are free.
End(p) ==
    /\ Goto(p, "idle")
    /\ op' = [op EXCEPT ![p] = NoOp]
    /\ seen' = [seen EXCEPT ![p] = NoRule]
    /\ writes' = [writes EXCEPT ![p] = NoWrites]
    /\ held' = [held EXCEPT ![p] = {}]
    /\ result' = [result EXCEPT ![p] = NoResult]
    /\ marks' = [marks EXCEPT ![p] = NoMarks]

StatusAfter(p, i) ==
    IF op[p].kind = "correct" THEN "corrected"
    ELSE IF op[p].kind = "approve" \/ result[p].auto THEN "approved" ELSE items[i]

Commit(p) ==
    /\ pc[p] = "commit"
    /\ book' = [id \in RuleIds |-> View(p, id)]
    /\ items' = [i \in Items |-> IF i \in op[p].picked THEN StatusAfter(p, i) ELSE items[i]]
    /\ matched' = [id \in RuleIds |-> matched[id] + marks[p][id]]
    /\ taught' = [id \in RuleIds |->
                    IF id \in Written(p) THEN taught[id] \union {writes[p][id].category}
                    ELSE taught[id]]
    /\ End(p)
    /\ UNCHANGED <<started, faults>>

Rollback(p) == End(p) /\ UNCHANGED <<book, items, started, matched, taught>>

\* Mutant of UniqueViolation: the conflict is met by trying the INSERT again.
InsertsAgain(p) ==
    /\ pc[p] = "insert" /\ Free(p)
    /\ book[op[p].merchant] # NoRule
    /\ UNCHANGED vars

\* Another correction inserted the rule since the SELECT: IntegrityError, a
\* 500 and no correction.
UniqueViolation(p) ==
    /\ pc[p] = "insert" /\ Free(p)
    /\ book[op[p].merchant] # NoRule
    /\ Rollback(p)
    /\ UNCHANGED faults

\* PostgreSQL ends a circle of waits by making one of its transactions fail.
DeadlockVictim(p) ==
    /\ p \in Waiting
    /\ \E S \in SUBSET Waiting : p \in S /\ Circle(S)
    /\ Rollback(p)
    /\ UNCHANGED faults

\* Firefly, the database or the process fails: the transaction is rolled back.
Fault(p) ==
    /\ pc[p] # "idle"
    /\ faults < MaxFaults
    /\ faults' = faults + 1
    /\ Rollback(p)

-----------------------------------------------------------------------------
\* Tasks run in the workers, corrections and approvals in requests.
Start(p) ==
    \/ p \in Workers /\ \E m \in Names : Ingest(p, m)
    \/ p \in Workers /\ \E i \in Items, rulesOnly \in BOOLEAN : Reclassify(p, i, rulesOnly)
    \/ p \in Sessions /\ \E i \in Items, category \in Categories : Correct(p, i, category)
    \/ p \in Sessions /\ \E picked \in SUBSET Items : Approve(p, picked)

Continue(p) ==
    /\ pc[p] # "idle"
    /\ \/ MatchRule(p) \/ CountHit(p)
       \/ \E category \in Candidates, auto \in BOOLEAN : ModelAnswers(p, category, auto)
       \/ OutOfRange(p)
       \/ \E category \in Categories : Fallback(p, category)
       \/ LockItem(p) \/ Learn(p) \/ InsertRule(p) \/ UpdateRule(p)
       \/ Commit(p) \/ UniqueViolation(p) \/ DeadlockVictim(p)

Next == \E p \in Processes : Start(p) \/ Continue(p) \/ Fault(p)

Spec == Init /\ [][Next]_vars

\* While some transaction can go on, one does: calls have timeouts, and PostgreSQL
\* looks for deadlocks.  That each goes on that can is not assumed: no others go
\* on for ever, for the transactions that begin are bounded.
FairSpec == Spec /\ WF_vars(\E p \in Processes : Continue(p))

-----------------------------------------------------------------------------
(* Properties. *)

\* Every variable has its type.
TypeOK ==
    /\ book \in [RuleIds -> Row \union {NoRule}]
    /\ items \in [Items -> {"pending", "approved", "corrected"}]
    /\ op \in [Processes -> Op \union {NoOp}]
    /\ pc \in [Processes -> {"idle", "match", "hit", "ask", "ask_again", "item",
                             "learn", "insert", "update", "commit"}]
    /\ \A p \in Processes : pc[p] = "idle" <=> op[p] = NoOp
    /\ seen \in [Processes -> Seen \union {NoRule}]
    /\ writes \in [Processes -> [RuleIds -> Row \union {NoRule}]]
    /\ held \in [Processes -> SUBSET Items]
    /\ result \in [Processes -> Result \union {NoResult}]
    /\ marks \in [Processes -> [RuleIds -> Nat]]
    /\ started \in 0 .. MaxStarted /\ faults \in 0 .. MaxFaults
    /\ matched \in [RuleIds -> Nat]
    /\ taught \in [RuleIds -> SUBSET Categories]

\* The hit count of a rule never exceeds the matches that committed: no match
\* that was rolled back is counted.  (It may stay below them: two transactions
\* that read the same count both write that count plus one.)
HitsAreMatches ==
    \A id \in RuleIds : book[id] # NoRule => book[id].hits =< matched[id]

\* A corrected item that names a merchant has taught the book: the merchant has
\* an exact rule, whose category was once given to it.  The rule and the decision
\* commit together, whichever correction, batch or failure comes in between.
CorrectedIsLearned ==
    \A i \in Items : items[i] = "corrected" /\ MerchantOf[i] # NoName =>
        LET m == MerchantOf[i] IN book[m] # NoRule /\ book[m].category \in taught[m]

\* Classification that books without the user: by a rule, with a category that
\* rule was once given, or by the model, with one of the candidates; never by
\* the fallback.
AutoBookedIsVetted ==
    \A p \in Processes : result[p] # NoResult /\ result[p].auto =>
        \/ result[p].source = "rule" /\ result[p].category \in taught[seen[p].id]
        \/ result[p].source = "llm" /\ result[p].category \in Candidates

\* Transactions that wait for each other in a circle always have a batch (rule,
\* then item) and a correction (item, then rule) among them.  Approvals of all
\* items can be drawn into such a circle but make none by themselves, and an
\* ingest task, which may already have posted, is never in one.
CirclesTakeABatchAndACorrection ==
    \A S \in SUBSET Waiting : Circle(S) =>
        {op[p].kind : p \in S} \in {{"batch", "correct"}, {"batch", "correct", "approve"}}

\* Every transaction ends, although they wait for each other's rows: when some
\* run, there comes a time when all have ended.
EveryTransactionEnds ==
    (\E p \in Processes : pc[p] # "idle") ~> (\A p \in Processes : pc[p] = "idle")

-----------------------------------------------------------------------------
(* The inductive invariant. *)

\* Every row was taught what it says and counts matches that committed.
RowsAreEarned ==
    \A id \in RuleIds : book[id] # NoRule =>
        book[id].category \in taught[id] /\ book[id].hits =< matched[id]

\* What a transaction has read and written is so too, its own matches included;
\* a classification writes only rules that exist.
ReadsAreEarned(p) ==
    /\ seen[p] # NoRule =>
        /\ book[seen[p].id] # NoRule
        /\ seen[p].category \in taught[seen[p].id]
        /\ seen[p].hits =< matched[seen[p].id] + marks[p][seen[p].id]
    /\ \A id \in Written(p) :
        /\ writes[p][id].hits =< matched[id] + marks[p][id]
        /\ op[p].kind # "correct" => book[id] # NoRule /\ writes[p][id].category \in taught[id]

\* Where each kind of transaction can be, and what it has written by then: only a
\* batch waits again after it has written a rule, and then for another rule than
\* its own, and only an approval waits for one item while it holds another, and
\* then for one with a higher id.
InOrder(p) ==
    LET exact == op[p].merchant IN
    /\ pc[p] = "idle" => Written(p) = {} /\ held[p] = {}
    /\ pc[p] \in {"idle", "match", "hit", "ask", "ask_again"} => result[p] = NoResult
    /\ pc[p] = "hit" \/ (result[p] # NoResult /\ result[p].source = "rule") => seen[p] # NoRule
    /\ op[p] # NoOp =>
        /\ Written(p) \subseteq {exact, Broad}
        /\ pc[p] = "hit" => seen[p].id \in {exact, Broad}
        /\ exact = NoName => Written(p) = {} /\ pc[p] \notin {"hit", "insert", "update"}
        /\ held[p] \subseteq op[p].picked
        /\ \A i \in held[p], j \in op[p].picked \ held[p] : i < j
        /\ op[p].kind \in {"batch", "correct"} =>
            /\ \E i \in Items : op[p].picked = {i} /\ exact = MerchantOf[i]
            /\ held[p] # {} => pc[p] \in {"learn", "insert", "update", "commit"}
        /\ op[p].kind = "ingest" => /\ pc[p] \in {"match", "hit", "ask", "ask_again", "commit"}
                                    /\ Written(p) # {} => pc[p] = "commit"
        /\ op[p].kind = "batch" =>
            /\ pc[p] \in {"match", "hit", "ask", "ask_again", "item", "commit"}
            /\ pc[p] = "match" => Written(p) \in {{}, {exact}, {Broad}}
            /\ pc[p] = "hit" => Written(p) \in {{}, {Broad}} \/ seen[p].id \in Written(p)
        /\ op[p].kind = "correct" =>
            /\ pc[p] \in {"item", "learn", "insert", "update", "commit"}
            /\ Written(p) # {} => pc[p] = "commit"
            /\ pc[p] = "update" => book[exact] # NoRule
            /\ pc[p] = "commit" => \/ exact = NoName
                                   \/ book[exact] # NoRule \/ exact \in Written(p)
        /\ op[p].kind = "approve" => exact = NoName /\ pc[p] \in {"item", "commit"}

RuleLocksExclude ==
    \A p, q \in Processes : p # q => Written(p) \intersect Written(q) = {}

BookInv ==
    /\ TypeOK
    /\ RowsAreEarned
    /\ \A p \in Processes : ReadsAreEarned(p) /\ InOrder(p)
    /\ RuleLocksExclude
    /\ \A i \in Items :
          items[i] = "corrected" /\ MerchantOf[i] # NoName => book[MerchantOf[i]] # NoRule
    /\ AutoBookedIsVetted
=============================================================================
