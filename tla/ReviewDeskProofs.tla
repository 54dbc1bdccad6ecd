-------------------------- MODULE ReviewDeskProofs --------------------------
(* Proofs about the review desk, for any items, requests, workers and faults: *)
(* types, then where each worker is and what it holds, then that IMPORTED is  *)
(* true, that nothing is booked undecided, and that no decision is dropped.   *)
(* The second half assumes that the user clicks only while no task is queued  *)
(* or running: then decisions are final, a rejected item is not booked, a     *)
(* corrected one is booked as corrected, and every booking after the first is *)
(* the work of a lost answer or a fault.                                      *)
EXTENDS ReviewDesk, FiniteSetTheorems, TLAPS

\* What kind a message is, and which messages the code makes.
LEMMA Kinds ==
  /\ \A m \in Finalizes : m \in Messages /\ m.kind = "finalize" /\ m.item \in Items
                            /\ m.retries \in 0 .. MaxRetries
  /\ \A m \in Reclassifies : m \in Messages /\ m.kind = "reclassify"
  /\ \A m \in Messages : m.kind = "finalize" => m \in Finalizes
  /\ \A m \in Messages : m.kind # "finalize" => m \in Reclassifies
  /\ \A m \in Messages : m.retries \in 0 .. MaxRetries /\
        (m.retries < MaxRetries => [m EXCEPT !.retries = @ + 1] \in Messages)
  /\ \A i \in Items : Finalize(i) \in Finalizes
  /\ \A only \in BOOLEAN : Reclassify(only) \in Messages
  BY ReviewAssumption DEF Messages, Finalizes, Reclassifies, Finalize, Reclassify

\* Sending adds one copy, and takes none away.
LEMMA SendTypes ==
  ASSUME mail \in [Messages -> Nat], NEW m \in Messages, Send(m)
  PROVE  /\ mail' \in [Messages -> Nat]
         /\ mail'[m] > 0
         /\ \A n \in Messages : mail[n] > 0 => mail'[n] > 0
  BY DEF Send

-----------------------------------------------------------------------------
(* Type correctness, in five parts. *)

TablesTyped ==
    /\ items \in [Items -> Item]
    /\ rows \in [Items -> {"pending_review", "imported", "failed"}]
    /\ ledger \in [Items -> Seq(Categories)]
    /\ rules \in [Merchants -> Categories \union {NoCategory}]
    /\ forgotten \in [Items -> Nat]
    /\ stranded \subseteq Items

ConsoleTyped ==
    /\ mail \in [Messages -> Nat]
    /\ spc \in [Sessions -> {"idle", "loaded", "send"}]
    /\ request \in [Sessions -> [verb : AllVerbs \union {"none"}, picked : SUBSET Items,
                                 category : Categories \union {NoCategory}]]
    /\ requests \in 0 .. MaxRequests /\ failures \in 0 .. MaxFailures
    /\ faults \in 0 .. MaxFaults

WorkersTyped ==
    /\ pc \in [Workers -> {"idle", "f_load", "f_post", "f_commit", "f_retry", "r_list",
                           "r_next", "r_classify", "r_post", "r_commit", "r_retry", "ack"}]
    /\ msg \in [Workers -> Messages \union {NoMessage}]
    /\ cur \in [Workers -> Items \union {0}]
    /\ todo \in [Workers -> SUBSET Items]
    /\ stale \subseteq Workers /\ holding \subseteq Workers /\ posted \subseteq Workers
    /\ chosen \in [Workers -> Categories \union {NoCategory}]
    /\ outcome \in [Workers -> {"pending_review", "imported", "failed"}]

LoadedTyped ==
    /\ DOMAIN loaded = Workers
    /\ \A w \in Workers : \A i \in DOMAIN loaded[w] : i \in Items /\ loaded[w][i] \in Item

RepeatedTyped == repeated \in [Items -> Nat]

\* The parts make up the type invariant.
LEMMA TypeParts ==
  DeskInv => TablesTyped /\ ConsoleTyped /\ WorkersTyped /\ LoadedTyped /\ RepeatedTyped
  BY DEF DeskInv, TypeOK, TablesTyped, ConsoleTyped, WorkersTyped, LoadedTyped, RepeatedTyped

\* What the updates of review_items make of an item is an item.
LEMMA ItemUpdates ==
  ASSUME NEW item \in Item
  PROVE  /\ item.suggested \in Categories /\ item.corrected \in Categories \union {NoCategory}
         /\ \A c \in Categories :
               /\ [item EXCEPT !.suggested = c] \in Item
               /\ [item EXCEPT !.status = "approved", !.suggested = c] \in Item
         /\ \A s \in {"approved", "corrected", "rejected"}, d \in Categories \union {NoCategory} :
               [item EXCEPT !.status = s, !.corrected = d] \in Item
  BY DEF Item

\* What a POST books is a category, under an item.
LEMMA BookingTypes ==
  ASSUME DeskInv, NEW w \in Workers, pc[w] \in {"f_post", "r_post"}
  PROVE  /\ cur[w] \in Items
         /\ Append(ledger[cur[w]], Category(w)) \in Seq(Categories)
         /\ Len(Append(ledger[cur[w]], Category(w))) = Len(ledger[cur[w]]) + 1
         /\ Append(ledger[cur[w]], Category(w)) # <<>>
<1> TablesTyped /\ LoadedTyped /\ InPlace(w)
  BY TypeParts DEF DeskInv
<1>1. cur[w] \in Items /\ loaded[w][cur[w]] \in Item
  BY DEF InPlace, LoadedTyped
<1>2. Category(w) \in Categories
  BY <1>1, ItemUpdates DEF InPlace, Category
<1>3. ledger[cur[w]] \in Seq(Categories)
  BY <1>1 DEF TablesTyped
<1>4. QED
  BY <1>1, <1>2, <1>3

\* The steps that write to the tables, to the ledger or to their history.
LEMMA Writers ==
  ASSUME [Next]_vars
  PROVE  \/ \E s \in Sessions : CommitRequest(s) \/ SendLost(s)
         \/ \E w \in Workers : PostAnswered(w) \/ PostLost(w) \/ PostRefused(w)
         \/ \E w \in Workers : FinalizeCommit(w) \/ BatchCommit(w)
         \/ \E w \in Workers, c \in Categories : BatchRefresh(w, c)
         \/ \E w \in Workers : Crash(w) \/ BatchItemFails(w) \/ FinalizeAbort(w)
         \/ UNCHANGED <<items, rows, ledger, rules, forgotten, stranded>>
<1> USE DEF history
<1>1. ASSUME NEW s \in Sessions, Clicks(s) PROVE UNCHANGED <<items, rows, ledger, rules, forgotten, stranded>>
  BY <1>1 DEF Clicks, LoadApprove, LoadReject, LoadCorrect, LoadApproveAll, Load, ClickReclassify
<1>2. ASSUME NEW s \in Sessions, Serve(s)
      PROVE  CommitRequest(s) \/ UNCHANGED <<items, rows, ledger, rules, forgotten, stranded>>
  BY <1>2 DEF Serve, SendFinalize, Answer
<1>3. ASSUME NEW w \in Workers, Work(w)
      PROVE  \/ PostAnswered(w) \/ PostLost(w) \/ PostRefused(w)
             \/ FinalizeCommit(w) \/ BatchCommit(w) \/ \E c \in Categories : BatchRefresh(w, c)
             \/ UNCHANGED <<items, rows, ledger, rules, forgotten, stranded>>
  BY <1>3 DEF Work, Deliver, FinalizeLoad, FinalizeRetry, BatchList, BatchDone, BatchSkip,
     BatchNotPending, BatchNext, BatchApprove, BatchRetry, Ack
<1>4. ASSUME NEW w \in Workers, Interrupt(w)
      PROVE  \/ Crash(w) \/ BatchItemFails(w) \/ FinalizeAbort(w)
             \/ UNCHANGED <<items, rows, ledger, rules, forgotten, stranded>>
  BY <1>4 DEF Interrupt, Redeliver
<1>5. UNCHANGED vars => UNCHANGED <<items, rows, ledger, rules, forgotten, stranded>>
  BY DEF vars
<1>6. QED
  BY <1>1, <1>2, <1>3, <1>4, <1>5 DEF Next

\* The further bookings allowed for an item grow, if at all, by one.
LEMMA RepeatedStep ==
  ASSUME DeskInv, [Next]_vars
  PROVE  RepeatedTyped' /\ \A i \in Items : repeated'[i] \in {repeated[i], repeated[i] + 1}
<1> USE DEF history
<1>1. ASSUME NEW s \in Sessions, Clicks(s) \/ Serve(s) \/ SendLost(s) PROVE repeated' = repeated
  BY <1>1 DEF Clicks, LoadApprove, LoadReject, LoadCorrect, LoadApproveAll, Load, ClickReclassify,
     Serve, CommitRequest, SendFinalize, Answer, SendLost
<1>2. ASSUME NEW w \in Workers, Work(w) PROVE repeated' = repeated \/ \E S : Again(S)
  BY <1>2 DEF Work, Deliver, FinalizeLoad, PostAnswered, PostLost, PostRefused, FinalizeCommit,
     FinalizeRetry, BatchList, BatchDone, BatchSkip, BatchNotPending, BatchNext, BatchRefresh,
     BatchApprove, BatchCommit, BatchRetry, Ack
<1>3. ASSUME NEW w \in Workers, Interrupt(w) PROVE repeated' = repeated \/ \E S : Again(S)
  BY <1>3 DEF Interrupt, Crash, FinalizeAbort, BatchItemFails, Redeliver
<1>4. repeated' = repeated \/ \E S : Again(S)
  BY <1>1, <1>2, <1>3 DEF Next, vars
<1>5. repeated \in [Items -> Nat]
  BY TypeParts DEF RepeatedTyped
<1>6. QED
  BY <1>4, <1>5 DEF Again, RepeatedTyped

\* The tables: decisions, bookings and commits.
LEMMA TablesStep ==
  ASSUME DeskInv, [Next]_vars PROVE TablesTyped'
<1> TablesTyped /\ ConsoleTyped /\ WorkersTyped /\ LoadedTyped /\ \A w \in Workers : InPlace(w)
  BY TypeParts DEF DeskInv
<1>1. ASSUME NEW s \in Sessions, CommitRequest(s) PROVE TablesTyped'
  <2> DEFINE r == request[s]
  <2>1. /\ r.category \in Categories \union {NoCategory}
        /\ StatusAfter(r.verb) \in {"approved", "corrected", "rejected"}
    BY DEF ConsoleTyped, StatusAfter
  <2>2. ASSUME NEW i \in Items PROVE items'[i] \in Item
    <3>0. items[i] \in Item /\ items[i].corrected \in Categories \union {NoCategory}
      BY DEF TablesTyped, Item
    <3> DEFINE corrected == IF r.verb = "correct" THEN r.category ELSE items[i].corrected
    <3>1. corrected \in Categories \union {NoCategory}
      BY <2>1, <3>0
    <3> HIDE DEF corrected
    <3>2. [items[i] EXCEPT !.status = StatusAfter(r.verb), !.corrected = corrected] \in Item
      BY <2>1, <3>0, <3>1, ItemUpdates
    <3>3. \/ items'[i] = items[i]
          \/ items'[i] = [items[i] EXCEPT !.status = StatusAfter(r.verb), !.corrected = corrected]
      BY <1>1 DEF CommitRequest, corrected
    <3>4. QED
      BY <3>0, <3>2, <3>3
  <2>3. items' \in [Items -> Item]
    BY <1>1, <2>2 DEF CommitRequest
  <2>4. QED
    BY <1>1, <2>1, <2>3 DEF CommitRequest, TablesTyped, history
<1>2. ASSUME NEW w \in Workers, PostAnswered(w) \/ PostLost(w) \/ PostRefused(w) PROVE TablesTyped'
  <2>1. cur[w] \in Items /\ Append(ledger[cur[w]], Category(w)) \in Seq(Categories)
    BY <1>2, BookingTypes DEF PostAnswered, PostLost, PostRefused, Posting
  <2>2. ledger' = ledger \/ ledger' = [ledger EXCEPT ![cur[w]] = Append(@, Category(w))]
    BY <1>2 DEF PostAnswered, PostLost, PostRefused, Booking
  <2>3. ledger' \in [Items -> Seq(Categories)]
    BY <2>1, <2>2 DEF TablesTyped
  <2>4. QED
    BY <1>2, <2>3 DEF PostAnswered, PostLost, PostRefused, Posting, TablesTyped, history
<1>3. ASSUME NEW w \in Workers, FinalizeCommit(w) PROVE TablesTyped'
  BY <1>3 DEF FinalizeCommit, TablesTyped, WorkersTyped, InPlace, LoadedTyped, history
<1>4. ASSUME NEW w \in Workers, NEW c \in Categories, BatchRefresh(w, c) PROVE TablesTyped'
  <2>1. cur[w] \in Items /\ SuggestedAfter(w, c) \in Categories
    BY <1>4, ItemUpdates DEF BatchRefresh, InPlace, LoadedTyped, SuggestedAfter, TablesTyped
  <2>2. QED
    BY <1>4, <2>1, ItemUpdates DEF BatchRefresh, TablesTyped, history
<1>5. ASSUME NEW w \in Workers, BatchCommit(w) PROVE TablesTyped'
  <2>1. cur[w] \in Items /\ SuggestedAfter(w, chosen[w]) \in Categories
    BY <1>5, ItemUpdates DEF BatchCommit, InPlace, LoadedTyped, SuggestedAfter, TablesTyped
  <2>2. [items[cur[w]] EXCEPT !.status = "approved", !.suggested = SuggestedAfter(w, chosen[w])] \in Item
    BY <2>1, ItemUpdates DEF TablesTyped
  <2>3. QED
    BY <1>5, <2>1, <2>2 DEF BatchCommit, TablesTyped, WorkersTyped, history
<1>6. ASSUME NEW w \in Workers, Crash(w) \/ BatchItemFails(w) PROVE TablesTyped'
  <2>1. Rollback(w) /\ stranded' = stranded
    BY <1>6 DEF Crash, BatchItemFails
  <2>2. forgotten' \in [Items -> Nat]
    <3>1. forgotten \in [Items -> Nat]
      BY DEF TablesTyped
    <3>2. CASE w \in posted
      <4>1. forgotten' = [forgotten EXCEPT ![cur[w]] = @ + 1]
        BY <2>1, <3>2 DEF Rollback
      <4>2. ASSUME cur[w] \in Items PROVE forgotten[cur[w]] + 1 \in Nat
        BY <3>1, <4>2
      <4>3. QED
        BY <3>1, <4>1, <4>2
    <3>3. CASE w \notin posted
      BY <2>1, <3>1, <3>3 DEF Rollback
    <3>4. QED
      BY <3>2, <3>3
  <2>3. QED
    BY <2>1, <2>2 DEF Rollback, TablesTyped
<1>7. ASSUME NEW w \in Workers, FinalizeAbort(w) PROVE TablesTyped'
  BY <1>7, Kinds DEF FinalizeAbort, Rollback, InPlace, TablesTyped
<1>8. ASSUME NEW s \in Sessions, SendLost(s) PROVE TablesTyped'
  BY <1>8 DEF SendLost, ConsoleTyped, TablesTyped
<1>9. ASSUME UNCHANGED <<items, rows, ledger, rules, forgotten, stranded>> PROVE TablesTyped'
  BY <1>9 DEF TablesTyped, history
<1>10. QED
  BY <1>1, <1>2, <1>3, <1>4, <1>5, <1>6, <1>7, <1>8, <1>9, Writers

\* The console, the broker and the budgets.
LEMMA ConsoleStep ==
  ASSUME DeskInv, [Next]_vars PROVE ConsoleTyped'
<1> ConsoleTyped /\ WorkersTyped /\ \A w \in Workers : InPlace(w)
  BY TypeParts DEF DeskInv
<1> USE ReviewAssumption DEF ConsoleTyped, budgets, console
<1>1. ASSUME NEW s \in Sessions, NEW verb \in AllVerbs, NEW picked \in SUBSET Items,
             NEW category \in Categories \union {NoCategory}, Load(s, verb, picked, category)
      PROVE  ConsoleTyped'
  BY <1>1 DEF Load, Click
<1>2. ASSUME NEW s \in Sessions, ClickReclassify(s) PROVE ConsoleTyped'
  <2>1. mail' \in [Messages -> Nat]
    BY <1>2, Kinds, SendTypes DEF ClickReclassify
  <2>2. QED
    BY <1>2, <2>1 DEF ClickReclassify, Click
<1>3. ASSUME NEW s \in Sessions, CommitRequest(s) PROVE ConsoleTyped'
  BY <1>3 DEF CommitRequest, NoRequest
<1>4. ASSUME NEW s \in Sessions, NEW i \in Items, SendFinalize(s, i) PROVE ConsoleTyped'
  <2>1. mail' \in [Messages -> Nat]
    BY <1>4, Kinds, SendTypes DEF SendFinalize
  <2>2. QED
    BY <1>4, <2>1 DEF SendFinalize
<1>5. ASSUME NEW s \in Sessions, Answer(s) PROVE ConsoleTyped'
  <2>1. mail' \in [Messages -> Nat]
    BY <1>5, Kinds, SendTypes DEF Answer
  <2>2. QED
    BY <1>5, <2>1 DEF Answer, NoRequest
<1>6. ASSUME NEW w \in Workers, NEW m \in Messages, Deliver(w, m) PROVE ConsoleTyped'
  BY <1>6 DEF Deliver
<1>7. ASSUME NEW w \in Workers, PostAnswered(w) \/ PostLost(w) \/ PostRefused(w) PROVE ConsoleTyped'
  BY <1>7 DEF PostAnswered, PostLost, PostRefused, Posting, Failing
<1>8. ASSUME NEW w \in Workers, FinalizeRetry(w) \/ BatchRetry(w) PROVE ConsoleTyped'
  <2>1. msg[w] \in Messages
    BY <1>8 DEF FinalizeRetry, BatchRetry, InPlace, WorkersTyped
  <2>2. mail' \in [Messages -> Nat]
    BY <1>8, <2>1, Kinds, SendTypes DEF FinalizeRetry, BatchRetry, Republish
  <2>3. QED
    BY <1>8, <2>2 DEF FinalizeRetry, BatchRetry
<1>9. ASSUME NEW w \in Workers, Crash(w) \/ Redeliver(w) PROVE ConsoleTyped'
  <2>1. msg[w] \in Messages
    BY <1>9 DEF Crash, Redeliver, InPlace
  <2>2. mail' \in [Messages -> Nat]
    BY <1>9, <2>1, SendTypes DEF Crash, Redeliver
  <2>3. QED
    BY <1>9, <2>2 DEF Crash, Redeliver, Fault
<1>10. ASSUME NEW w \in Workers, FinalizeAbort(w) \/ BatchItemFails(w) PROVE ConsoleTyped'
  BY <1>10 DEF FinalizeAbort, BatchItemFails, Fault
<1>11. ASSUME NEW s \in Sessions, SendLost(s) PROVE ConsoleTyped'
  BY <1>11 DEF SendLost, Fault, NoRequest
<1>12. ASSUME UNCHANGED <<mail, console, budgets>> PROVE ConsoleTyped'
  BY <1>12
<1>13. ASSUME NEW s \in Sessions, Clicks(s) PROVE ConsoleTyped'
  BY <1>1, <1>2, <1>13 DEF Clicks, LoadApprove, LoadReject, LoadCorrect, LoadApproveAll, AllVerbs
<1>14. ASSUME NEW w \in Workers, Work(w)
       PROVE  \/ \E m \in Messages : Deliver(w, m)
              \/ PostAnswered(w) \/ PostLost(w) \/ PostRefused(w)
              \/ FinalizeRetry(w) \/ BatchRetry(w) \/ UNCHANGED <<mail, console, budgets>>
  BY <1>14 DEF Work, FinalizeLoad, FinalizeCommit, BatchList, BatchDone, BatchSkip, BatchNotPending,
     BatchNext, BatchRefresh, BatchApprove, BatchCommit, Ack
<1>15. QED
  BY <1>3, <1>4, <1>5, <1>6, <1>7, <1>8, <1>9, <1>10, <1>11, <1>12, <1>13, <1>14
     DEF Next, Serve, Interrupt, vars

\* The workers and their transactions.
LEMMA WorkersStep ==
  ASSUME DeskInv, [Next]_vars PROVE WorkersTyped'
<1> WorkersTyped
  BY TypeParts
<1> USE DEF WorkersTyped, batch, Goto
<1>1. ASSUME NEW w \in Workers, NEW m \in Messages, Deliver(w, m) PROVE WorkersTyped'
  BY <1>1 DEF Deliver
<1>2. ASSUME NEW w \in Workers, FinalizeLoad(w) PROVE WorkersTyped'
  <2>1. msg[w].item \in Items
    BY <1>2, Kinds DEF FinalizeLoad, InPlace, DeskInv
  <2>2. QED
    BY <1>2, <2>1 DEF FinalizeLoad
<1>3. ASSUME NEW w \in Workers, PostAnswered(w) \/ PostLost(w) \/ PostRefused(w) PROVE WorkersTyped'
  BY <1>3 DEF PostAnswered, PostLost, PostRefused, Posting, Booking
<1>4. ASSUME NEW w \in Workers, FinalizeCommit(w) \/ FinalizeRetry(w) \/ BatchDone(w) \/ BatchSkip(w)
      PROVE  WorkersTyped'
  BY <1>4 DEF FinalizeCommit, FinalizeRetry, BatchDone, BatchSkip
<1>5. ASSUME NEW w \in Workers, BatchList(w) \/ BatchNotPending(w) \/ BatchRetry(w) \/ BatchCommit(w)
      PROVE  WorkersTyped'
  BY <1>5 DEF BatchList, BatchNotPending, BatchRetry, BatchCommit
<1>6. ASSUME NEW w \in Workers, NEW i \in Items, BatchNext(w, i) PROVE WorkersTyped'
  BY <1>6 DEF BatchNext
<1>7. ASSUME NEW w \in Workers, NEW c \in Categories, BatchRefresh(w, c) \/ BatchApprove(w, c)
      PROVE  WorkersTyped'
  BY <1>7 DEF BatchRefresh, BatchApprove
<1>8. ASSUME NEW w \in Workers, Ack(w) \/ Crash(w) PROVE WorkersTyped'
  BY <1>8 DEF Ack, Crash, CloseSession, Rollback
<1>9. ASSUME NEW w \in Workers, FinalizeAbort(w) \/ BatchItemFails(w) PROVE WorkersTyped'
  BY <1>9 DEF FinalizeAbort, BatchItemFails, Rollback
<1>10. ASSUME UNCHANGED <<pc, msg, cur, batch, outcome, posted>> PROVE WorkersTyped'
  BY <1>10
<1>11. ASSUME NEW s \in Sessions, Clicks(s) \/ Serve(s) \/ SendLost(s)
       PROVE  UNCHANGED <<pc, msg, cur, batch, outcome, posted>>
  BY <1>11 DEF Clicks, LoadApprove, LoadReject, LoadCorrect, LoadApproveAll, Load, ClickReclassify,
     Serve, CommitRequest, SendFinalize, Answer, SendLost
<1>12. ASSUME NEW w \in Workers, Work(w) PROVE WorkersTyped'
  BY <1>1, <1>2, <1>3, <1>4, <1>5, <1>6, <1>7, <1>8, <1>12 DEF Work
<1>13. ASSUME NEW w \in Workers, Interrupt(w) PROVE WorkersTyped'
  BY <1>8, <1>9, <1>10, <1>13 DEF Interrupt, Redeliver
<1>14. QED
  BY <1>10, <1>11, <1>12, <1>13 DEF Next, vars

\* The objects a session holds are items, as old as they may be.
LEMMA LoadedStep ==
  ASSUME DeskInv, [Next]_vars PROVE LoadedTyped'
<1> LoadedTyped /\ TablesTyped /\ WorkersTyped /\ \A w \in Workers : InPlace(w)
  BY TypeParts DEF DeskInv
<1> USE DEF LoadedTyped
<1>1. ASSUME NEW w \in Workers, FinalizeLoad(w) PROVE LoadedTyped'
  <2>1. msg[w].item \in Items
    BY <1>1, Kinds DEF FinalizeLoad, InPlace
  <2>2. QED
    BY <1>1, <2>1 DEF FinalizeLoad, TablesTyped
<1>2. ASSUME NEW w \in Workers, BatchList(w) PROVE LoadedTyped'
  BY <1>2 DEF BatchList, TablesTyped, WorkersTyped
<1>3. ASSUME NEW w \in Workers, NEW i \in Items, BatchNext(w, i) PROVE LoadedTyped'
  BY <1>3 DEF BatchNext, TablesTyped, InPlace
<1>4. ASSUME NEW w \in Workers, Ack(w) \/ Crash(w) PROVE LoadedTyped'
  BY <1>4 DEF Ack, Crash, CloseSession
<1>5. ASSUME UNCHANGED loaded PROVE LoadedTyped'
  BY <1>5
<1>6. ASSUME NEW s \in Sessions, Clicks(s) \/ Serve(s) \/ SendLost(s) PROVE UNCHANGED loaded
  BY <1>6 DEF Clicks, LoadApprove, LoadReject, LoadCorrect, LoadApproveAll, Load, ClickReclassify,
     Serve, CommitRequest, SendFinalize, Answer, SendLost
<1>7. ASSUME NEW w \in Workers, Work(w) PROVE LoadedTyped'
  <2>1. \/ FinalizeLoad(w) \/ BatchList(w) \/ (\E i \in Items : BatchNext(w, i)) \/ Ack(w)
        \/ UNCHANGED loaded
    BY <1>7 DEF Work, Deliver, PostAnswered, PostLost, PostRefused, Posting, FinalizeCommit,
       FinalizeRetry, BatchDone, BatchSkip, BatchNotPending, BatchRefresh, BatchApprove,
       BatchCommit, BatchRetry
  <2>2. QED
    BY <1>1, <1>2, <1>3, <1>4, <1>5, <2>1
<1>8. ASSUME NEW w \in Workers, Interrupt(w) PROVE LoadedTyped'
  <2>1. Crash(w) \/ UNCHANGED loaded
    BY <1>8 DEF Interrupt, FinalizeAbort, BatchItemFails, Redeliver
  <2>2. QED
    BY <1>4, <1>5, <2>1
<1>9. QED
  BY <1>5, <1>6, <1>7, <1>8 DEF Next, vars

\* The types hold at the start, and every step keeps them.
LEMMA TypeInit == Init => TypeOK /\ DOMAIN loaded = Workers
  BY ReviewAssumption DEF Init, TypeOK, Item, NoRequest

LEMMA TypesKept ==
  ASSUME DeskInv, [Next]_vars PROVE (TypeOK /\ DOMAIN loaded = Workers)'
  BY TablesStep, RepeatedStep, ConsoleStep, WorkersStep, LoadedStep
     DEF TypeOK, TablesTyped, RepeatedTyped, ConsoleTyped, WorkersTyped, LoadedTyped

-----------------------------------------------------------------------------
(* Where each worker is. *)

\* Nothing that is decided becomes pending again, and no booking disappears.
LEMMA NoWayBack ==
  ASSUME DeskInv, [Next]_vars, NEW i \in Items
  PROVE  /\ items[i].status # "pending" => items'[i].status # "pending"
         /\ ledger[i] # <<>> => ledger'[i] # <<>>
         /\ rows[i] # "pending_review" => rows'[i] # "pending_review"
<1> TablesTyped /\ WorkersTyped /\ LoadedTyped /\ \A w \in Workers : InPlace(w)
  BY TypeParts DEF DeskInv
<1> USE DEF TablesTyped, Item, history
<1> DEFINE Kept ==
      /\ items[i].status # "pending" => items'[i].status # "pending"
      /\ ledger[i] # <<>> => ledger'[i] # <<>>
      /\ rows[i] # "pending_review" => rows'[i] # "pending_review"
<1>1. ASSUME NEW s \in Sessions, CommitRequest(s) PROVE Kept
  <2>1. /\ items'[i] = items[i] \/ items'[i].status = StatusAfter(request[s].verb)
        /\ UNCHANGED <<rows, ledger>>
    BY <1>1 DEF CommitRequest
  <2>2. StatusAfter(request[s].verb) # "pending"
    BY DEF StatusAfter
  <2>3. QED
    BY <2>1, <2>2
<1>2. ASSUME NEW w \in Workers, PostAnswered(w) \/ PostLost(w) \/ PostRefused(w) PROVE Kept
  <2>1. cur[w] \in Items /\ Append(ledger[cur[w]], Category(w)) # <<>>
    BY <1>2, BookingTypes DEF PostAnswered, PostLost, PostRefused, Posting
  <2>2. ledger'[i] = ledger[i] \/ ledger'[i] = Append(ledger[cur[w]], Category(w))
    BY <1>2, <2>1 DEF PostAnswered, PostLost, PostRefused, Booking
  <2>3. QED
    BY <1>2, <2>1, <2>2 DEF PostAnswered, PostLost, PostRefused, Posting
<1>3. ASSUME NEW w \in Workers, FinalizeCommit(w) PROVE Kept
  BY <1>3 DEF FinalizeCommit, InPlace
<1>4. ASSUME NEW w \in Workers, BatchCommit(w) PROVE Kept
  <2>1. outcome[w] # "pending_review" /\ cur[w] \in Items
    BY <1>4 DEF BatchCommit, InPlace, LoadedTyped
  <2>2. items'[i] = items[i] \/ items'[i].status = "approved"
    BY <1>4, <2>1 DEF BatchCommit
  <2>3. QED
    BY <1>4, <2>1, <2>2 DEF BatchCommit
<1>5. ASSUME NEW w \in Workers, NEW c \in Categories, BatchRefresh(w, c) PROVE Kept
  BY <1>5 DEF BatchRefresh, InPlace
<1>6. ASSUME UNCHANGED <<items, rows, ledger>> PROVE Kept
  BY <1>6
<1>7. ASSUME NEW w \in Workers, Crash(w) \/ BatchItemFails(w) \/ FinalizeAbort(w)
      PROVE  UNCHANGED <<items, rows, ledger>>
  BY <1>7 DEF Crash, BatchItemFails, FinalizeAbort, Rollback
<1>8. ASSUME NEW s \in Sessions, SendLost(s) PROVE UNCHANGED <<items, rows, ledger>>
  BY <1>8 DEF SendLost
<1>9. QED
  BY <1>1, <1>2, <1>3, <1>4, <1>5, <1>6, <1>7, <1>8, Writers

\* A worker to which nothing happens stays in place, whatever others do.
LEMMA Untouched ==
  ASSUME DeskInv, [Next]_vars, NEW v \in Workers,
         pc'[v] = pc[v], msg'[v] = msg[v], cur'[v] = cur[v], loaded'[v] = loaded[v],
         todo'[v] = todo[v], chosen'[v] = chosen[v], outcome'[v] = outcome[v],
         v \in posted' <=> v \in posted, v \in stale' <=> v \in stale
  PROVE  InPlace(v)'
<1> InPlace(v) /\ LoadedTyped
  BY TypeParts DEF DeskInv
<1>1. /\ pc[v] \in {"f_post", "f_commit"} => items'[cur[v]].status # "pending"
      /\ v \in posted => ledger'[cur[v]] # <<>>
  BY NoWayBack DEF InPlace, LoadedTyped
<1>2. QED
  BY <1>1 DEF InPlace

\* Every step, of its own or of another's, leaves a worker in place.
LEMMA PlaceStep ==
  ASSUME DeskInv, [Next]_vars, NEW v \in Workers PROVE InPlace(v)'
<1> /\ TablesTyped /\ WorkersTyped /\ LoadedTyped
    /\ InPlace(v) /\ \A w \in Workers : InPlace(w)
  BY TypeParts DEF DeskInv
<1> DEFINE Same(w) == /\ pc'[w] = pc[w] /\ msg'[w] = msg[w] /\ cur'[w] = cur[w]
                      /\ loaded'[w] = loaded[w] /\ todo'[w] = todo[w] /\ chosen'[w] = chosen[w]
                      /\ outcome'[w] = outcome[w]
                      /\ w \in posted' <=> w \in posted
                      /\ w \in stale' <=> w \in stale
<1> USE DEF batch, Goto, LoadedTyped, WorkersTyped
<1>1. ASSUME NEW m \in Messages, Deliver(v, m) PROVE InPlace(v)'
  BY <1>1, Kinds DEF Deliver, InPlace
<1>2. ASSUME FinalizeLoad(v) PROVE InPlace(v)'
  BY <1>2, Kinds DEF FinalizeLoad, InPlace, TablesTyped, Decided
<1>3. ASSUME PostAnswered(v) \/ PostLost(v) \/ PostRefused(v) PROVE InPlace(v)'
  <2>1. cur[v] \in Items /\ Append(ledger[cur[v]], Category(v)) # <<>>
    BY <1>3, BookingTypes DEF PostAnswered, PostLost, PostRefused, Posting
  <2>2. QED
    BY <1>3, <2>1 DEF PostAnswered, PostLost, PostRefused, Posting, Booking, InPlace, TablesTyped
<1>4. ASSUME FinalizeCommit(v) \/ FinalizeRetry(v) PROVE InPlace(v)'
  BY <1>4 DEF FinalizeCommit, FinalizeRetry, InPlace
<1>5. ASSUME BatchList(v) PROVE InPlace(v)'
  BY <1>5 DEF BatchList, InPlace
<1>6. ASSUME NEW i \in Items, BatchNext(v, i) PROVE InPlace(v)'
  BY <1>6 DEF BatchNext, InPlace
<1>7. ASSUME BatchDone(v) \/ BatchSkip(v) \/ BatchNotPending(v) \/ BatchRetry(v) PROVE InPlace(v)'
  BY <1>7 DEF BatchDone, BatchSkip, BatchNotPending, BatchRetry, InPlace
<1>8. ASSUME NEW c \in Categories, BatchRefresh(v, c) \/ BatchApprove(v, c) PROVE InPlace(v)'
  BY <1>8 DEF BatchRefresh, BatchApprove, InPlace
<1>9. ASSUME BatchCommit(v) PROVE InPlace(v)'
  BY <1>9 DEF BatchCommit, InPlace
<1>10. ASSUME Ack(v) \/ Crash(v) PROVE InPlace(v)'
  BY <1>10 DEF Ack, Crash, CloseSession, Rollback, InPlace
<1>11. ASSUME FinalizeAbort(v) \/ BatchItemFails(v) PROVE InPlace(v)'
  BY <1>11 DEF FinalizeAbort, BatchItemFails, Rollback, InPlace
<1>12. ASSUME NEW w \in Workers, w # v, Work(w) \/ Interrupt(w) PROVE Same(v)
  BY <1>12 DEF Work, Interrupt, Deliver, FinalizeLoad, PostAnswered, PostLost, PostRefused,
     Posting, Booking, FinalizeCommit, FinalizeRetry, BatchList, BatchDone, BatchSkip,
     BatchNotPending, BatchNext, BatchRefresh, BatchApprove, BatchCommit, BatchRetry, Ack,
     CloseSession, Crash, FinalizeAbort, BatchItemFails, Redeliver, Rollback
<1>13. ASSUME NEW s \in Sessions, Clicks(s) \/ Serve(s) \/ SendLost(s) PROVE Same(v)
  BY <1>13 DEF Clicks, LoadApprove, LoadReject, LoadCorrect, LoadApproveAll, Load, ClickReclassify,
     Serve, CommitRequest, SendFinalize, Answer, SendLost
<1>14. ASSUME Redeliver(v) \/ UNCHANGED vars PROVE Same(v)
  BY <1>14 DEF Redeliver, vars
<1>15. ASSUME Same(v) PROVE InPlace(v)'
  BY <1>15, Untouched
<1>16. QED
  BY <1>1, <1>2, <1>3, <1>4, <1>5, <1>6, <1>7, <1>8, <1>9, <1>10, <1>11, <1>12, <1>13, <1>14,
     <1>15 DEF Next, Work, Interrupt

-----------------------------------------------------------------------------
(* Row locks, and what they are for. *)

\* A batch flushes only an item that no other batch has locked.
LEMMA LockStep ==
  ASSUME DeskInv, [Next]_vars PROVE RowLockExcludes'
<1> /\ WorkersTyped /\ LoadedTyped /\ RowLockExcludes
    /\ \A w \in Workers : InPlace(w)
  BY TypeParts DEF DeskInv
<1> DEFINE Locks == {"r_post", "r_commit"}
           Keeps(w) == pc'[w] \in Locks => pc[w] \in Locks /\ cur'[w] = cur[w]
<1> USE DEF Goto, WorkersTyped
<1>1. ASSUME NEW w \in Workers, NEW c \in Categories, BatchApprove(w, c) PROVE RowLockExcludes'
  BY <1>1 DEF BatchApprove, ItemLocked, RowLockExcludes
<1>2. ASSUME NEW w \in Workers, Work(w), ~\E c \in Categories : BatchApprove(w, c),
             NEW v \in Workers
      PROVE  Keeps(v)
  BY <1>2 DEF Work, Deliver, FinalizeLoad, PostAnswered, PostLost, PostRefused,
     Posting, FinalizeCommit, FinalizeRetry, BatchList, BatchDone, BatchSkip, BatchNotPending,
     BatchNext, BatchRefresh, BatchCommit, BatchRetry, Ack, CloseSession
<1>3. ASSUME NEW w \in Workers, Interrupt(w), NEW v \in Workers PROVE Keeps(v)
  BY <1>3 DEF Interrupt, CloseSession, Crash, FinalizeAbort, BatchItemFails, Redeliver
<1>4. ASSUME UNCHANGED <<pc, cur>>, NEW v \in Workers PROVE Keeps(v)
  BY <1>4
<1>5. ASSUME \A v \in Workers : Keeps(v) PROVE RowLockExcludes'
  BY <1>5 DEF RowLockExcludes
<1>6. ASSUME NEW s \in Sessions, Clicks(s) \/ Serve(s) \/ SendLost(s) PROVE UNCHANGED <<pc, cur>>
  BY <1>6 DEF Clicks, LoadApprove, LoadReject, LoadCorrect, LoadApproveAll, Load, ClickReclassify,
     Serve, CommitRequest, SendFinalize, Answer, SendLost
<1>7. QED
  BY <1>1, <1>2, <1>3, <1>4, <1>5, <1>6 DEF Next, vars

\* A worker records IMPORTED only after its POST was applied.
LEMMA ImportedStep ==
  ASSUME DeskInv, [Next]_vars PROVE ImportedIsBooked'
<1> TablesTyped /\ ImportedIsBooked /\ \A w \in Workers : InPlace(w)
  BY TypeParts DEF DeskInv
<1> SUFFICES ASSUME NEW i \in Items, rows'[i] = "imported" PROVE ledger'[i] # <<>>
  BY DEF ImportedIsBooked
<1>1. ASSUME NEW w \in Workers, FinalizeCommit(w) \/ BatchCommit(w), rows[i] # "imported"
      PROVE  ledger[i] # <<>>
  BY <1>1 DEF FinalizeCommit, BatchCommit, InPlace, TablesTyped
<1>2. ASSUME rows'[i] = rows[i] PROVE ledger[i] # <<>>
  BY <1>2 DEF ImportedIsBooked
<1>3. (\E w \in Workers : FinalizeCommit(w) \/ BatchCommit(w)) \/ rows' = rows
  BY Writers DEF CommitRequest, SendLost, PostAnswered, PostLost, PostRefused, Posting, BatchRefresh,
     Crash, BatchItemFails, FinalizeAbort, Rollback
<1>4. ledger[i] # <<>>
  BY <1>1, <1>2, <1>3 DEF ImportedIsBooked
<1>5. QED
  BY <1>4, NoWayBack

\* A batch holds the item, and what it booked is in its open transaction.
Held(i) == \E w \in posted : cur[w] = i /\ pc[w] = "r_commit"

\* A POST for a pending item comes from the one batch that has locked it; when that
\* transaction is rolled back, its booking is forgotten.
LEMMA UndecidedStep ==
  ASSUME DeskInv, [Next]_vars PROVE NothingBookedUndecided'
<1> /\ TablesTyped /\ WorkersTyped /\ LoadedTyped /\ NothingBookedUndecided /\ RowLockExcludes
    /\ \A w \in Workers : InPlace(w)
  BY TypeParts DEF DeskInv
<1> SUFFICES ASSUME NEW i \in Items, items'[i].status = "pending"
             PROVE  Len(ledger'[i]) =< forgotten'[i] + (IF Held(i)' THEN 1 ELSE 0)
  BY DEF NothingBookedUndecided, Held
<1>1. /\ items[i].status = "pending"
      /\ Len(ledger[i]) =< forgotten[i] + (IF Held(i) THEN 1 ELSE 0)
      /\ Len(ledger[i]) \in Nat /\ forgotten[i] \in Nat
  BY NoWayBack DEF NothingBookedUndecided, Held, TablesTyped
<1> DEFINE Goal == Len(ledger'[i]) =< forgotten'[i] + (IF Held(i)' THEN 1 ELSE 0)
<1> USE DEF Goto, WorkersTyped
<1>2. ASSUME NEW w \in Workers, PostAnswered(w) \/ PostLost(w) PROVE Goal
  <2>1. /\ pc[w] \in {"f_post", "r_post"} /\ w \in posted' /\ forgotten' = forgotten
        /\ ledger' = [ledger EXCEPT ![cur[w]] = Append(@, Category(w))]
        /\ cur' = cur /\ posted \subseteq posted'
        /\ pc' = [pc EXCEPT ![w] = IF pc[w] = "f_post" THEN "f_commit" ELSE "r_commit"]
    BY <1>2 DEF PostAnswered, PostLost, Posting, Booking, history
  <2>2. CASE cur[w] = i
    <3>1. pc[w] = "r_post"
      BY <1>1, <2>1, <2>2 DEF InPlace
    <3>2. ~Held(i)
      BY <2>2, <3>1 DEF Held, RowLockExcludes
    <3>3. Held(i)'
      BY <2>1, <2>2, <3>1 DEF Held
    <3>4. Len(ledger'[i]) = Len(ledger[i]) + 1
      BY <2>1, <2>2, BookingTypes DEF TablesTyped
    <3>5. QED
      BY <1>1, <2>1, <3>2, <3>3, <3>4
  <2>3. CASE cur[w] # i
    <3>1. Held(i) => Held(i)'
      BY <2>1, <2>3 DEF Held
    <3>2. ledger'[i] = ledger[i] /\ forgotten'[i] = forgotten[i]
      BY <2>1, <2>3 DEF TablesTyped
    <3>3. QED
      BY <1>1, <3>1, <3>2
  <2>4. QED
    BY <2>2, <2>3
<1>3. ASSUME NEW w \in Workers, BatchCommit(w) PROVE Goal
  <2>1. cur[w] \in Items /\ cur[w] # i
    BY <1>3 DEF BatchCommit, InPlace, LoadedTyped, TablesTyped, Item
  <2>2. Held(i) => Held(i)'
    BY <1>3, <2>1 DEF BatchCommit, Held
  <2>3. QED
    BY <1>1, <1>3, <2>2 DEF BatchCommit, history
<1>4. ASSUME NEW w \in Workers, Crash(w) \/ FinalizeAbort(w) \/ BatchItemFails(w) PROVE Goal
  <2>1. ledger' = ledger /\ forgotten'[i] \in {forgotten[i], forgotten[i] + 1}
    BY <1>4 DEF Crash, FinalizeAbort, BatchItemFails, Rollback, TablesTyped
  <2>2. CASE w \in posted /\ cur[w] = i
    <3>1. forgotten'[i] = forgotten[i] + 1
      BY <1>4, <2>2 DEF Crash, FinalizeAbort, BatchItemFails, Rollback, TablesTyped
    <3>2. QED
      BY <1>1, <2>1, <3>1
  <2>3. CASE ~(w \in posted /\ cur[w] = i)
    <3>1. Held(i) => Held(i)'
      BY <1>4, <2>3 DEF Crash, FinalizeAbort, BatchItemFails, Rollback, CloseSession, Held
    <3>2. QED
      BY <1>1, <2>1, <3>1
  <2>4. QED
    BY <2>2, <2>3
<1>5. ASSUME NEW w \in Workers, Work(w), ~PostAnswered(w), ~PostLost(w), ~BatchCommit(w)
      PROVE  UNCHANGED <<ledger, forgotten>> /\ (Held(i) => Held(i)')
  <2>1. UNCHANGED <<ledger, forgotten>>
    BY <1>5 DEF Work, Deliver, FinalizeLoad, PostRefused, Posting, FinalizeCommit, FinalizeRetry,
       BatchList, BatchDone, BatchSkip, BatchNotPending, BatchNext, BatchRefresh, BatchApprove,
       BatchRetry, Ack, history
  <2>2. \A v \in posted : pc[v] = "r_commit"
          => v \in posted' /\ cur'[v] = cur[v] /\ pc'[v] = pc[v]
    BY <1>5 DEF Work, Deliver, FinalizeLoad, PostRefused, Posting, FinalizeCommit, FinalizeRetry,
       BatchList, BatchDone, BatchSkip, BatchNotPending, BatchNext, BatchRefresh, BatchApprove,
       BatchRetry, Ack, CloseSession
  <2>3. QED
    BY <2>1, <2>2 DEF Held
<1>6. ASSUME UNCHANGED <<ledger, forgotten, posted, cur, pc>>
      PROVE  UNCHANGED <<ledger, forgotten>> /\ (Held(i) => Held(i)')
  BY <1>6 DEF Held
<1>7. ASSUME UNCHANGED <<ledger, forgotten>> /\ (Held(i) => Held(i)') PROVE Goal
  BY <1>1, <1>7
<1>8. ASSUME NEW s \in Sessions, Clicks(s) \/ Serve(s) \/ SendLost(s)
      PROVE  UNCHANGED <<ledger, forgotten, posted, cur, pc>>
  BY <1>8 DEF Clicks, LoadApprove, LoadReject, LoadCorrect, LoadApproveAll, Load, ClickReclassify,
     Serve, CommitRequest, SendFinalize, Answer, SendLost, history
<1>9. ASSUME NEW w \in Workers, Redeliver(w) PROVE UNCHANGED <<ledger, forgotten, posted, cur, pc>>
  BY <1>9 DEF Redeliver, history
<1>10. QED
  BY <1>2, <1>3, <1>4, <1>5, <1>6, <1>7, <1>8, <1>9 DEF Next, Interrupt, vars

-----------------------------------------------------------------------------
(* From the console to the worker. *)

\* A finalize message that was sent is on its way.
LEMMA SentIsHandedOn ==
  ASSUME DeskInv, NEW i \in Items, NEW m \in Finalizes, m.item = i, Send(m)
  PROVE  HandedOn(i)'
  BY TypeParts, Kinds, SendTypes DEF HandedOn, ConsoleTyped

\* Sending takes no message away.
LEMMA MailGrows ==
  ASSUME DeskInv, NEW i \in Items, NEW m \in Messages, Send(m) \/ mail' = mail,
         \E n \in Finalizes : n.item = i /\ mail[n] > 0
  PROVE  \E n \in Finalizes : n.item = i /\ mail'[n] > 0
  BY TypeParts, Kinds, SendTypes DEF ConsoleTyped

\* An item that is decided now is handed on: by the commit that decides it, or as it
\* was before.
LEMMA HandOnStep ==
  ASSUME DeskInv, [Next]_vars, NEW i \in Items, items'[i].status \in Decided
  PROVE  HandedOn(i)'
<1> /\ TablesTyped /\ ConsoleTyped /\ WorkersTyped /\ LoadedTyped
    /\ \A w \in Workers : InPlace(w)
  BY TypeParts DEF DeskInv
<1> DEFINE Queued == \E m \in Finalizes : m.item = i /\ mail[m] > 0
           Handled(w) == pc[w] \in {"f_load", "f_post", "f_commit"} /\ msg[w].item = i
           Sending(s) == spc[s] = "send" /\ i \in request[s].picked
           Recorded == rows[i] # "pending_review" \/ i \in stranded
<1>0. /\ items[i].status \in Decided => HandedOn(i)
      /\ HandedOn(i) <=> Recorded \/ Queued \/ (\E w \in Workers : Handled(w))
                            \/ \E s \in Sessions : Sending(s)
  BY DEF DeskInv, HandedOn
<1>1. CASE items[i].status \notin Decided
  <2>1. ASSUME NEW s \in Sessions, CommitRequest(s) PROVE HandedOn(i)'
    <3>1. i \in request[s].picked /\ request[s].verb # "reject"
      BY <1>1, <2>1 DEF CommitRequest, TablesTyped, Item, Decided, StatusAfter
    <3>2. Sending(s)'
      BY <2>1, <3>1 DEF CommitRequest, ConsoleTyped
    <3>3. QED
      BY <3>2 DEF HandedOn
  <2>2. ASSUME NEW w \in Workers, BatchCommit(w) PROVE HandedOn(i)'
    <3>1. cur[w] = i
      BY <1>1, <2>2 DEF BatchCommit, TablesTyped
    <3>2. rows'[i] # "pending_review"
      BY <2>2, <3>1 DEF BatchCommit, InPlace, TablesTyped
    <3>3. QED
      BY <3>2 DEF HandedOn
  <2>3. ASSUME NEW w \in Workers, NEW c \in Categories, BatchRefresh(w, c) PROVE FALSE
    <3>1. items'[i].status = items[i].status
      BY <2>3 DEF BatchRefresh, TablesTyped, Item
    <3>2. QED
      BY <1>1, <3>1
  <2>4. ASSUME items' = items PROVE FALSE
    BY <1>1, <2>4
  <2>5. QED
    BY <2>1, <2>2, <2>3, <2>4, Writers DEF SendLost, PostAnswered, PostLost, PostRefused, Posting,
       FinalizeCommit, Crash, BatchItemFails, FinalizeAbort, Rollback
<1>2. CASE items[i].status \in Decided
  <2>1. CASE rows[i] # "pending_review"
    BY <2>1, NoWayBack DEF HandedOn
  <2>2. CASE i \in stranded
    <3>1. ASSUME NEW s \in Sessions, Clicks(s) \/ Serve(s) \/ SendLost(s) PROVE i \in stranded'
      BY <2>2, <3>1 DEF Clicks, LoadApprove, LoadReject, LoadCorrect, LoadApproveAll, Load,
         ClickReclassify, Serve, CommitRequest, SendFinalize, Answer, SendLost, history
    <3>2. ASSUME NEW w \in Workers, Work(w) PROVE i \in stranded'
      BY <2>2, <3>2 DEF Work, Deliver, FinalizeLoad, PostAnswered, PostLost, PostRefused, Posting,
         FinalizeCommit, FinalizeRetry, BatchList, BatchDone, BatchSkip, BatchNotPending, BatchNext,
         BatchRefresh, BatchApprove, BatchCommit, BatchRetry, Ack, history
    <3>3. ASSUME NEW w \in Workers, Interrupt(w) PROVE i \in stranded'
      BY <2>2, <3>3 DEF Interrupt, Crash, FinalizeAbort, BatchItemFails, Redeliver, history
    <3>4. QED
      BY <2>2, <3>1, <3>2, <3>3 DEF HandedOn, Next, vars
  <2>3. CASE Queued
    <3>1. ASSUME NEW w \in Workers, NEW m \in Messages, Deliver(w, m) PROVE HandedOn(i)'
      <4>1. PICK n \in Finalizes : n.item = i /\ mail[n] > 0
        BY <2>3
      <4>2. CASE m = n
        <5>1. Handled(w)'
          BY <3>1, <4>1, <4>2, Kinds DEF Deliver, Goto, WorkersTyped
        <5>2. QED
          BY <5>1 DEF HandedOn
      <4>3. CASE m # n
        BY <3>1, <4>1, <4>3, Kinds DEF Deliver, ConsoleTyped, HandedOn
      <4>4. QED
        BY <4>2, <4>3
    <3>2. ASSUME NEW m \in Messages, Send(m) \/ mail' = mail PROVE HandedOn(i)'
      BY <2>3, <3>2, MailGrows DEF HandedOn
    <3>3. ASSUME mail' = mail PROVE HandedOn(i)'
      BY <2>3, <3>3 DEF HandedOn
    <3>4. ASSUME NEW s \in Sessions, Clicks(s) \/ Serve(s) \/ SendLost(s)
          PROVE  mail' = mail \/ \E m \in Messages : Send(m)
      BY <3>4, Kinds DEF Clicks, LoadApprove, LoadReject, LoadCorrect, LoadApproveAll, Load,
         ClickReclassify, Serve, CommitRequest, SendFinalize, Answer, SendLost
    <3>5. ASSUME NEW w \in Workers, Work(w), ~\E m \in Messages : Deliver(w, m)
          PROVE  mail' = mail \/ \E m \in Messages : Send(m)
      <4>1. ASSUME FinalizeRetry(w) \/ BatchRetry(w)
            PROVE  mail' = mail \/ \E m \in Messages : Send(m)
        <5>1. msg[w] \in Messages
          BY <4>1 DEF FinalizeRetry, BatchRetry, InPlace
        <5>2. QED
          BY <4>1, <5>1, Kinds DEF FinalizeRetry, BatchRetry, Republish
      <4>2. QED
        BY <3>5, <4>1 DEF Work, FinalizeLoad, PostAnswered, PostLost, PostRefused, Posting,
           FinalizeCommit, BatchList, BatchDone, BatchSkip, BatchNotPending, BatchNext,
           BatchRefresh, BatchApprove, BatchCommit, Ack
    <3>6. ASSUME NEW w \in Workers, Interrupt(w)
          PROVE  mail' = mail \/ \E m \in Messages : Send(m)
      BY <3>6 DEF Interrupt, Crash, Redeliver, FinalizeAbort, BatchItemFails, InPlace
    <3>7. QED
      BY <3>1, <3>2, <3>3, <3>4, <3>5, <3>6 DEF Next, vars
  <2>4. ASSUME NEW w \in Workers, Handled(w) PROVE HandedOn(i)'
    <3>1. msg[w] \in Finalizes /\ msg[w] \in Messages
      BY <2>4, Kinds DEF InPlace
    <3>2. ASSUME FinalizeLoad(w) PROVE HandedOn(i)'
      <4>1. Handled(w)'
        BY <1>2, <2>4, <3>2 DEF FinalizeLoad, Goto, WorkersTyped
      <4>2. QED
        BY <4>1 DEF HandedOn
    <3>3. ASSUME PostAnswered(w) \/ PostLost(w) \/ PostRefused(w) PROVE HandedOn(i)'
      <4>1. Handled(w)'
        BY <2>4, <3>3 DEF PostAnswered, PostLost, PostRefused, Posting, Goto, WorkersTyped
      <4>2. QED
        BY <4>1 DEF HandedOn
    <3>4. ASSUME FinalizeCommit(w) PROVE HandedOn(i)'
      <4>1. rows'[i] # "pending_review"
        BY <2>4, <3>4 DEF FinalizeCommit, InPlace, TablesTyped
      <4>2. QED
        BY <4>1 DEF HandedOn
    <3>5. ASSUME Crash(w) PROVE HandedOn(i)'
      BY <2>4, <3>1, <3>5, SentIsHandedOn DEF Crash
    <3>6. ASSUME FinalizeAbort(w) PROVE HandedOn(i)'
      BY <2>4, <3>6 DEF FinalizeAbort, HandedOn
    <3>7. ASSUME pc'[w] = pc[w] /\ msg'[w] = msg[w] PROVE HandedOn(i)'
      BY <2>4, <3>7 DEF HandedOn
    <3>8. ASSUME Work(w), ~FinalizeLoad(w), ~PostAnswered(w), ~PostLost(w), ~PostRefused(w),
                 ~FinalizeCommit(w)
          PROVE  FALSE
      BY <2>4, <3>8 DEF Work, Deliver, FinalizeRetry, BatchList, BatchDone, BatchSkip,
         BatchNotPending, BatchNext, BatchRefresh, BatchApprove, BatchCommit, BatchRetry, Ack
    <3>9. ASSUME NEW v \in Workers, v # w, Work(v) \/ Interrupt(v)
          PROVE  pc'[w] = pc[w] /\ msg'[w] = msg[w]
      BY <3>9 DEF Goto, WorkersTyped, Work, Deliver, FinalizeLoad, PostAnswered, PostLost,
         PostRefused, Posting, FinalizeCommit, FinalizeRetry, BatchList, BatchDone, BatchSkip,
         BatchNotPending, BatchNext, BatchRefresh, BatchApprove, BatchCommit, BatchRetry, Ack,
         Interrupt, Crash, FinalizeAbort, BatchItemFails, Redeliver
    <3>10. ASSUME NEW s \in Sessions, Clicks(s) \/ Serve(s) \/ SendLost(s)
           PROVE  pc'[w] = pc[w] /\ msg'[w] = msg[w]
      BY <3>10 DEF Clicks, LoadApprove, LoadReject, LoadCorrect, LoadApproveAll, Load,
         ClickReclassify, Serve, CommitRequest, SendFinalize, Answer, SendLost
    <3>11. ASSUME BatchItemFails(w) PROVE FALSE
      BY <2>4, <3>11 DEF BatchItemFails
    <3>12. QED
      BY <3>2, <3>3, <3>4, <3>5, <3>6, <3>7, <3>8, <3>9, <3>10, <3>11
         DEF Next, Interrupt, Redeliver, vars
  <2>5. ASSUME NEW s \in Sessions, Sending(s) PROVE HandedOn(i)'
    <3>1. ASSUME SendFinalize(s, i) PROVE HandedOn(i)'
      <4>1. Finalize(i) \in Finalizes /\ Finalize(i).item = i
        BY Kinds DEF Finalize
      <4>2. QED
        BY <3>1, <4>1, SentIsHandedOn DEF SendFinalize
    <3>2. ASSUME SendLost(s) PROVE HandedOn(i)'
      BY <2>5, <3>2 DEF SendLost, HandedOn
    <3>3. ASSUME Sending(s)' PROVE HandedOn(i)'
      BY <3>3 DEF HandedOn
    <3>4. ASSUME NEW j \in Items, j # i, SendFinalize(s, j) PROVE Sending(s)'
      BY <2>5, <3>4 DEF SendFinalize, ConsoleTyped
    <3>5. ASSUME Clicks(s) \/ CommitRequest(s) \/ Answer(s) PROVE Sending(s)'
      BY <2>5, <3>5 DEF Clicks, LoadApprove, LoadReject, LoadCorrect, LoadApproveAll, Load,
         Click, ClickReclassify, CommitRequest, Answer
    <3>6. ASSUME NEW r \in Sessions, r # s, Clicks(r) \/ Serve(r) \/ SendLost(r) PROVE Sending(s)'
      BY <2>5, <3>6 DEF ConsoleTyped, Clicks, LoadApprove, LoadReject, LoadCorrect,
         LoadApproveAll, Load, ClickReclassify, Serve, CommitRequest, SendFinalize, Answer, SendLost
    <3>7. ASSUME NEW w \in Workers, Work(w) \/ Interrupt(w) PROVE Sending(s)'
      BY <2>5, <3>7 DEF console, Work, Deliver, FinalizeLoad, PostAnswered, PostLost, PostRefused,
         Posting, FinalizeCommit, FinalizeRetry, BatchList, BatchDone, BatchSkip, BatchNotPending,
         BatchNext, BatchRefresh, BatchApprove, BatchCommit, BatchRetry, Ack, Interrupt, Crash,
         FinalizeAbort, BatchItemFails, Redeliver
    <3>8. QED
      BY <2>5, <3>1, <3>2, <3>3, <3>4, <3>5, <3>6, <3>7 DEF Next, Serve, vars
  <2>6. QED
    BY <1>0, <1>2, <2>1, <2>2, <2>3, <2>4, <2>5
<1>3. QED
  BY <1>1, <1>2

-----------------------------------------------------------------------------
(* The invariant, and what follows from it. *)

\* The invariant holds at the start.
LEMMA DeskInit == Init => DeskInv
<1> SUFFICES ASSUME Init PROVE DeskInv
  OBVIOUS
<1>1. TypeOK /\ DOMAIN loaded = Workers
  BY TypeInit
<1>2. \A w \in Workers : InPlace(w)
  BY DEF Init, InPlace
<1>3. RowLockExcludes /\ ImportedIsBooked
  BY DEF Init, RowLockExcludes, ImportedIsBooked
<1>4. NothingBookedUndecided
  <2> SUFFICES ASSUME NEW i \in Items
               PROVE  Len(ledger[i]) = 0 /\ forgotten[i] = 0 /\ posted = {}
    BY DEF NothingBookedUndecided
  <2>1. QED
    BY DEF Init
<1>5. \A i \in Items : items[i].status \notin Decided
  BY DEF Init, Decided
<1>6. QED
  BY <1>1, <1>2, <1>3, <1>4, <1>5 DEF DeskInv

\* The inductive invariant holds in every state.
THEOREM DeskInvHolds == Spec => []DeskInv
<1>1. DeskInv /\ [Next]_vars => DeskInv'
  BY TypesKept, PlaceStep, LockStep, ImportedStep, UndecidedStep, HandOnStep DEF DeskInv
<1>2. QED
  BY DeskInit, <1>1, PTL DEF Spec

\* Every variable of the console, the tables and the workers keeps its type.
THEOREM DeskTypeCorrect == Spec => []TypeOK
<1>1. DeskInv => TypeOK
  BY DEF DeskInv
<1>2. QED
  BY DeskInvHolds, <1>1, PTL

\* IMPORTED is recorded only of what Firefly holds, whoever posted it and
\* whatever crashed since.
THEOREM ImportedIsTrue == Spec => []ImportedIsBooked
<1>1. DeskInv => ImportedIsBooked
  BY DEF DeskInv
<1>2. QED
  BY DeskInvHolds, <1>1, PTL

\* Nothing is booked without a decision: what the ledger has of a pending item
\* is in the open transaction of the batch that has locked its row, or was
\* rolled back.
THEOREM DecisionBeforeBooking == Spec => []NothingBookedUndecided
<1>1. DeskInv => NothingBookedUndecided
  BY DEF DeskInv
<1>2. QED
  BY DeskInvHolds, <1>1, PTL

\* No decision is dropped between the console and the workers, unless the
\* process that was to send or to handle its message failed.
THEOREM NoDecisionIsDropped == Spec => []DecidedIsHandedOn
<1>1. ASSUME DeskInv PROVE DecidedIsHandedOn
  <2> SUFFICES ASSUME NEW i \in Items, items[i].status \in Decided
               PROVE  \/ rows[i] # "pending_review"
                      \/ i \in stranded
                      \/ \E m \in Finalizes : m.item = i /\ mail[m] > 0
                      \/ \E w \in Workers : msg[w] \in Finalizes /\ msg[w].item = i
                      \/ \E s \in Sessions : spc[s] = "send" /\ i \in request[s].picked
    BY DEF DecidedIsHandedOn
  <2>1. HandedOn(i)
    BY <1>1 DEF DeskInv
  <2>2. \A w \in Workers :
           pc[w] \in {"f_load", "f_post", "f_commit"} => msg[w] \in Finalizes
    BY <1>1 DEF DeskInv, InPlace
  <2>3. QED
    BY <2>1, <2>2 DEF HandedOn
<1>2. QED
  BY DeskInvHolds, <1>1, PTL

-----------------------------------------------------------------------------
(* A quiet desk: its inductive invariant. *)

\* A request that has loaded its items is alone, and they are still pending.
LoadedAlone(s) ==
    spc[s] = "loaded" =>
        /\ \A m \in Messages : mail[m] = 0
        /\ \A w \in Workers : pc[w] = "idle"
        /\ \A r \in Sessions \ {s} : spc[r] = "idle"
        /\ \A i \in request[s].picked : items[i].status = "pending"
        /\ request[s].verb = "correct" => request[s].category \in Categories

\* What it still has to send is decided, and not rejected by it.
SendsDecided(s) ==
    spc[s] = "send" =>
        /\ request[s].verb # "reject"
        /\ \A i \in request[s].picked : items[i].status # "pending"

\* What a worker's session holds, against what the item has become: an object
\* that is pending was at most approved since, by another batch, and what
\* finalize_review posts is what the decision says.
HoldsTrue(w) ==
    /\ pc[w] = "idle" => DOMAIN loaded[w] = {} /\ todo[w] = {}
    /\ todo[w] # {} => pc[w] \in {"r_next", "r_classify", "r_post", "r_commit", "r_retry", "ack"}
    /\ pc[w] \in {"r_classify", "r_post", "r_commit"} => cur[w] \notin todo[w]
    /\ \A i \in DOMAIN loaded[w] :
          loaded[w][i].status = "pending" => items[i].status \in {"pending", "approved"}
    /\ pc[w] \in {"r_post", "r_commit"} => loaded[w][cur[w]].status = "pending"
    /\ pc[w] = "f_post" =>
          /\ loaded[w][cur[w]].status \in Decided
          /\ items[cur[w]].status = loaded[w][cur[w]].status
          /\ items[cur[w]].corrected = loaded[w][cur[w]].corrected

\* The bookings of an item of which no record was rolled back, by its decision.
BooksTrue(i) ==
    /\ items[i].status = "corrected" =>
          /\ items[i].corrected \in Categories
          /\ Cardinality({k \in DOMAIN ledger[i] : ledger[i][k] # items[i].corrected})
                =< forgotten[i]
    /\ items[i].status = "rejected" => Len(ledger[i]) =< forgotten[i]
    /\ forgotten[i] =< faults

QuietInv ==
    /\ \A s \in Sessions : LoadedAlone(s) /\ SendsDecided(s)
    /\ \A w \in Workers : HoldsTrue(w)
    /\ \A i \in Items : BooksTrue(i)

-----------------------------------------------------------------------------
(* Requests, decisions and what the workers hold. *)

\* Every action of a worker that is idle, and every delivery.
LEMMA OnlyDeliver ==
  ASSUME NEW w \in Workers, pc[w] = "idle", Work(w) \/ Interrupt(w)
  PROVE  \E m \in Messages : Deliver(w, m) /\ mail[m] > 0
<1>1. ASSUME Interrupt(w) PROVE FALSE
  BY <1>1 DEF Interrupt, Crash, FinalizeAbort, BatchItemFails, Redeliver
<1>2. ASSUME Work(w), NEW m \in Messages, Deliver(w, m) PROVE mail[m] > 0
  BY <1>2 DEF Deliver
<1>3. QED
  BY <1>1, <1>2 DEF Work, FinalizeLoad, PostAnswered, PostLost, PostRefused, Posting,
     FinalizeCommit, FinalizeRetry, BatchList, BatchDone, BatchSkip, BatchNotPending, BatchNext,
     BatchRefresh, BatchApprove, BatchCommit, BatchRetry, Ack

\* A worker's step leaves the console alone.
LEMMA WorkersLeaveConsole ==
  ASSUME NEW w \in Workers, Work(w) \/ Interrupt(w) PROVE UNCHANGED <<spc, request>>
  BY DEF console, Work, Interrupt, Deliver, FinalizeLoad, PostAnswered, PostLost, PostRefused,
     Posting, FinalizeCommit, FinalizeRetry, BatchList, BatchDone, BatchSkip, BatchNotPending,
     BatchNext, BatchRefresh, BatchApprove, BatchCommit, BatchRetry, Ack, Crash, FinalizeAbort,
     BatchItemFails, Redeliver

\* A console step leaves the workers alone.
LEMMA ConsoleLeavesWorkers ==
  ASSUME NEW s \in Sessions, Clicks(s) \/ Serve(s) \/ SendLost(s)
  PROVE  UNCHANGED <<ledger, pc, msg, cur, loaded, todo, outcome, posted, forgotten, repeated>>
  BY DEF batch, budgets, history, Clicks, LoadApprove, LoadReject, LoadCorrect, LoadApproveAll,
     Load, ClickReclassify, Serve, CommitRequest, SendFinalize, Answer, SendLost

\* A worker's step leaves the other workers alone.
LEMMA OthersRest ==
  ASSUME DeskInv, NEW w \in Workers, NEW v \in Workers, w # v, Work(w) \/ Interrupt(w)
  PROVE  /\ pc'[v] = pc[v] /\ msg'[v] = msg[v] /\ cur'[v] = cur[v]
         /\ loaded'[v] = loaded[v] /\ todo'[v] = todo[v] /\ outcome'[v] = outcome[v]
<1> WorkersTyped /\ LoadedTyped
  BY TypeParts
<1> DEFINE Same == /\ pc'[v] = pc[v] /\ msg'[v] = msg[v] /\ cur'[v] = cur[v]
                   /\ loaded'[v] = loaded[v] /\ todo'[v] = todo[v] /\ outcome'[v] = outcome[v]
<1> USE DEF batch, Goto, LoadedTyped, WorkersTyped
<1>1. ASSUME NEW m \in Messages, Deliver(w, m) PROVE Same
  BY <1>1 DEF Deliver
<1>2. ASSUME FinalizeLoad(w) \/ FinalizeCommit(w) \/ FinalizeRetry(w) PROVE Same
  BY <1>2 DEF FinalizeLoad, FinalizeCommit, FinalizeRetry
<1>3. ASSUME PostAnswered(w) \/ PostLost(w) \/ PostRefused(w) PROVE Same
  BY <1>3 DEF PostAnswered, PostLost, PostRefused, Posting
<1>4. ASSUME BatchList(w) PROVE Same
  BY <1>4 DEF BatchList
<1>5. ASSUME NEW i \in Items, BatchNext(w, i) PROVE Same
  BY <1>5 DEF BatchNext
<1>6. ASSUME BatchDone(w) \/ BatchSkip(w) \/ BatchNotPending(w) PROVE Same
  BY <1>6 DEF BatchDone, BatchSkip, BatchNotPending
<1>7. ASSUME BatchCommit(w) \/ BatchRetry(w) PROVE Same
  BY <1>7 DEF BatchCommit, BatchRetry
<1>8. ASSUME NEW c \in Categories, BatchRefresh(w, c) \/ BatchApprove(w, c) PROVE Same
  BY <1>8 DEF BatchRefresh, BatchApprove
<1>9. ASSUME Ack(w) \/ Crash(w) PROVE Same
  BY <1>9 DEF Ack, Crash, CloseSession
<1>10. ASSUME FinalizeAbort(w) \/ BatchItemFails(w) \/ Redeliver(w) PROVE Same
  BY <1>10 DEF FinalizeAbort, BatchItemFails, Redeliver
<1>11. QED
  BY <1>1, <1>2, <1>3, <1>4, <1>5, <1>6, <1>7, <1>8, <1>9, <1>10 DEF Work, Interrupt

\* A click in quiet use finds everything idle; what it does is one Load, or one message.
LEMMA ClickCases ==
  ASSUME Quiet, NEW s \in Sessions, Clicks(s)
  PROVE  /\ AllQuiet /\ UNCHANGED <<items, pc>>
         /\ \/ ClickReclassify(s)
            \/ \E verb \in AllVerbs, picked \in SUBSET Items,
                  category \in Categories \union {NoCategory} :
                  /\ Load(s, verb, picked, category)
                  /\ verb = "correct" => category \in Categories
<1>1. \/ ClickReclassify(s)
      \/ \E verb \in AllVerbs, picked \in SUBSET Items,
            category \in Categories \union {NoCategory} :
            /\ Load(s, verb, picked, category)
            /\ verb = "correct" => category \in Categories
  BY DEF Clicks, LoadApprove, LoadReject, LoadCorrect, LoadApproveAll, AllVerbs
<1>2. QED
  BY <1>1 DEF ClickReclassify, Load, Click

\* A request that has loaded stays alone until it commits, and then has only
\* decided items to send.
LEMMA AloneStep ==
  ASSUME Quiet, DeskInv, QuietInv, [Next]_vars, NEW s \in Sessions
  PROVE  LoadedAlone(s)' /\ SendsDecided(s)'
<1> /\ TablesTyped /\ ConsoleTyped /\ LoadedAlone(s) /\ SendsDecided(s)
    /\ \A r \in Sessions : LoadedAlone(r)
  BY TypeParts DEF QuietInv
<1> USE DEF ConsoleTyped
<1>1. ASSUME NEW verb \in AllVerbs, NEW picked \in SUBSET Items,
             NEW category \in Categories \union {NoCategory}, Load(s, verb, picked, category),
             verb = "correct" => category \in Categories
      PROVE  LoadedAlone(s)' /\ SendsDecided(s)'
  <2>1. AllQuiet
    BY <1>1 DEF Load, Click
  <2>2. spc'[s] = "loaded" /\ request'[s] = [verb |-> verb, picked |-> picked, category |-> category]
    BY <1>1 DEF Load
  <2>3. QED
    BY <1>1, <2>1, <2>2 DEF Load, LoadedAlone, SendsDecided, AllQuiet
<1>2. ASSUME CommitRequest(s) PROVE LoadedAlone(s)' /\ SendsDecided(s)'
  <2>1. /\ spc'[s] \in {"idle", "send"}
        /\ spc'[s] = "send" => request'[s] = request[s] /\ request[s].verb # "reject"
    BY <1>2 DEF CommitRequest
  <2>2. \A i \in request[s].picked : items'[i].status # "pending"
    BY <1>2 DEF CommitRequest, StatusAfter, TablesTyped, Item
  <2>3. QED
    BY <2>1, <2>2 DEF LoadedAlone, SendsDecided
<1>3. ASSUME SendLost(s) \/ Answer(s) PROVE LoadedAlone(s)' /\ SendsDecided(s)'
  <2>1. spc'[s] = "idle"
    BY <1>3 DEF SendLost, Answer
  <2>2. QED
    BY <2>1 DEF LoadedAlone, SendsDecided
<1>4. ASSUME NEW i \in Items, SendFinalize(s, i) PROVE LoadedAlone(s)' /\ SendsDecided(s)'
  <2>1. /\ spc'[s] = "send" /\ items' = items /\ request'[s].verb = request[s].verb
        /\ request'[s].picked \subseteq request[s].picked
    BY <1>4 DEF SendFinalize
  <2>2. spc[s] = "send"
    BY <1>4 DEF SendFinalize
  <2>3. QED
    BY <2>1, <2>2 DEF LoadedAlone, SendsDecided
<1> DEFINE Same == UNCHANGED <<spc, request>>
<1>5. ASSUME spc[s] = "loaded", NEW w \in Workers, Work(w) \/ Interrupt(w) PROVE FALSE
  BY <1>5, OnlyDeliver DEF LoadedAlone
<1>6. ASSUME spc'[s] = spc[s], request'[s] = request[s], spc[s] # "loaded"
      PROVE  LoadedAlone(s)' /\ SendsDecided(s)'
  BY <1>6, NoWayBack DEF LoadedAlone, SendsDecided
<1>7. ASSUME NEW r \in Sessions, r # s, Clicks(r) \/ Serve(r) \/ SendLost(r)
      PROVE  LoadedAlone(s)' /\ SendsDecided(s)'
  <2>1. spc[s] # "loaded"
    <3>1. ASSUME Clicks(r) PROVE spc[s] = "idle"
      BY <3>1, ClickCases DEF AllQuiet
    <3>2. ASSUME Serve(r) \/ SendLost(r) PROVE spc[r] # "idle"
      BY <3>2 DEF Serve, CommitRequest, SendFinalize, Answer, SendLost
    <3>3. QED
      BY <1>7, <3>1, <3>2 DEF LoadedAlone
  <2>2. spc'[s] = spc[s] /\ request'[s] = request[s]
    BY <1>7 DEF Clicks, LoadApprove, LoadReject, LoadCorrect, LoadApproveAll, Load,
       ClickReclassify, Serve, CommitRequest, SendFinalize, Answer, SendLost
  <2>3. QED
    BY <1>6, <2>1, <2>2
<1>8. ASSUME NEW w \in Workers, Work(w) \/ Interrupt(w) PROVE LoadedAlone(s)' /\ SendsDecided(s)'
  BY <1>5, <1>6, <1>8, WorkersLeaveConsole
<1>9. ASSUME ClickReclassify(s) PROVE LoadedAlone(s)' /\ SendsDecided(s)'
  <2>1. spc'[s] = "idle"
    BY <1>9 DEF ClickReclassify, Click
  <2>2. QED
    BY <2>1 DEF LoadedAlone, SendsDecided
<1>10. ASSUME UNCHANGED vars PROVE LoadedAlone(s)' /\ SendsDecided(s)'
  <2>1. /\ mail' = mail /\ pc' = pc /\ spc' = spc /\ items' = items /\ request' = request
    BY <1>10 DEF vars
  <2>2. QED
    BY <2>1 DEF LoadedAlone, SendsDecided
<1>11. ASSUME Clicks(s) PROVE LoadedAlone(s)' /\ SendsDecided(s)'
  BY <1>1, <1>9, <1>11, ClickCases
<1>12. QED
  BY <1>2, <1>3, <1>4, <1>7, <1>8, <1>10, <1>11 DEF Next, Serve

\* What a worker's commit may do to an item: refresh the suggestion, or approve it
\* while it is pending.
Undisturbed(i) ==
    /\ items'[i].corrected = items[i].corrected
    /\ \/ items'[i].status = items[i].status
       \/ items[i].status = "pending" /\ items'[i].status = "approved"

\* A commit of the console comes while every worker is idle, and decides what is
\* still pending; nothing else disturbs an item.
LEMMA Decisions ==
  ASSUME Quiet, DeskInv, QuietInv, [Next]_vars, NEW i \in Items
  PROVE  \/ Undisturbed(i)
         \/ \E s \in Sessions :
               /\ CommitRequest(s) /\ i \in request[s].picked
               /\ \A w \in Workers : pc[w] = "idle"
               /\ items[i].status = "pending"
               /\ request[s].verb = "correct" => request[s].category \in Categories
<1> /\ TablesTyped /\ WorkersTyped /\ LoadedTyped
    /\ \A w \in Workers : InPlace(w) /\ HoldsTrue(w)
    /\ \A s \in Sessions : LoadedAlone(s)
  BY TypeParts DEF QuietInv, DeskInv
<1>1. ASSUME NEW s \in Sessions, CommitRequest(s), i \notin request[s].picked
      PROVE  Undisturbed(i)
  BY <1>1 DEF CommitRequest, Undisturbed
<1>2. ASSUME NEW s \in Sessions, CommitRequest(s), i \in request[s].picked
      PROVE  /\ \A w \in Workers : pc[w] = "idle"
             /\ items[i].status = "pending"
             /\ request[s].verb = "correct" => request[s].category \in Categories
  BY <1>2 DEF CommitRequest, LoadedAlone
<1>3. ASSUME NEW w \in Workers, BatchCommit(w) PROVE Undisturbed(i)
  <2>1. /\ cur[w] \in Items /\ items[cur[w]].status \in {"pending", "approved"}
    BY <1>3 DEF BatchCommit, InPlace, HoldsTrue, LoadedTyped
  <2>2. items'[i] = items[i] \/ (i = cur[w] /\ items'[i].status = "approved"
                                     /\ items'[i].corrected = items[i].corrected)
    BY <1>3, <2>1 DEF BatchCommit, TablesTyped, Item
  <2>3. QED
    BY <2>1, <2>2 DEF Undisturbed
<1>4. ASSUME NEW w \in Workers, NEW c \in Categories, BatchRefresh(w, c) PROVE Undisturbed(i)
  BY <1>4 DEF BatchRefresh, Undisturbed, TablesTyped, Item
<1>5. ASSUME items' = items PROVE Undisturbed(i)
  BY <1>5 DEF Undisturbed
<1>6. ASSUME NEW s \in Sessions, Clicks(s) PROVE items' = items
  BY <1>6 DEF Clicks, LoadApprove, LoadReject, LoadCorrect, LoadApproveAll, Load, ClickReclassify
<1>7. ASSUME NEW s \in Sessions, Serve(s) \/ SendLost(s), ~CommitRequest(s) PROVE items' = items
  BY <1>7 DEF Serve, SendFinalize, Answer, SendLost
<1>8. ASSUME NEW w \in Workers, Work(w)
      PROVE  items' = items \/ BatchCommit(w) \/ \E c \in Categories : BatchRefresh(w, c)
  BY <1>8 DEF Work, Deliver, FinalizeLoad, PostAnswered, PostLost, PostRefused, Posting,
     FinalizeCommit, FinalizeRetry, BatchList, BatchDone, BatchSkip, BatchNotPending, BatchNext,
     BatchApprove, BatchRetry, Ack
<1>9. ASSUME NEW w \in Workers, Interrupt(w) PROVE items' = items
  BY <1>9 DEF Interrupt, Crash, FinalizeAbort, BatchItemFails, Rollback, Redeliver
<1>10. UNCHANGED vars => items' = items
  BY DEF vars
<1>11. QED
  BY <1>1, <1>2, <1>3, <1>4, <1>5, <1>6, <1>7, <1>8, <1>9, <1>10 DEF Next

\* What an item has become still fits the objects a worker holds, and what it is
\* about to post.
LEMMA ObjectsStayTrue ==
  ASSUME Quiet, DeskInv, QuietInv, [Next]_vars, NEW v \in Workers, pc[v] # "idle",
         NEW i \in DOMAIN loaded[v]
  PROVE  /\ i \in Items
         /\ items'[i].corrected = items[i].corrected
         /\ items[i].status \in {"pending", "approved"} => items'[i].status \in {"pending", "approved"}
         /\ items[i].status \in Decided => items'[i].status = items[i].status
<1>1. i \in Items
  BY TypeParts DEF LoadedTyped
<1>2. Undisturbed(i)
  BY <1>1, Decisions
<1>3. QED
  BY <1>1, <1>2 DEF Undisturbed, Decided

\* A worker to which nothing happens holds what is true.
LEMMA HoldsUntouched ==
  ASSUME Quiet, DeskInv, QuietInv, [Next]_vars, NEW v \in Workers,
         pc'[v] = pc[v], cur'[v] = cur[v], loaded'[v] = loaded[v], todo'[v] = todo[v]
  PROVE  HoldsTrue(v)'
<1> HoldsTrue(v) /\ InPlace(v)
  BY DEF QuietInv, DeskInv
<1>1. CASE pc[v] = "idle"
  BY <1>1 DEF HoldsTrue
<1>2. CASE pc[v] # "idle"
  <2>1. pc[v] = "f_post" => cur[v] \in DOMAIN loaded[v]
    BY DEF InPlace
  <2>2. \A i \in DOMAIN loaded[v] :
           loaded[v][i].status = "pending" => items'[i].status \in {"pending", "approved"}
    BY <1>2, ObjectsStayTrue DEF HoldsTrue
  <2>3. pc[v] = "f_post" =>
           /\ items'[cur[v]].status = loaded[v][cur[v]].status
           /\ items'[cur[v]].corrected = loaded[v][cur[v]].corrected
    BY <1>2, <2>1, ObjectsStayTrue DEF HoldsTrue
  <2>4. QED
    BY <2>2, <2>3 DEF HoldsTrue
<1>3. QED
  BY <1>1, <1>2

\* Every step, of its own or of another's, leaves a worker with objects that are true.
LEMMA HoldsStep ==
  ASSUME Quiet, DeskInv, QuietInv, [Next]_vars, NEW v \in Workers
  PROVE  HoldsTrue(v)'
<1> /\ TablesTyped /\ WorkersTyped /\ LoadedTyped /\ InPlace(v) /\ HoldsTrue(v)
    /\ WorkersTyped' /\ LoadedTyped'
  BY TypeParts, WorkersStep, LoadedStep DEF QuietInv, DeskInv
<1> DEFINE Same(w) == /\ pc'[w] = pc[w] /\ cur'[w] = cur[w]
                      /\ loaded'[w] = loaded[w] /\ todo'[w] = todo[w]
           Pending == \A i \in DOMAIN loaded'[v] :
                         loaded'[v][i].status = "pending"
                             => items'[i].status \in {"pending", "approved"}
<1> USE DEF batch, Goto, LoadedTyped, WorkersTyped
<1>1. ASSUME loaded'[v] = loaded[v], pc[v] # "idle" PROVE Pending
  BY <1>1, ObjectsStayTrue DEF HoldsTrue
<1>2. ASSUME NEW m \in Messages, Deliver(v, m) PROVE HoldsTrue(v)'
  BY <1>2 DEF Deliver, HoldsTrue
<1>3. ASSUME FinalizeLoad(v) PROVE HoldsTrue(v)'
  <2>1. /\ loaded'[v] = [j \in {msg[v].item} |-> items[j]] /\ cur'[v] = msg[v].item
        /\ items' = items /\ todo'[v] = todo[v]
        /\ pc'[v] = IF items[msg[v].item].status \in Decided THEN "f_post" ELSE "ack"
    BY <1>3 DEF FinalizeLoad
  <2>2. todo[v] = {}
    BY <1>3 DEF FinalizeLoad, HoldsTrue
  <2>3. Pending
    BY <2>1
  <2>4. QED
    BY <2>1, <2>2, <2>3 DEF HoldsTrue
<1>4. ASSUME PostAnswered(v) \/ PostLost(v) \/ PostRefused(v) PROVE HoldsTrue(v)'
  <2>1. Pending
    BY <1>1, <1>4 DEF PostAnswered, PostLost, PostRefused, Posting
  <2>2. QED
    BY <1>4, <2>1 DEF PostAnswered, PostLost, PostRefused, Posting, HoldsTrue
<1>5. ASSUME FinalizeCommit(v) \/ FinalizeRetry(v) \/ FinalizeAbort(v) PROVE HoldsTrue(v)'
  <2>1. Pending
    BY <1>1, <1>5 DEF FinalizeCommit, FinalizeRetry, FinalizeAbort
  <2>2. QED
    BY <1>5, <2>1 DEF FinalizeCommit, FinalizeRetry, FinalizeAbort, HoldsTrue
<1>6. ASSUME BatchList(v) PROVE HoldsTrue(v)'
  <2>1. /\ pc'[v] = "r_next" /\ items' = items
        /\ todo'[v] = {i \in Items : items[i].status = "pending"}
        /\ loaded'[v] = [i \in todo'[v] |-> items[i]]
    BY <1>6 DEF BatchList
  <2>2. QED
    BY <2>1 DEF HoldsTrue
<1>7. ASSUME NEW i \in Items, BatchNext(v, i) PROVE HoldsTrue(v)'
  <2>1. /\ pc[v] = "r_next" /\ pc'[v] = "r_classify" /\ items' = items
        /\ todo'[v] = todo[v] \ {i} /\ cur'[v] = i
        /\ loaded'[v] = IF v \in stale THEN [j \in todo[v] |-> loaded[v][j]]
                        ELSE [j \in {i} |-> items[j]]
    BY <1>7 DEF BatchNext
  <2>2. CASE v \in stale
    <3>1. todo[v] \subseteq DOMAIN loaded[v]
      BY <2>2 DEF InPlace
    <3>2. Pending
      BY <2>1, <2>2, <3>1 DEF HoldsTrue
    <3>3. QED
      BY <2>1, <3>2 DEF HoldsTrue
  <2>3. CASE v \notin stale
    <3>1. Pending
      BY <2>1, <2>3
    <3>2. QED
      BY <2>1, <3>1 DEF HoldsTrue
  <2>4. QED
    BY <2>2, <2>3
<1>8. ASSUME BatchDone(v) \/ BatchSkip(v) \/ BatchNotPending(v) \/ BatchRetry(v) \/ BatchItemFails(v)
      PROVE  HoldsTrue(v)'
  <2>1. Pending
    BY <1>1, <1>8 DEF BatchDone, BatchSkip, BatchNotPending, BatchRetry, BatchItemFails
  <2>2. QED
    BY <1>8, <2>1 DEF BatchDone, BatchSkip, BatchNotPending, BatchRetry, BatchItemFails, HoldsTrue
<1>9. ASSUME NEW c \in Categories, BatchRefresh(v, c) \/ BatchApprove(v, c) PROVE HoldsTrue(v)'
  <2>1. Pending
    BY <1>1, <1>9 DEF BatchRefresh, BatchApprove
  <2>2. QED
    BY <1>9, <2>1 DEF BatchRefresh, BatchApprove, HoldsTrue
<1>10. ASSUME BatchCommit(v) PROVE HoldsTrue(v)'
  <2>1. Pending
    BY <1>1, <1>10 DEF BatchCommit
  <2>2. pc'[v] \in {"r_retry", "r_next"} /\ todo' = todo /\ loaded' = loaded
    BY <1>10 DEF BatchCommit
  <2>3. QED
    BY <2>1, <2>2 DEF HoldsTrue
<1>11. ASSUME Ack(v) \/ Crash(v) PROVE HoldsTrue(v)'
  <2>1. pc'[v] = "idle" /\ loaded'[v] = <<>> /\ todo'[v] = {}
    BY <1>11 DEF Ack, Crash, CloseSession
  <2>2. QED
    BY <2>1 DEF HoldsTrue
<1>12. ASSUME NEW w \in Workers, w # v, Work(w) \/ Interrupt(w) PROVE Same(v)
  BY <1>12, OthersRest
<1>13. ASSUME NEW s \in Sessions, Clicks(s) \/ Serve(s) \/ SendLost(s) PROVE Same(v)
  BY <1>13, ConsoleLeavesWorkers
<1>14. ASSUME Redeliver(v) \/ UNCHANGED vars PROVE Same(v)
  BY <1>14 DEF Redeliver, vars
<1>15. ASSUME Same(v) PROVE HoldsTrue(v)'
  BY <1>15, HoldsUntouched
<1>16. QED
  BY <1>2, <1>3, <1>4, <1>5, <1>6, <1>7, <1>8, <1>9, <1>10, <1>11, <1>12, <1>13, <1>14, <1>15
     DEF Next, Work, Interrupt

-----------------------------------------------------------------------------
(* What is booked of a decided item. *)

\* The entries of a ledger that are not of one category.
Others(entries, c) == {k \in DOMAIN entries : entries[k] # c}

\* There are at most as many as entries; one more of that category adds none.
LEMMA OthersBounded ==
  ASSUME NEW entries \in Seq(Categories), NEW c
  PROVE  /\ Cardinality(Others(entries, c)) =< Len(entries)
         /\ Cardinality(Others(entries, c)) \in Nat
<1>1. /\ DOMAIN entries = 1 .. Len(entries) /\ Len(entries) \in Nat
  OBVIOUS
<1>2. IsFiniteSet(1 .. Len(entries)) /\ Cardinality(1 .. Len(entries)) = Len(entries)
  <2>1. 1 \in Int /\ Len(entries) \in Int
    BY <1>1
  <2>2. QED
    BY <1>1, <2>1, FS_Interval
<1>3. Others(entries, c) \subseteq 1 .. Len(entries)
  BY <1>1 DEF Others
<1>4. QED
  BY <1>2, <1>3, FS_Subset, FS_CardinalityType

LEMMA OthersKept ==
  ASSUME NEW entries \in Seq(Categories), NEW c \in Categories
  PROVE  Others(Append(entries, c), c) = Others(entries, c)
<1>1. /\ Len(Append(entries, c)) = Len(entries) + 1
      /\ DOMAIN Append(entries, c) = 1 .. Len(entries) + 1
      /\ DOMAIN entries = 1 .. Len(entries) /\ Len(entries) \in Nat
      /\ Append(entries, c)[Len(entries) + 1] = c
      /\ \A k \in 1 .. Len(entries) : Append(entries, c)[k] = entries[k]
  OBVIOUS
<1>2. QED
  BY <1>1 DEF Others

\* What the ledger of an item becomes: the same, or one booking more by a worker that
\* posts it.
LEMMA Bookings ==
  ASSUME DeskInv, [Next]_vars, NEW i \in Items
  PROVE  \/ ledger'[i] = ledger[i]
         \/ \E w \in Workers :
               /\ PostAnswered(w) \/ PostLost(w)
               /\ pc[w] \in {"f_post", "r_post"} /\ cur[w] = i /\ Category(w) \in Categories
               /\ ledger'[i] = Append(ledger[i], Category(w))
               /\ Len(ledger'[i]) = Len(ledger[i]) + 1
               /\ UNCHANGED <<items, forgotten, faults>>
<1> TablesTyped /\ LoadedTyped /\ \A w \in Workers : InPlace(w)
  BY TypeParts DEF DeskInv
<1>1. ASSUME NEW w \in Workers, PostAnswered(w) \/ PostLost(w), ledger'[i] # ledger[i]
      PROVE  /\ pc[w] \in {"f_post", "r_post"} /\ cur[w] = i /\ Category(w) \in Categories
             /\ ledger'[i] = Append(ledger[i], Category(w))
             /\ Len(ledger'[i]) = Len(ledger[i]) + 1
             /\ UNCHANGED <<items, forgotten, faults>>
  <2>1. /\ pc[w] \in {"f_post", "r_post"} /\ UNCHANGED <<items, forgotten, faults>>
        /\ ledger' = [ledger EXCEPT ![cur[w]] = Append(@, Category(w))]
    BY <1>1 DEF PostAnswered, PostLost, Posting, Booking, history
  <2>2. cur[w] = i
    BY <1>1, <2>1 DEF TablesTyped
  <2>3. ledger'[i] = Append(ledger[i], Category(w))
    BY <2>1, <2>2 DEF TablesTyped
  <2>4. Category(w) \in Categories
    <3>1. loaded[w][cur[w]] \in Item
      BY <2>1 DEF InPlace, LoadedTyped
    <3>2. QED
      BY <2>1, <3>1, ItemUpdates DEF InPlace, Category
  <2>5. QED
    BY <2>1, <2>2, <2>3, <2>4, BookingTypes
<1>2. ASSUME \A w \in Workers : ~(PostAnswered(w) \/ PostLost(w)) PROVE ledger' = ledger
  <2>1. ASSUME NEW w \in Workers, Work(w) PROVE ledger' = ledger
    BY <1>2, <2>1 DEF Work, Deliver, FinalizeLoad, PostRefused, FinalizeCommit, FinalizeRetry,
       BatchList, BatchDone, BatchSkip, BatchNotPending, BatchNext, BatchRefresh, BatchApprove,
       BatchCommit, BatchRetry, Ack
  <2>2. ASSUME NEW w \in Workers, Interrupt(w) PROVE ledger' = ledger
    BY <2>2 DEF Interrupt, Crash, FinalizeAbort, BatchItemFails, Rollback, Redeliver
  <2>3. QED
    BY <2>1, <2>2, ConsoleLeavesWorkers DEF Next, vars
<1>3. QED
  BY <1>1, <1>2

\* A booking is forgotten by a fault, and never found again.
LEMMA Forgetting ==
  ASSUME DeskInv, [Next]_vars, NEW i \in Items
  PROVE  /\ forgotten'[i] \in {forgotten[i], forgotten[i] + 1} /\ faults' \in {faults, faults + 1}
         /\ forgotten'[i] # forgotten[i] => faults' = faults + 1
<1> TablesTyped /\ ConsoleTyped
  BY TypeParts
<1>1. ASSUME NEW w \in Workers, Crash(w) \/ FinalizeAbort(w) \/ BatchItemFails(w)
      PROVE  /\ faults' = faults + 1
             /\ forgotten'[i] \in {forgotten[i], forgotten[i] + 1}
  BY <1>1 DEF Crash, FinalizeAbort, BatchItemFails, Fault, Rollback, TablesTyped
<1>2. \/ \E w \in Workers : Crash(w) \/ FinalizeAbort(w) \/ BatchItemFails(w)
      \/ forgotten' = forgotten /\ faults' \in {faults, faults + 1}
  <2>1. ASSUME NEW s \in Sessions, Clicks(s) \/ Serve(s) \/ SendLost(s)
        PROVE  faults' \in {faults, faults + 1}
    BY <2>1 DEF Clicks, LoadApprove, LoadReject, LoadCorrect, LoadApproveAll, Load,
       ClickReclassify, Serve, CommitRequest, SendFinalize, Answer, SendLost, Fault, budgets
  <2>2. ASSUME NEW w \in Workers, Work(w)
        PROVE  forgotten' = forgotten /\ faults' = faults
    BY <2>2 DEF Work, Deliver, FinalizeLoad, PostAnswered, PostLost, PostRefused, Posting,
       FinalizeCommit, FinalizeRetry, BatchList, BatchDone, BatchSkip, BatchNotPending, BatchNext,
       BatchRefresh, BatchApprove, BatchCommit, BatchRetry, Ack, budgets, history
  <2>3. ASSUME NEW w \in Workers, Redeliver(w)
        PROVE  forgotten' = forgotten /\ faults' = faults + 1
    BY <2>3 DEF Redeliver, Fault, history
  <2>4. ASSUME UNCHANGED vars PROVE forgotten' = forgotten /\ faults' = faults
    BY <2>4 DEF vars
  <2>5. QED
    BY <2>1, <2>2, <2>3, <2>4, ConsoleLeavesWorkers DEF Next, Interrupt
<1>3. QED
  BY <1>1, <1>2

\* A decision leaves the item with no booking but the forgotten; finalize_review
\* books what was decided, and a batch only what is not.
LEMMA BooksStep ==
  ASSUME Quiet, DeskInv, QuietInv, [Next]_vars, NEW i \in Items
  PROVE  BooksTrue(i)'
<1> /\ TablesTyped /\ ConsoleTyped /\ WorkersTyped /\ LoadedTyped
    /\ TablesTyped' /\ ConsoleTyped'
    /\ BooksTrue(i) /\ \A w \in Workers : InPlace(w) /\ HoldsTrue(w)
  BY TypeParts, TablesStep, ConsoleStep DEF QuietInv, DeskInv
<1>1. forgotten[i] =< forgotten'[i] /\ forgotten'[i] =< faults'
  BY Forgetting, ReviewAssumption DEF BooksTrue, TablesTyped, ConsoleTyped
<1>2. ASSUME NEW s \in Sessions, CommitRequest(s), i \in request[s].picked,
             \A w \in Workers : pc[w] = "idle", items[i].status = "pending",
             request[s].verb = "correct" => request[s].category \in Categories
      PROVE  BooksTrue(i)'
  <2>1. Len(ledger[i]) =< forgotten[i]
    <3>1. ~\E w \in posted : cur[w] = i /\ pc[w] = "r_commit"
      BY <1>2 DEF WorkersTyped
    <3>2. Len(ledger[i]) =< forgotten[i] + 0
      BY <1>2, <3>1 DEF DeskInv, NothingBookedUndecided
    <3>3. QED
      BY <3>2 DEF TablesTyped
  <2>2. ledger' = ledger /\ forgotten' = forgotten
    BY <1>2 DEF CommitRequest, history
  <2>3. /\ items'[i].status = StatusAfter(request[s].verb)
        /\ request[s].verb = "correct" => items'[i].corrected = request[s].category
    <3>1. items[i] \in Item
      BY DEF TablesTyped
    <3>2. items'[i] = [items[i] EXCEPT !.status = StatusAfter(request[s].verb),
                         !.corrected = IF request[s].verb = "correct"
                                         THEN request[s].category ELSE @]
      BY <1>2 DEF CommitRequest
    <3>3. QED
      BY <3>1, <3>2 DEF Item
  <2>4. items'[i].status = "corrected" => items'[i].corrected \in Categories
    BY <1>2, <2>3 DEF StatusAfter
  <2>5. Cardinality(Others(ledger[i], items'[i].corrected)) =< forgotten[i]
    BY <2>1, OthersBounded DEF TablesTyped
  <2>6. QED
    BY <1>1, <2>1, <2>2, <2>4, <2>5 DEF BooksTrue, Others
<1>3. ASSUME Undisturbed(i) PROVE BooksTrue(i)'
  <2>0. /\ items'[i].status \in {"corrected", "rejected"} => items'[i].status = items[i].status
        /\ items'[i].corrected = items[i].corrected
    BY <1>3 DEF Undisturbed
  <2>1. CASE ledger'[i] = ledger[i]
    <3>1. Cardinality(Others(ledger[i], items[i].corrected)) \in Nat
      BY OthersBounded DEF TablesTyped
    <3>2. items[i].status = "corrected"
             => Cardinality(Others(ledger[i], items[i].corrected)) =< forgotten[i]
      BY DEF BooksTrue, Others
    <3>3. items'[i].status = "corrected"
             => Cardinality(Others(ledger'[i], items'[i].corrected)) =< forgotten'[i]
      BY <1>1, <2>0, <2>1, <3>1, <3>2 DEF TablesTyped
    <3>4. items'[i].status = "rejected" => Len(ledger'[i]) =< forgotten'[i]
      BY <1>1, <2>0, <2>1 DEF BooksTrue, TablesTyped
    <3>5. QED
      BY <1>1, <2>0, <3>3, <3>4 DEF BooksTrue, Others
  <2>2. ASSUME NEW w \in Workers, pc[w] \in {"f_post", "r_post"}, cur[w] = i,
               Category(w) \in Categories, ledger'[i] = Append(ledger[i], Category(w)),
               UNCHANGED <<items, forgotten>>
        PROVE  BooksTrue(i)'
    <3>1. items[i].status # "rejected"
      BY <2>2 DEF HoldsTrue, InPlace, Decided
    <3>2. items[i].status = "corrected" => Category(w) = items[i].corrected
      <4>1. pc[w] = "r_post" => items[i].status \in {"pending", "approved"}
        BY <2>2 DEF HoldsTrue, InPlace
      <4>2. ASSUME pc[w] = "f_post", items[i].status = "corrected"
            PROVE  loaded[w][cur[w]].corrected = items[i].corrected
                     /\ items[i].corrected # NoCategory
        BY <2>2, <4>2, ReviewAssumption DEF HoldsTrue, BooksTrue
      <4>3. QED
        BY <2>2, <4>1, <4>2 DEF Category
    <3>3. items[i].status = "corrected"
             => Others(ledger'[i], items[i].corrected) = Others(ledger[i], items[i].corrected)
      BY <2>2, <3>2, OthersKept DEF TablesTyped
    <3>4. items[i].status = "corrected"
             => Cardinality(Others(ledger[i], items[i].corrected)) =< forgotten[i]
      BY DEF BooksTrue, Others
    <3>5. items'[i].status = "corrected"
             => /\ items'[i].corrected \in Categories
                /\ Cardinality(Others(ledger'[i], items'[i].corrected)) =< forgotten'[i]
      BY <2>2, <3>3, <3>4 DEF BooksTrue
    <3>6. items'[i].status # "rejected"
      BY <2>2, <3>1
    <3>7. QED
      BY <1>1, <3>5, <3>6 DEF BooksTrue, Others
  <2>3. QED
    BY <2>1, <2>2, Bookings
<1>4. QED
  BY <1>2, <1>3, Decisions

-----------------------------------------------------------------------------
(* The invariant, and what follows from it. *)

LEMMA QuietInit == Init => QuietInv
<1> SUFFICES ASSUME Init PROVE QuietInv
  OBVIOUS
<1>1. \A s \in Sessions : LoadedAlone(s) /\ SendsDecided(s)
  BY DEF Init, LoadedAlone, SendsDecided
<1>2. \A w \in Workers : HoldsTrue(w)
  BY DEF Init, HoldsTrue
<1>3. \A i \in Items : BooksTrue(i)
  BY DEF Init, BooksTrue
<1>4. QED
  BY <1>1, <1>2, <1>3 DEF QuietInv

\* In quiet use the invariant holds in every state.
THEOREM QuietInvHolds == ASSUME Quiet PROVE Spec => [](DeskInv /\ QuietInv)
<1>1. DeskInv /\ QuietInv /\ [Next]_vars => QuietInv'
  BY AloneStep, HoldsStep, BooksStep DEF QuietInv
<1>2. QED
  BY DeskInvHolds, QuietInit, <1>1, PTL DEF Spec

\* routes_review.py:374 in quiet use: Firefly holds nothing of a rejected item but what
\* was booked and rolled back before the rejection.
THEOREM RejectedStaysOut == ASSUME Quiet PROVE Spec => []RejectedNotBooked
<1>1. QuietInv => RejectedNotBooked
  BY DEF QuietInv, BooksTrue, RejectedNotBooked
<1>2. QED
  BY QuietInvHolds, <1>1, PTL

\* In quiet use every booking of a corrected item has the corrected category, but for
\* those that were rolled back.
THEOREM CorrectionsAreBooked == ASSUME Quiet PROVE Spec => []BookedAsCorrected
<1>1. QuietInv => BookedAsCorrected
  BY DEF QuietInv, BooksTrue, BookedAsCorrected
<1>2. QED
  BY QuietInvHolds, <1>1, PTL

\* review.py:1 in quiet use: a decision is final.
THEOREM DecisionsAreFinal == ASSUME Quiet PROVE Spec => DecisionIsFinal
<1>1. DeskInv /\ QuietInv /\ [Next]_vars
         => [\A i \in Items : items[i].status # "pending"
                                => items'[i].status = items[i].status]_vars
  <2> SUFFICES ASSUME DeskInv, QuietInv, [Next]_vars, NEW i \in Items, items[i].status # "pending"
               PROVE  items'[i].status = items[i].status
    OBVIOUS
  <2>1. QED
    BY Decisions DEF Undisturbed
<1>2. QED
  BY QuietInvHolds, <1>1, PTL DEF Spec, DecisionIsFinal

-----------------------------------------------------------------------------
(* What may still book an item. *)

\* A finalize of the item, and a batch as long as it would find it pending.
Concerns(m, i) ==
    \/ m.kind = "finalize" /\ m.item = i
    \/ m.kind = "reclassify" /\ items[i].status = "pending"

\* The copies of such messages in the broker.
Copies(i) == {c \in Messages \X Nat : c[2] \in 1 .. mail[c[1]] /\ Concerns(c[1], i)}

\* The worker has the item before it, or is in the transaction that books it.
Before(w, i) ==
    \/ pc[w] \in {"f_load", "f_post", "f_retry"} /\ msg[w].item = i
    \/ pc[w] = "f_commit" /\ msg[w].item = i /\ outcome[w] = "failed"
    \/ pc[w] = "r_list" /\ items[i].status = "pending"
    \/ pc[w] \in {"r_classify", "r_post"} /\ cur[w] = i
    \/ i \in todo[w]

\* The request has yet to enqueue such a message.
Owes(s, i) ==
    /\ spc[s] \in {"loaded", "send"}
    /\ \/ i \in request[s].picked /\ request[s].verb # "reject"
       \/ i \notin request[s].picked /\ request[s].verb = "correct"
             /\ items[i].status = "pending"

Runs(i) == {w \in Workers : Before(w, i)}
Sends(i) == {s \in Sessions : Owes(s, i)}

\* The bookings of an item that are still excused.
Room(i) == 1 + forgotten[i] + repeated[i] - Len(ledger[i])

\* Every chance the item has of being booked is still excused.
Covered(i) ==
    /\ IsFiniteSet(Copies(i)) /\ IsFiniteSet(Runs(i)) /\ IsFiniteSet(Sends(i))
    /\ Cardinality(Copies(i)) + Cardinality(Runs(i)) + Cardinality(Sends(i)) =< Room(i)

\* One chance or none.
One(b) == IF b THEN 1 ELSE 0

\* A set of chances S becomes T by what happens to its member x.
LEMMA Recount ==
  ASSUME NEW S, IsFiniteSet(S), NEW T, NEW x, T \subseteq S \union {x}
  PROVE  /\ IsFiniteSet(T) /\ Cardinality(S) \in Nat /\ Cardinality(T) \in Nat
         /\ Cardinality(T) + One(x \in S) =< Cardinality(S) + One(x \in T)
<1> DEFINE R == S \ {x}
<1>1. IsFiniteSet(R) /\ Cardinality(R) = Cardinality(S) - One(x \in S)
  <2>1. CASE x \in S
    BY <2>1, FS_RemoveElement DEF One
  <2>2. CASE x \notin S
    <3>1. R = S /\ One(x \in S) = 0 /\ Cardinality(S) \in Nat
      BY <2>2, FS_CardinalityType DEF One
    <3> HIDE DEF R
    <3>2. QED
      BY <3>1
  <2>3. QED
    BY <2>1, <2>2
<1>2. Cardinality(S) \in Nat /\ Cardinality(R) \in Nat
  BY <1>1, FS_CardinalityType
<1>3. CASE x \in T
  <2>1. /\ IsFiniteSet(R \union {x}) /\ Cardinality(R \union {x}) = Cardinality(R) + 1
    BY <1>1, FS_AddElement
  <2>2. IsFiniteSet(T) /\ Cardinality(T) =< Cardinality(R \union {x})
    BY <2>1, FS_Subset
  <2>3. Cardinality(T) \in Nat
    BY <2>2, FS_CardinalityType
  <2>4. QED
    BY <1>1, <1>2, <1>3, <2>1, <2>2, <2>3 DEF One
<1>4. CASE x \notin T
  <2>1. T \subseteq R
    BY <1>4
  <2>2. IsFiniteSet(T) /\ Cardinality(T) =< Cardinality(R)
    BY <1>1, <2>1, FS_Subset
  <2>3. Cardinality(T) \in Nat
    BY <2>2, FS_CardinalityType
  <2>4. QED
    BY <1>1, <1>2, <1>4, <2>2, <2>3 DEF One
<1>5. QED
  BY <1>3, <1>4

\* A set that only loses members.
LEMMA Fewer ==
  ASSUME NEW S, IsFiniteSet(S), NEW T, T \subseteq S
  PROVE  /\ IsFiniteSet(T) /\ Cardinality(S) \in Nat /\ Cardinality(T) \in Nat
         /\ Cardinality(T) =< Cardinality(S)
  BY FS_Subset, FS_CardinalityType

\* Messages concern an item no more than before.
LEMMA ConcernsLess ==
  ASSUME DeskInv, [Next]_vars, NEW i \in Items, NEW m, Concerns(m, i)'
  PROVE  Concerns(m, i)
  BY NoWayBack DEF Concerns

\* The copies that matter to an item: no more than before while nothing is sent, at
\* most one more when a message that concerns it is, one less when one is taken.
LEMMA CopiesKept ==
  ASSUME DeskInv, [Next]_vars, NEW i \in Items, IsFiniteSet(Copies(i)), mail' = mail
  PROVE  /\ IsFiniteSet(Copies(i)') /\ Cardinality(Copies(i)) \in Nat
         /\ Cardinality(Copies(i)') \in Nat /\ Cardinality(Copies(i)') =< Cardinality(Copies(i))
<1>1. Copies(i)' \subseteq Copies(i)
  BY ConcernsLess DEF Copies
<1>2. QED
  BY <1>1, Fewer

LEMMA CopiesSent ==
  ASSUME DeskInv, [Next]_vars, NEW i \in Items, IsFiniteSet(Copies(i)),
         NEW m \in Messages, Send(m)
  PROVE  /\ IsFiniteSet(Copies(i)') /\ Cardinality(Copies(i)) \in Nat
         /\ Cardinality(Copies(i)') \in Nat
         /\ Cardinality(Copies(i)') =< Cardinality(Copies(i)) + One(Concerns(m, i)')
<1> DEFINE x == <<m, mail[m] + 1>>
           c == Concerns(m, i)'
<1>1. mail[m] \in Nat /\ mail' = [mail EXCEPT ![m] = mail[m] + 1] /\ mail \in [Messages -> Nat]
  BY TypeParts DEF ConsoleTyped, Send
<1>2. x \notin Copies(i)
  BY <1>1 DEF Copies
<1>3. x \in Copies(i)' => c
  BY DEF Copies
<1>4. Copies(i)' \subseteq Copies(i) \union {x}
  <2> SUFFICES ASSUME NEW d \in Copies(i)', d # x PROVE d \in Copies(i)
    OBVIOUS
  <2>1. /\ d \in Messages \X Nat /\ d[2] \in 1 .. mail'[d[1]] /\ Concerns(d[1], i)'
    BY DEF Copies
  <2>2. d = <<d[1], d[2]>> /\ d[1] \in Messages /\ d[2] \in Nat
    BY <2>1
  <2>3. d[2] \in 1 .. mail[d[1]]
    <3>1. CASE d[1] = m
      <4>1. d[2] # mail[m] + 1
        BY <2>2, <3>1
      <4>2. d[2] \in 1 .. mail[m] + 1
        BY <1>1, <2>1, <3>1
      <4>3. QED
        BY <1>1, <2>2, <3>1, <4>1, <4>2
    <3>2. CASE d[1] # m
      BY <1>1, <2>1, <2>2, <3>2
    <3>3. QED
      BY <3>1, <3>2
  <2>4. Concerns(d[1], i)
    BY <2>1, ConcernsLess
  <2>5. QED
    BY <2>1, <2>3, <2>4 DEF Copies
<1> HIDE DEF x
<1>5. /\ IsFiniteSet(Copies(i)') /\ Cardinality(Copies(i)) \in Nat
      /\ Cardinality(Copies(i)') \in Nat
      /\ Cardinality(Copies(i)') + One(x \in Copies(i))
            =< Cardinality(Copies(i)) + One(x \in Copies(i)')
  BY <1>4, Recount
<1>6. One(x \in Copies(i)) = 0 /\ One(c) \in {0, 1} /\ One(x \in Copies(i)') \in 0 .. One(c)
  BY <1>2, <1>3 DEF One
<1>7. QED
  BY <1>5, <1>6

LEMMA CopiesTaken ==
  ASSUME DeskInv, [Next]_vars, NEW i \in Items, IsFiniteSet(Copies(i)),
         NEW m \in Messages, mail[m] > 0, mail' = [mail EXCEPT ![m] = @ - 1]
  PROVE  /\ IsFiniteSet(Copies(i)') /\ Cardinality(Copies(i)) \in Nat
         /\ Cardinality(Copies(i)') \in Nat
         /\ Cardinality(Copies(i)') + One(Concerns(m, i)) =< Cardinality(Copies(i))
<1> DEFINE x == <<m, mail[m]>>
           b == Concerns(m, i)
<1>1. mail[m] \in Nat /\ mail' = [mail EXCEPT ![m] = mail[m] - 1] /\ mail \in [Messages -> Nat]
  BY TypeParts DEF ConsoleTyped
<1>2. x \in Copies(i) <=> b
  <2>1. x \in Messages \X Nat /\ x[1] = m /\ x[2] = mail[m] /\ x[2] \in 1 .. mail[x[1]]
    BY <1>1
  <2>2. QED
    BY <2>1 DEF Copies
<1>3. x \notin Copies(i)'
  BY <1>1 DEF Copies
<1>4. Copies(i)' \subseteq Copies(i)
  <2> SUFFICES ASSUME NEW d \in Copies(i)' PROVE d \in Copies(i)
    OBVIOUS
  <2>1. /\ d \in Messages \X Nat /\ d[2] \in 1 .. mail'[d[1]] /\ Concerns(d[1], i)'
    BY DEF Copies
  <2>2. d[1] \in Messages /\ d[2] \in Nat
    BY <2>1
  <2>3. d[2] \in 1 .. mail[d[1]]
    BY <1>1, <2>1, <2>2
  <2>4. Concerns(d[1], i)
    BY <2>1, ConcernsLess
  <2>5. QED
    BY <2>1, <2>3, <2>4 DEF Copies
<1> HIDE DEF x
<1>5. /\ IsFiniteSet(Copies(i)') /\ Cardinality(Copies(i)) \in Nat
      /\ Cardinality(Copies(i)') \in Nat
      /\ Cardinality(Copies(i)') + One(x \in Copies(i))
            =< Cardinality(Copies(i)) + One(x \in Copies(i)')
  <2>1. Copies(i)' \subseteq Copies(i) \union {x}
    BY <1>4
  <2>2. QED
    BY <2>1, Recount
<1>6. One(x \in Copies(i)') = 0 /\ One(x \in Copies(i)) = One(b) /\ One(b) \in {0, 1}
  BY <1>2, <1>3 DEF One
<1>7. QED
  BY <1>5, <1>6

\* The sum of an account: its excuses less its bookings.
LEMMA Account ==
  ASSUME NEW f \in Nat, NEW g \in Nat, NEW n \in Nat
  PROVE  1 + f + g - n \in Int
  OBVIOUS

\* The numbers of an item's account.
LEMMA Numbers ==
  ASSUME DeskInv, [Next]_vars, NEW i \in Items
  PROVE  /\ Len(ledger[i]) \in Nat /\ Len(ledger'[i]) \in Nat
         /\ forgotten[i] \in Nat /\ forgotten'[i] \in {forgotten[i], forgotten[i] + 1}
         /\ repeated[i] \in Nat /\ repeated'[i] \in {repeated[i], repeated[i] + 1}
         /\ Room(i) \in Int /\ Room(i)' \in Int
<1> TablesTyped /\ TablesTyped' /\ RepeatedTyped
  BY TypeParts, TablesStep
<1>1. ledger[i] \in Seq(Categories) /\ ledger'[i] \in Seq(Categories)
  BY DEF TablesTyped
<1>2. Len(ledger[i]) \in Nat /\ Len(ledger'[i]) \in Nat
  BY <1>1
<1>3. forgotten[i] \in Nat /\ forgotten'[i] \in {forgotten[i], forgotten[i] + 1}
  BY Forgetting DEF TablesTyped
<1>4. repeated[i] \in Nat /\ repeated'[i] \in {repeated[i], repeated[i] + 1}
  BY RepeatedStep DEF RepeatedTyped
<1>5. Room(i) = 1 + forgotten[i] + repeated[i] - Len(ledger[i])
  BY DEF Room
<1>6. Room(i)' = 1 + forgotten'[i] + repeated'[i] - Len(ledger'[i])
  BY DEF Room
<1>7. 1 + forgotten[i] + repeated[i] - Len(ledger[i]) \in Int
  BY <1>2, <1>3, <1>4, Account
<1>8. forgotten'[i] \in Nat /\ repeated'[i] \in Nat
  BY <1>3, <1>4
<1>9. 1 + forgotten'[i] + repeated'[i] - Len(ledger'[i]) \in Int
  BY <1>2, <1>8, Account
<1>10. QED
  BY <1>2, <1>3, <1>4, <1>5, <1>6, <1>7, <1>9

\* The account of a worker's step: only its own chances and the copies change.
LEMMA WorkerBalance ==
  ASSUME DeskInv, [Next]_vars, NEW i \in Items, Covered(i), NEW w \in Workers,
         Work(w) \/ Interrupt(w),
         IsFiniteSet(Copies(i)'), Cardinality(Copies(i)') \in Nat, Cardinality(Copies(i)) \in Nat,
         Cardinality(Copies(i)') + One(Before(w, i)') + Room(i)
            =< Cardinality(Copies(i)) + One(Before(w, i)) + Room(i)'
  PROVE  Covered(i)'
<1>1. Sends(i)' \subseteq Sends(i)
  <2>1. spc' = spc /\ request' = request
    BY WorkersLeaveConsole
  <2>2. QED
    BY <2>1, NoWayBack DEF Sends, Owes
<1>2. ASSUME NEW v \in Workers, v # w
      PROVE  Before(v, i)' => Before(v, i)
  <2>1. /\ pc'[v] = pc[v] /\ msg'[v] = msg[v] /\ cur'[v] = cur[v]
        /\ todo'[v] = todo[v] /\ outcome'[v] = outcome[v]
    BY <1>2, OthersRest
  <2>2. QED
    BY <2>1, NoWayBack DEF Before
<1>3. Runs(i)' \subseteq Runs(i) \union {w}
  BY <1>2 DEF Runs
<1>4. One(w \in Runs(i)) = One(Before(w, i)) /\ One(w \in Runs(i)') = One(Before(w, i)')
  BY DEF One, Runs
<1>5. IsFiniteSet(Runs(i)) /\ IsFiniteSet(Sends(i))
  BY DEF Covered
<1>6. /\ IsFiniteSet(Sends(i)') /\ Cardinality(Sends(i)) \in Nat
      /\ Cardinality(Sends(i)') \in Nat /\ Cardinality(Sends(i)') =< Cardinality(Sends(i))
  BY <1>1, <1>5, Fewer
<1>7. /\ IsFiniteSet(Runs(i)') /\ Cardinality(Runs(i)) \in Nat /\ Cardinality(Runs(i)') \in Nat
      /\ Cardinality(Runs(i)') + One(Before(w, i)) =< Cardinality(Runs(i)) + One(Before(w, i)')
  BY <1>3, <1>4, <1>5, Recount
<1>8. One(Before(w, i)) \in Nat /\ One(Before(w, i)') \in Nat
  BY DEF One
<1>9. Room(i) \in Int /\ Room(i)' \in Int
  BY Numbers
<1>10. Cardinality(Copies(i)) + Cardinality(Runs(i)) + Cardinality(Sends(i)) =< Room(i)
  BY DEF Covered
<1>11. Cardinality(Copies(i)') + Cardinality(Runs(i)') + Cardinality(Sends(i)') =< Room(i)'
  BY <1>6, <1>7, <1>8, <1>9, <1>10
<1>12. QED
  BY <1>6, <1>7, <1>11 DEF Covered

\* The account of a request's step: only what it owes and the copies change.
LEMMA RequestBalance ==
  ASSUME DeskInv, [Next]_vars, NEW i \in Items, Covered(i), NEW s \in Sessions,
         UNCHANGED <<pc, msg, cur, todo, outcome>>,
         \A r \in Sessions \ {s} : spc'[r] = spc[r] /\ request'[r] = request[r],
         IsFiniteSet(Copies(i)'), Cardinality(Copies(i)') \in Nat, Cardinality(Copies(i)) \in Nat,
         Cardinality(Copies(i)') + One(Owes(s, i)') + Room(i)
            =< Cardinality(Copies(i)) + One(Owes(s, i)) + Room(i)'
  PROVE  Covered(i)'
<1>1. Runs(i)' \subseteq Runs(i)
  BY NoWayBack DEF Runs, Before
<1>2. Sends(i)' \subseteq Sends(i) \union {s}
  BY NoWayBack DEF Sends, Owes
<1>3. One(s \in Sends(i)) = One(Owes(s, i)) /\ One(s \in Sends(i)') = One(Owes(s, i)')
  BY DEF One, Sends
<1>4. IsFiniteSet(Runs(i)) /\ IsFiniteSet(Sends(i))
  BY DEF Covered
<1>5. /\ IsFiniteSet(Runs(i)') /\ Cardinality(Runs(i)) \in Nat /\ Cardinality(Runs(i)') \in Nat
      /\ Cardinality(Runs(i)') =< Cardinality(Runs(i))
  BY <1>1, <1>4, Fewer
<1>6. /\ IsFiniteSet(Sends(i)') /\ Cardinality(Sends(i)) \in Nat /\ Cardinality(Sends(i)') \in Nat
      /\ Cardinality(Sends(i)') + One(Owes(s, i)) =< Cardinality(Sends(i)) + One(Owes(s, i)')
  BY <1>2, <1>3, <1>4, Recount
<1>7. One(Owes(s, i)) \in Nat /\ One(Owes(s, i)') \in Nat
  BY DEF One
<1>8. Room(i) \in Int /\ Room(i)' \in Int
  BY Numbers
<1>9. Cardinality(Copies(i)) + Cardinality(Runs(i)) + Cardinality(Sends(i)) =< Room(i)
  BY DEF Covered
<1>10. Cardinality(Copies(i)') + Cardinality(Runs(i)') + Cardinality(Sends(i)') =< Room(i)'
  BY <1>5, <1>6, <1>7, <1>8, <1>9
<1>11. QED
  BY <1>5, <1>6, <1>10 DEF Covered

\* A request that loses no room keeps the account when it sends a message it owed.
LEMMA SentWasOwed ==
  ASSUME DeskInv, [Next]_vars, NEW i \in Items, Covered(i), NEW s \in Sessions,
         UNCHANGED <<pc, msg, cur, todo, outcome>>,
         \A r \in Sessions \ {s} : spc'[r] = spc[r] /\ request'[r] = request[r],
         Room(i) =< Room(i)', NEW m \in Messages, Send(m),
         Concerns(m, i)' => Owes(s, i) /\ ~Owes(s, i)',
         Owes(s, i)' => Owes(s, i)
  PROVE  Covered(i)'
<1>1. /\ One(Concerns(m, i)') + One(Owes(s, i)') =< One(Owes(s, i))
      /\ One(Concerns(m, i)') \in Nat /\ One(Owes(s, i)') \in Nat
      /\ One(Owes(s, i)) \in Nat
  BY DEF One
<1>2. IsFiniteSet(Copies(i)) /\ Room(i) \in Int /\ Room(i)' \in Int
  BY Numbers DEF Covered
<1>3. /\ IsFiniteSet(Copies(i)') /\ Cardinality(Copies(i)) \in Nat
      /\ Cardinality(Copies(i)') \in Nat
      /\ Cardinality(Copies(i)') =< Cardinality(Copies(i)) + One(Concerns(m, i)')
  BY <1>2, CopiesSent
<1>4. Cardinality(Copies(i)') + One(Owes(s, i)') + Room(i)
         =< Cardinality(Copies(i)) + One(Owes(s, i)) + Room(i)'
  BY <1>1, <1>2, <1>3
<1>5. QED
  BY <1>3, <1>4, RequestBalance

\* A request that was received enqueues at most one chance of an item, and each chance
\* it enqueues it owed.
LEMMA RequestKeepsCount ==
  ASSUME Quiet, DeskInv, QuietInv, [Next]_vars, NEW i \in Items, Covered(i),
         NEW s \in Sessions, Serve(s) \/ SendLost(s)
  PROVE  Covered(i)'
<1> ConsoleTyped /\ SendsDecided(s)
  BY TypeParts DEF QuietInv
<1>1. /\ UNCHANGED <<pc, msg, cur, todo, outcome>>
      /\ \A r \in Sessions \ {s} : spc'[r] = spc[r] /\ request'[r] = request[r]
  <2>1. UNCHANGED <<pc, msg, cur, todo, outcome>>
    BY ConsoleLeavesWorkers
  <2>2. \A r \in Sessions \ {s} : spc'[r] = spc[r] /\ request'[r] = request[r]
    BY DEF ConsoleTyped, Serve, CommitRequest, SendFinalize, Answer, SendLost
  <2>3. QED
    BY <2>1, <2>2
<1>2. IsFiniteSet(Copies(i)) /\ Room(i) \in Int /\ Room(i)' \in Int /\ Room(i) =< Room(i)'
  <2>1. UNCHANGED <<ledger, forgotten, repeated>>
    BY ConsoleLeavesWorkers
  <2>2. Room(i)' = Room(i)
    BY <2>1 DEF Room
  <2>3. QED
    BY <2>2, Numbers DEF Covered
<1>3. ASSUME CommitRequest(s) PROVE Covered(i)'
  <2>1. mail' = mail
    BY <1>3 DEF CommitRequest
  <2>2. Owes(s, i)' => Owes(s, i)
    <3>1. /\ spc[s] = "loaded" /\ spc'[s] \in {"idle", "send"}
          /\ spc'[s] = "send" => request'[s] = request[s]
      BY <1>3 DEF CommitRequest, ConsoleTyped
    <3>2. QED
      BY <3>1, NoWayBack DEF Owes
  <2>3. One(Owes(s, i)') =< One(Owes(s, i)) /\ One(Owes(s, i)') \in Nat /\ One(Owes(s, i)) \in Nat
    BY <2>2 DEF One
  <2>4. QED
    BY <1>1, <1>2, <2>1, <2>3, CopiesKept, RequestBalance
<1>4. ASSUME NEW j \in Items, SendFinalize(s, j) PROVE Covered(i)'
  <2>1. /\ Send(Finalize(j)) /\ Finalize(j) \in Messages
        /\ Concerns(Finalize(j), i)' <=> i = j
    BY <1>4, Kinds DEF SendFinalize, Concerns, Finalize
  <2>2. /\ spc[s] = "send" /\ spc'[s] = "send" /\ items' = items
        /\ j \in request[s].picked
        /\ request'[s].picked = request[s].picked \ {j}
        /\ request'[s].verb = request[s].verb
    BY <1>4 DEF SendFinalize, ConsoleTyped
  <2>3. Owes(s, i)' => Owes(s, i)
    BY <2>2 DEF Owes, SendsDecided
  <2>4. i = j => Owes(s, i) /\ ~Owes(s, i)'
    BY <2>2 DEF Owes, SendsDecided
  <2>5. QED
    BY <1>1, <1>2, <2>1, <2>3, <2>4, SentWasOwed
<1>5. ASSUME Answer(s) PROVE Covered(i)'
  <2>1. /\ spc[s] = "send" /\ spc'[s] = "idle" /\ request[s].picked = {}
        /\ items' = items
    BY <1>5 DEF Answer, ConsoleTyped
  <2>2. ~Owes(s, i)'
    BY <2>1 DEF Owes
  <2>3. CASE request[s].verb = "correct"
    <3>1. /\ Send(Reclassify(TRUE)) /\ Reclassify(TRUE) \in Messages
          /\ Concerns(Reclassify(TRUE), i)' <=> items[i].status = "pending"
      BY <1>5, <2>1, <2>3, Kinds DEF Answer, Concerns, Reclassify
    <3>2. Concerns(Reclassify(TRUE), i)' => Owes(s, i)
      BY <2>1, <2>3, <3>1 DEF Owes
    <3>3. QED
      BY <1>1, <1>2, <2>2, <3>1, <3>2, SentWasOwed
  <2>4. CASE request[s].verb # "correct"
    <3>1. mail' = mail
      BY <1>5, <2>4 DEF Answer
    <3>2. /\ One(Owes(s, i)') =< One(Owes(s, i)) /\ One(Owes(s, i)') \in Nat
          /\ One(Owes(s, i)) \in Nat
      BY <2>2 DEF One
    <3>3. QED
      BY <1>1, <1>2, <2>1, <3>1, <3>2, CopiesKept, RequestBalance
  <2>5. QED
    BY <2>3, <2>4
<1>6. ASSUME SendLost(s) PROVE Covered(i)'
  <2>1. mail' = mail /\ spc'[s] = "idle"
    BY <1>6 DEF SendLost, ConsoleTyped
  <2>2. ~Owes(s, i)'
    BY <2>1 DEF Owes
  <2>3. One(Owes(s, i)') =< One(Owes(s, i)) /\ One(Owes(s, i)') \in Nat /\ One(Owes(s, i)) \in Nat
    BY <2>2 DEF One
  <2>4. QED
    BY <1>1, <1>2, <2>1, <2>3, CopiesKept, RequestBalance
<1>7. QED
  BY <1>3, <1>4, <1>5, <1>6 DEF Serve

\* What a booking, a rollback or an excuse does to the room of an item.
LEMMA RoomAfter ==
  ASSUME DeskInv, [Next]_vars, NEW i \in Items, NEW f \in Nat, NEW g \in Nat, NEW n \in Nat,
         forgotten'[i] = forgotten[i] + f, repeated'[i] = repeated[i] + g,
         Len(ledger'[i]) = Len(ledger[i]) + n
  PROVE  Room(i)' = Room(i) + f + g - n /\ Room(i) \in Int
<1>1. Len(ledger[i]) \in Nat /\ forgotten[i] \in Nat /\ repeated[i] \in Nat /\ Room(i) \in Int
  BY Numbers
<1>2. Room(i)' = 1 + (forgotten[i] + f) + (repeated[i] + g) - (Len(ledger[i]) + n)
  BY DEF Room
<1>3. Room(i) = 1 + forgotten[i] + repeated[i] - Len(ledger[i])
  BY DEF Room
<1>4. 1 + (forgotten[i] + f) + (repeated[i] + g) - (Len(ledger[i]) + n)
        = (1 + forgotten[i] + repeated[i] - Len(ledger[i])) + f + g - n
  <2> DEFINE a == forgotten[i]
  <2> DEFINE b == repeated[i]
  <2> DEFINE c == Len(ledger[i])
  <2>1. a \in Nat /\ b \in Nat /\ c \in Nat
    BY <1>1
  <2> HIDE DEF a, b, c
  <2>2. 1 + (a + f) + (b + g) - (c + n) = (1 + a + b - c) + f + g - n
    BY <2>1
  <2>3. QED
    BY <2>2 DEF a, b, c
<1>5. Room(i)' = Room(i) + f + g - n
  <2> DEFINE now == 1 + forgotten[i] + repeated[i] - Len(ledger[i])
  <2>1. now \in Int /\ Room(i) = now /\ Room(i)' = now + f + g - n
    BY <1>1, <1>2, <1>3, <1>4
  <2> HIDE DEF now
  <2>2. QED
    BY <2>1
<1>6. QED
  BY <1>1, <1>5

\* Where nothing happens to an item's bookings and their excuses.
LEMMA RoomSame ==
  ASSUME DeskInv, [Next]_vars, NEW i \in Items, UNCHANGED <<ledger, forgotten, repeated>>
  PROVE  Room(i)' = Room(i) + 0
<1>1. Room(i)' = Room(i) /\ Room(i) \in Int
  BY Numbers DEF Room
<1>2. QED
  BY <1>1

\* A worker's step that sends nothing, and one that sends a message.
LEMMA NothingSent ==
  ASSUME DeskInv, [Next]_vars, NEW i \in Items, Covered(i), NEW w \in Workers,
         Work(w) \/ Interrupt(w), mail' = mail, NEW d \in Int, Room(i)' = Room(i) + d,
         One(Before(w, i)') =< One(Before(w, i)) + d
  PROVE  Covered(i)'
<1>1. /\ One(Before(w, i)) \in Nat /\ One(Before(w, i)') \in Nat
  BY DEF One
<1>2. IsFiniteSet(Copies(i)) /\ Room(i) \in Int
  BY Numbers DEF Covered
<1>3. /\ IsFiniteSet(Copies(i)') /\ Cardinality(Copies(i)) \in Nat
      /\ Cardinality(Copies(i)') \in Nat /\ Cardinality(Copies(i)') =< Cardinality(Copies(i))
  BY <1>2, CopiesKept
<1>4. Cardinality(Copies(i)') + One(Before(w, i)') + Room(i)
         =< Cardinality(Copies(i)) + One(Before(w, i)) + Room(i)'
  BY <1>1, <1>2, <1>3
<1>5. QED
  BY <1>3, <1>4, WorkerBalance

LEMMA OneSent ==
  ASSUME DeskInv, [Next]_vars, NEW i \in Items, Covered(i), NEW w \in Workers,
         Work(w) \/ Interrupt(w), NEW m \in Messages, Send(m), NEW d \in Int,
         Room(i)' = Room(i) + d,
         One(Concerns(m, i)') + One(Before(w, i)')
            =< One(Before(w, i)) + d
  PROVE  Covered(i)'
<1>1. /\ One(Before(w, i)) \in Nat /\ One(Before(w, i)') \in Nat
      /\ One(Concerns(m, i)') \in Nat
  BY DEF One
<1>2. IsFiniteSet(Copies(i)) /\ Room(i) \in Int
  BY Numbers DEF Covered
<1>3. /\ IsFiniteSet(Copies(i)') /\ Cardinality(Copies(i)) \in Nat
      /\ Cardinality(Copies(i)') \in Nat
      /\ Cardinality(Copies(i)') =< Cardinality(Copies(i)) + One(Concerns(m, i)')
  BY <1>2, CopiesSent
<1>4. Cardinality(Copies(i)') + One(Before(w, i)') + Room(i)
         =< Cardinality(Copies(i)) + One(Before(w, i)) + Room(i)'
  BY <1>1, <1>2, <1>3
<1>5. QED
  BY <1>3, <1>4, WorkerBalance

\* A message given out again brings no more chances than it excuses.
LEMMA SentAgain ==
  ASSUME DeskInv, [Next]_vars, NEW i \in Items, Covered(i), NEW w \in Workers,
         Work(w) \/ Interrupt(w), NEW m \in Messages, Send(m), NEW n \in Messages,
         Concerns(m, i)' => Concerns(n, i), Again(Concerned(n)), ledger' = ledger,
         One(Before(w, i)') =< One(Before(w, i)) + 0
  PROVE  Covered(i)'
<1> DEFINE c == Concerns(n, i)
           f == forgotten'[i] - forgotten[i]
<1>1. c => i \in Concerned(n)
  BY Kinds DEF Concerns, Concerned
<1>2. f \in Nat /\ forgotten'[i] = forgotten[i] + f
  BY Numbers
<1>3. PICK g \in Nat : repeated'[i] = repeated[i] + g /\ (c => g = 1)
  BY <1>1, Numbers DEF Again
<1> HIDE DEF f
<1>4. Room(i)' = Room(i) + (f + g)
  <2>1. Len(ledger'[i]) = Len(ledger[i]) + 0
    BY Numbers
  <2>2. Room(i)' = Room(i) + f + g - 0 /\ Room(i) \in Int
    BY <1>2, <1>3, <2>1, RoomAfter
  <2>3. QED
    BY <1>2, <2>2
<1>5. One(Concerns(m, i)') =< g /\ One(Concerns(m, i)') \in Nat
  BY <1>3 DEF One
<1>6. One(Before(w, i)) \in Nat /\ One(Before(w, i)') \in Nat
  BY DEF One
<1>7. One(Concerns(m, i)') + One(Before(w, i)') =< One(Before(w, i)) + (f + g)
  BY <1>2, <1>5, <1>6
<1>8. f + g \in Int
  BY <1>2
<1>9. QED
  BY <1>4, <1>7, <1>8, OneSent

\* A delivery hands a worker the chance the copy was.
LEMMA DeliverKeepsCount ==
  ASSUME DeskInv, QuietInv, [Next]_vars, NEW i \in Items, Covered(i), NEW w \in Workers,
         NEW m \in Messages, Deliver(w, m)
  PROVE  Covered(i)'
<1> WorkersTyped /\ HoldsTrue(w)
  BY TypeParts DEF QuietInv
<1>1. /\ pc[w] = "idle" /\ mail[m] > 0 /\ mail' = [mail EXCEPT ![m] = @ - 1]
      /\ pc'[w] = (IF m.kind = "finalize" THEN "f_load" ELSE "r_list")
      /\ msg'[w] = m /\ todo' = todo /\ items' = items
      /\ UNCHANGED <<ledger, forgotten, repeated>>
  BY DEF Deliver, Goto, WorkersTyped, batch, history
<1>2. Before(w, i)' => Concerns(m, i)
  BY <1>1, Kinds DEF Before, Concerns, HoldsTrue, Reclassifies
<1>4. /\ One(Before(w, i)') =< One(Concerns(m, i)) + One(Before(w, i))
      /\ One(Before(w, i)) \in Nat /\ One(Before(w, i)') \in Nat
      /\ One(Concerns(m, i)) \in Nat
  BY <1>2 DEF One
<1>5. Room(i)' = Room(i) /\ Room(i) \in Int
  BY <1>1, Numbers DEF Room
<1>6. IsFiniteSet(Copies(i))
  BY DEF Covered
<1>7. /\ IsFiniteSet(Copies(i)') /\ Cardinality(Copies(i)) \in Nat
      /\ Cardinality(Copies(i)') \in Nat
      /\ Cardinality(Copies(i)') + One(Concerns(m, i)) =< Cardinality(Copies(i))
  BY <1>1, <1>6, CopiesTaken
<1>8. Cardinality(Copies(i)') + One(Before(w, i)') + Room(i)
         =< Cardinality(Copies(i)) + One(Before(w, i)) + Room(i)'
  BY <1>4, <1>5, <1>7
<1>9. Work(w)
  BY DEF Work
<1>10. QED
  BY <1>7, <1>8, <1>9, WorkerBalance

\* A POST that is answered uses up the chance it is, one whose answer is lost excuses
\* the next, and one that is refused leaves the chance as it was.
LEMMA PostKeepsCount ==
  ASSUME DeskInv, QuietInv, [Next]_vars, NEW i \in Items, Covered(i), NEW w \in Workers,
         PostAnswered(w) \/ PostLost(w) \/ PostRefused(w)
  PROVE  Covered(i)'
<1> WorkersTyped /\ TablesTyped /\ RepeatedTyped /\ HoldsTrue(w) /\ InPlace(w)
  BY TypeParts DEF QuietInv, DeskInv
<1>1. /\ pc[w] \in {"f_post", "r_post"} /\ mail' = mail /\ items' = items
      /\ msg' = msg /\ cur' = cur /\ todo' = todo
      /\ pc'[w] = (IF pc[w] = "f_post" THEN "f_commit" ELSE "r_commit")
      /\ forgotten' = forgotten
  BY DEF PostAnswered, PostLost, PostRefused, Posting, Goto, WorkersTyped, batch
<1>2. pc[w] = "f_post" => cur[w] = msg[w].item /\ i \notin todo[w]
  BY DEF InPlace, HoldsTrue
<1>3. pc[w] = "r_post" => (cur[w] = i => i \notin todo[w])
  BY DEF HoldsTrue
<1>4. Before(w, i)' => Before(w, i)
  BY <1>1, <1>2 DEF Before
<1>5. cur[w] = i => Before(w, i)
  BY <1>1, <1>2 DEF Before
<1>6. One(Before(w, i)) \in Nat /\ One(Before(w, i)') =< One(Before(w, i)) + 0
  BY <1>4 DEF One
<1>7. Work(w)
  BY DEF Work
<1>8. forgotten'[i] = forgotten[i] + 0 /\ Len(ledger[i]) = Len(ledger[i]) + 0
      /\ repeated[i] = repeated[i] + 0
  BY <1>1, Numbers
<1>9. CASE PostAnswered(w) /\ cur[w] = i
  <2>1. ~Before(w, i)'
    BY <1>1, <1>2, <1>3, <1>9 DEF PostAnswered, Posting, Before, WorkersTyped
  <2>2. Len(ledger'[i]) = Len(ledger[i]) + 1 /\ repeated'[i] = repeated[i] + 0
    BY <1>1, <1>8, <1>9, BookingTypes DEF PostAnswered, Booking, TablesTyped
  <2>3. Room(i)' = Room(i) + (-1)
    <3>1. Room(i)' = Room(i) + 0 + 0 - 1 /\ Room(i) \in Int
      BY <1>8, <2>2, RoomAfter
    <3>2. QED
      BY <3>1
  <2>4. One(Before(w, i)') =< One(Before(w, i)) + (-1)
    BY <1>5, <1>9, <2>1 DEF One
  <2>5. QED
    BY <1>1, <1>7, <2>3, <2>4, NothingSent
<1>10. CASE PostLost(w) /\ cur[w] = i
  <2>1. Len(ledger'[i]) = Len(ledger[i]) + 1
    BY <1>1, <1>10, BookingTypes DEF PostLost, Booking, TablesTyped
  <2>2. repeated'[i] = repeated[i] + 1
    BY <1>10 DEF PostLost, Again
  <2>3. Room(i)' = Room(i) + 0
    <3>1. Room(i)' = Room(i) + 0 + 1 - 1 /\ Room(i) \in Int
      BY <1>8, <2>1, <2>2, RoomAfter
    <3>2. QED
      BY <3>1
  <2>4. QED
    BY <1>1, <1>6, <1>7, <2>3, NothingSent
<1>11. CASE PostRefused(w) \/ cur[w] # i
  <2>1. ledger'[i] = ledger[i] /\ repeated'[i] = repeated[i]
    <3>1. CASE PostRefused(w)
      BY <3>1 DEF PostRefused
    <3>2. CASE cur[w] # i
      <4>1. ledger' = ledger \/ ledger' = [ledger EXCEPT ![cur[w]] = Append(@, Category(w))]
        BY DEF PostAnswered, PostLost, PostRefused, Booking
      <4>2. repeated' = repeated \/ Again({cur[w]})
        BY DEF PostAnswered, PostLost, PostRefused
      <4>3. ledger'[i] = ledger[i]
        BY <3>2, <4>1 DEF TablesTyped
      <4>4. repeated'[i] = repeated[i]
        BY <3>2, <4>2, Numbers DEF Again
      <4>5. QED
        BY <4>3, <4>4
    <3>3. QED
      BY <1>11, <3>1, <3>2
  <2>2. Room(i)' = Room(i) + 0
    <3>1. Room(i)' = Room(i) + 0 + 0 - 0 /\ Room(i) \in Int
      BY <1>8, <2>1, RoomAfter
    <3>2. QED
      BY <3>1
  <2>3. QED
    BY <1>1, <1>6, <1>7, <2>2, NothingSent
<1>12. QED
  BY <1>9, <1>10, <1>11

\* task.retry of finalize_review hands the chance a worker has to the message it
\* publishes; a batch that publishes itself anew gives, and excuses, one to each
\* item it would find pending.
LEMMA RetryKeepsCount ==
  ASSUME DeskInv, QuietInv, [Next]_vars, NEW i \in Items, Covered(i), NEW w \in Workers,
         FinalizeRetry(w) \/ BatchRetry(w)
  PROVE  Covered(i)'
<1> WorkersTyped /\ RepeatedTyped /\ HoldsTrue(w) /\ InPlace(w)
  BY TypeParts DEF QuietInv, DeskInv
<1>1. /\ Republish(w) /\ items' = items /\ todo' = todo /\ msg[w] \in Messages
      /\ pc[w] \in {"f_retry", "r_retry"} /\ pc'[w] \in {"ack", "r_next"}
      /\ pc[w] = "f_retry" => msg[w] \in Finalizes /\ todo[w] = {}
      /\ pc[w] = "r_retry" => msg[w] \in Reclassifies
      /\ UNCHANGED <<ledger, forgotten>>
  BY DEF FinalizeRetry, BatchRetry, Goto, WorkersTyped, batch, history, InPlace, HoldsTrue
<1>2. (Before(w, i)' => i \in todo[w]) /\ (i \in todo[w] => Before(w, i))
  BY <1>1 DEF Before
<1>3. One(Before(w, i)') =< One(Before(w, i)) + 0 /\ One(Before(w, i)) \in Nat
  BY <1>2 DEF One
<1>4. Work(w)
  BY DEF Work
<1>5. CASE ~(msg[w].retries < MaxRetries)
  <2>1. mail' = mail /\ repeated' = repeated
    BY <1>1, <1>5 DEF Republish, FinalizeRetry, BatchRetry, history
  <2>2. Room(i)' = Room(i) + 0
    BY <1>1, <2>1, RoomSame
  <2>3. QED
    BY <1>3, <1>4, <2>1, <2>2, NothingSent
<1>6. ASSUME NEW m, m = [msg[w] EXCEPT !.retries = @ + 1], msg[w].retries < MaxRetries, Send(m)
      PROVE  Covered(i)'
  <2>1. m \in Messages
    BY <1>1, <1>6, Kinds
  <2>2. Concerns(m, i)' <=> Concerns(msg[w], i)
    BY <1>1, <1>6 DEF Concerns, Messages, Finalizes, Reclassifies
  <2>3. CASE pc[w] = "f_retry"
    <3>1. Concerns(msg[w], i) => msg[w].item = i
      BY <1>1, <2>3, Kinds DEF Concerns
    <3>2. (Concerns(m, i)' => Before(w, i)) /\ ~Before(w, i)'
      BY <1>1, <1>2, <2>2, <2>3, <3>1 DEF Before
    <3>3. One(Concerns(m, i)') + One(Before(w, i)') =< One(Before(w, i)) + 0
      BY <3>2 DEF One
    <3>4. repeated' = repeated
      BY <2>3 DEF FinalizeRetry, BatchRetry, history
    <3>5. Room(i)' = Room(i) + 0
      BY <1>1, <3>4, RoomSame
    <3>6. QED
      BY <1>4, <1>6, <2>1, <3>3, <3>5, OneSent
  <2>4. CASE pc[w] = "r_retry"
    <3>1. Again(Concerned(msg[w]))
      BY <1>6, <2>4 DEF FinalizeRetry, BatchRetry
    <3>2. QED
      BY <1>1, <1>3, <1>4, <1>6, <2>1, <2>2, <3>1, SentAgain
  <2>5. QED
    BY <1>1, <2>3, <2>4
<1>7. QED
  BY <1>1, <1>5, <1>6 DEF Republish

\* The other steps of a worker give an item no new chance.
LEMMA WorkKeepsCount ==
  ASSUME DeskInv, QuietInv, [Next]_vars, NEW i \in Items, Covered(i), NEW w \in Workers, Work(w)
  PROVE  Covered(i)'
<1> WorkersTyped /\ TablesTyped /\ HoldsTrue(w) /\ InPlace(w)
  BY TypeParts DEF QuietInv, DeskInv
<1> DEFINE Less == /\ mail' = mail /\ UNCHANGED <<ledger, forgotten, repeated>>
                   /\ Before(w, i)' => Before(w, i)
<1> USE DEF Goto, WorkersTyped, batch, history
<1>1. ASSUME FinalizeLoad(w) PROVE Less
  <2>1. /\ pc[w] = "f_load" /\ pc'[w] \in {"f_post", "ack"} /\ todo' = todo /\ msg' = msg
    BY <1>1 DEF FinalizeLoad
  <2>2. Before(w, i)' => Before(w, i)
    BY <2>1 DEF Before
  <2>3. QED
    BY <1>1, <2>2 DEF FinalizeLoad
<1>2. ASSUME FinalizeCommit(w) PROVE Less
  <2>1. /\ pc[w] = "f_commit" /\ pc'[w] = (IF outcome[w] = "failed" THEN "f_retry" ELSE "ack")
        /\ todo' = todo /\ msg' = msg
    BY <1>2 DEF FinalizeCommit
  <2>2. Before(w, i)' => Before(w, i)
    BY <2>1 DEF Before
  <2>3. QED
    BY <1>2, <2>2 DEF FinalizeCommit
<1>3. ASSUME BatchList(w) PROVE Less
  <2>1. /\ pc[w] = "r_list" /\ pc'[w] = "r_next"
        /\ todo'[w] = {j \in Items : items[j].status = "pending"}
    BY <1>3 DEF BatchList
  <2>2. Before(w, i)' => Before(w, i)
    BY <2>1 DEF Before
  <2>3. QED
    BY <1>3, <2>2 DEF BatchList
<1>4. ASSUME NEW j \in Items, BatchNext(w, j) PROVE Less
  <2>1. /\ pc'[w] = "r_classify" /\ j \in todo[w] /\ cur'[w] = j /\ todo'[w] = todo[w] \ {j}
    BY <1>4 DEF BatchNext
  <2>2. Before(w, i)' => Before(w, i)
    BY <2>1 DEF Before
  <2>3. QED
    BY <1>4, <2>2 DEF BatchNext
<1>5. ASSUME BatchDone(w) \/ BatchSkip(w) \/ BatchNotPending(w) PROVE Less
  <2>1. pc'[w] \in {"ack", "r_next"} /\ todo' = todo
    BY <1>5 DEF BatchDone, BatchSkip, BatchNotPending
  <2>2. Before(w, i)' => Before(w, i)
    BY <2>1 DEF Before
  <2>3. QED
    BY <1>5, <2>2 DEF BatchDone, BatchSkip, BatchNotPending
<1>6. ASSUME NEW c \in Categories, BatchRefresh(w, c) \/ BatchApprove(w, c) PROVE Less
  <2>1. pc[w] = "r_classify" /\ pc'[w] \in {"r_post", "r_next"} /\ todo' = todo /\ cur' = cur
    BY <1>6 DEF BatchRefresh, BatchApprove
  <2>2. Before(w, i)' => Before(w, i)
    BY <2>1 DEF Before
  <2>3. QED
    BY <1>6, <2>2 DEF BatchRefresh, BatchApprove
<1>7. ASSUME BatchCommit(w) PROVE Less
  <2>1. /\ pc[w] = "r_commit" /\ todo' = todo
        /\ pc'[w] = (IF outcome[w] = "failed" THEN "r_retry" ELSE "r_next")
    BY <1>7 DEF BatchCommit
  <2>2. Before(w, i)' => Before(w, i)
    BY <2>1 DEF Before
  <2>3. QED
    BY <1>7, <2>2 DEF BatchCommit
<1>8. ASSUME Ack(w) PROVE Less
  <2>1. pc'[w] = "idle" /\ todo'[w] = {}
    BY <1>8 DEF Ack, CloseSession
  <2>2. ~Before(w, i)'
    BY <2>1 DEF Before
  <2>3. QED
    BY <1>8, <2>2 DEF Ack
<1>9. ASSUME Less PROVE Covered(i)'
  <2>1. Room(i)' = Room(i) + 0
    BY <1>9, RoomSame
  <2>2. One(Before(w, i)') =< One(Before(w, i)) + 0
    BY <1>9 DEF One
  <2>3. QED
    BY <1>9, <2>1, <2>2, NothingSent
<1>10. QED
  BY <1>1, <1>2, <1>3, <1>4, <1>5, <1>6, <1>7, <1>8, <1>9, DeliverKeepsCount, PostKeepsCount,
     RetryKeepsCount DEF Work

\* A fault excuses the one copy of a message it may bring back.
LEMMA FaultKeepsCount ==
  ASSUME DeskInv, QuietInv, [Next]_vars, NEW i \in Items, Covered(i), NEW w \in Workers,
         Interrupt(w)
  PROVE  Covered(i)'
<1> WorkersTyped /\ HoldsTrue(w) /\ InPlace(w)
  BY TypeParts DEF QuietInv, DeskInv
<1> USE DEF Goto, WorkersTyped, batch
<1>1. /\ ledger' = ledger /\ items' = items
      /\ \A m : Concerns(m, i)' <=> Concerns(m, i)
  <2>1. ledger' = ledger /\ items' = items
    BY DEF Interrupt, Crash, FinalizeAbort, BatchItemFails, Redeliver, Rollback
  <2>2. QED
    BY <2>1 DEF Concerns
<1>2. One(Before(w, i)) \in Nat
  BY DEF One
<1>3. ASSUME Crash(w) PROVE Covered(i)'
  <2>1. /\ msg[w] \in Messages /\ Send(msg[w]) /\ Again(Concerned(msg[w]))
        /\ pc'[w] = "idle" /\ todo'[w] = {}
    BY <1>3 DEF Crash, CloseSession, InPlace
  <2>2. ~Before(w, i)'
    BY <2>1 DEF Before
  <2>3. One(Before(w, i)') =< One(Before(w, i)) + 0
    BY <2>2 DEF One
  <2>4. QED
    BY <1>1, <2>1, <2>3, SentAgain
<1>4. ASSUME Redeliver(w) PROVE Covered(i)'
  <2>1. msg[w] \in Messages /\ Send(msg[w]) /\ Again(Concerned(msg[w]))
    BY <1>4 DEF Redeliver, InPlace
  <2>2. Before(w, i)' <=> Before(w, i)
    BY <1>4 DEF Redeliver, Before
  <2>3. One(Before(w, i)') =< One(Before(w, i)) + 0
    BY <1>2, <2>2 DEF One
  <2>4. QED
    BY <1>1, <2>1, <2>3, SentAgain
<1>5. ASSUME FinalizeAbort(w) \/ BatchItemFails(w) PROVE Covered(i)'
  <2>1. /\ mail' = mail /\ todo' = todo /\ pc'[w] \in {"ack", "r_next"}
        /\ repeated' = repeated
    BY <1>5 DEF FinalizeAbort, BatchItemFails
  <2>2. Before(w, i)' => Before(w, i)
    BY <2>1 DEF Before
  <2>3. PICK f \in Nat : Room(i)' = Room(i) + f
    <3>1. PICK f \in Nat : forgotten'[i] = forgotten[i] + f
      <4>1. forgotten'[i] = forgotten[i] + 0 \/ forgotten'[i] = forgotten[i] + 1
        BY Numbers
      <4>2. QED
        BY <4>1
    <3>2. repeated'[i] = repeated[i] + 0 /\ Len(ledger'[i]) = Len(ledger[i]) + 0
      BY <1>1, <2>1, Numbers
    <3>3. Room(i)' = Room(i) + f + 0 - 0 /\ Room(i) \in Int
      BY <3>1, <3>2, RoomAfter
    <3>4. QED
      BY <3>3
  <2>4. One(Before(w, i)') =< One(Before(w, i)) + f
    BY <2>2 DEF One
  <2>5. QED
    BY <2>1, <2>3, <2>4, NothingSent
<1>6. QED
  BY <1>3, <1>4, <1>5 DEF Interrupt

\* A click in quiet use finds an item with no chance left, and gives it one if it is
\* pending: then the record of every booking of it was rolled back.
LEMMA ClickKeepsCount ==
  ASSUME Quiet, DeskInv, QuietInv, [Next]_vars, NEW i \in Items, Covered(i),
         NEW s \in Sessions, Clicks(s)
  PROVE  Covered(i)'
<1> /\ ConsoleTyped /\ WorkersTyped /\ TablesTyped
    /\ \A w \in Workers : HoldsTrue(w)
  BY TypeParts DEF QuietInv
<1>1. /\ AllQuiet /\ items' = items
      /\ UNCHANGED <<ledger, pc, todo, forgotten, repeated>>
  BY ClickCases, ConsoleLeavesWorkers
<1>3. Runs(i)' = {}
  BY <1>1 DEF AllQuiet, Runs, Before, HoldsTrue
<1>4. Room(i)' = Room(i) /\ Room(i) \in Int
  BY <1>1, Numbers DEF Room
<1>5. items[i].status = "pending" => Room(i) >= 1
  <2> HAVE items[i].status = "pending"
  <2>1. ~\E w \in posted : cur[w] = i /\ pc[w] = "r_commit"
    BY <1>1 DEF AllQuiet, WorkersTyped
  <2>2. Len(ledger[i]) =< forgotten[i] + 0
    BY <2>1 DEF DeskInv, NothingBookedUndecided
  <2>3. QED
    BY <2>2, Numbers DEF Room
<1>6. Room(i) >= 0
  <2>1. /\ Cardinality(Copies(i)) \in Nat /\ Cardinality(Runs(i)) \in Nat
        /\ Cardinality(Sends(i)) \in Nat
    BY FS_CardinalityType DEF Covered
  <2>2. QED
    BY <1>4, <2>1 DEF Covered
<1>7. IsFiniteSet({}) /\ Cardinality({}) = 0
  BY FS_EmptySet
<1> DEFINE One1(T) == \E x : T \subseteq {x}
           Few(T) == T \subseteq {} \/ (items[i].status = "pending" /\ One1(T))
<1>8. ASSUME NEW T, Few(T)
      PROVE  /\ IsFiniteSet(T) /\ Cardinality(T) \in Nat
             /\ Cardinality(T) =< Room(i)
  <2>1. CASE T \subseteq {}
    <3>1. T = {}
      BY <2>1
    <3>2. QED
      BY <1>4, <1>6, <1>7, <3>1
  <2>2. CASE items[i].status = "pending" /\ One1(T)
    <3>1. PICK x : T \subseteq {x}
      BY <2>2
    <3>2. IsFiniteSet({x}) /\ Cardinality({x}) = 1
      BY FS_Singleton
    <3>3. IsFiniteSet(T) /\ Cardinality(T) =< Cardinality({x})
      BY <3>1, <3>2, FS_Subset
    <3>4. Cardinality(T) \in Nat
      BY <3>3, FS_CardinalityType
    <3>5. QED
      BY <1>4, <1>5, <2>2, <3>2, <3>3, <3>4
  <2>3. QED
    BY <1>8, <2>1, <2>2
<1>9. CASE ClickReclassify(s)
  <2>1. Sends(i)' = {}
    <3>1. spc' = spc
      BY <1>9 DEF ClickReclassify
    <3>2. QED
      BY <1>1, <3>1 DEF AllQuiet, Sends, Owes
  <2>2. Few(Copies(i)')
    <3>1. PICK m \in Messages : m = Reclassify(FALSE) /\ Send(m)
      BY <1>9, Kinds DEF ClickReclassify
    <3>2. /\ mail' = [mail EXCEPT ![m] = mail[m] + 1] /\ mail[m] = 0
          /\ \A n \in Messages : mail[n] = 0
      BY <1>1, <3>1 DEF AllQuiet, Send
    <3>3. mail'[m] = 1 /\ \A n \in Messages : n # m => mail'[n] = 0
      BY <3>2 DEF ConsoleTyped
    <3>4. ASSUME NEW c \in Copies(i)' PROVE c = <<m, 1>>
      <4>1. /\ c \in Messages \X Nat /\ c[2] \in 1 .. mail'[c[1]]
        BY DEF Copies
      <4>2. c = <<c[1], c[2]>> /\ c[1] \in Messages /\ c[2] \in Nat
        BY <4>1
      <4>3. c[1] = m
        BY <3>3, <4>1, <4>2
      <4>4. c[2] = 1
        BY <3>3, <4>1, <4>2, <4>3
      <4>5. QED
        BY <4>2, <4>3, <4>4
    <3>5. Copies(i)' # {} => items[i].status = "pending"
      <4>1. \A c \in Copies(i)' : Concerns(c[1], i)'
        BY DEF Copies
      <4>2. Copies(i)' # {} => Concerns(m, i)'
        BY <3>4, <4>1
      <4>3. QED
        BY <1>1, <3>1, <4>2 DEF Concerns, Reclassify
    <3>6. Copies(i)' \subseteq {<<m, 1>>}
      BY <3>4
    <3>7. QED
      BY <3>5, <3>6
  <2>3. /\ IsFiniteSet(Copies(i)') /\ Cardinality(Copies(i)') \in Nat
        /\ Cardinality(Copies(i)') =< Room(i)
    BY <1>8, <2>2
  <2>4. Cardinality(Copies(i)') + Cardinality(Runs(i)') + Cardinality(Sends(i)') =< Room(i)'
    BY <1>3, <1>4, <1>7, <2>1, <2>3
  <2>5. QED
    BY <1>3, <1>7, <2>1, <2>3, <2>4 DEF Covered
<1>10. ASSUME NEW verb \in AllVerbs, NEW picked \in SUBSET Items,
              NEW category \in Categories \union {NoCategory}, Load(s, verb, picked, category)
       PROVE  Covered(i)'
  <2>1. Copies(i)' = {}
    <3>1. mail' = mail
      BY <1>10 DEF Load
    <3>2. QED
      BY <1>1, <3>1 DEF AllQuiet, Copies
  <2>2. Few(Sends(i)')
    <3>1. /\ \A r \in Sessions \ {s} : spc'[r] = "idle"
          /\ request'[s] = [verb |-> verb, picked |-> picked, category |-> category]
          /\ \A j \in picked : items[j].status = "pending"
      BY <1>1, <1>10 DEF AllQuiet, Load, ConsoleTyped
    <3>2. Sends(i)' \subseteq {s}
      BY <3>1 DEF Sends, Owes
    <3>3. Sends(i)' # {} => items[i].status = "pending"
      BY <1>1, <3>1, <3>2 DEF Sends, Owes
    <3>4. QED
      BY <3>2, <3>3
  <2>3. /\ IsFiniteSet(Sends(i)') /\ Cardinality(Sends(i)') \in Nat
        /\ Cardinality(Sends(i)') =< Room(i)
    BY <1>8, <2>2
  <2>4. Cardinality(Copies(i)') + Cardinality(Runs(i)') + Cardinality(Sends(i)') =< Room(i)'
    BY <1>3, <1>4, <1>7, <2>1, <2>3
  <2>5. QED
    BY <1>3, <1>7, <2>1, <2>3, <2>4 DEF Covered
<1>11. QED
  BY <1>9, <1>10, ClickCases

\* Every step keeps the account of every item.
LEMMA CountStep ==
  ASSUME Quiet, DeskInv, QuietInv, [Next]_vars, NEW i \in Items, Covered(i)
  PROVE  Covered(i)'
<1>1. ASSUME UNCHANGED vars PROVE Covered(i)'
  <2>1. /\ Copies(i)' = Copies(i) /\ Runs(i)' = Runs(i)
        /\ Sends(i)' = Sends(i) /\ Room(i)' = Room(i)
    BY <1>1 DEF vars, Copies, Concerns, Runs, Before, Sends, Owes, Room
  <2>2. QED
    BY <2>1 DEF Covered
<1>2. QED
  BY <1>1, ClickKeepsCount, RequestKeepsCount, WorkKeepsCount, FaultKeepsCount DEF Next

LEMMA CountInit == ASSUME Init, NEW i \in Items PROVE Covered(i)
<1>1. Copies(i) = {} /\ Runs(i) = {} /\ Sends(i) = {}
  BY DEF Init, Copies, Runs, Before, Sends, Owes
<1>2. IsFiniteSet({}) /\ Cardinality({}) = 0
  BY FS_EmptySet
<1>3. Room(i) = 1
  <2>1. ledger[i] = <<>> /\ forgotten[i] = 0 /\ repeated[i] = 0
    BY DEF Init
  <2>2. Len(ledger[i]) = 0
    BY <2>1
  <2>3. QED
    BY <2>1, <2>2 DEF Room
<1>4. QED
  BY <1>1, <1>2, <1>3 DEF Covered

\* In quiet use every booking of an item after its first has a cause of its own at that
\* item: a lost answer, a record rolled back, or a message about it given out again.
THEOREM SecondBookingsHaveACause == ASSUME Quiet PROVE Spec => []SecondBookingsAreExcused
<1> DEFINE AllCovered == \A i \in Items : Covered(i)
<1>1. Init => AllCovered
  BY CountInit
<1>2. DeskInv /\ QuietInv /\ AllCovered /\ [Next]_vars => AllCovered'
  BY CountStep
<1>3. DeskInv /\ AllCovered => SecondBookingsAreExcused
  <2> SUFFICES ASSUME DeskInv, NEW i \in Items, Covered(i)
               PROVE  Len(ledger[i]) =< 1 + forgotten[i] + repeated[i]
    BY DEF SecondBookingsAreExcused
  <2>1. /\ Cardinality(Copies(i)) \in Nat /\ Cardinality(Runs(i)) \in Nat
        /\ Cardinality(Sends(i)) \in Nat
    BY FS_CardinalityType DEF Covered
  <2>2. TablesTyped /\ RepeatedTyped
    BY TypeParts
  <2>3. Len(ledger[i]) \in Nat /\ forgotten[i] \in Nat /\ repeated[i] \in Nat
    <3>1. ledger[i] \in Seq(Categories)
      BY <2>2 DEF TablesTyped
    <3>2. QED
      BY <2>2, <3>1 DEF TablesTyped, RepeatedTyped
  <2>4. 0 =< Room(i)
    <3>1. Room(i) \in Int
      BY <2>3 DEF Room
    <3>2. Cardinality(Copies(i)) + Cardinality(Runs(i)) + Cardinality(Sends(i)) =< Room(i)
      BY DEF Covered
    <3>3. QED
      BY <2>1, <3>1, <3>2
  <2>5. QED
    BY <2>3, <2>4 DEF Room
<1> HIDE DEF AllCovered
<1>4. QED
  BY QuietInvHolds, <1>1, <1>2, <1>3, PTL DEF Spec
=============================================================================
