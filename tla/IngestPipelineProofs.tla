------------------------ MODULE IngestPipelineProofs ------------------------
(***************************************************************************)
(* Proofs about IngestPipeline, for any tasks, fingerprints and workers    *)
(* and any number of faults.                                               *)
(***************************************************************************)
EXTENDS IngestPipeline, FiniteSetTheorems, FunctionTheorems, TLAPS

USE IngestAssumption

\* The type invariant is inductive by itself.
LEMMA TypeInit == Init => TypeOK
  BY DEF Init, TypeOK, Deliveries, IngestStatus, NoRow

\* A busy worker runs one of the tasks, for one of the fingerprints.
LEMMA BusyWorker ==
  ASSUME TypeOK, NEW w \in Workers, pc[w] # "idle"
  PROVE  /\ job[w] \in Deliveries
         /\ job[w].task \in Tasks
         /\ Fingerprint(w) \in Fingerprints
  BY DEF TypeOK, Deliveries, Fingerprint

LEMMA TypeStep == TypeOK /\ [Next]_vars => TypeOK'
<1> SUFFICES ASSUME TypeOK, [Next]_vars PROVE TypeOK'
  OBVIOUS
<1> USE DEF TypeOK, IngestStatus, NoRow, broker, tables, history
<1>1. ASSUME NEW t \in Tasks, Enqueue(t) PROVE TypeOK'
  <2>1. [task |-> t, retries |-> 0] \in Deliveries
    BY DEF Deliveries
  <2> QED
    BY <1>1, <2>1 DEF Enqueue
<1>2. ASSUME NEW w \in Workers, NEW d \in Deliveries, Deliver(w, d) PROVE TypeOK'
  BY <1>2 DEF Deliver
<1>3. ASSUME NEW w \in Workers, Claim(w) \/ ClaimDuplicate(w) PROVE TypeOK'
  BY <1>3 DEF Claim, ClaimDuplicate, Goto
<1>4. ASSUME NEW w \in Workers, ClassifyHigh(w) \/ ClassifyLow(w) PROVE TypeOK'
  BY <1>4 DEF ClassifyHigh, ClassifyLow, Goto
<1>5. ASSUME NEW w \in Workers, Remind(w) PROVE TypeOK'
  BY <1>5, BusyWorker DEF Remind, Goto
<1>6. ASSUME NEW w \in Workers, NEW status \in {"imported", "failed"},
             StoreApplied(w, status)
      PROVE TypeOK'
  BY <1>6, BusyWorker DEF StoreApplied, Goto
<1>7. ASSUME NEW w \in Workers, StoreRefused(w) PROVE TypeOK'
  BY <1>7 DEF StoreRefused, Goto
<1>8. ASSUME NEW w \in Workers, Commit(w) PROVE TypeOK'
  BY <1>8, BusyWorker DEF Commit, Goto
<1>9. ASSUME NEW w \in Workers, Retry(w) PROVE TypeOK'
  <2>1. job[w].retries < MaxRetries => [job[w] EXCEPT !.retries = @ + 1] \in Deliveries
    BY <1>9 DEF Retry, Deliveries
  <2> QED
    BY <1>9, <2>1 DEF Retry, Goto
<1>10. ASSUME NEW w \in Workers, Ack(w) PROVE TypeOK'
  BY <1>10 DEF Ack, Goto
<1>11. ASSUME NEW w \in Workers, Crash(w) PROVE TypeOK'
  BY <1>11, BusyWorker DEF Crash, Fault, Rollback, Goto
<1>12. ASSUME NEW w \in Workers, Abort(w) PROVE TypeOK'
  <2>1. pc[w] # "idle"
    BY <1>12 DEF Abort, InTxn
  <2> QED
    BY <1>12, <2>1, BusyWorker DEF Abort, Fault, Rollback, Goto
<1>13. ASSUME NEW w \in Workers, Redeliver(w) PROVE TypeOK'
  BY <1>13 DEF Redeliver, Fault
<1>14. CASE UNCHANGED vars
  BY <1>14 DEF vars
<1>15. QED
  BY <1>1, <1>2, <1>3, <1>4, <1>5, <1>6, <1>7, <1>8, <1>9, <1>10, <1>11, <1>12,
     <1>13, <1>14 DEF Next, Step, Interrupt

\* Every variable keeps its type in every behaviour.
THEOREM TypeCorrect == Spec => []TypeOK
  BY TypeInit, TypeStep, PTL DEF Spec

\* Nothing is booked, claimed or recorded at the start.
LEMMA InvInit == Init => IngestInv
  BY TypeInit DEF Init, IngestInv, StagedMatchesPost, ClaimIsExclusive,
     LedgerAccounted, RowsMatchLedger, OneReviewItem, InTxn, NoRow

\* Steps 1 to 10 leave claims, tables and ledger as they are; 11 to 15 take a
\* claim, use it or give it up, and are proved conjunct by conjunct.
LEMMA InvStep == IngestInv /\ [Next]_vars => IngestInv'
<1> SUFFICES ASSUME IngestInv, [Next]_vars PROVE IngestInv'
  OBVIOUS
<1> USE DEF broker, tables, history
<1>t. TypeOK /\ TypeOK'
  BY TypeStep DEF IngestInv
<1>1. ASSUME NEW t \in Tasks, Enqueue(t) PROVE IngestInv'
  BY <1>1, <1>t, BusyWorker DEF Enqueue, IngestInv, StagedMatchesPost,
     ClaimIsExclusive, LedgerAccounted, RowsMatchLedger, OneReviewItem,
     TypeOK, InTxn, Fingerprint, NoRow
<1>2. ASSUME NEW w \in Workers, NEW d \in Deliveries, Deliver(w, d) PROVE IngestInv'
  BY <1>2, <1>t, BusyWorker DEF Deliver, IngestInv, StagedMatchesPost,
     ClaimIsExclusive, LedgerAccounted, RowsMatchLedger, OneReviewItem,
     TypeOK, InTxn, Fingerprint, NoRow
<1>3. ASSUME NEW w \in Workers, ClaimDuplicate(w) PROVE IngestInv'
  BY <1>3, <1>t, BusyWorker DEF ClaimDuplicate, Goto, IngestInv,
     StagedMatchesPost, ClaimIsExclusive, LedgerAccounted,
     RowsMatchLedger, OneReviewItem, TypeOK, InTxn, Fingerprint, NoRow
<1>4. ASSUME NEW w \in Workers, Retry(w) PROVE IngestInv'
  BY <1>4, <1>t, BusyWorker DEF Retry, Goto, IngestInv, StagedMatchesPost,
     ClaimIsExclusive, LedgerAccounted, RowsMatchLedger, OneReviewItem,
     TypeOK, InTxn, Fingerprint, NoRow
<1>5. ASSUME NEW w \in Workers, Ack(w) PROVE IngestInv'
  BY <1>5, <1>t, BusyWorker DEF Ack, Goto, IngestInv, StagedMatchesPost,
     ClaimIsExclusive, LedgerAccounted, RowsMatchLedger, OneReviewItem,
     TypeOK, InTxn, Fingerprint, NoRow
<1>6. ASSUME NEW w \in Workers, Redeliver(w) PROVE IngestInv'
  BY <1>6, <1>t, BusyWorker DEF Redeliver, Fault, IngestInv,
     StagedMatchesPost, ClaimIsExclusive, LedgerAccounted,
     RowsMatchLedger, OneReviewItem, TypeOK, InTxn, Fingerprint, NoRow
<1>7. ASSUME NEW w \in Workers, ClassifyHigh(w) PROVE IngestInv'
  BY <1>7, <1>t, BusyWorker DEF ClassifyHigh, Goto, IngestInv,
     StagedMatchesPost, ClaimIsExclusive, LedgerAccounted,
     RowsMatchLedger, OneReviewItem, TypeOK, InTxn, Fingerprint, NoRow
<1>8. ASSUME NEW w \in Workers, ClassifyLow(w) PROVE IngestInv'
  BY <1>8, <1>t, BusyWorker DEF ClassifyLow, Goto, IngestInv,
     StagedMatchesPost, ClaimIsExclusive, LedgerAccounted,
     RowsMatchLedger, OneReviewItem, TypeOK, InTxn, Fingerprint, NoRow
<1>9. ASSUME NEW w \in Workers, Remind(w) PROVE IngestInv'
  BY <1>9, <1>t, BusyWorker DEF Remind, Goto, IngestInv,
     StagedMatchesPost, ClaimIsExclusive, LedgerAccounted,
     RowsMatchLedger, OneReviewItem, TypeOK, InTxn, Fingerprint, NoRow
<1>10. ASSUME NEW w \in Workers, StoreRefused(w) PROVE IngestInv'
  BY <1>10, <1>t, BusyWorker DEF StoreRefused, Goto, IngestInv,
     StagedMatchesPost, ClaimIsExclusive, LedgerAccounted,
     RowsMatchLedger, OneReviewItem, TypeOK, InTxn, Fingerprint, NoRow
<1>11. ASSUME NEW w \in Workers, Claim(w)
       PROVE  IngestInv'
  <2>1. StagedMatchesPost'
    BY <1>11, <1>t DEF Claim, Goto, IngestInv, StagedMatchesPost,
       TypeOK, NoRow
  <2>2. ClaimIsExclusive'
    BY <1>11, <1>t, BusyWorker DEF Claim, Goto, IngestInv,
       ClaimIsExclusive, TypeOK, InTxn, Fingerprint, NoRow
  <2>3. LedgerAccounted'
    BY <1>11, <1>t, BusyWorker DEF Claim, Goto, IngestInv,
       StagedMatchesPost, ClaimIsExclusive, LedgerAccounted, TypeOK,
       InTxn, Fingerprint, NoRow
  <2>4. RowsMatchLedger'
    BY <1>11, <1>t, BusyWorker DEF Claim, Goto, IngestInv,
       StagedMatchesPost, ClaimIsExclusive, LedgerAccounted,
       RowsMatchLedger, TypeOK, InTxn, Fingerprint, NoRow
  <2>5. OneReviewItem'
    BY <1>11, <1>t, BusyWorker DEF Claim, Goto, IngestInv,
       ClaimIsExclusive, OneReviewItem, TypeOK, InTxn, Fingerprint,
       NoRow
  <2>6. QED
    BY <2>1, <2>2, <2>3, <2>4, <2>5, <1>t DEF IngestInv
<1>12. ASSUME NEW w \in Workers, NEW status \in {"imported", "failed"},
             StoreApplied(w, status)
       PROVE  IngestInv'
  <2>1. StagedMatchesPost'
    BY <1>12, <1>t DEF StoreApplied, Goto, IngestInv, StagedMatchesPost,
       TypeOK, NoRow
  <2>2. ClaimIsExclusive'
    BY <1>12, <1>t, BusyWorker DEF StoreApplied, Goto, IngestInv,
       ClaimIsExclusive, TypeOK, InTxn, Fingerprint, NoRow
  <2>3. LedgerAccounted'
    BY <1>12, <1>t, BusyWorker DEF StoreApplied, Goto, IngestInv,
       StagedMatchesPost, ClaimIsExclusive, LedgerAccounted, TypeOK,
       InTxn, Fingerprint, NoRow
  <2>4. RowsMatchLedger'
    BY <1>12, <1>t, BusyWorker DEF StoreApplied, Goto, IngestInv,
       StagedMatchesPost, ClaimIsExclusive, LedgerAccounted,
       RowsMatchLedger, TypeOK, InTxn, Fingerprint, NoRow
  <2>5. OneReviewItem'
    BY <1>12, <1>t, BusyWorker DEF StoreApplied, Goto, IngestInv,
       ClaimIsExclusive, OneReviewItem, TypeOK, InTxn, Fingerprint,
       NoRow
  <2>6. QED
    BY <2>1, <2>2, <2>3, <2>4, <2>5, <1>t DEF IngestInv
<1>13. ASSUME NEW w \in Workers, Commit(w)
       PROVE  IngestInv'
  <2>1. StagedMatchesPost'
    BY <1>13, <1>t DEF Commit, Goto, IngestInv, StagedMatchesPost,
       TypeOK, NoRow
  <2>2. ClaimIsExclusive'
    BY <1>13, <1>t, BusyWorker DEF Commit, Goto, IngestInv,
       ClaimIsExclusive, TypeOK, InTxn, Fingerprint, NoRow
  <2>3. LedgerAccounted'
    BY <1>13, <1>t, BusyWorker DEF Commit, Goto, IngestInv,
       StagedMatchesPost, ClaimIsExclusive, LedgerAccounted, TypeOK,
       InTxn, Fingerprint, NoRow
  <2>4. RowsMatchLedger'
    BY <1>13, <1>t, BusyWorker DEF Commit, Goto, IngestInv,
       StagedMatchesPost, ClaimIsExclusive, LedgerAccounted,
       RowsMatchLedger, TypeOK, InTxn, Fingerprint, NoRow
  <2>5. OneReviewItem'
    BY <1>13, <1>t, BusyWorker DEF Commit, Goto, IngestInv,
       ClaimIsExclusive, OneReviewItem, TypeOK, InTxn, Fingerprint,
       NoRow
  <2>6. QED
    BY <2>1, <2>2, <2>3, <2>4, <2>5, <1>t DEF IngestInv
<1>14. ASSUME NEW w \in Workers, Crash(w)
       PROVE  IngestInv'
  <2>1. StagedMatchesPost'
    BY <1>14, <1>t DEF Crash, Fault, Rollback, Goto, IngestInv,
       StagedMatchesPost, TypeOK, NoRow
  <2>2. ClaimIsExclusive'
    BY <1>14, <1>t, BusyWorker DEF Crash, Fault, Rollback, Goto,
       IngestInv, ClaimIsExclusive, TypeOK, InTxn, Fingerprint, NoRow
  <2>3. LedgerAccounted'
    BY <1>14, <1>t, BusyWorker DEF Crash, Fault, Rollback, Goto,
       IngestInv, StagedMatchesPost, ClaimIsExclusive, LedgerAccounted,
       TypeOK, InTxn, Fingerprint, NoRow
  <2>4. RowsMatchLedger'
    BY <1>14, <1>t, BusyWorker DEF Crash, Fault, Rollback, Goto,
       IngestInv, StagedMatchesPost, ClaimIsExclusive, LedgerAccounted,
       RowsMatchLedger, TypeOK, InTxn, Fingerprint, NoRow
  <2>5. OneReviewItem'
    BY <1>14, <1>t, BusyWorker DEF Crash, Fault, Rollback, Goto,
       IngestInv, ClaimIsExclusive, OneReviewItem, TypeOK, InTxn,
       Fingerprint, NoRow
  <2>6. QED
    BY <2>1, <2>2, <2>3, <2>4, <2>5, <1>t DEF IngestInv
<1>15. ASSUME NEW w \in Workers, Abort(w)
       PROVE  IngestInv'
  <2>1. StagedMatchesPost'
    BY <1>15, <1>t DEF Abort, Fault, Rollback, Goto, IngestInv,
       StagedMatchesPost, TypeOK, NoRow
  <2>2. ClaimIsExclusive'
    BY <1>15, <1>t, BusyWorker DEF Abort, Fault, Rollback, Goto,
       IngestInv, ClaimIsExclusive, TypeOK, InTxn, Fingerprint, NoRow
  <2>3. LedgerAccounted'
    BY <1>15, <1>t, BusyWorker DEF Abort, Fault, Rollback, Goto,
       IngestInv, StagedMatchesPost, ClaimIsExclusive, LedgerAccounted,
       TypeOK, InTxn, Fingerprint, NoRow
  <2>4. RowsMatchLedger'
    BY <1>15, <1>t, BusyWorker DEF Abort, Fault, Rollback, Goto,
       IngestInv, StagedMatchesPost, ClaimIsExclusive, LedgerAccounted,
       RowsMatchLedger, TypeOK, InTxn, Fingerprint, NoRow
  <2>5. OneReviewItem'
    BY <1>15, <1>t, BusyWorker DEF Abort, Fault, Rollback, Goto,
       IngestInv, ClaimIsExclusive, OneReviewItem, TypeOK, InTxn,
       Fingerprint, NoRow
  <2>6. QED
    BY <2>1, <2>2, <2>3, <2>4, <2>5, <1>t DEF IngestInv
<1>16. CASE UNCHANGED vars
  BY <1>16, <1>t DEF vars, IngestInv, StagedMatchesPost, ClaimIsExclusive,
     LedgerAccounted, RowsMatchLedger, OneReviewItem, InTxn, Fingerprint
<1>17. QED
  BY <1>1, <1>2, <1>3, <1>4, <1>5, <1>6, <1>7, <1>8, <1>9, <1>10, <1>11, <1>12,
     <1>13, <1>14, <1>15, <1>16 DEF Next, Step, Interrupt

LEMMA InvHolds == Spec => []IngestInv
  BY InvInit, InvStep, PTL DEF Spec

\* Deduplication never lets a fingerprint be booked a second time unless the
\* record of the first booking was rolled back.
THEOREM AtMostOnce == Spec => []BookedAtMostOnce
<1>1. IngestInv => BookedAtMostOnce
  BY DEF IngestInv, TypeOK, LedgerAccounted, BookedAtMostOnce, NoRow
<1>2. QED
  BY InvHolds, <1>1, PTL

\* What the database says of a fingerprint is what the ledger holds for it.
THEOREM DatabaseIsTruthful == Spec => []RowsMatchLedger
<1>1. IngestInv => RowsMatchLedger
  BY DEF IngestInv
<1>2. QED
  BY InvHolds, <1>1, PTL

\* A transaction put up for review has exactly one review item, and no other
\* transaction has one.
THEOREM OneItemPerReview == Spec => []OneReviewItem
<1>1. IngestInv => OneReviewItem
  BY DEF IngestInv
<1>2. QED
  BY InvHolds, <1>1, PTL

\* Two runs of the task never work on one fingerprint at the same time.
THEOREM ExclusiveClaims == Spec => []ClaimIsExclusive
<1>1. IngestInv => ClaimIsExclusive
  BY DEF IngestInv
<1>2. QED
  BY InvHolds, <1>1, PTL

-----------------------------------------------------------------------------
(* How much a fault can cost. *)

\* The bookings whose record was rolled back, and those after the first of each
\* fingerprint.
Forgotten == {x \in Fingerprints \X Nat : 0 < x[2] /\ x[2] =< forgotten[x[1]]}
Repeats == {x \in Fingerprints \X Nat : 1 < x[2] /\ x[2] =< ledger[x[1]]}

\* One fault rolls back one transaction, hence forgets one booking at most.
ForgottenByFaults == IsFiniteSet(Forgotten) /\ Cardinality(Forgotten) =< faults

LEMMA ForgottenInit == Init => ForgottenByFaults
<1> SUFFICES ASSUME Init PROVE ForgottenByFaults
  OBVIOUS
<1>1. Forgotten = {} /\ faults = 0
  BY DEF Init, Forgotten
<1>2. QED
  BY <1>1, FS_EmptySet DEF ForgottenByFaults

\* A rollback adds one pair at most.
LEMMA RollbackStep ==
  ASSUME TypeOK, ForgottenByFaults, NEW w \in Workers, pc[w] # "idle", Rollback(w), Fault
  PROVE  ForgottenByFaults'
<1>1. /\ faults \in Nat /\ faults' = faults + 1
      /\ forgotten \in [Fingerprints -> Nat] /\ Fingerprint(w) \in Fingerprints
  BY BusyWorker DEF TypeOK, Fault
<1>2. Cardinality(Forgotten) \in Nat
  BY FS_CardinalityType DEF ForgottenByFaults
<1>3. CASE w \in posted
  <2>f. PICK f \in Fingerprints : f = Fingerprint(w)
    BY <1>1
  <2>k. PICK k \in Nat : k = forgotten[f] + 1
    BY <1>1
  <2>1. forgotten' = [forgotten EXCEPT ![f] = k]
    BY <1>1, <1>3, <2>f, <2>k DEF Rollback
  <2>2. forgotten'[f] = k /\ \A g \in Fingerprints \ {f} : forgotten'[g] = forgotten[g]
    BY <1>1, <2>1
  <2>3. \A x \in Fingerprints \X Nat :
          (0 < x[2] /\ x[2] =< forgotten'[x[1]])
            <=> (0 < x[2] /\ x[2] =< forgotten[x[1]]) \/ x = <<f, k>>
    <3> SUFFICES ASSUME NEW g \in Fingerprints, NEW n \in Nat
                 PROVE  (0 < n /\ n =< forgotten'[g])
                          <=> (0 < n /\ n =< forgotten[g]) \/ (g = f /\ n = k)
      OBVIOUS
    <3>1. CASE g = f
      BY <1>1, <2>k, <2>2, <3>1
    <3>2. CASE g # f
      BY <2>2, <3>2
    <3>3. QED
      BY <3>1, <3>2
  <2>4. Forgotten' = Forgotten \union {<<f, k>>}
    BY <2>3 DEF Forgotten
  <2>5. /\ IsFiniteSet(Forgotten \union {<<f, k>>})
        /\ Cardinality(Forgotten \union {<<f, k>>})
              = IF <<f, k>> \in Forgotten THEN Cardinality(Forgotten) ELSE Cardinality(Forgotten) + 1
    BY FS_AddElement DEF ForgottenByFaults
  <2>6. QED
    BY <1>1, <1>2, <2>4, <2>5 DEF ForgottenByFaults
<1>4. CASE w \notin posted
  BY <1>1, <1>2, <1>4 DEF Rollback, Forgotten, ForgottenByFaults
<1>5. QED
  BY <1>3, <1>4

LEMMA ForgottenStep ==
  TypeOK /\ ForgottenByFaults /\ [Next]_vars => ForgottenByFaults'
<1> SUFFICES ASSUME TypeOK, ForgottenByFaults, [Next]_vars PROVE ForgottenByFaults'
  OBVIOUS
<1>1. ASSUME NEW w \in Workers, Crash(w) \/ Abort(w) PROVE ForgottenByFaults'
  BY <1>1, RollbackStep DEF Crash, Abort, InTxn
<1>2. ASSUME NEW w \in Workers, Redeliver(w) PROVE ForgottenByFaults'
  <2>1. Cardinality(Forgotten) \in Nat /\ faults \in Nat
    BY FS_CardinalityType DEF ForgottenByFaults, TypeOK
  <2>2. QED
    BY <1>2, <2>1 DEF Redeliver, Fault, ForgottenByFaults, Forgotten
<1>3. ASSUME NEW w \in Workers, Step(w) PROVE UNCHANGED <<forgotten, faults>>
  BY <1>3 DEF Step, Deliver, Claim, ClaimDuplicate, ClassifyHigh, ClassifyLow,
     Remind, StoreApplied, StoreRefused, Commit, Retry, Ack, history
<1>4. ASSUME NEW t \in Tasks, Enqueue(t) PROVE UNCHANGED <<forgotten, faults>>
  BY <1>4 DEF Enqueue, history
<1>5. CASE UNCHANGED <<forgotten, faults>>
  BY <1>5 DEF ForgottenByFaults, Forgotten
<1>6. QED
  BY <1>1, <1>2, <1>3, <1>4, <1>5 DEF Next, Interrupt, vars

\* All fingerprints together are booked as many times too often, at most, as
\* workers crashed or tasks died: each of these repeats one booking, and re-uploads,
\* retries and lost answers alone cost nothing.
THEOREM DoubleBookingsAreFaults ==
  Spec => [](IsFiniteSet(Repeats) /\ Cardinality(Repeats) =< faults)
<1>1. Spec => []ForgottenByFaults
  BY ForgottenInit, ForgottenStep, TypeCorrect, PTL DEF Spec
<1>2. TypeOK /\ BookedAtMostOnce /\ ForgottenByFaults
        => IsFiniteSet(Repeats) /\ Cardinality(Repeats) =< faults
  <2> SUFFICES ASSUME TypeOK, BookedAtMostOnce, ForgottenByFaults
               PROVE  IsFiniteSet(Repeats) /\ Cardinality(Repeats) =< faults
    OBVIOUS
  <2> DEFINE Before == [x \in Repeats |-> <<x[1], x[2] - 1>>]
  <2>1. ASSUME NEW x \in Repeats PROVE <<x[1], x[2] - 1>> \in Forgotten
    <3>1. x[1] \in Fingerprints /\ x[2] \in Nat /\ 1 < x[2] /\ x[2] =< ledger[x[1]]
      BY DEF Repeats
    <3>2. /\ ledger[x[1]] \in Nat /\ forgotten[x[1]] \in Nat
          /\ ledger[x[1]] =< forgotten[x[1]] + 1
      BY <3>1 DEF TypeOK, BookedAtMostOnce
    <3>3. PICK n \in Nat : n = x[2] - 1
      BY <3>1
    <3>4. 0 < n /\ n =< forgotten[x[1]]
      BY <3>1, <3>2, <3>3
    <3>5. <<x[1], n>> \in Forgotten
      BY <3>1, <3>4 DEF Forgotten
    <3>6. QED
      BY <3>3, <3>5
  <2>2. Before \in [Repeats -> Forgotten]
    BY <2>1
  <2>3. ASSUME NEW x \in Repeats, NEW y \in Repeats, Before[x] = Before[y] PROVE x = y
    <3>1. x[1] = y[1] /\ x[2] - 1 = y[2] - 1
      BY <2>3
    <3>2. QED
      BY <3>1 DEF Repeats
  <2>4. Before \in Injection(Repeats, Forgotten)
    BY <2>2, <2>3, Fun_IsInj
  <2>5. IsFiniteSet(Repeats) /\ Cardinality(Repeats) =< Cardinality(Forgotten)
    BY <2>4, FS_Injection DEF ForgottenByFaults
  <2>6. /\ Cardinality(Repeats) \in Nat /\ Cardinality(Forgotten) \in Nat /\ faults \in Nat
    BY <2>5, FS_CardinalityType DEF ForgottenByFaults, TypeOK
  <2>7. QED
    BY <2>5, <2>6 DEF ForgottenByFaults
<1>3. QED
  BY <1>1, <1>2, TypeCorrect, AtMostOnce, PTL

\* Where no worker is ever lost and no task dies, the documented promise holds.
THEOREM OnceWithoutFaults == MaxFaults = 0 => (Spec => []BookedOnlyOnce)
<1> SUFFICES ASSUME MaxFaults = 0 PROVE Spec => []BookedOnlyOnce
  OBVIOUS
<1>1. TypeOK /\ IsFiniteSet(Repeats) /\ Cardinality(Repeats) =< faults => BookedOnlyOnce
  <2> SUFFICES ASSUME TypeOK, IsFiniteSet(Repeats), Cardinality(Repeats) =< faults,
                      NEW f \in Fingerprints, ~(ledger[f] =< 1)
               PROVE  FALSE
    BY DEF BookedOnlyOnce
  <2>1. <<f, 2>> \in Repeats
    BY DEF Repeats, TypeOK
  <2>2. Cardinality(Repeats) \in Nat /\ Cardinality(Repeats) # 0
    BY <2>1, FS_CardinalityType, FS_EmptySet
  <2>3. QED
    BY <2>2 DEF TypeOK
<1>2. QED
  BY <1>1, TypeCorrect, DoubleBookingsAreFaults, PTL

-----------------------------------------------------------------------------
(* The pipeline implements BookedOnce. *)

\* Posting books, a rollback after it forgets, a commit records; every other
\* step leaves the abstract state alone.
LEMMA PromiseStep ==
  IngestInv /\ [Next]_vars => [Promise!Next]_(Promise!vars)
<1> SUFFICES ASSUME IngestInv, [Next]_vars PROVE [Promise!Next]_(Promise!vars)
  OBVIOUS
<1> USE DEF Promise!vars, tables, history
<1>t. TypeOK
  BY DEF IngestInv
<1>1. ASSUME NEW w \in Workers, NEW status \in {"imported", "failed"},
             StoreApplied(w, status)
      PROVE  Promise!Next
  <2>1. Promise!Book(Fingerprint(w))
    BY <1>1, <1>t, BusyWorker DEF StoreApplied, IngestInv, StagedMatchesPost,
       ClaimIsExclusive, LedgerAccounted, InTxn, Promise!Book, TypeOK
  <2>2. QED
    BY <1>1, <1>t, <2>1, BusyWorker DEF StoreApplied, Promise!Next
<1>2. ASSUME NEW w \in Workers, Commit(w) PROVE Promise!Next
  <2>1. Promise!Record(Fingerprint(w))
    BY <1>2, <1>t, BusyWorker DEF Commit, IngestInv, StagedMatchesPost,
       ClaimIsExclusive, InTxn, Promise!Record, TypeOK, NoRow
  <2>2. Fingerprint(w) \in Fingerprints
    BY <1>2, <1>t, BusyWorker DEF Commit
  <2>3. QED
    BY <2>1, <2>2, Zenon DEF Promise!Next, Promise!Record
<1>3. ASSUME NEW w \in Workers, Crash(w) \/ Abort(w)
      PROVE  Promise!Next \/ UNCHANGED Promise!vars
  <2>0. pc[w] # "idle"
    BY <1>3 DEF Crash, Abort, InTxn
  <2>1. CASE w \in posted
    <3>1. Promise!Forget(Fingerprint(w))
      BY <1>3, <1>t, <2>0, <2>1, BusyWorker DEF Crash, Abort, Rollback, IngestInv,
         StagedMatchesPost, ClaimIsExclusive, LedgerAccounted, InTxn,
         Promise!Forget, TypeOK
    <3>2. QED
      BY <1>t, <2>0, <3>1, BusyWorker DEF Promise!Next
  <2>2. CASE w \notin posted
    BY <1>3, <2>2 DEF Crash, Abort, Rollback
  <2>3. QED
    BY <2>1, <2>2
<1>4. ASSUME NEW w \in Workers, Redeliver(w) PROVE UNCHANGED Promise!vars
  BY <1>4 DEF Redeliver
<1>5. ASSUME NEW w \in Workers, Step(w),
             ~Commit(w), ~\E status \in {"imported", "failed"} : StoreApplied(w, status)
      PROVE  UNCHANGED Promise!vars
  BY <1>5 DEF Step, Deliver, Claim, ClaimDuplicate, ClassifyHigh, ClassifyLow,
     Remind, StoreRefused, Retry, Ack
<1>6. ASSUME NEW t \in Tasks, Enqueue(t) PROVE UNCHANGED Promise!vars
  BY <1>6 DEF Enqueue
<1>7. CASE UNCHANGED vars
  BY <1>7 DEF vars
<1>8. QED
  BY <1>1, <1>2, <1>3, <1>4, <1>5, <1>6, <1>7 DEF Next, Interrupt

\* The pipeline, faults included, keeps the promise of BookedOnce.
THEOREM Refinement == Spec => RefinesBookedOnce
<1>1. Init => Promise!Init
  BY DEF Init, Promise!Init, NoRow
<1>2. QED
  BY <1>1, InvHolds, PromiseStep, PTL DEF Spec, RefinesBookedOnce, Promise!Spec
=============================================================================
