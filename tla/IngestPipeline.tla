--------------------------- MODULE IngestPipeline ---------------------------
(***************************************************************************)
(* The ingest pipeline: the Celery task ingest_transaction as several      *)
(* worker processes run it, the broker that hands it out, the two tables   *)
(* it writes and the Firefly ledger it posts to.                           *)
(*                                                                         *)
(* A task run is one database transaction around one call of Firefly.  The *)
(* claim of the fingerprint (an INSERT under a unique constraint) is the   *)
(* first write and holds every other run of the same fingerprint back      *)
(* until the transaction ends; the outcome is the last.  Between the two   *)
(* the run classifies, posts or creates a review item.  Messages are       *)
(* acknowledged after the run (task_acks_late) and given out again when    *)
(* the worker is lost, so every step below can be the last of its run.     *)
(***************************************************************************)
EXTENDS Naturals

CONSTANTS
    Tasks,         \* the messages the upload, quick-entry and re-upload routes enqueue
    Fingerprints,  \* the identities compute_fingerprint can give
    Fp,            \* the fingerprint of a task's transaction
    Workers,       \* worker processes
    NoJob,         \* the job of an idle worker
    MaxRetries,    \* max_retries of the task (3 in the code)
    MaxFaults      \* bound: crashes, redeliveries and unexpected errors in a behaviour

Deliveries == [task : Tasks, retries : 0 .. MaxRetries]

ASSUME IngestAssumption ==
    /\ Fp \in [Tasks -> Fingerprints]
    /\ NoJob \notin Deliveries
    /\ MaxRetries \in Nat
    /\ MaxFaults \in Nat

NoRow == "no_row"
IngestStatus == {"imported", "pending_review", "failed"}

VARIABLES
    unsent,     \* tasks no route has enqueued yet
    waiting,    \* broker: copies of each message ready for delivery
    pc,         \* where each worker is in the task body
    job,        \* the unacknowledged message each worker runs
    staged,     \* status written in the worker's open transaction
    posted,     \* workers whose current run had its POST applied by Firefly
    rows,       \* committed ingested_transactions: status by fingerprint
    items,      \* committed pending review items by fingerprint
    ledger,     \* Firefly transactions by external_id
    reminded,   \* fingerprints for which a review reminder was pushed
    dropped,    \* tasks acknowledged after an unexpected error
    forgotten,  \* history: Firefly transactions whose record was rolled back
    faults      \* how much of MaxFaults is used

broker == <<unsent, waiting>>
tables == <<rows, items>>
history == <<dropped, forgotten, faults>>
vars == <<unsent, waiting, pc, job, staged, posted, rows, items, ledger,
          reminded, dropped, forgotten, faults>>

\* The fingerprint a busy worker works on.
Fingerprint(w) == Fp[job[w].task]

\* The worker's transaction is open and holds the claim of its fingerprint.
InTxn(w) == pc[w] \in {"classify", "store", "remind", "commit"}

-----------------------------------------------------------------------------
Init ==
    /\ unsent = Tasks
    /\ waiting = [d \in Deliveries |-> 0]
    /\ pc = [w \in Workers |-> "idle"]
    /\ job = [w \in Workers |-> NoJob]
    /\ staged = [w \in Workers |-> NoRow]
    /\ posted = {}
    /\ rows = [f \in Fingerprints |-> NoRow]
    /\ items = [f \in Fingerprints |-> 0]
    /\ ledger = [f \in Fingerprints |-> 0]
    /\ reminded = {}
    /\ dropped = {}
    /\ forgotten = [f \in Fingerprints |-> 0]
    /\ faults = 0

\* A route calls ingest_transaction.delay.
Enqueue(t) ==
    /\ t \in unsent
    /\ unsent' = unsent \ {t}
    /\ waiting' = [waiting EXCEPT ![[task |-> t, retries |-> 0]] = @ + 1]
    /\ UNCHANGED <<pc, job, staged, posted, tables, ledger, reminded, history>>

\* An idle worker takes one message (prefetch 1) and does not acknowledge it.
Deliver(w, d) ==
    /\ pc[w] = "idle"
    /\ waiting[d] > 0
    /\ waiting' = [waiting EXCEPT ![d] = @ - 1]
    /\ job' = [job EXCEPT ![w] = d]
    /\ pc' = [pc EXCEPT ![w] = "claim"]
    /\ UNCHANGED <<unsent, staged, posted, tables, ledger, reminded, history>>

-----------------------------------------------------------------------------
(* The task body. *)

Goto(w, label) == pc' = [pc EXCEPT ![w] = label]

\* Mutant of Claim: SELECT before INSERT instead of the unique constraint, so an
\* uncommitted claim is not seen.
ClaimBySelect(w) ==
    /\ pc[w] = "claim"
    /\ rows[Fingerprint(w)] = NoRow
    /\ Goto(w, "classify")
    /\ UNCHANGED <<broker, job, staged, posted, tables, ledger, reminded, history>>

\* Mutant of Claim: a FAILED row is claimed again, as a naive repair of the
\* retry would do.
ClaimFailedAgain(w) ==
    /\ pc[w] = "claim"
    /\ \A v \in Workers : ~(InTxn(v) /\ Fingerprint(v) = Fingerprint(w))
    /\ rows[Fingerprint(w)] \in {NoRow, "failed"}
    /\ Goto(w, "classify")
    /\ UNCHANGED <<broker, job, staged, posted, tables, ledger, reminded, history>>

\* claim_fingerprint: the INSERT waits for an open transaction on the same
\* fingerprint and goes through when no row is committed.
Claim(w) ==
    /\ pc[w] = "claim"
    /\ \A v \in Workers : ~(InTxn(v) /\ Fingerprint(v) = Fingerprint(w))
    /\ rows[Fingerprint(w)] = NoRow
    /\ Goto(w, "classify")
    /\ UNCHANGED <<broker, job, staged, posted, tables, ledger, reminded, history>>

\* Mutant of ClaimDuplicate: the message is put back instead of dropped.
DuplicateRequeued(w) ==
    /\ pc[w] = "claim"
    /\ \A v \in Workers : ~(InTxn(v) /\ Fingerprint(v) = Fingerprint(w))
    /\ rows[Fingerprint(w)] # NoRow
    /\ waiting' = [waiting EXCEPT ![job[w]] = @ + 1]
    /\ Goto(w, "ack")
    /\ UNCHANGED <<unsent, job, staged, posted, tables, ledger, reminded, history>>

\* The unique constraint refuses the INSERT: audit "duplicate" and return.
ClaimDuplicate(w) ==
    /\ pc[w] = "claim"
    /\ \A v \in Workers : ~(InTxn(v) /\ Fingerprint(v) = Fingerprint(w))
    /\ rows[Fingerprint(w)] # NoRow
    /\ Goto(w, "ack")
    /\ UNCHANGED <<broker, job, staged, posted, tables, ledger, reminded, history>>

\* The confidence reaches the threshold: book it.
ClassifyHigh(w) ==
    /\ pc[w] = "classify"
    /\ Goto(w, "store")
    /\ UNCHANGED <<broker, job, staged, posted, tables, ledger, reminded, history>>

\* It does not: create the review item, mark the row, remind the user next.
ClassifyLow(w) ==
    /\ pc[w] = "classify"
    /\ staged' = [staged EXCEPT ![w] = "pending_review"]
    /\ Goto(w, "remind")
    /\ UNCHANGED <<broker, job, posted, tables, ledger, reminded, history>>

\* notify runs inside the still open transaction; its failure is only logged.
Remind(w) ==
    /\ pc[w] = "remind"
    /\ reminded' \in {reminded, reminded \union {Fingerprint(w)}}
    /\ Goto(w, "commit")
    /\ UNCHANGED <<broker, job, staged, posted, tables, ledger, history>>

\* Firefly creates the transaction.  The answer may be lost (timeout, 5xx,
\* missing id), and then the code takes the failure path all the same.
StoreApplied(w, status) ==
    /\ pc[w] = "store"
    /\ ledger' = [ledger EXCEPT ![Fingerprint(w)] = @ + 1]
    /\ posted' = posted \union {w}
    /\ staged' = [staged EXCEPT ![w] = status]
    /\ Goto(w, "commit")
    /\ UNCHANGED <<broker, job, tables, reminded, history>>

\* Mutant of StoreRefused: the answer's status is not checked.
RefusalUnnoticed(w) ==
    /\ pc[w] = "store"
    /\ staged' = [staged EXCEPT ![w] = "imported"]
    /\ Goto(w, "commit")
    /\ UNCHANGED <<broker, job, posted, tables, ledger, reminded, history>>

\* Firefly refuses or cannot be reached.
StoreRefused(w) ==
    /\ pc[w] = "store"
    /\ staged' = [staged EXCEPT ![w] = "failed"]
    /\ Goto(w, "commit")
    /\ UNCHANGED <<broker, job, posted, tables, ledger, reminded, history>>

\* Mutant of Commit: mark_status(PENDING_REVIEW) is left out.
CommitWithoutPending(w) ==
    /\ pc[w] = "commit"
    /\ rows' = IF staged[w] = "pending_review"
                 THEN rows ELSE [rows EXCEPT ![Fingerprint(w)] = staged[w]]
    /\ items' = IF staged[w] = "pending_review"
                  THEN [items EXCEPT ![Fingerprint(w)] = @ + 1] ELSE items
    /\ Goto(w, IF staged[w] = "failed" THEN "retry" ELSE "ack")
    /\ staged' = [staged EXCEPT ![w] = NoRow]
    /\ posted' = posted \ {w}
    /\ UNCHANGED <<broker, job, ledger, reminded, history>>

\* The transaction commits: on the failure path by session.commit in
\* _store_to_firefly, otherwise when session_scope ends.
Commit(w) ==
    /\ pc[w] = "commit"
    /\ rows' = [rows EXCEPT ![Fingerprint(w)] = staged[w]]
    /\ items' = IF staged[w] = "pending_review"
                  THEN [items EXCEPT ![Fingerprint(w)] = @ + 1] ELSE items
    /\ Goto(w, IF staged[w] = "failed" THEN "retry" ELSE "ack")
    /\ staged' = [staged EXCEPT ![w] = NoRow]
    /\ posted' = posted \ {w}
    /\ UNCHANGED <<broker, job, ledger, reminded, history>>

\* task.retry publishes the message again with one more retry; beyond
\* max_retries it raises the original error and the task has failed.
Retry(w) ==
    /\ pc[w] = "retry"
    /\ waiting' = IF job[w].retries < MaxRetries
                    THEN [waiting EXCEPT ![[job[w] EXCEPT !.retries = @ + 1]] = @ + 1]
                    ELSE waiting
    /\ Goto(w, "ack")
    /\ UNCHANGED <<unsent, job, staged, posted, tables, ledger, reminded, history>>

\* Mutant of Ack: the message is gone and the worker still runs its task.
AckTooEarly(w) ==
    /\ pc[w] = "ack"
    /\ job' = [job EXCEPT ![w] = NoJob]
    /\ UNCHANGED <<broker, pc, staged, posted, tables, ledger, reminded, history>>

\* The run has returned or failed: the broker forgets its message.
Ack(w) ==
    /\ pc[w] = "ack"
    /\ Goto(w, "idle")
    /\ job' = [job EXCEPT ![w] = NoJob]
    /\ UNCHANGED <<broker, staged, posted, tables, ledger, reminded, history>>

-----------------------------------------------------------------------------
(* What interrupts it. *)

\* The open transaction of w is rolled back; what Firefly applied stays.
Rollback(w) ==
    /\ staged' = [staged EXCEPT ![w] = NoRow]
    /\ posted' = posted \ {w}
    /\ forgotten' = IF w \in posted
                      THEN [forgotten EXCEPT ![Fingerprint(w)] = @ + 1] ELSE forgotten
    /\ UNCHANGED <<tables, ledger, reminded>>

Fault ==
    /\ faults < MaxFaults
    /\ faults' = faults + 1

\* Mutant of Crash: messages acknowledged on delivery (no task_acks_late).
CrashLosesMessage(w) ==
    /\ Fault
    /\ pc[w] # "idle"
    /\ Rollback(w)
    /\ Goto(w, "idle")
    /\ job' = [job EXCEPT ![w] = NoJob]
    /\ UNCHANGED <<broker, dropped>>

\* The worker process is lost: rollback, and the message goes back.
Crash(w) ==
    /\ Fault
    /\ pc[w] # "idle"
    /\ Rollback(w)
    /\ waiting' = [waiting EXCEPT ![job[w]] = @ + 1]
    /\ Goto(w, "idle")
    /\ job' = [job EXCEPT ![w] = NoJob]
    /\ UNCHANGED <<unsent, dropped>>

\* An exception the task does not handle (database error, a 2xx answer that is
\* no JSON): rollback, and the failed task is acknowledged.
Abort(w) ==
    /\ Fault
    /\ pc[w] = "claim" \/ InTxn(w)
    /\ Rollback(w)
    /\ dropped' = dropped \union {job[w].task}
    /\ Goto(w, "ack")
    /\ UNCHANGED <<broker, job>>

\* The broker takes a slow worker for lost (visibility timeout) and gives the
\* message out again while the run goes on.
Redeliver(w) ==
    /\ Fault
    /\ pc[w] # "idle"
    /\ waiting' = [waiting EXCEPT ![job[w]] = @ + 1]
    /\ UNCHANGED <<unsent, pc, job, staged, posted, tables, ledger, reminded,
                   dropped, forgotten>>

-----------------------------------------------------------------------------
Step(w) ==
    \/ \E d \in Deliveries : Deliver(w, d)
    \/ Claim(w) \/ ClaimDuplicate(w)
    \/ ClassifyHigh(w) \/ ClassifyLow(w)
    \/ Remind(w)
    \/ \E status \in {"imported", "failed"} : StoreApplied(w, status)
    \/ StoreRefused(w)
    \/ Commit(w) \/ Retry(w) \/ Ack(w)

Interrupt(w) == Crash(w) \/ Abort(w) \/ Redeliver(w)

Next ==
    \/ \E t \in Tasks : Enqueue(t)
    \/ \E w \in Workers : Step(w) \/ Interrupt(w)

Spec == Init /\ [][Next]_vars

\* A live worker keeps taking steps: Celery polls the broker, the database
\* wait ends with the other transaction, Firefly and the LLM have timeouts.
FairSpec == Spec /\ \A w \in Workers : WF_vars(Step(w))

-----------------------------------------------------------------------------
(* Properties. *)

\* Every variable has its type.
TypeOK ==
    /\ unsent \subseteq Tasks
    /\ waiting \in [Deliveries -> Nat]
    /\ pc \in [Workers -> {"idle", "claim", "classify", "store", "remind",
                           "commit", "retry", "ack"}]
    /\ job \in [Workers -> Deliveries \union {NoJob}]
    /\ \A w \in Workers : pc[w] # "idle" => job[w] \in Deliveries
    /\ staged \in [Workers -> IngestStatus \union {NoRow}]
    /\ posted \subseteq Workers
    /\ rows \in [Fingerprints -> IngestStatus \union {NoRow}]
    /\ items \in [Fingerprints -> Nat]
    /\ ledger \in [Fingerprints -> Nat]
    /\ reminded \subseteq Fingerprints
    /\ dropped \subseteq Tasks
    /\ forgotten \in [Fingerprints -> Nat]
    /\ faults \in 0 .. MaxFaults

\* However tasks are repeated, retried and redelivered, a fingerprint is in
\* the ledger at most once more than transactions were rolled back after the
\* POST: deduplication itself never lets a second booking through.
BookedAtMostOnce == \A f \in Fingerprints : ledger[f] =< forgotten[f] + 1

\* The database tells the truth about the ledger: IMPORTED means one booking
\* that is accounted for, PENDING_REVIEW means none was made.
RowsMatchLedger ==
    \A f \in Fingerprints :
        /\ rows[f] = "imported" => ledger[f] = forgotten[f] + 1
        /\ rows[f] = "pending_review" => ledger[f] = forgotten[f]

\* A fingerprint waits for review exactly when it has one review item: the
\* item and the PENDING_REVIEW status are committed together, however often
\* the task runs.
OneReviewItem ==
    \A f \in Fingerprints :
        items[f] = IF rows[f] = "pending_review" THEN 1 ELSE 0

\* Two runs never hold the claim of one fingerprint, and none holds it once
\* an outcome is recorded.
ClaimIsExclusive ==
    \A v \in Workers : InTxn(v) =>
        /\ rows[Fingerprint(v)] = NoRow
        /\ \A w \in Workers : InTxn(w) /\ Fingerprint(w) = Fingerprint(v) => w = v

\* What the open transactions stage agrees with what Firefly did for them.
StagedMatchesPost ==
    \A w \in Workers :
        /\ pc[w] # "commit" => w \notin posted
        /\ pc[w] = "remind" => staged[w] = "pending_review"
        /\ pc[w] = "commit" =>
              /\ staged[w] # NoRow
              /\ staged[w] = "imported" => w \in posted
              /\ staged[w] = "pending_review" => w \notin posted

\* Every Firefly transaction is forgotten, belongs to the open transaction
\* that holds the claim, or to the recorded outcome.
LedgerAccounted ==
    \A f \in Fingerprints :
        /\ \A w \in Workers : InTxn(w) /\ Fingerprint(w) = f =>
              ledger[f] = forgotten[f] + (IF w \in posted THEN 1 ELSE 0)
        /\ (rows[f] = NoRow /\ \A w \in Workers : ~(InTxn(w) /\ Fingerprint(w) = f))
              => ledger[f] = forgotten[f]
        /\ rows[f] # NoRow => ledger[f] \in {forgotten[f], forgotten[f] + 1}

\* The inductive invariant: the claim is exclusive, so at every moment one run
\* at most can answer for the difference between ledger and forgotten.
IngestInv ==
    /\ TypeOK
    /\ StagedMatchesPost
    /\ ClaimIsExclusive
    /\ LedgerAccounted
    /\ RowsMatchLedger
    /\ OneReviewItem

\* The pipeline keeps the ledger's abstract promise.
Promise == INSTANCE BookedOnce
    WITH recorded <- {f \in Fingerprints : rows[f] # NoRow}
RefinesBookedOnce == Promise!Spec

\* Every enqueued transaction gets a recorded outcome, through crashes and
\* redeliveries, unless a task run for it died of an unexpected error.
EveryTaskAnswered ==
    \A t \in Tasks :
        t \notin unsent ~> (rows[Fp[t]] # NoRow
                            \/ \E u \in dropped : Fp[u] = Fp[t])

\* The retries and redeliveries of a message come to an end: it does not
\* circulate, and no claim is left behind that blocks a worker for good.
QueueDrains ==
    \A t \in Tasks :
        t \notin unsent ~> [](\A d \in Deliveries :
            d.task = t => waiting[d] = 0 /\ \A w \in Workers : job[w] # d)

\* README.md:145, models/ingest.py:1: a transaction is booked once, task
\* retries included.  It holds as long as no worker is lost (the theorem
\* OnceWithoutFaults), and not beyond: a worker lost between Firefly's answer
\* and the commit leaves a booking that its successor repeats.
BookedOnlyOnce == \A f \in Fingerprints : ledger[f] =< 1

\* tasks_ingest.py:12, tests/test_pipeline.py:189: after a failed write the task
\* is retried, that is, its retry does the work again and is not turned away
\* because of the failure it is meant to repair.  It does not hold: the first
\* attempt commits its claim with the FAILED row, and the retry is a duplicate.
RetryIsNotDuplicate ==
    [][\A w \in Workers :
          ClaimDuplicate(w) /\ job[w].retries > 0 => rows[Fingerprint(w)] # "failed"]_vars
=============================================================================
