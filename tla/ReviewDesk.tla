----------------------------- MODULE ReviewDesk -----------------------------
(***************************************************************************)
(* The human side of the pipeline: the web console on which review items   *)
(* are approved, corrected and rejected, and the two Celery tasks that act *)
(* on them, finalize_review and reclassify_pending.                        *)
(*                                                                         *)
(* Console requests and worker processes share the review_items table and  *)
(* check before they act: each loads an item, sees it pending, and writes  *)
(* the new status by id, whatever it has become meanwhile.  Only the row   *)
(* locks of open transactions order them.  reclassify_pending loads all    *)
(* pending items once and goes through them with one LLM call and one POST *)
(* each, so its objects can be minutes old when it writes them.            *)
(***************************************************************************)
EXTENDS Naturals, Sequences, FiniteSets

CONSTANTS
    Items,        \* ids of review items, all pending at the start
    Merchants,
    MerchantOf,   \* the merchant of an item's transaction
    Categories,
    NoCategory,   \* no rule, nothing corrected
    Suggested,    \* the category the ingest task suggested for an item
    Sessions,     \* console requests that can be served at the same time
    Workers,      \* worker processes
    NoMessage,    \* the message of an idle worker
    Verbs,        \* what the user clicks in this model
    Quiet,        \* the user clicks only when no task is queued or running
    MaxRetries,   \* max_retries of both tasks (3 in the code)
    MaxRequests,  \* bound: clicks
    MaxFailures,  \* bound: POSTs Firefly refuses or whose answer is lost
    MaxFaults     \* bound: crashes, redeliveries and unexpected errors

Finalizes == [kind : {"finalize"}, item : Items, retries : 0 .. MaxRetries]
Reclassifies == [kind : {"reclassify"}, rules_only : BOOLEAN, retries : 0 .. MaxRetries]
Messages == Finalizes \union Reclassifies

AllVerbs == {"approve", "approve_all", "correct", "reject", "reclassify"}

ASSUME ReviewAssumption ==
    /\ Items \subseteq Nat
    /\ MerchantOf \in [Items -> Merchants]
    /\ Suggested \in [Items -> Categories]
    /\ NoCategory \notin Categories
    /\ NoMessage \notin Messages
    /\ Verbs \subseteq AllVerbs
    /\ Quiet \in BOOLEAN
    /\ MaxRetries \in Nat /\ MaxRequests \in Nat
    /\ MaxFailures \in Nat /\ MaxFaults \in Nat

VARIABLES
    items,     \* review_items: status, suggested and corrected category
    rows,      \* ingested_transactions.status of each item's fingerprint
    ledger,    \* categories under which Firefly holds the item's transaction
    rules,     \* the exact rule of each merchant
    mail,      \* broker: copies of each message ready for delivery
    spc,       \* where each console request is
    request,   \* what it does: verb, the items it loaded as pending, category
    pc,        \* where each worker is
    msg,       \* the unacknowledged message each worker runs
    cur,       \* the item a worker works on
    loaded,    \* the review item objects a worker's session holds
    todo,      \* items a reclassify batch has still to visit
    stale,     \* batches whose objects were not expired by a rollback
    chosen,    \* category a batch decided for its current item
    holding,   \* batches whose open transaction counted a hit of the item's rule
    outcome,   \* row status staged in a worker's open transaction
    posted,    \* workers whose current transaction had its POST applied
    requests, failures, faults,  \* how much of each bound is used
    forgotten, \* history: bookings whose record was rolled back
    repeated,  \* history: times an item may be posted once more (see Again)
    stranded   \* history: items whose finalize message was lost

console == <<spc, request, requests>>
batch == <<todo, stale, chosen, holding>>
budgets == <<failures, faults>>
history == <<forgotten, repeated, stranded>>
vars == <<items, rows, ledger, rules, mail, spc, request, pc, msg, cur, loaded,
          todo, stale, chosen, holding, outcome, posted, requests, failures,
          faults, forgotten, repeated, stranded>>

Decided == {"approved", "corrected"}
NoRequest == [verb |-> "none", picked |-> {}, category |-> NoCategory]
Finalize(i) == [kind |-> "finalize", item |-> i, retries |-> 0]
Reclassify(only) == [kind |-> "reclassify", rules_only |-> only, retries |-> 0]
Send(m) == mail' = [mail EXCEPT ![m] = @ + 1]

\* Row locks of the batches that have flushed an UPDATE and not yet committed.
ItemLocked(i) == \E w \in Workers : pc[w] \in {"r_post", "r_commit"} /\ cur[w] = i

\* A rule that matched counts its hit and stays locked until the commit.
RuleLocked(m) == \E w \in holding : MerchantOf[cur[w]] = m

-----------------------------------------------------------------------------
Init ==
    /\ items = [i \in Items |-> [status |-> "pending", suggested |-> Suggested[i],
                                 corrected |-> NoCategory]]
    /\ rows = [i \in Items |-> "pending_review"]
    /\ ledger = [i \in Items |-> <<>>]
    /\ rules = [m \in Merchants |-> NoCategory]
    /\ mail = [m \in Messages |-> 0]
    /\ spc = [s \in Sessions |-> "idle"]
    /\ request = [s \in Sessions |-> NoRequest]
    /\ pc = [w \in Workers |-> "idle"]
    /\ msg = [w \in Workers |-> NoMessage]
    /\ cur = [w \in Workers |-> 0]
    /\ loaded = [w \in Workers |-> <<>>]
    /\ todo = [w \in Workers |-> {}]
    /\ stale = {}
    /\ chosen = [w \in Workers |-> NoCategory]
    /\ holding = {}
    /\ outcome = [w \in Workers |-> "pending_review"]
    /\ posted = {}
    /\ requests = 0 /\ failures = 0 /\ faults = 0
    /\ forgotten = [i \in Items |-> 0]
    /\ repeated = [i \in Items |-> 0]
    /\ stranded = {}

-----------------------------------------------------------------------------
(* The console. *)

\* Nothing is queued or running.
AllQuiet ==
    /\ \A m \in Messages : mail[m] = 0
    /\ \A w \in Workers : pc[w] = "idle"
    /\ \A s \in Sessions : spc[s] = "idle"

Click(s, verb) ==
    /\ verb \in Verbs
    /\ spc[s] = "idle"
    /\ Quiet => AllQuiet
    /\ requests < MaxRequests
    /\ requests' = requests + 1

\* Mutant of Load: the request does not look at the item's status.
LoadUnchecked(s, verb, picked, category) ==
    /\ Click(s, verb)
    /\ picked # {}
    /\ request' = [request EXCEPT ![s] = [verb |-> verb, picked |-> picked,
                                          category |-> category]]
    /\ spc' = [spc EXCEPT ![s] = "loaded"]
    /\ UNCHANGED <<items, rows, ledger, rules, mail, pc, msg, cur, loaded, batch,
                   outcome, posted, budgets, history>>

\* The items the request loads: one, or for approve-all every pending one.
\* A single item that is not pending makes the request end with a message.
Load(s, verb, picked, category) ==
    /\ Click(s, verb)
    /\ picked # {}
    /\ \A i \in picked : items[i].status = "pending"
    /\ request' = [request EXCEPT ![s] = [verb |-> verb, picked |-> picked,
                                          category |-> category]]
    /\ spc' = [spc EXCEPT ![s] = "loaded"]
    /\ UNCHANGED <<items, rows, ledger, rules, mail, pc, msg, cur, loaded, batch,
                   outcome, posted, budgets, history>>

LoadApprove(s, i) == Load(s, "approve", {i}, NoCategory)
LoadReject(s, i) == Load(s, "reject", {i}, NoCategory)
LoadCorrect(s, i, c) == Load(s, "correct", {i}, c)
LoadApproveAll(s) ==
    Load(s, "approve_all", {i \in Items : items[i].status = "pending"}, NoCategory)

\* The reclassify button only enqueues the batch.
ClickReclassify(s) ==
    /\ Click(s, "reclassify")
    /\ Send(Reclassify(FALSE))
    /\ UNCHANGED <<items, rows, ledger, rules, spc, request, pc, msg, cur, loaded,
                   batch, outcome, posted, budgets, history>>

StatusAfter(verb) ==
    CASE verb = "correct" -> "corrected" [] verb = "reject" -> "rejected"
      [] OTHER -> "approved"

\* approve, correct or reject, and the commit.  The UPDATE is by id: it waits
\* for row locks and overwrites what it finds.  correct also learns the rule.
CommitRequest(s) ==
    LET r == request[s] IN
    /\ spc[s] = "loaded"
    /\ \A i \in r.picked : ~ItemLocked(i)
    /\ r.verb = "correct" => \A i \in r.picked : ~RuleLocked(MerchantOf[i])
    /\ items' = [i \in Items |->
          IF i \notin r.picked THEN items[i]
          ELSE [items[i] EXCEPT !.status = StatusAfter(r.verb),
                                !.corrected = IF r.verb = "correct" THEN r.category ELSE @]]
    /\ rules' = [m \in Merchants |->
          IF r.verb = "correct" /\ \E i \in r.picked : MerchantOf[i] = m
            THEN r.category ELSE rules[m]]
    /\ spc' = [spc EXCEPT ![s] = IF r.verb = "reject" THEN "idle" ELSE "send"]
    /\ request' = [request EXCEPT ![s] = IF r.verb = "reject" THEN NoRequest ELSE @]
    /\ UNCHANGED <<rows, ledger, mail, pc, msg, cur, loaded, batch, outcome, posted,
                   requests, budgets, history>>

\* finalize_review.delay, one call per item.
SendFinalize(s, i) ==
    /\ spc[s] = "send"
    /\ i \in request[s].picked
    /\ Send(Finalize(i))
    /\ request' = [request EXCEPT ![s].picked = @ \ {i}]
    /\ UNCHANGED <<items, rows, ledger, rules, spc, pc, msg, cur, loaded, batch,
                   outcome, posted, requests, budgets, history>>

\* Mutant of Answer: the request ends before every item is enqueued.
AnswerEarly(s) ==
    /\ spc[s] = "send"
    /\ IF request[s].verb = "correct" THEN Send(Reclassify(TRUE)) ELSE UNCHANGED mail
    /\ spc' = [spc EXCEPT ![s] = "idle"]
    /\ request' = [request EXCEPT ![s] = NoRequest]
    /\ UNCHANGED <<items, rows, ledger, rules, pc, msg, cur, loaded, batch, outcome,
                   posted, requests, budgets, history>>

\* After a correction, reclassify_pending.delay(rules_only=True); then answer.
Answer(s) ==
    /\ spc[s] = "send"
    /\ request[s].picked = {}
    /\ IF request[s].verb = "correct" THEN Send(Reclassify(TRUE)) ELSE UNCHANGED mail
    /\ spc' = [spc EXCEPT ![s] = "idle"]
    /\ request' = [request EXCEPT ![s] = NoRequest]
    /\ UNCHANGED <<items, rows, ledger, rules, pc, msg, cur, loaded, batch, outcome,
                   posted, requests, budgets, history>>

-----------------------------------------------------------------------------
(* Workers: taking and acknowledging messages. *)

\* The items a message is about: its own, or all its batch would find pending.
Concerned(m) ==
    IF m.kind = "finalize" THEN {m.item} ELSE {i \in Items : items[i].status = "pending"}

\* The items of S may be posted once more than before: the answer to a POST was
\* lost, or a message about them is given out again.
Again(S) == repeated' = [i \in Items |-> repeated[i] + (IF i \in S THEN 1 ELSE 0)]

Goto(w, label) == pc' = [pc EXCEPT ![w] = label]

Deliver(w, m) ==
    /\ pc[w] = "idle"
    /\ mail[m] > 0
    /\ mail' = [mail EXCEPT ![m] = @ - 1]
    /\ msg' = [msg EXCEPT ![w] = m]
    /\ Goto(w, IF m.kind = "finalize" THEN "f_load" ELSE "r_list")
    /\ UNCHANGED <<items, rows, ledger, rules, console, cur, loaded, batch, outcome,
                   posted, budgets, history>>

\* The session of w and all it holds is gone.
CloseSession(w) ==
    /\ cur' = [cur EXCEPT ![w] = 0]
    /\ loaded' = [loaded EXCEPT ![w] = <<>>]
    /\ todo' = [todo EXCEPT ![w] = {}]
    /\ stale' = stale \ {w}
    /\ chosen' = [chosen EXCEPT ![w] = NoCategory]
    /\ holding' = holding \ {w}
    /\ outcome' = [outcome EXCEPT ![w] = "pending_review"]

Ack(w) ==
    /\ pc[w] = "ack"
    /\ CloseSession(w)
    /\ msg' = [msg EXCEPT ![w] = NoMessage]
    /\ Goto(w, "idle")
    /\ UNCHANGED <<items, rows, ledger, rules, mail, console, posted, budgets, history>>

-----------------------------------------------------------------------------
(* finalize_review. *)

\* session.get; an item that is not approved or corrected is skipped.
FinalizeLoad(w) ==
    LET i == msg[w].item IN
    /\ pc[w] = "f_load"
    /\ loaded' = [loaded EXCEPT ![w] = [j \in {i} |-> items[j]]]
    /\ cur' = [cur EXCEPT ![w] = i]
    /\ Goto(w, IF items[i].status \in Decided THEN "f_post" ELSE "ack")
    /\ UNCHANGED <<items, rows, ledger, rules, mail, console, msg, batch, outcome,
                   posted, budgets, history>>

\* Mutant of Category: the correction is ignored.
SuggestedOnly(w) ==
    IF pc[w] = "r_post" THEN chosen[w] ELSE loaded[w][cur[w]].suggested

\* Mutant of Category: no fallback to the suggestion.
CorrectedOnly(w) ==
    IF pc[w] = "r_post" THEN chosen[w] ELSE loaded[w][cur[w]].corrected

\* The category _import_reviewed_item writes.  A batch has put its own choice
\* in suggested_category, and its objects were pending: nothing is corrected.
Category(w) ==
    IF pc[w] = "r_post" THEN chosen[w]
    ELSE LET item == loaded[w][cur[w]]
         IN  IF item.corrected # NoCategory THEN item.corrected ELSE item.suggested

Posting(w, result) ==
    /\ pc[w] \in {"f_post", "r_post"}
    /\ outcome' = [outcome EXCEPT ![w] = result]
    /\ Goto(w, IF pc[w] = "f_post" THEN "f_commit" ELSE "r_commit")
    /\ UNCHANGED <<items, rows, rules, mail, console, msg, cur, loaded, batch, faults,
                   forgotten, stranded>>

Booking(w) ==
    /\ ledger' = [ledger EXCEPT ![cur[w]] = Append(@, Category(w))]
    /\ posted' = posted \union {w}

Failing == failures < MaxFailures /\ failures' = failures + 1

PostAnswered(w) ==
    Posting(w, "imported") /\ Booking(w) /\ UNCHANGED <<failures, repeated>>

\* Booked, but the answer is lost: the code takes it for a failure.
PostLost(w) == Posting(w, "failed") /\ Booking(w) /\ Failing /\ Again({cur[w]})

PostRefused(w) ==
    Posting(w, "failed") /\ Failing /\ UNCHANGED <<ledger, posted, repeated>>

FinalizeCommit(w) ==
    /\ pc[w] = "f_commit"
    /\ rows' = [rows EXCEPT ![cur[w]] = outcome[w]]
    /\ posted' = posted \ {w}
    /\ Goto(w, IF outcome[w] = "failed" THEN "f_retry" ELSE "ack")
    /\ UNCHANGED <<items, ledger, rules, mail, console, msg, cur, loaded, batch,
                   outcome, budgets, history>>

\* task.retry: publish the message again, or fail for good after max_retries.
Republish(w) ==
    IF msg[w].retries < MaxRetries
      THEN Send([msg[w] EXCEPT !.retries = @ + 1]) ELSE UNCHANGED mail

\* Mutant of FinalizeRetry: the failure is recorded and not retried.
FinalizeGivesUp(w) ==
    /\ pc[w] = "f_retry"
    /\ Goto(w, "ack")
    /\ UNCHANGED <<items, rows, ledger, rules, mail, console, msg, cur, loaded, batch,
                   outcome, posted, budgets, history>>

FinalizeRetry(w) ==
    /\ pc[w] = "f_retry"
    /\ Republish(w)
    /\ Goto(w, "ack")
    /\ UNCHANGED <<items, rows, ledger, rules, console, msg, cur, loaded, batch,
                   outcome, posted, budgets, history>>

-----------------------------------------------------------------------------
(* reclassify_pending. *)

\* One SELECT loads every pending item for the whole batch.
BatchList(w) ==
    /\ pc[w] = "r_list"
    /\ todo' = [todo EXCEPT ![w] = {i \in Items : items[i].status = "pending"}]
    /\ loaded' = [loaded EXCEPT ![w] = [i \in todo'[w] |-> items[i]]]
    /\ stale' = stale \union {w}
    /\ Goto(w, "r_next")
    /\ UNCHANGED <<items, rows, ledger, rules, mail, console, msg, cur, chosen, holding,
                   outcome, posted, budgets, history>>

\* The next item by id: the object of the SELECT, or a fresh one once a rollback
\* has expired the session's objects.
BatchNext(w, i) ==
    /\ pc[w] = "r_next"
    /\ i \in todo[w] /\ \A j \in todo[w] : i =< j
    /\ todo' = [todo EXCEPT ![w] = @ \ {i}]
    /\ cur' = [cur EXCEPT ![w] = i]
    /\ loaded' = [loaded EXCEPT ![w] =
          IF w \in stale THEN [j \in todo[w] |-> @[j]] ELSE [j \in {i} |-> items[j]]]
    /\ Goto(w, "r_classify")
    /\ UNCHANGED <<items, rows, ledger, rules, mail, console, msg, stale, chosen, holding,
                   outcome, posted, budgets, history>>

BatchDone(w) ==
    /\ pc[w] = "r_next"
    /\ todo[w] = {}
    /\ Goto(w, "ack")
    /\ UNCHANGED <<items, rows, ledger, rules, mail, console, msg, cur, loaded, batch,
                   outcome, posted, budgets, history>>

RuleFor(w) == rules[MerchantOf[cur[w]]]

\* The LLM is asked only when no rule matches and the batch may.
LlmAsked(w) == RuleFor(w) = NoCategory /\ ~msg[w].rules_only

\* rules_only and no rule: go on without a commit.
BatchSkip(w) ==
    /\ pc[w] = "r_classify"
    /\ RuleFor(w) = NoCategory /\ msg[w].rules_only
    /\ Goto(w, "r_next")
    /\ UNCHANGED <<items, rows, ledger, rules, mail, console, msg, cur, loaded, batch,
                   outcome, posted, budgets, history>>

\* An attribute is in the UPDATE only if it differs from the loaded value.
SuggestedAfter(w, c) ==
    IF c # loaded[w][cur[w]].suggested THEN c ELSE items[cur[w]].suggested

\* Low confidence: only the suggestion is refreshed, and committed.
BatchRefresh(w, c) ==
    /\ pc[w] = "r_classify"
    /\ LlmAsked(w)
    /\ ~ItemLocked(cur[w])
    /\ items' = [items EXCEPT ![cur[w]].suggested = SuggestedAfter(w, c)]
    /\ Goto(w, "r_next")
    /\ UNCHANGED <<rows, ledger, rules, mail, console, msg, cur, loaded, batch,
                   outcome, posted, budgets, history>>

\* A rule's category has confidence 1, the LLM's reaches the threshold.
HighConfidence(w, c) == c = RuleFor(w) \/ LlmAsked(w)

\* Mutant of BatchApprove: the item is marked imported without the POST.
ApproveWithoutPost(w, c) ==
    /\ pc[w] = "r_classify"
    /\ HighConfidence(w, c)
    /\ loaded[w][cur[w]].status = "pending"
    /\ ~ItemLocked(cur[w])
    /\ chosen' = [chosen EXCEPT ![w] = c]
    /\ holding' = IF RuleFor(w) = NoCategory THEN holding ELSE holding \union {w}
    /\ outcome' = [outcome EXCEPT ![w] = "imported"]
    /\ Goto(w, "r_commit")
    /\ UNCHANGED <<items, rows, ledger, rules, mail, console, msg, cur, loaded, todo,
                   stale, posted, budgets, history>>

\* review.approve passes on the loaded object; its flush locks the row.
BatchApprove(w, c) ==
    /\ pc[w] = "r_classify"
    /\ HighConfidence(w, c)
    /\ loaded[w][cur[w]].status = "pending"
    /\ ~ItemLocked(cur[w])
    /\ chosen' = [chosen EXCEPT ![w] = c]
    /\ holding' = IF RuleFor(w) = NoCategory THEN holding ELSE holding \union {w}
    /\ Goto(w, "r_post")
    /\ UNCHANGED <<items, rows, ledger, rules, mail, console, msg, cur, loaded, todo,
                   stale, outcome, posted, budgets, history>>

\* review.approve raises on a reloaded object that is no longer pending: the
\* batch rolls back, which expires its objects, and goes on.
BatchNotPending(w) ==
    /\ pc[w] = "r_classify"
    /\ RuleFor(w) # NoCategory \/ LlmAsked(w)
    /\ loaded[w][cur[w]].status # "pending"
    /\ stale' = stale \ {w}
    /\ Goto(w, "r_next")
    /\ UNCHANGED <<items, rows, ledger, rules, mail, console, msg, cur, loaded, todo,
                   chosen, holding, outcome, posted, budgets, history>>

\* Mutant of BatchCommit: the batch books without approving the item.
BooksWithoutApproving(w) ==
    /\ pc[w] = "r_commit"
    /\ items' = [items EXCEPT ![cur[w]].suggested = SuggestedAfter(w, chosen[w])]
    /\ rows' = [rows EXCEPT ![cur[w]] = outcome[w]]
    /\ posted' = posted \ {w}
    /\ holding' = holding \ {w}
    /\ Goto(w, IF outcome[w] = "failed" THEN "r_retry" ELSE "r_next")
    /\ UNCHANGED <<ledger, rules, mail, console, msg, cur, loaded, todo, stale,
                   chosen, outcome, budgets, history>>

\* The item's commit, in the loop or, after a failure, in _store_to_firefly.
BatchCommit(w) ==
    /\ pc[w] = "r_commit"
    /\ items' = [items EXCEPT ![cur[w]].status = "approved",
                              ![cur[w]].suggested = SuggestedAfter(w, chosen[w])]
    /\ rows' = [rows EXCEPT ![cur[w]] = outcome[w]]
    /\ posted' = posted \ {w}
    /\ holding' = holding \ {w}
    /\ Goto(w, IF outcome[w] = "failed" THEN "r_retry" ELSE "r_next")
    /\ UNCHANGED <<ledger, rules, mail, console, msg, cur, loaded, todo, stale,
                   chosen, outcome, budgets, history>>

\* task.retry enqueues a new batch; the Retry it raises is caught by the loop,
\* whose rollback undoes and expires nothing (_store_to_firefly has committed):
\* the batch goes on with its old objects, beside the new one.
BatchRetry(w) ==
    /\ pc[w] = "r_retry"
    /\ Republish(w)
    /\ IF msg[w].retries < MaxRetries THEN Again(Concerned(msg[w])) ELSE UNCHANGED repeated
    /\ Goto(w, "r_next")
    /\ UNCHANGED <<items, rows, ledger, rules, console, msg, cur, loaded, batch,
                   outcome, posted, budgets, forgotten, stranded>>

-----------------------------------------------------------------------------
(* What interrupts them. *)

Fault == faults < MaxFaults /\ faults' = faults + 1

\* The open transaction is rolled back; what Firefly applied stays.
Rollback(w) ==
    /\ posted' = posted \ {w}
    /\ forgotten' = IF w \in posted
                      THEN [forgotten EXCEPT ![cur[w]] = @ + 1] ELSE forgotten
    /\ UNCHANGED <<items, rows, ledger, rules>>

\* The worker is lost: its message is given out again.
Crash(w) ==
    /\ Fault
    /\ pc[w] # "idle"
    /\ Rollback(w)
    /\ CloseSession(w)
    /\ Send(msg[w])
    /\ Again(Concerned(msg[w]))
    /\ msg' = [msg EXCEPT ![w] = NoMessage]
    /\ Goto(w, "idle")
    /\ UNCHANGED <<console, failures, stranded>>

\* An unexpected exception ends finalize_review, whose message is acknowledged.
FinalizeAbort(w) ==
    /\ Fault
    /\ pc[w] \in {"f_load", "f_post", "f_commit"}
    /\ Rollback(w)
    /\ stranded' = stranded \union {msg[w].item}
    /\ Goto(w, "ack")
    /\ UNCHANGED <<mail, console, msg, cur, loaded, batch, outcome, failures, repeated>>

\* In reclassify_pending it costs one item of the batch.
BatchItemFails(w) ==
    /\ Fault
    /\ pc[w] \in {"r_classify", "r_post", "r_commit"}
    /\ Rollback(w)
    /\ stale' = stale \ {w}
    /\ holding' = holding \ {w}
    /\ Goto(w, "r_next")
    /\ UNCHANGED <<mail, console, msg, cur, loaded, todo, chosen, outcome, failures,
                   repeated, stranded>>

\* The broker gives the message of a slow worker out again.
Redeliver(w) ==
    /\ Fault
    /\ pc[w] # "idle"
    /\ Send(msg[w])
    /\ Again(Concerned(msg[w]))
    /\ UNCHANGED <<items, rows, ledger, rules, console, pc, msg, cur, loaded, batch,
                   outcome, posted, failures, forgotten, stranded>>

\* The api process dies, or the broker cannot be reached, after the commit.
SendLost(s) ==
    /\ Fault
    /\ spc[s] = "send"
    /\ stranded' = stranded \union request[s].picked
    /\ spc' = [spc EXCEPT ![s] = "idle"]
    /\ request' = [request EXCEPT ![s] = NoRequest]
    /\ UNCHANGED <<items, rows, ledger, rules, mail, pc, msg, cur, loaded, batch,
                   outcome, posted, requests, failures, forgotten, repeated>>

-----------------------------------------------------------------------------
Serve(s) == CommitRequest(s) \/ (\E i \in Items : SendFinalize(s, i)) \/ Answer(s)

Clicks(s) ==
    \/ \E i \in Items : LoadApprove(s, i) \/ LoadReject(s, i)
    \/ \E i \in Items, c \in Categories : LoadCorrect(s, i, c)
    \/ LoadApproveAll(s)
    \/ ClickReclassify(s)

Work(w) ==
    \/ \E m \in Messages : Deliver(w, m)
    \/ FinalizeLoad(w)
    \/ PostAnswered(w) \/ PostLost(w) \/ PostRefused(w)
    \/ FinalizeCommit(w) \/ FinalizeRetry(w)
    \/ BatchList(w) \/ BatchDone(w) \/ BatchSkip(w) \/ BatchNotPending(w)
    \/ \E i \in Items : BatchNext(w, i)
    \/ \E c \in Categories : BatchRefresh(w, c) \/ BatchApprove(w, c)
    \/ BatchCommit(w) \/ BatchRetry(w)
    \/ Ack(w)

Interrupt(w) == Crash(w) \/ FinalizeAbort(w) \/ BatchItemFails(w) \/ Redeliver(w)

Next ==
    \/ \E s \in Sessions : Clicks(s) \/ Serve(s) \/ SendLost(s)
    \/ \E w \in Workers : Work(w) \/ Interrupt(w)

Spec == Init /\ [][Next]_vars

\* A request that was received is served and a live worker keeps working; the
\* user is free never to click.
FairSpec ==
    /\ Spec
    /\ \A s \in Sessions : WF_vars(Serve(s))
    /\ \A w \in Workers : WF_vars(Work(w))

-----------------------------------------------------------------------------
(* Properties. *)

Item == [status : {"pending", "approved", "corrected", "rejected"},
         suggested : Categories, corrected : Categories \union {NoCategory}]

\* Every variable has its type.
TypeOK ==
    /\ items \in [Items -> Item]
    /\ rows \in [Items -> {"pending_review", "imported", "failed"}]
    /\ ledger \in [Items -> Seq(Categories)]
    /\ rules \in [Merchants -> Categories \union {NoCategory}]
    /\ mail \in [Messages -> Nat]
    /\ spc \in [Sessions -> {"idle", "loaded", "send"}]
    /\ request \in [Sessions -> [verb : AllVerbs \union {"none"}, picked : SUBSET Items,
                                 category : Categories \union {NoCategory}]]
    /\ pc \in [Workers -> {"idle", "f_load", "f_post", "f_commit", "f_retry", "r_list",
                           "r_next", "r_classify", "r_post", "r_commit", "r_retry", "ack"}]
    /\ msg \in [Workers -> Messages \union {NoMessage}]
    /\ cur \in [Workers -> Items \union {0}]
    /\ \A w \in Workers : \A i \in DOMAIN loaded[w] : i \in Items /\ loaded[w][i] \in Item
    /\ todo \in [Workers -> SUBSET Items]
    /\ stale \subseteq Workers /\ holding \subseteq Workers /\ posted \subseteq Workers
    /\ chosen \in [Workers -> Categories \union {NoCategory}]
    /\ outcome \in [Workers -> {"pending_review", "imported", "failed"}]
    /\ requests \in 0 .. MaxRequests /\ failures \in 0 .. MaxFailures
    /\ faults \in 0 .. MaxFaults
    /\ forgotten \in [Items -> Nat] /\ repeated \in [Items -> Nat]
    /\ stranded \subseteq Items

\* Nothing from the review queue is in the ledger without a decision, however
\* requests, batches and faults interleave: what is booked for a pending item
\* was posted by a batch that holds its row and will commit the approval, or
\* its record was rolled back.
NothingBookedUndecided ==
    \A i \in Items :
        items[i].status = "pending" =>
            Len(ledger[i]) =< forgotten[i]
                + (IF \E w \in posted : cur[w] = i /\ pc[w] = "r_commit" THEN 1 ELSE 0)

\* IMPORTED is only ever recorded of what Firefly holds.
ImportedIsBooked == \A i \in Items : rows[i] = "imported" => ledger[i] # <<>>

\* A decided item is never dropped between the two systems: it is imported or
\* failed, or a finalize message for it is on its way, unless that message was
\* lost with the process that was to send or handle it.
DecidedIsHandedOn ==
    \A i \in Items :
        items[i].status \in Decided =>
            \/ rows[i] # "pending_review"
            \/ i \in stranded
            \/ \E m \in Finalizes : m.item = i /\ mail[m] > 0
            \/ \E w \in Workers : msg[w] \in Finalizes /\ msg[w].item = i
            \/ \E s \in Sessions : spc[s] = "send" /\ i \in request[s].picked

\* review.py:1: the states approved, corrected and rejected are final.
DecisionIsFinal ==
    [][\A i \in Items : items[i].status # "pending"
                          => items'[i].status = items[i].status]_vars

\* routes_review.py:374: a rejected item is not written to Firefly (but for a
\* booking that was rolled back before the rejection).
RejectedNotBooked ==
    \A i \in Items : items[i].status = "rejected" => Len(ledger[i]) =< forgotten[i]

\* What the user corrected is booked under the corrected category alone.
BookedAsCorrected ==
    \A i \in Items :
        items[i].status = "corrected" =>
            Cardinality({k \in DOMAIN ledger[i] : ledger[i][k] # items[i].corrected})
                =< forgotten[i]

\* finalize_review and reclassify_pending post an item without asking Firefly.
\* Each booking of an item after its first has a cause of its own at that item:
\* the answer to one of its POSTs was lost, the record of one was rolled back,
\* or a message about it was given out again: by a broker that lost the worker
\* or lost patience, or by a batch that failed at another item and published
\* itself anew.  What is refused excuses nothing for the item it is refused for.
SecondBookingsAreExcused ==
    \A i \in Items : Len(ledger[i]) =< 1 + forgotten[i] + repeated[i]

\* README.md:150, tasks_ingest.py:14: what is approved or corrected is written
\* to Firefly in the end, retries included.
DecidedIsBooked ==
    \A i \in Items :
        items[i].status \in Decided ~> (rows[i] = "imported" \/ items[i].status = "rejected")

-----------------------------------------------------------------------------
(* The inductive invariant. *)

\* What the place of a worker in its task says of its message, its session, its
\* transaction and its item; `todo` is read from a session's objects as long as
\* no rollback has expired them.
InPlace(w) ==
    /\ pc[w] # "idle" => msg[w] \in Messages
    /\ pc[w] \in {"f_load", "f_post", "f_commit", "f_retry"} => msg[w] \in Finalizes
    /\ pc[w] \in {"r_list", "r_next", "r_classify", "r_post", "r_commit", "r_retry"}
          => msg[w] \in Reclassifies
    /\ pc[w] \in {"f_post", "f_commit"}
          => cur[w] = msg[w].item /\ items[cur[w]].status # "pending"
    /\ pc[w] \in {"f_post", "f_commit", "r_classify", "r_post", "r_commit"}
          => cur[w] \in DOMAIN loaded[w]
    /\ pc[w] \in {"r_post", "r_commit"} => chosen[w] \in Categories
    /\ pc[w] \in {"f_commit", "r_commit"}
          => outcome[w] \in {"imported", "failed"} /\ (outcome[w] = "imported" => w \in posted)
    /\ w \in posted => pc[w] \in {"f_commit", "r_commit"} /\ ledger[cur[w]] # <<>>
    /\ pc[w] \in {"idle", "f_load"} => w \notin stale
    /\ w \in stale => todo[w] \subseteq DOMAIN loaded[w]

\* The row lock: one batch at a time has an item between flush and commit.
RowLockExcludes ==
    \A v, w \in Workers :
        /\ pc[v] \in {"r_post", "r_commit"} /\ pc[w] \in {"r_post", "r_commit"}
        /\ cur[v] = cur[w]
        => v = w

\* DecidedIsHandedOn, without the finalize messages that were already given up.
HandedOn(i) ==
    \/ rows[i] # "pending_review"
    \/ i \in stranded
    \/ \E m \in Finalizes : m.item = i /\ mail[m] > 0
    \/ \E w \in Workers : pc[w] \in {"f_load", "f_post", "f_commit"} /\ msg[w].item = i
    \/ \E s \in Sessions : spc[s] = "send" /\ i \in request[s].picked

DeskInv ==
    /\ TypeOK /\ DOMAIN loaded = Workers
    /\ \A w \in Workers : InPlace(w)
    /\ RowLockExcludes
    /\ ImportedIsBooked
    /\ NothingBookedUndecided
    /\ \A i \in Items : items[i].status \in Decided => HandedOn(i)
=============================================================================
