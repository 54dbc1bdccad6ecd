# Formal models of firefly-copilot

TLA+ models of firefly-copilot, the service that imports bills, classifies them,
lets a person review what it is unsure of and books the rest in Firefly III.
TLC checks the models on small instances; TLAPS proves the most important
properties for every value of the constants. Paths below are relative to the
repository (`app/...`).

## 1. The system

| Part | State | Operations | Talks to |
| --- | --- | --- | --- |
| Bill parsers (`parsers/`), fingerprints (`services/fingerprint.py`) | none | recognise the channel, find the header, take or pass over each row; read a typed note; compute the identity of a transaction | none |
| Upload, quick entry (`api/routes_upload.py`, `api/routes_review.py`) | none (the request is under way) | parse a bill or a note, enqueue one `ingest_transaction` per transaction | parsers, broker |
| Broker, workers (`worker/celery_app.py`) | queued and unacknowledged messages | deliver, acknowledge after the run, give out again when the worker is lost or is too slow | tasks |
| Ingest (`worker/tasks_ingest.py`, `services/dedup.py`) | `ingested_transactions` | claim a fingerprint, classify, book or put up for review, record the outcome, retry | classifier, Firefly, notifier |
| Rule book, classifier (`services/rules.py`, `services/classifier.py`, `llm/client.py`) | `rules` | match a rule and count the hit, ask the model, fall back, learn from a correction | model |
| Review desk (`services/review.py`, `api/routes_review.py`, `finalize_review`, `reclassify_pending`) | `review_items` | approve, approve all, correct, reject, classify again; book what is decided | broker, rule book, Firefly |
| Firefly client (`services/firefly_client.py`) | none | post a transaction, read the ledger page by page | Firefly III |
| Finance questions, digest (`schemas/finance.py`, `services/finance.py`, `worker/tasks_sentinel.py`) | none | work out a period, add up, find duplicates and subscriptions, send one digest a week | model, Firefly, notifier |
| Investigation agent (`agent/`) | `audit_logs` | up to three tool calls the model chooses, each audited, then an answer | model, Firefly |

Workers and API threads share nothing but PostgreSQL (READ COMMITTED), Redis and
Firefly. What is hard about the code follows from that:

* one task run is a database transaction *around* a POST that cannot be rolled back;
* a message may be delivered again, at any time, to another worker;
* console requests and batches check the status on an object they loaded, which
  may be minutes old, and update by id (`expire_on_commit=False`);
* a failure path commits part of what the run has done, and then retries;
* the same purchase comes in again: in overlapping exports, after an upload that
  broke off halfway, under another channel's name, as a note;
* row locks of rules and items are taken in different orders;
* Firefly's list moves while it is read page by page;
* the model's output is arbitrary, and every run must end and leave its trail.

What makes each part correct: a purchase has one identity however it comes in, two
purchases share one only when nothing tells them apart, and nothing accepted is
lost (parsers, upload); the ledger holds a bill once and the tables agree
with it (ingest); nothing is booked without a decision, decisions last and are
carried out (review desk); what a user taught is in the book together with the
decision, and no transaction waits for ever (rule book); reports are true of the
ledger (reading); periods are those of the calendar (questions, digest); a run
keeps within its budget and its trail tells what it did (agent).

## 2. The modules

`BookedOnce` is the abstract promise about the ledger. Every other module models
one part. An `MC` module gives its constants values for TLC, a `...Proofs`
module holds its theorems. Definitions named in comments as "Mutant of X" are
wrong versions of X; they are no part of any specification, and show that the
properties notice the bug.

**Intake** - from a file or a note to the claimed fingerprint. A file is the columns
of its header and its rows; a cell is what the parsers read in it (a day, an
amount, a direction, "settled" or not), so that a row is passed over for the
reasons in the code: no date, no positive amount, neither income nor expense,
refunded or closed. `request` is the upload under way with the rows not yet sent,
`queue` the bag of messages; `claimed` are the ingested rows, `pending`, `approved`
and `rejected` the review items, `imported` the rows marked so.

| Action | Code |
| --- | --- |
| `Upload`, `UploadRefused` | `detect_source` or the chosen channel; a file that is not recognised or lacks a required column is a 400 |
| `Enqueue`, `BrokerDown`, `Accept` | one `delay` per transaction in the order of the file; a broker error ends the request and what was sent stays sent; 202 |
| `TypeNote`, `NoteRefused` | `parse_quick_expense`: the last amount, the day in UTC, minus one or two |
| `Ingest`, `IngestDuplicate` | a worker takes any message, which stays when it is redelivered (`Take`); what its run does in detail is IngestPipeline |
| `Decide`, `DecideAgain` | `review.approve`, `correct`, `reject`: only the item's status is set; a second request or batch that has loaded the item too finds it pending in its copy, and its decision replaces the first |
| `Finalize` | `finalize_review`, or the batch: it posts an approved item later, and may fail and be tried again |
| `Tick` | a third of a day passes |

`about` in a row is the purchase it shows, `astray` the purchases that were once
uploaded under another channel's name, `contested` the items that two had open when
one of them decided; no code reads them, they serve the properties. What such a race
can do to one item is ReviewDesk's subject.

**IngestPipeline** - `ingest_transaction` on several workers. A worker's `pc` is
the place in the task body; `staged` and `posted` are what its open transaction
has done, `rows` and `items` what is committed, `ledger` what Firefly holds.

| Action | Code |
| --- | --- |
| `Enqueue`, `Deliver`, `Ack` | `delay`, delivery, acknowledgement after the run |
| `Claim`, `ClaimDuplicate` | `claim_fingerprint`: the INSERT waits for an uncommitted claim, and finds a committed one |
| `ClassifyHigh`, `ClassifyLow`, `Remind` | the confidence gate; the reminder is pushed before the commit |
| `StoreApplied`, `StoreRefused` | Firefly applied the POST (and the answer came, or was lost), or did not |
| `Commit`, `Retry` | the session's commit; the failure path commits FAILED, then publishes the retry |
| `Crash`, `Abort`, `Redeliver` | the worker is lost; an unexpected error; the visibility timeout passes |

`forgotten` counts the bookings whose record was rolled back. The pipeline
implements `BookedOnce` (`RefinesBookedOnce`): a book entry is made only while
nothing is recorded for the fingerprint, and every further one is paid for by a
forgotten one.

**ReviewDesk** - the console and the two tasks behind it. `items` is the table,
`loaded` the objects a worker's session holds, `request` what a console request saw.
`Load*` are the clicks (the check on the loaded object), `CommitRequest` the UPDATE by
id, which waits for a row lock, `SendFinalize` and `Answer` the messages sent after
the commit. `FinalizeLoad` ... `FinalizeRetry` are `finalize_review`. `BatchList` ...
`BatchRetry` are `reclassify_pending`: one list, then for every item match, classify,
approve, post and commit, with the `except` that swallows `Retry`. The rollback there
finds nothing open, since `_store_to_firefly` has just committed, and expires nothing:
the batch goes on with its old objects (`stale`) beside the new batch it has
published. `Crash`, `FinalizeAbort`, `BatchItemFails`, `Redeliver` and `SendLost` are
the faults; `forgotten` counts, item by item, the bookings whose record was rolled
back, and `repeated` the lost answers and the messages given out again (`Again`). With
`Quiet` the user clicks only when nothing is queued or running.

**RuleBook** - the transactions that meet in the rule table, with the locks they hold:
tasks in the workers, corrections and approvals in requests. An ingest task or a batch
reads the rules (`MatchRule`), writes the count it read plus one (`CountHit`, which
waits for the row) or asks the model at most twice (`OutOfRange`, `ModelAnswers`,
`Fallback`). A correction updates the item (`LockItem`, the autoflush), reads the rule
(`Learn`) and inserts or updates it; when the item names no counterparty (`NoName`) it
is corrected and no rule is learned. An approval locks its item, or, when all are
approved, every pending item one after the other by id, and holds them to one commit
(`Approve`, `held`). `UniqueViolation` and `DeadlockVictim` are PostgreSQL's refusals.
A rules-only batch matches twice, as the code does. Rules are an exact one per
merchant and one broader one that hits every merchant; a regular expression is a
broader rule.

**LedgerReader** - `list_transactions` while the ledger changes (`Book`, `Delete`),
and what is made of what was read. The ledger is a set; Firefly lists what of it
is of one type and in the asked period, newest first, and the reader knows only
page numbers. A digest reads two lists one after the other, the withdrawals of its
history and the deposits of the week (`EndOfList`). The reports are those of the
code: the duplicate scan and the agent's duplicate, summary and search tools, which
cut their lists, the answer to a question (`aggregate_transactions`) and the
digest's sums, counts, categories and duplicates. An amount may be no number, a
merchant and a category may be missing.

**FinanceDays** - a question on any day: its time words, what its other words say of
direction, metric and category, what the model says of them and of the dates, the
validation and the second attempt, and the query that comes of it (`period`,
`filter`); and the digest's week, history and subscription rule. Days are ordinals,
as in Python; the calendar is the library's and marked external in the map.

**AgentRunner** - `run_agent` for several requests. `steps` is the list given back to
the model, `audit` the committed trail, `asked` the calls of the model. A decision is
any name: a tool, an unknown one, or finish. A commit and what comes before or after
it are steps of their own: the step appended (`Observe`) and its outcome committed
(`AuditStep`), the last event committed (`Answer`, `Fail`) and the response given
(`Reply`, `Refuse`), so that `Interrupted`, a refused commit or a lost process, can
fall between them. `ToolRaises` is the exception nobody catches. What the tools
compute is their status here (and their result in LedgerReader).

## 3. What the runs check

Passing runs:

| Run | Instance | What it shows |
| --- | --- | --- |
| `ingest` | 2 workers, 2 messages of one transaction, 3 retries, 2 faults | deduplication never books twice by itself, tables and ledger agree, one review item per reviewed bill, claims exclude each other, `BookedOnce` is implemented; every message gets an outcome and leaves the broker |
| `intake` | 8 purchases in 6 files (two overlapping exports of which the second shows a refund, a bill of the other channel with an equal reference, an old export without references and with two look-alikes, a file that names both channels, one that cannot be decoded) and 4 notes; 2 requests, 1 broker failure or redelivery, two moments on both sides of eight in the morning; purchases 2 (shown by three files) and 7 (a note) come to be reviewed | a purchase uploaded as what it is is recorded once; what is dropped as a duplicate of another purchase cannot be told from it; what was answered 202 is kept; what was rejected is neither asked for, approved nor imported when it comes in again, unless two decided it at once |
| `review_quiet` | 2 items of one merchant, 2 categories, 2 workers, 2 clicks one after the other, 1 failed POST, 1 fault | decisions are final, rejected items stay out of the ledger, corrections are booked as made, and every booking of an item after its first has a lost answer, a rolled back record or a repeated message of that item as its cause |
| `review_races` | three items, two of them of one merchant (the third has no rule, so a rule batch passes over it), 2 requests served concurrently, 2 workers, 1 fault; single approvals are left to the other runs | nothing is booked undecided, IMPORTED is true, no decided item is dropped between console and worker |
| `review_liveness` | 1 item, approvals and rejections, 3 failed POSTs | what is approved is booked in the end: the last of four attempts succeeds |
| `rulebook` | 2 items of one merchant and one that names nobody, 3 processes: a worker, a request and one that is either, 3 transactions, 1 fault; a broader rule with a category that is not offered | decision and rule commit together, no rolled back hit is counted, automatic categories are vetted, every deadlock has a batch and a correction in it (approvals of all items can be drawn in), everything ends |
| `pages` | ledgers of up to 5 of 9 transactions of both types, pages of 2, 2 changes, lists cut at 1 group and 2 transactions | a reading, of one list or of a digest's two, is off by the changes made during it and no more; counts are off by two for each; alarms are real unless something was booked meanwhile; in peace every answer, sum and cut list is exact |
| `calendar` | every day of 2024 and 2025, 26 questions, 4 periods and 3 sets of words from the model, subscriptions due on the 1st, 29th or 31st and up to 3 days late | named periods are never refused and fit each other; digests cover the last complete week; monthly subscriptions are always found |
| `agent_runs` | one request (requests share no state), two registered tools and one the model invents, three attempts, 1 refused commit or lost process at any place | the budget; the trail is never behind what the model and the user were told, wherever it is cut; no answer without its last event, and no way but the answer or the loss of the process after it; every request ends although the model may never finish |

Why the bounds are enough. Bills with different fingerprints share no row, so one
fingerprint with two messages and two workers has every collision; the proofs cover
any number. Two faults allow a crash during the recovery from a crash. Three
transactions of RuleBook are the least that make a batch meet both a correction and a
new rule; the deadlock of a batch and a correction, the one that takes an approval of
all items too, and the unique violation occur within them. Process 2 runs only what
process 1 or 3 is too busy for (`StandsIn`), which leaves out nothing but renamings:
of three transactions at once, two are tasks and one a request, or the other way
round. In Intake which purchases come to be reviewed makes no difference to the
others, so one that several files show and a note suffice; two requests are the two
uploads that overlap, one of them may be the repetition of one that broke off; files
and notes do not influence each other but through equal fingerprints, of which the
files contain every kind (by reference, without reference, across channels, across
days), and the theorems cover any files. Five transactions with two changes give
readings of one to three pages, on one list or two, with a change at any boundary; the
limits 1 and 2 stand for the code's 20, so that something is cut. A leap and a common
year contain every sequence of month lengths that a period of twelve months, or a
digest's history, can span. Each retry counter has the code's own limit.

Runs that end in a counterexample, each a statement of the repository that the
code does not keep:

| Run | Statement | What happens |
| --- | --- | --- |
| `retry_is_duplicate` | `tasks_ingest.py:12`: FAILED, then up to three retries | the failure path commits the claim; the retry is turned away as a duplicate and the bill is never booked |
| `rejected_booked` | `routes_review.py:374`: a rejected item is not booked | a batch approves and posts its old copy of the item |
| `approved_stranded` | `README.md:150`, `tasks_ingest.py:54`: decided items are booked, failures retried | a batch commits APPROVED and FAILED, its retry is swallowed, and the next batch lists only pending items |

Met while modelling, without a run of their own:

* `README.md:31` and `:145` promise that retries do not book twice. When a worker is
  lost between Firefly's answer and the commit, the redelivered task books again
  (`error_if_duplicate_hash` is off). The theorems `DoubleBookingsAreFaults` and
  `OnceWithoutFaults` say that this is the only way, and what it costs at most;
* both parsers look for the same required columns, so a file uploaded under the
  other channel's name parses, without its references, and books its purchases a
  second time (`astray` in `OnceThroughItsChannel`);
* the WeChat parser does not read the status column, so a refunded payment comes in
  as an expense; the Alipay parser passes such rows over, but a purchase exported
  before its refund stays booked;
* two equal purchases of one day without references are one transaction, and a
  note typed before eight in the morning is dated by the day before, in UTC
  (`LostBillsAreTwins` is as narrow as the code allows);
* a category of the digest whose amounts are all unreadable is listed with 0;
* two requests that both saw an item pending: the later commit overwrites the
  decision of the first (`review.py:26-31`); `DecisionIsFinal` holds only for
  requests one after the other;
* the decision that is overwritten may have been acted on by then: its finalize
  message is on its way or handled, so a rejected item can be in the ledger
  (`contested` in `RejectedDoesNotReturn`);
* `finalize_review` does not look at the row before it posts: when the answer was
  lost, the retry books again (`SecondBookingsAreExcused` allows it);
* a batch whose POST is refused publishes itself anew and goes on
  (`tasks_ingest.py:69`, `:220`): the two go through the same items, and one that the
  second has listed before the first commits it is booked by both, although no process
  failed and every answer came (`repeated` counts the second batch);
* `review.py:3` says that a correction must teach the rule book; an item without a
  counterparty is corrected and teaches nothing (`review.py:78-82`), so
  `CorrectedIsLearned` speaks of items that name one;
* a batch, a correction and an approval of all items can wait for each other in a
  circle of three; one of them is a 500 or an item the batch leaves;
* `hit_count` is a lost-update counter (`rules.py:62`), so `HitsAreMatches` is an
  upper bound only;
* a correction to the category it read issues no UPDATE, so an older concurrent
  correction can remain the rule (`rules.py:99`); two first corrections of one
  merchant collide, and the second is a 500 (`rules.py:89`);
* a booking during a reading can make one charge look like two (`pages` excuses
  it: `inserted = 0` in `AlarmsAreReal`);
* an exception other than `LLMError` leaves an agent trail without a last event
  (`README.md:125` says that every end is written; `ToolRaises` has it), and an
  unknown tool is reported as `tool_error`, where the design of the agent
  (`2026-07-27-financial-investigation-agent-design.md:243`) says validation error;
* a process lost between the last commit and the answer leaves the trail of an end
  that the user did not see (`AnswerIsAudited` allows this and nothing else);
* `scan_duplicate_charges` is not in the beat schedule, although
  `tasks_sentinel.py:1` says so;
* a named month that is still to come means a period in the future.

## 4. Fairness

Weak fairness, on the steps the program takes by itself: a live worker continues its
task (Celery polls the broker, a database wait ends with the other transaction,
Firefly and the model have timeouts), a received request is served, PostgreSQL ends a
deadlock. RuleBook assumes less: that *some* transaction goes on while one can, which
is enough, since the transactions that begin are bounded and each has finitely many
steps. Clicks, uploads, faults, failures and changes of the ledger are never forced.
No strong fairness is used. The failures a liveness property must survive are bounded
by constants, since a Firefly that is down for ever lets nothing be booked. Deadlock
checking is off where a bounded number of requests or tasks lets the system stop;
there the liveness properties say that it does not stop early. Intake, LedgerReader
and FinanceDays have safety properties only, and state no fairness.

## 5. What is proved

| Theorem | Statement |
| --- | --- |
| `RecordedOnce`, `OnlyTwinsAreLost`, `NothingAcceptedIsLost` | the safety properties of the intake for any files, notes, references, days and faults |
| `RejectedIsFinal` | what one decision alone rejected is never pending, approved or imported again through its own channel |
| `TypeCorrect`, `AtMostOnce`, `DatabaseIsTruthful`, `OneItemPerReview`, `ExclusiveClaims` | the safety properties of the ingest pipeline for any tasks, workers, fingerprints, retries and faults |
| `DoubleBookingsAreFaults`, `OnceWithoutFaults` | the bookings after the first, of all fingerprints together, are finitely many and no more than the faults; without faults there are none |
| `Refinement` | the pipeline implements `BookedOnce` |
| `DeskTypeCorrect`, `ImportedIsTrue`, `DecisionBeforeBooking`, `NoDecisionIsDropped` | the types of the review desk, and that IMPORTED is true, nothing is booked undecided and no decision is dropped, for any items, requests, workers and faults |
| `RejectedStaysOut`, `CorrectionsAreBooked`, `DecisionsAreFinal`, `SecondBookingsHaveACause` | the promises of the review desk to a user who waits for the tasks between two clicks (`Quiet`), for any items, categories, workers, clicks, failures and faults; the third is an action property, the fourth counts item by item |
| `RuleBookTypeCorrect`, `NoHitUnmatched`, `CorrectionsTeach`, `NothingUnvettedIsBooked`, `CollisionsTakeTwoKinds` | the safety properties of the rule book for any merchants, items (with or without a counterparty), processes and faults; the last is about circles of any length |
| `AgentTypeCorrect`, `AgentWithinBudget`, `AgentTrailTellsSteps`, `AgentAnswerIsAudited` | the safety properties of the agent for any requests, tools and number of attempts |
| `ReaderTypeCorrect`, `ReadingsAreOffByChanges`, `ReaderAlarmsAreReal`, `ReaderCountsAreOffByTwo` | how far a reading, its alarms and its counts can be off, for any ledger, page length, limits and number of changes |
| `QuietReportsHold` | what the user is told of a ledger nobody wrote to is true: answers, digests, summaries and searches have the sums of the ledger, and what a cut list leaves out is no larger than what it shows, for any ledger, amounts, categories and limits |
| `NamedQuestionsAreAnswered`, `PeriodsFitTheCalendar`, `SubscriptionsAreFound` | the properties of questions and digests on every day of every year of the calendar, for any question and anything the model may say |

Assumptions are the ASSUMEs of the modules: which sets the constants belong to
and that null values are not among them; for the agent also that "finish" is not
the name of a tool and that at least one attempt is allowed.

`SubscriptionsAreFound` also assumes that charges are at most three days late: with
four, two charges over a February can be 24 days apart, and the code asks for 25.
The four theorems of the review desk about a quiet user assume `Quiet`: without it
rejected items are booked (`rejected_booked`) and decisions overwritten (section 3).

For the intake also what a file of a channel is: it shows where it comes from, has
the reference column of its own channel only, and any two rows of one purchase
agree in the fields the fingerprint is made of (`ExportsAgree`).

*Intake.* `IntakeInv` says where everything sent came from (`SentIsParsed`: a row of a
file or a note, by its own channel unless the purchase has gone astray), that a
request has kept what it has sent (`RequestIsServed`), and that a purchase that did
not go astray has as many rows as claimed bills (`WrittenIsClaimed`). The lemma
`OneBillEach` then carries the first theorem: by its own channel a purchase has one
transaction only, whichever export it is in, so a second row would need the
fingerprint that the first one claimed. `EqualFingerprints` carries the second,
`KeptByAll` (a message leaves the queue only into a row, or as the duplicate of one)
the third. `DecisionsStand` carries the fourth: of an item that one decision alone
rejected nothing else is known, and by `OneBillEach` no other claimed bill is about
its purchase.

*Ingest.* `BookedAtMostOnce` is not inductive. `IngestInv` adds `ClaimIsExclusive` (at
most one open transaction per fingerprint, and none once a row is recorded),
`StagedMatchesPost` (what a transaction will write agrees with what Firefly did for
it) and `LedgerAccounted` (every ledger entry is forgotten, belongs to the one open
transaction, or to the recorded row). At every moment only one run can answer for the
difference between ledger and forgotten, so a commit or a rollback settles it. The
proof has one step per action. For the total, every repeated booking (`Repeats`, a
fingerprint and a place after the first in its list) is mapped to a forgotten one
(`Forgotten`), one to one, and every rollback of a booking costs a fault, so that the
repeats of all fingerprints together are a finite set of no more members than faults.

*Review desk.* `DeskInv` adds `InPlace` (what the place of a worker says of its
message, its objects, its transaction and its item: a finalize task that posts has
seen a decision, and decisions are never taken back to pending; IMPORTED is staged
only after the POST was applied), `RowLockExcludes` (one batch at a time has an item
between flush and commit, so a pending item has at most one booking that is not
accounted for) and `HandedOn`, which is `DecidedIsHandedOn` without messages that were
already given up: a worker counts only until it has recorded the outcome.

*Review desk, quiet user.* `QuietInv` rests on `DeskInv`. `LoadedAlone` says that a
request that has loaded its items is the only thing under way, so what it loaded is
still pending; `HoldsTrue` that what `finalize_review` posts is what the decision
says, and that an object a batch took for pending was at most approved since;
`BooksTrue` that of a rejected item the ledger has only what was rolled back, and of a
corrected one, apart from that, its category. Second bookings need a different
argument, since the tasks that may look at an item are not bounded: an account of
chances, kept for each item. Every message, run, retry and batch that could still book
the item is `Covered` by `Room`, what `forgotten` and `repeated` of that item leave
open beyond its bookings; an action either moves a chance, uses it up with a booking,
or adds one together with the lost answer, the rolled back record or the repeated
message of that item that pays for it. A batch beside the one that published it has
its chance from the second, and what is refused for one item pays for nothing at
another.

*Rule book.* `BookInv` adds `RowsAreEarned` and `ReadsAreEarned` (what is committed,
read and written was taught, and counts no more than the committed matches and the
transaction's own), which a commit of another process only makes weaker, since the
table grows; `RuleLocksExclude` (no rule row is held twice); and `InOrder` (where each
kind of transaction can be, and what it holds there). Circles of waits of any length
follow from the last two: an ingest task waits before it holds anything; approvals
wait for items by ascending id, so that the one that waits for the highest waits for
somebody else (`ApprovalsAscend`), who holds an item and waits, which only a
correction does (`ApprovalsWaitForCorrections`); a correction waits for a rule only
while it holds its item and no rule, and whoever holds that rule and waits is a batch;
and a circle of batches alone would have two that hold the broader rule. A bill
without a counterparty is one that hits, and writes, no rule.

*Agent.* `AgentInv` adds `Budget` (the place in the loop determines how many attempts
and calls were made) and `TrailEnd` (what the trail has beyond the completed steps:
nothing while an outcome is being committed, then that outcome, then the call under
way or the last event; a lost run stops at any of these). Lemmas state what appending
an event does to the two predicates over sequences, so the proof of a step never opens
the sequences.

*Reading.* A transaction is known by its rank in the list as it is now (`Rank`), and
the pages read cover the ranks up to `Covered`. One lemma, `Crossing`, says what
moves: when one transaction comes, at most one other crosses a given rank, and only if
the new one is before it. `ReadInv` keeps two accounts with it. `MissedInv`: what is
at a covered rank, stayed all the time and was not read is no more than was deleted,
in the first list of a digest and the second together. `RepeatedInv`: the places read,
and what was read and stands after the covered ranks, are no more than the different
transactions read and the bookings. A page moves transactions from one side of the
second account to the other (`Accounting`); a booking or a deletion changes each by
one at most. `PeaceInv` is the same without changes: what is read is the beginning of
the list. When the lists are complete the theorems are consequences: without a booking
no place is repeated, so a group is two transactions (`GroupsArePairs`); without a
deletion nothing is missed, so two transactions are a group (`PairsAreGroups`), listed
or cut (`FirstOfTheGroups`); and in a count each change is there twice, once for
itself and once for the transaction it repeats or hides (`TwoPerChange`).

*Reports.* A sum in the model is a fold over a set: a recursive function over the
subsets, which takes the members in the order CHOOSE gives them. Neither the library's
induction theorems nor tlapm's provers give facts of such a fold, so
`LedgerSumsProofs` starts with its own: `SetInduction` states induction over finite
sets with a set of good subsets in place of a predicate, `FoldExists` that the
recursive equation has a solution, `FoldStep` that in a solution any member may be
taken out first, whatever CHOOSE gives, and `OneSolution` that the sums over a set and
over its subsets are the values of one solution; `SumStep` adds a member to a sum,
`SumOfUnion` splits one, `SumOverImage` turns the sum over the places of a reading
into one over the transactions read, which are different when nothing changed
meanwhile, and `SumOfGroups` says that the groups of a report add up to its total.
`TopExists` says that a cut list of the largest exists for any set and limit. With
`AtRest` (a complete reading of a ledger nobody wrote to has read every transaction
once), each report is then compared with the ledger: `AnswerIsExact`, `DigestIsExact`,
`SummaryIsExact` and `SearchIsExact`.

*Questions and digests.* Months are numbered from the first year on; `Opening` is the
first day of a month and `LengthOf` its length, and `NextOpening` says that each
begins when the one before ends, so that periods meet. Twelve months have 365 or 366
days, and the 366 only when they do not end with a 29 February themselves: this is
`TwelveMonths`, and it is what keeps a named period within the limit
(`NamedIsAccepted`). Two monthly charges are 25 to 34 days apart (`ChargesApart`), the
last one is at most 40 days before the end of the week (`LatestCharge`), and three of
them are within the history (`ThreeMakeOne`). `RequestInv` carries the day and the
words of a request to its answer.

Only model-checked: the five liveness properties `EveryTransactionEnds`,
`EveryTaskAnswered`, `QueueDrains`, `DecidedIsBooked` and `EveryQueryEnds`, since
fairness and ENABLED are not within the prover's reach. Every safety property of the
passing runs is the statement of a theorem.

## 6. What is not modelled

Access tokens and cookies, configuration, logging, pages, doctor, migrations,
launchers (no state of their own); webhook intake (a signature, then one audit
record that nothing reads); the wording of reports; how a parser reads a cell (the
encodings, the spellings of columns, amounts and dates): a row is what was read in
it. The schedule itself: a digest is sent on every day of the model, so on Mondays
too; containers run on UTC, where the Monday morning of Asia/Shanghai is the same
date. Two requests that edit one row at READ COMMITTED are
modelled with row locks; other isolation levels are not. The classification in
IngestPipeline and ReviewDesk is its outcome; RuleBook has its steps. In
LedgerReader a journal has one split, which is what this program books.

## 7. Plan

Done: the ledger path (BookedOnce, IngestPipeline), intake and parsers, the review
desk, the agent, the rule book, ledger reading with all its reports, questions and
calendar; proofs of every safety property the passing runs check.

Next, in this order:

1. `Bookkeeping`: IngestPipeline and ReviewDesk over one ledger, from the bill to
   the reviewed booking, refining `BookedOnce` with decisions as the record.
2. The webhook's audit record, and the notifier's failures, as steps of a model.
