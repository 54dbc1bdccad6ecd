------------------------------- MODULE Intake -------------------------------
(***************************************************************************)
(* How transactions come in: a bill file is recognised, parsed row by row  *)
(* and enqueued transaction by transaction; a note typed on the console    *)
(* becomes one transaction; the workers take them from the queue in any    *)
(* order and record each identity once; the user decides what waits for    *)
(* review.  The same purchase comes in again and again: in overlapping     *)
(* exports, in an upload repeated after a failure, through the wrong       *)
(* channel, or as a note.                                                  *)
(*                                                                         *)
(* A file is the columns of its header and its rows, a row what the        *)
(* parsers read in it.  What happens between the claim of an identity and  *)
(* its outcome is the module IngestPipeline; here it is one step.  What    *)
(* several requests and batches do to one item is the module ReviewDesk;   *)
(* here the decisions stand in any order they may come in.                 *)
(***************************************************************************)
EXTENDS Integers, Sequences, FiniteSets, Bags

CONSTANTS
    Purchases,    \* what the user bought or was paid
    OriginOf,     \* the channel whose exports show a purchase, or "manual"
    Files,        \* the files the user may upload,
    Content,      \*   and what is in each
    Notes,        \* the notes the user may type
    References,   \* the order numbers of the channels
    NoRef,        \* the reference of a row without one
    Merchants,    \* the names of merchants,
    Normal,       \*   and each without differences of case and width
    FirstTick, MaxTicks,  \* bound: when the clock begins and ends, in thirds of a day
    MaxRequests,  \* bound: uploads and notes
    MaxFaults     \* bound: broker failures and redeliveries

Channels == {"alipay", "wechat"}
Columns == {"time", "direction", "amount", "alipay_ref", "wechat_ref", "alipay_status"}

RefColumn(channel) == IF channel = "alipay" THEN "alipay_ref" ELSE "wechat_ref"

\* A row; `about` is the purchase it shows, which no code reads.  Day 0 is no
\* date, amount 0 no positive number; a row that is not settled was refunded or
\* closed; blank and separator lines are neither income nor expense.
Row == [about : Purchases, ref : References,
        day : Nat, amount : Nat, merchant : Merchants,
        direction : {"expense", "income", "neutral"}, settled : BOOLEAN]

File == [readable : BOOLEAN, marks : SUBSET Channels, header : SUBSET Columns, rows : Seq(Row)]

Note == [numbers : Seq(Nat), back : SUBSET {1, 2}, merchant : Merchants, about : Purchases]

\* A file shows where it comes from in its first lines, has the reference column
\* of its channel only and shows purchases of its channel only.
ASSUME IntakeAssumption ==
    /\ OriginOf \in [Purchases -> Channels \union {"manual"}]
    /\ NoRef \in References /\ Normal \in [Merchants -> Merchants]
    /\ Content \in [Files -> File] /\ Notes \subseteq Note
    /\ FirstTick \in Nat /\ MaxTicks \in Nat /\ MaxRequests \in Nat /\ MaxFaults \in Nat
    /\ \A f \in Files : \A i \in DOMAIN Content[f].rows :
          LET origin == OriginOf[Content[f].rows[i].about] IN
          /\ origin \in Content[f].marks
          /\ \A c \in Channels : RefColumn(c) \in Content[f].header => c = origin

-----------------------------------------------------------------------------
(* detect_source, the parsers and parse_quick_expense. *)

NoChannel == "none"

\* Mutant of Detect: WeChat's marks win over Alipay's.
DetectWeChatFirst(file) ==
    IF ~Content[file].readable \/ Content[file].marks = {} THEN NoChannel
    ELSE IF "wechat" \in Content[file].marks THEN "wechat" ELSE "alipay"

\* The marks of exactly one channel.
Detect(file) ==
    IF Content[file].readable /\ \E c \in Channels : Content[file].marks = {c}
    THEN CHOOSE c \in Channels : Content[file].marks = {c} ELSE NoChannel

\* The file can be decoded and a header row is found.  Both parsers look for
\* these columns and no others, so each accepts the other's files.
Parses(file) ==
    /\ Content[file].readable
    /\ {"time", "direction", "amount"} \subseteq Content[file].header

\* Income or expense with a date and an amount: the other rows are passed over.
IsBill(row) == row.direction # "neutral" /\ row.day > 0 /\ row.amount > 0

\* Only Alipay's parser looks at the status of a transaction.
Refunded(file, row) == "alipay_status" \in Content[file].header /\ ~row.settled

\* The rows that become transactions.
Taken(channel, file) ==
    LET rows == Content[file].rows IN
    {i \in DOMAIN rows : /\ IsBill(rows[i])
                         /\ channel = "alipay" => ~Refunded(file, rows[i])}

\* The transaction of a row; `meant` is the user's own day of it.
RowBill(channel, file, i) ==
    LET row == Content[file].rows[i] IN
    [source |-> channel,
     ref |-> IF RefColumn(channel) \in Content[file].header THEN row.ref ELSE NoRef,
     day |-> row.day, amount |-> row.amount, merchant |-> row.merchant,
     direction |-> row.direction,
     about |-> row.about, meant |-> row.day]

\* The user lives eight hours ahead of the clock of the containers.
UtcDay(ticks) == ticks \div 3
UserDay(ticks) == (ticks + 1) \div 3

NoteAmount(note) == IF note.numbers = <<>> THEN 0 ELSE note.numbers[Len(note.numbers)]
DaysBack(note) == IF 2 \in note.back THEN 2 ELSE IF 1 \in note.back THEN 1 ELSE 0

\* The last number is the amount; of two day words the longer way back counts.
NoteBill(note, ticks) ==
    [source |-> "manual", ref |-> NoRef,
     day |-> UtcDay(ticks) - DaysBack(note), amount |-> NoteAmount(note),
     merchant |-> note.merchant, direction |-> "expense",
     about |-> note.about, meant |-> UserDay(ticks) - DaysBack(note)]

\* Mutant of Fingerprint: references of two channels are taken for one another.
FingerprintWithoutSource(bill) ==
    IF bill.ref # NoRef THEN <<bill.ref>>
    ELSE <<bill.day, bill.amount, Normal[bill.merchant], bill.direction>>

\* compute_fingerprint: the channel's reference, or day, amount, merchant and
\* direction of a transaction that has none.
Fingerprint(bill) ==
    IF bill.ref # NoRef THEN <<bill.source, bill.ref>>
    ELSE <<bill.day, bill.amount, Normal[bill.merchant], bill.direction>>

BillRows(file) == {i \in DOMAIN Content[file].rows : IsBill(Content[file].rows[i])}

\* What a channel's exports say of a purchase is the same in each, and its
\* references are its own.
ASSUME ExportsAgree ==
    \A f, g \in Files : \A i \in BillRows(f), j \in BillRows(g) :
        LET c == OriginOf[Content[f].rows[i].about]
            x == RowBill(c, f, i)
            y == RowBill(c, g, j)
        IN  /\ x.about = y.about => x = y
            /\ x.about # y.about /\ OriginOf[y.about] = c /\ x.ref # NoRef => x.ref # y.ref

-----------------------------------------------------------------------------
VARIABLES
    clock,     \* thirds of a day
    request,   \* the upload being served, or None
    requests,  \* how much of MaxRequests is used
    queue,     \* the broker: a bag of transactions
    claimed,   \* ingested_transactions: the transaction that claimed its fingerprint
    written,   \*   and the number of rows about each purchase
    pending,   \* those that wait for review,
    approved,  \*   those that were approved or corrected,
    rejected,  \*   and those that were rejected
    imported,  \* those that were booked and marked as imported
    contested, \* history: those that two had open when one of them decided
    replies,   \* history: the uploads answered with 202
    sent,      \* history: the transactions enqueued,
    astray,    \*   and the purchases noted, or uploaded as another channel's
    faults     \* how much of MaxFaults is used

items == <<pending, approved, rejected, contested>>
tables == <<claimed, written, items, imported>>
vars == <<clock, request, requests, queue, tables, replies, sent, astray, faults>>

None == [channel |-> NoChannel]

Init ==
    /\ clock = FirstTick
    /\ request = None
    /\ requests = 0
    /\ queue = EmptyBag
    /\ claimed = {} /\ written = [p \in Purchases |-> 0]
    /\ pending = {} /\ approved = {} /\ rejected = {} /\ contested = {}
    /\ imported = {}
    /\ replies = {} /\ sent = {} /\ astray = {}
    /\ faults = 0

Tick ==
    /\ clock < MaxTicks
    /\ clock' = clock + 1
    /\ UNCHANGED <<request, requests, queue, tables, replies, sent, astray, faults>>

Request ==
    /\ requests < MaxRequests
    /\ requests' = requests + 1

\* delay for one transaction, by way of auto, of a channel or of a note.
Send(bill, chosen) ==
    /\ queue' = queue (+) SetToBag({bill})
    /\ sent' = sent \union {bill}
    /\ astray' = IF chosen \in {"auto", OriginOf[bill.about]} THEN astray
                 ELSE astray \union {bill.about}

Fault ==
    /\ faults < MaxFaults
    /\ faults' = faults + 1

\* enqueue_csv: the channel is chosen or detected, and the whole file is parsed
\* before anything is sent.
Upload(file, chosen) ==
    LET channel == IF chosen = "auto" THEN Detect(file) ELSE chosen IN
    /\ Request
    /\ request = None
    /\ channel \in Channels /\ Parses(file)
    /\ request' = [channel |-> channel, file |-> file, chosen |-> chosen,
                   left |-> Taken(channel, file)]
    /\ UNCHANGED <<clock, queue, tables, replies, sent, astray, faults>>

\* The channel is not known, or not recognised, or the file cannot be parsed:
\* 422 or 400, and nothing is sent.
UploadRefused(file, chosen) ==
    LET channel == IF chosen = "auto" THEN Detect(file) ELSE chosen IN
    /\ request = None
    /\ channel \notin Channels \/ ~Parses(file)
    /\ UNCHANGED vars

\* The rows go out in the order of the file.
IsNext(i) == i \in request.left /\ \A j \in request.left : i =< j

\* ingest_transaction.delay for one transaction.
Enqueue ==
    /\ request # None
    /\ \E i \in request.left :
          /\ IsNext(i)
          /\ \E bill \in {RowBill(request.channel, request.file, i)} : Send(bill, request.chosen)
          /\ request' = [request EXCEPT !.left = @ \ {i}]
    /\ UNCHANGED <<clock, requests, tables, replies, faults>>

\* Mutant of BrokerDown: the error is logged and the loop goes on.
BrokerErrorSwallowed ==
    /\ Fault
    /\ request # None
    /\ \E i \in request.left : IsNext(i) /\ request' = [request EXCEPT !.left = @ \ {i}]
    /\ UNCHANGED <<clock, requests, queue, tables, replies, sent, astray>>

\* The broker cannot be reached: the request fails with what was sent before.
BrokerDown ==
    /\ Fault
    /\ request # None /\ request.left # {}
    /\ request' = None
    /\ UNCHANGED <<clock, requests, queue, tables, replies, sent, astray>>

\* The loop is over: 202.
Accept ==
    /\ request # None /\ request.left = {}
    /\ replies' = replies \union {[file |-> request.file, channel |-> request.channel]}
    /\ request' = None
    /\ UNCHANGED <<clock, requests, queue, tables, sent, astray, faults>>

\* console_quick: a note in which an amount is found is enqueued at once.
TypeNote(note) ==
    /\ NoteAmount(note) > 0
    /\ Request
    /\ \E bill \in {NoteBill(note, clock)} : Send(bill, "manual")
    /\ UNCHANGED <<clock, request, tables, replies, faults>>

NoteRefused(note) == NoteAmount(note) = 0 /\ UNCHANGED vars

-----------------------------------------------------------------------------
(* The workers and the review. *)

\* The message is acknowledged, or comes once more.
Take(bill) ==
    /\ BagIn(bill, queue)
    /\ \/ queue' = queue (-) SetToBag({bill}) /\ UNCHANGED faults
       \/ Fault /\ UNCHANGED queue
    /\ UNCHANGED <<clock, request, requests, replies, sent, astray>>

Known(bill) == \E c \in claimed : Fingerprint(c) = Fingerprint(bill)

Claim(bill) ==
    /\ claimed' = claimed \union {bill}
    /\ written' = [written EXCEPT ![bill.about] = @ + 1]

\* The fingerprint is new: its row is written with the outcome of the run.
Ingest(bill, outcome) ==
    /\ Take(bill)
    /\ ~Known(bill)
    /\ Claim(bill)
    /\ pending' = IF outcome = "pending_review" THEN pending \union {bill} ELSE pending
    /\ imported' = IF outcome = "imported" THEN imported \union {bill} ELSE imported
    /\ UNCHANGED <<approved, rejected, contested>>

\* Mutant of IngestDuplicate: a transaction that was decided against may come again.
IngestUnlessKept(bill) ==
    /\ Take(bill)
    /\ Known(bill)
    /\ IF \E c \in pending \union approved \union imported : Fingerprint(c) = Fingerprint(bill)
       THEN UNCHANGED tables
       ELSE /\ Claim(bill)
            /\ pending' = pending \union {bill}
            /\ UNCHANGED <<approved, rejected, contested, imported>>

\* It is not: the transaction is dropped as a duplicate.
IngestDuplicate(bill) ==
    /\ Take(bill)
    /\ Known(bill)
    /\ UNCHANGED tables

\* The item becomes approved, or corrected, which is one here, or rejected; its row
\* stays, and with it the fingerprint.
Resolve(bill, verdict) ==
    /\ approved' = IF verdict = "approve" THEN approved \union {bill} ELSE approved \ {bill}
    /\ rejected' = IF verdict = "reject" THEN rejected \union {bill} ELSE rejected \ {bill}
    /\ UNCHANGED <<clock, request, requests, queue, claimed, written, imported, replies, sent,
                   astray, faults>>

\* The user decides, or a batch approves; it may be that another request or batch
\* has loaded the item too.
Decide(bill, verdict, alone) ==
    /\ bill \in pending
    /\ pending' = pending \ {bill}
    /\ contested' = IF alone THEN contested ELSE contested \union {bill}
    /\ Resolve(bill, verdict)

\* The other one finds it pending in what it has loaded, and decides once more.
DecideAgain(bill, verdict) ==
    /\ bill \in contested
    /\ Resolve(bill, verdict)
    /\ UNCHANGED <<pending, contested>>

\* finalize_review, or the batch, finds the item approved and posts it.  When Firefly
\* fails, the item stays approved and the task is retried, up to its limit.
Finalize(bill, stored) ==
    /\ bill \in approved
    /\ imported' = IF stored THEN imported \union {bill} ELSE imported
    /\ UNCHANGED <<clock, request, requests, queue, claimed, written, items, replies, sent,
                   astray, faults>>

-----------------------------------------------------------------------------
Outcomes == {"imported", "pending_review", "failed"}

Work == \E bill \in BagToSet(queue) :
            IngestDuplicate(bill) \/ \E outcome \in Outcomes : Ingest(bill, outcome)

Serve == Enqueue \/ Accept

Review ==
    \/ \E bill \in pending, verdict \in {"approve", "reject"}, alone \in BOOLEAN :
          Decide(bill, verdict, alone)
    \/ \E bill \in contested, verdict \in {"approve", "reject"} : DecideAgain(bill, verdict)
    \/ \E bill \in approved, stored \in BOOLEAN : Finalize(bill, stored)

Next ==
    \/ Tick
    \/ \E file \in Files, chosen \in Channels \union {"auto", "other"} :
          Upload(file, chosen) \/ UploadRefused(file, chosen)
    \/ \E note \in Notes : TypeNote(note) \/ NoteRefused(note)
    \/ Serve \/ BrokerDown
    \/ Work
    \/ Review

Spec == Init /\ [][Next]_vars

-----------------------------------------------------------------------------
(* Properties. *)

\* A purchase that came in by auto or by its own channel only is recorded once
\* at most, however its exports overlap, however often uploads break off and are
\* repeated, and however messages are redelivered and reordered.
OnceThroughItsChannel ==
    \A p \in Purchases : OriginOf[p] \in Channels /\ p \notin astray => written[p] =< 1

\* A purchase is taken for another one only when neither has a reference, both
\* are of the same amount, merchant and direction, and the user's days of them
\* are one apart at most: on one day they cannot be told apart, and a note typed
\* before eight in the morning counts for the day before.
LostBillsAreTwins ==
    \A b \in sent, c \in claimed :
        Fingerprint(b) = Fingerprint(c) /\ b.about # c.about =>
            /\ b.ref = NoRef /\ c.ref = NoRef
            /\ b.amount = c.amount /\ b.direction = c.direction
            /\ Normal[b.merchant] = Normal[c.merchant]
            /\ b.meant - c.meant \in -1 .. 1

\* A purchase that was rejected is neither asked for again nor approved nor
\* imported when it comes in again through its own channel: its row keeps the
\* fingerprint.  (Where two had the item open, the later decision stands, and a
\* rejected item may have been booked; ReviewDesk has those races.)
RejectedDoesNotReturn ==
    \A b \in rejected \ contested, c \in pending \union approved \union imported :
        OriginOf[b.about] \in Channels /\ b.about \notin astray => c.about # b.about

\* The transaction is recorded, under its own or an equal fingerprint, or queued.
Kept(bill) ==
    \E b \in claimed \union BagToSet(queue) : Fingerprint(b) = Fingerprint(bill)

\* An upload that was answered with 202 is kept in full: every one of its
\* transactions is recorded or in the queue, none is lost between the parser, the
\* broker and the workers.
AcceptedIsKept ==
    \A r \in replies : \A i \in Taken(r.channel, r.file) : Kept(RowBill(r.channel, r.file, i))

-----------------------------------------------------------------------------
(* The inductive invariant. *)

\* The request works through the rows of its file, and what it has sent is kept.
RequestIsServed ==
    request # None =>
        /\ request \in [channel : Channels, file : Files, chosen : Channels \union {"auto"},
                        left : SUBSET Taken(request.channel, request.file)]
        /\ request.channel = IF request.chosen = "auto" THEN Detect(request.file) ELSE request.chosen
        /\ \A i \in Taken(request.channel, request.file) \ request.left :
              Kept(RowBill(request.channel, request.file, i))

\* Whatever was sent is a row of a file or a note, and went its own way unless
\* its purchase is known to have gone astray.
FromFile(bill) ==
    \E c \in Channels, f \in Files : \E i \in Taken(c, f) :
        bill = RowBill(c, f, i) /\ (bill.about \in astray \/ c = OriginOf[bill.about])
FromNote(bill) ==
    \E n \in Notes, t \in Nat :
        bill = NoteBill(n, t) /\ (bill.about \in astray \/ OriginOf[bill.about] = "manual")
SentIsParsed == \A bill \in sent : FromFile(bill) \/ FromNote(bill)

\* A purchase that did not go astray has one row, or none.
WrittenIsClaimed ==
    /\ written \in [Purchases -> Nat]
    /\ \A p \in Purchases : OriginOf[p] \in Channels /\ p \notin astray =>
          written[p] = IF \E c \in claimed : c.about = p THEN 1 ELSE 0

\* An item that waits is not decided, and of one that one alone decided, and
\* rejected, nothing else is known.
DecisionsStand ==
    /\ pending \intersect (approved \union rejected \union imported \union contested) = {}
    /\ (rejected \ contested) \intersect (approved \union imported) = {}

IntakeInv ==
    /\ clock \in Nat
    /\ IsABag(queue) /\ BagToSet(queue) \subseteq sent
    /\ claimed \subseteq sent
    /\ pending \union approved \union rejected \union contested \union imported \subseteq claimed
    /\ DecisionsStand
    /\ RequestIsServed
    /\ SentIsParsed
    /\ WrittenIsClaimed
    /\ AcceptedIsKept
=============================================================================
