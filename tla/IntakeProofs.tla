---------------------------- MODULE IntakeProofs ----------------------------
(***************************************************************************)
(* Proofs about Intake, for any purchases, files and notes that the        *)
(* assumptions allow, any number of requests and any number of faults.     *)
(***************************************************************************)
EXTENDS Intake, TLAPS

-----------------------------------------------------------------------------
(* The transactions of files and notes. *)

LEMMA RowType ==
  ASSUME NEW f \in Files, NEW i \in DOMAIN Content[f].rows
  PROVE  Content[f] \in File /\ Content[f].rows[i] \in Row
<1>1. Content[f] \in File
  BY IntakeAssumption
<1>2. Content[f].rows \in Seq(Row)
  BY <1>1 DEF File
<1>3. QED
  BY <1>1, <1>2

\* What RowBill takes from the row, and that the row could be a transaction.
LEMMA RowBillFields ==
  ASSUME NEW c \in Channels, NEW f \in Files, NEW i \in Taken(c, f),
         NEW b, b = RowBill(c, f, i)
  PROVE  /\ i \in BillRows(f)
         /\ b.about = Content[f].rows[i].about /\ b.about \in Purchases
         /\ b.source = c
         /\ b.ref # NoRef => RefColumn(c) \in Content[f].header
         /\ b.day \in Nat /\ b.meant = b.day
<1>1. i \in DOMAIN Content[f].rows /\ i \in BillRows(f)
  BY DEF Taken, BillRows
<1>2. Content[f].rows[i] \in Row
  BY <1>1, RowType
<1>3. QED
  BY <1>1, <1>2 DEF RowBill, Row

\* A file is recognised only as what it is.
LEMMA DetectedIsOrigin ==
  ASSUME NEW f \in Files, NEW i \in DOMAIN Content[f].rows, Detect(f) \in Channels
  PROVE  Detect(f) = OriginOf[Content[f].rows[i].about]
<1>1. Content[f].rows[i] \in Row
  BY RowType
<1>2. OriginOf[Content[f].rows[i].about] \in Content[f].marks
  BY IntakeAssumption
<1>3. NoChannel \notin Channels
  BY DEF NoChannel, Channels
<1>4. \E c \in Channels : Content[f].marks = {c}
  BY <1>3 DEF Detect
<1>5. Content[f].marks = {Detect(f)}
  BY <1>3, <1>4 DEF Detect
<1>6. QED
  BY <1>2, <1>5

LEMMA NoteBillFields ==
  ASSUME NEW n \in Notes, NEW t \in Nat, NEW b, b = NoteBill(n, t)
  PROVE  /\ b.about = n.about /\ b.about \in Purchases
         /\ b.source = "manual" /\ b.ref = NoRef
         /\ b.day \in Int /\ b.meant - b.day \in {0, 1} /\ b.meant \in Int
<1>1. n \in Note
  BY IntakeAssumption
<1>2. UtcDay(t) \in Int /\ UserDay(t) \in Int /\ UserDay(t) - UtcDay(t) \in {0, 1}
  BY DEF UtcDay, UserDay
<1>3. DaysBack(n) \in {0, 1, 2}
  BY DEF DaysBack
<1>4. QED
  BY <1>1, <1>2, <1>3 DEF NoteBill, Note

LEMMA SentFields ==
  ASSUME SentIsParsed, NEW b \in sent
  PROVE  /\ b.about \in Purchases
         /\ b.day \in Int /\ b.meant \in Int /\ b.meant - b.day \in {0, 1}
  BY RowBillFields, NoteBillFields DEF SentIsParsed, FromFile, FromNote

\* ExportsAgree, for two given rows.
Agree(c, f, i, g, j) ==
    LET x == RowBill(c, f, i)
        y == RowBill(c, g, j)
    IN  /\ x.about = y.about => x = y
        /\ x.about # y.about /\ OriginOf[y.about] = c /\ x.ref # NoRef => x.ref # y.ref

LEMMA TwoExports ==
  ASSUME NEW f \in Files, NEW g \in Files, NEW i \in BillRows(f), NEW j \in BillRows(g)
  PROVE  Agree(OriginOf[Content[f].rows[i].about], f, i, g, j)
<1>1. PICK c : c = OriginOf[Content[f].rows[i].about]
  OBVIOUS
<1>2. RowBill(c, f, i).about = RowBill(c, g, j).about => RowBill(c, f, i) = RowBill(c, g, j)
  BY <1>1, ExportsAgree
<1>3. /\ RowBill(c, f, i).about # RowBill(c, g, j).about
      /\ OriginOf[RowBill(c, g, j).about] = c
      /\ RowBill(c, f, i).ref # NoRef
      => RowBill(c, f, i).ref # RowBill(c, g, j).ref
  BY <1>1, ExportsAgree
<1>4. Agree(c, f, i, g, j)
  BY <1>2, <1>3 DEF Agree
<1>5. QED
  BY <1>1, <1>4

\* Through its own channel a purchase is always the same transaction.
FromOwnFile(bill) ==
    \E f \in Files : \E i \in Taken(OriginOf[bill.about], f) :
        bill = RowBill(OriginOf[bill.about], f, i)

LEMMA OneBillEach ==
  ASSUME NEW b, NEW d, FromOwnFile(b), FromOwnFile(d), b.about = d.about,
         OriginOf[b.about] \in Channels
  PROVE  b = d
<1>1. PICK f \in Files : \E i \in Taken(OriginOf[b.about], f) : b = RowBill(OriginOf[b.about], f, i)
  BY DEF FromOwnFile
<1>2. PICK i \in Taken(OriginOf[b.about], f) : b = RowBill(OriginOf[b.about], f, i)
  BY <1>1
<1>3. PICK g \in Files : \E j \in Taken(OriginOf[b.about], g) : d = RowBill(OriginOf[b.about], g, j)
  BY DEF FromOwnFile
<1>4. PICK j \in Taken(OriginOf[b.about], g) : d = RowBill(OriginOf[b.about], g, j)
  BY <1>3
<1>5. i \in BillRows(f) /\ j \in BillRows(g)
  BY <1>2, <1>4, RowBillFields
<1>6. OriginOf[b.about] = OriginOf[Content[f].rows[i].about]
  BY <1>2, RowBillFields
<1>7. Agree(OriginOf[b.about], f, i, g, j)
  BY <1>5, <1>6, TwoExports
<1>8. QED
  BY <1>2, <1>4, <1>7 DEF Agree

LEMMA OwnBills ==
  ASSUME SentIsParsed, NEW b \in sent, OriginOf[b.about] \in Channels, b.about \notin astray
  PROVE  FromOwnFile(b)
  BY DEF SentIsParsed, FromFile, FromNote, FromOwnFile, Channels

\* Two purchases are taken for one another only by their looks.
LEMMA EqualFingerprints ==
  ASSUME SentIsParsed, NEW b \in sent, NEW d \in sent,
         Fingerprint(b) = Fingerprint(d), b.about # d.about
  PROVE  /\ b.ref = NoRef /\ d.ref = NoRef
         /\ b.day = d.day /\ b.amount = d.amount /\ b.direction = d.direction
         /\ Normal[b.merchant] = Normal[d.merchant]
<1>1. CASE b.ref # NoRef /\ d.ref # NoRef
  <2>1. b.source = d.source /\ b.ref = d.ref
    BY <1>1 DEF Fingerprint
  <2>2. FromFile(b) /\ FromFile(d)
    BY <1>1, NoteBillFields DEF SentIsParsed, FromNote
  <2>3. PICK c \in Channels, f \in Files : \E i \in Taken(c, f) : b = RowBill(c, f, i)
    BY <2>2 DEF FromFile
  <2>4. PICK i \in Taken(c, f) : b = RowBill(c, f, i)
    BY <2>3
  <2>5. PICK e \in Channels, g \in Files : \E j \in Taken(e, g) : d = RowBill(e, g, j)
    BY <2>2 DEF FromFile
  <2>6. PICK j \in Taken(e, g) : d = RowBill(e, g, j)
    BY <2>5
  <2>7. c = e
    BY <2>1, <2>4, <2>6, RowBillFields
  <2>8. i \in BillRows(f) /\ j \in BillRows(g)
    BY <2>4, <2>6, RowBillFields
  <2>9. /\ RefColumn(c) \in Content[f].header /\ RefColumn(c) \in Content[g].header
        /\ b.about = Content[f].rows[i].about /\ d.about = Content[g].rows[j].about
    BY <1>1, <2>4, <2>6, <2>7, RowBillFields
  <2>10. c = OriginOf[Content[f].rows[i].about] /\ c = OriginOf[d.about]
    BY <2>8, <2>9, IntakeAssumption DEF BillRows
  <2>11. Agree(c, f, i, g, j)
    BY <2>8, <2>10, TwoExports
  <2>12. QED
    BY <1>1, <2>1, <2>4, <2>6, <2>7, <2>10, <2>11 DEF Agree
<1>2. CASE b.ref = NoRef /\ d.ref = NoRef
  BY <1>2 DEF Fingerprint
<1>3. CASE (b.ref = NoRef) # (d.ref = NoRef)
  BY <1>3 DEF Fingerprint
<1>4. QED
  BY <1>1, <1>2, <1>3

-----------------------------------------------------------------------------
(* The queue. *)

LEMMA BagAdd ==
  ASSUME NEW Q, IsABag(Q), NEW b
  PROVE  IsABag(Q (+) SetToBag({b})) /\ BagToSet(Q (+) SetToBag({b})) = BagToSet(Q) \union {b}
  BY DEF IsABag, BagToSet, SetToBag, (+)

LEMMA BagRemove ==
  ASSUME NEW Q, IsABag(Q), NEW b
  PROVE  /\ IsABag(Q (-) SetToBag({b}))
         /\ BagToSet(Q (-) SetToBag({b})) \subseteq BagToSet(Q)
         /\ BagToSet(Q) \subseteq BagToSet(Q (-) SetToBag({b})) \union {b}
  BY DEF IsABag, BagToSet, SetToBag, (-)

-----------------------------------------------------------------------------
(* The invariant. *)

LEMMA NothingSentAtFirst == Init => IntakeInv
<1> SUFFICES ASSUME Init PROVE IntakeInv
  OBVIOUS
<1>1. IsABag(queue) /\ BagToSet(queue) = {}
  BY DEF Init, IsABag, BagToSet, EmptyBag, SetToBag
<1>2. QED
  BY <1>1, IntakeAssumption DEF Init, IntakeInv, RequestIsServed, SentIsParsed, WrittenIsClaimed,
     AcceptedIsKept, DecisionsStand

\* What is kept stays kept when nothing but the queue grows.
LEMMA KeptByAll ==
  ASSUME NEW b, Kept(b), claimed \subseteq claimed', BagToSet(queue) \subseteq BagToSet(queue)'
  PROVE  Kept(b)'
  BY DEF Kept, Fingerprint

\* A transaction that is sent through an upload or a note, as the invariant needs it.
LEMMA SendStep ==
  ASSUME IntakeInv, NEW b, NEW chosen, Send(b, chosen), UNCHANGED tables,
         FromFile(b)' \/ FromNote(b)'
  PROVE  /\ IsABag(queue)' /\ BagToSet(queue)' = BagToSet(queue) \union {b}
         /\ (BagToSet(queue) \subseteq sent)' /\ (claimed \subseteq sent)'
         /\ SentIsParsed' /\ WrittenIsClaimed' /\ astray \subseteq astray'
<1>1. IsABag(queue)' /\ BagToSet(queue)' = BagToSet(queue) \union {b}
  BY BagAdd DEF IntakeInv, Send
<1>2. astray \subseteq astray'
  BY DEF Send
<1>3. \A x \in sent : FromFile(x)' \/ FromNote(x)'
  BY <1>2 DEF IntakeInv, SentIsParsed, FromFile, FromNote
<1>4. SentIsParsed'
  BY <1>3 DEF Send, SentIsParsed
<1>5. WrittenIsClaimed'
  BY <1>2 DEF IntakeInv, WrittenIsClaimed, tables
<1>6. QED
  BY <1>1, <1>2, <1>4, <1>5 DEF IntakeInv, Send, tables

\* Steps that send nothing and touch no table.
LEMMA QuietStep ==
  ASSUME IntakeInv, UNCHANGED <<queue, tables, sent, astray>>, clock' \in Nat,
         RequestIsServed', AcceptedIsKept'
  PROVE  IntakeInv'
<1>1. SentIsParsed'
  BY DEF IntakeInv, SentIsParsed, FromFile, FromNote
<1>2. WrittenIsClaimed'
  BY DEF IntakeInv, WrittenIsClaimed, tables
<1>3. QED
  BY <1>1, <1>2 DEF IntakeInv, IsABag, BagToSet, tables, items, DecisionsStand

\* An uploaded file's next row.
LEMMA EnqueueStep == ASSUME IntakeInv, Enqueue PROVE IntakeInv'
<1>c. PICK c : c = request.channel
  OBVIOUS
<1>f. PICK f : f = request.file
  OBVIOUS
<1>1. PICK i \in request.left : \E b \in {RowBill(c, f, i)} :
        /\ Send(b, request.chosen)
        /\ request' = [request EXCEPT !.left = @ \ {i}]
  BY <1>c, <1>f DEF Enqueue
<1>b. PICK b : /\ b = RowBill(c, f, i)
               /\ Send(b, request.chosen)
               /\ request' = [request EXCEPT !.left = @ \ {i}]
  BY <1>1
<1>2. /\ c \in Channels /\ f \in Files
      /\ request \in [channel : Channels, file : Files, chosen : Channels \union {"auto"},
                      left : SUBSET Taken(c, f)]
      /\ i \in Taken(c, f)
      /\ c = IF request.chosen = "auto" THEN Detect(f) ELSE request.chosen
      /\ \A j \in Taken(c, f) \ request.left : Kept(RowBill(c, f, j))
  BY <1>c, <1>f, <1>1 DEF IntakeInv, RequestIsServed, Enqueue
<1>3. Send(b, request.chosen)
  BY <1>b
<1>4. b.about \in astray' \/ c = OriginOf[b.about]
  <2>1. CASE request.chosen = "auto"
    <3>1. i \in DOMAIN Content[f].rows /\ b.about = Content[f].rows[i].about
      BY <1>b, <1>2, RowBillFields DEF Taken
    <3>2. QED
      BY <2>1, <3>1, <1>2, DetectedIsOrigin
  <2>2. CASE request.chosen # "auto"
    BY <2>2, <1>2, <1>3 DEF Send
  <2>3. QED
    BY <2>1, <2>2
<1>5. FromFile(b)'
  BY <1>b, <1>2, <1>4 DEF FromFile
<1>6. /\ IsABag(queue)' /\ BagToSet(queue)' = BagToSet(queue) \union {b}
      /\ (BagToSet(queue) \subseteq sent)' /\ (claimed \subseteq sent)'
      /\ SentIsParsed' /\ WrittenIsClaimed'
  BY <1>3, <1>5, SendStep DEF Enqueue
<1>7. claimed' = claimed /\ \A x : Kept(x) => Kept(x)'
  BY <1>6, KeptByAll DEF Enqueue, tables
<1>8. Kept(b)'
  BY <1>6 DEF Kept
<1>9. RequestIsServed'
  <2>1. request' = [channel |-> c, file |-> f, chosen |-> request.chosen, left |-> request.left \ {i}]
    BY <1>c, <1>f, <1>b, <1>2
  <2>2. \A j \in Taken(c, f) \ (request.left \ {i}) : Kept(RowBill(c, f, j))'
    BY <1>b, <1>2, <1>7, <1>8
  <2>3. QED
    BY <1>2, <2>1, <2>2 DEF RequestIsServed
<1>10. AcceptedIsKept'
  BY <1>7 DEF IntakeInv, AcceptedIsKept, Enqueue
<1>11. QED
  BY <1>6, <1>9, <1>10 DEF IntakeInv, Enqueue, tables, items, DecisionsStand

\* A note.
LEMMA TypeNoteStep == ASSUME IntakeInv, NEW n \in Notes, TypeNote(n) PROVE IntakeInv'
<1>1. PICK b : b = NoteBill(n, clock) /\ Send(b, "manual")
  BY DEF TypeNote
<1>2. b.about \in Purchases /\ clock \in Nat
  BY <1>1, NoteBillFields DEF IntakeInv
<1>3. b.about \in astray' \/ OriginOf[b.about] = "manual"
  BY <1>1, <1>2, IntakeAssumption DEF Send
<1>4. FromNote(b)'
  <2>1. PICK t \in Nat : t = clock
    BY <1>2
  <2>2. b = NoteBill(n, t)
    BY <1>1, <2>1
  <2>3. QED
    BY <1>3, <2>2 DEF FromNote
<1>5. /\ IsABag(queue)' /\ BagToSet(queue)' = BagToSet(queue) \union {b}
      /\ (BagToSet(queue) \subseteq sent)' /\ (claimed \subseteq sent)'
      /\ SentIsParsed' /\ WrittenIsClaimed'
  BY <1>1, <1>4, SendStep DEF TypeNote
<1>6. \A x : Kept(x) => Kept(x)'
  BY <1>5, KeptByAll DEF TypeNote, tables
<1>7. RequestIsServed' /\ AcceptedIsKept'
  BY <1>6 DEF IntakeInv, RequestIsServed, AcceptedIsKept, TypeNote
<1>8. QED
  BY <1>5, <1>7 DEF IntakeInv, TypeNote, tables, items, DecisionsStand

LEMMA UploadStep ==
  ASSUME IntakeInv, NEW file \in Files, NEW chosen \in Channels \union {"auto", "other"},
         Upload(file, chosen)
  PROVE  IntakeInv'
<1>1. PICK c : c = IF chosen = "auto" THEN Detect(file) ELSE chosen
  OBVIOUS
<1>2. /\ c \in Channels
      /\ request' = [channel |-> c, file |-> file, chosen |-> chosen, left |-> Taken(c, file)]
  BY <1>1 DEF Upload
<1>3. "other" \notin Channels
  BY DEF Channels
<1>4. RequestIsServed'
  BY <1>1, <1>2, <1>3 DEF RequestIsServed
<1>5. AcceptedIsKept'
  BY DEF IntakeInv, AcceptedIsKept, Upload, Kept, tables
<1>6. QED
  BY <1>4, <1>5, QuietStep DEF Upload, IntakeInv

\* 202: the rows of the request are all sent, so all are kept.
LEMMA AcceptStep == ASSUME IntakeInv, Accept PROVE IntakeInv'
<1>1. \A x : Kept(x) => Kept(x)'
  BY DEF Kept, Accept, tables
<1>2. AcceptedIsKept'
  <2> SUFFICES ASSUME NEW r \in replies', NEW i \in Taken(r.channel, r.file)
               PROVE  Kept(RowBill(r.channel, r.file, i))'
    BY DEF AcceptedIsKept
  <2>1. CASE r \in replies
    BY <1>1, <2>1 DEF IntakeInv, AcceptedIsKept
  <2>2. CASE r = [file |-> request.file, channel |-> request.channel]
    <3>1. r.channel = request.channel /\ r.file = request.file
      BY <2>2
    <3>2. Kept(RowBill(r.channel, r.file, i))
      BY <3>1 DEF IntakeInv, RequestIsServed, Accept
    <3>3. QED
      BY <1>1, <3>2
  <2>3. QED
    BY <2>1, <2>2 DEF Accept
<1>3. RequestIsServed'
  BY DEF Accept, RequestIsServed
<1>4. QED
  BY <1>2, <1>3, QuietStep DEF Accept, IntakeInv

\* A message that is taken off the queue is claimed, or its fingerprint is.
LEMMA TakeStep ==
  ASSUME IntakeInv, NEW b, Take(b), claimed \subseteq claimed', b \in claimed' \/ Known(b)
  PROVE  /\ b \in sent /\ IsABag(queue)' /\ BagToSet(queue)' \subseteq BagToSet(queue)
         /\ SentIsParsed' /\ RequestIsServed' /\ AcceptedIsKept'
<1>1. b \in sent
  BY DEF IntakeInv, Take, BagIn
<1>2. /\ IsABag(queue)' /\ BagToSet(queue)' \subseteq BagToSet(queue)
      /\ BagToSet(queue) \subseteq BagToSet(queue)' \union {b}
  <2>1. CASE queue' = queue (-) SetToBag({b})
    BY <2>1, BagRemove DEF IntakeInv
  <2>2. CASE UNCHANGED queue
    BY <2>2 DEF IntakeInv, IsABag, BagToSet
  <2>3. QED
    BY <2>1, <2>2 DEF Take
<1>3. \A x : Kept(x) => Kept(x)'
  <2> SUFFICES ASSUME NEW x, Kept(x) PROVE Kept(x)'
    OBVIOUS
  <2>1. PICK y \in claimed \union BagToSet(queue) : Fingerprint(y) = Fingerprint(x)
    BY DEF Kept
  <2>2. CASE y \in claimed' \union BagToSet(queue)'
    BY <2>1, <2>2 DEF Kept
  <2>3. CASE y = b
    BY <2>1, <2>3 DEF Kept, Known
  <2>4. QED
    BY <1>2, <2>1, <2>2, <2>3
<1>4. RequestIsServed' /\ AcceptedIsKept'
  BY <1>3 DEF IntakeInv, RequestIsServed, AcceptedIsKept, Take
<1>5. SentIsParsed'
  BY DEF IntakeInv, SentIsParsed, FromFile, FromNote, Take
<1>6. QED
  BY <1>1, <1>2, <1>4, <1>5

\* The claim of a new fingerprint is the first row of a purchase that did not
\* go astray: an earlier one would have had the same fingerprint.
LEMMA IngestStep ==
  ASSUME IntakeInv, NEW b, NEW outcome \in Outcomes, Ingest(b, outcome)
  PROVE  IntakeInv'
<1>1. /\ b \in sent /\ IsABag(queue)' /\ BagToSet(queue)' \subseteq BagToSet(queue)
      /\ SentIsParsed' /\ RequestIsServed' /\ AcceptedIsKept'
  BY TakeStep DEF Ingest, Claim
<1>2. WrittenIsClaimed'
  <2>1. b.about \in Purchases
    BY <1>1, SentFields DEF IntakeInv
  <2>2. \A d \in claimed : d # b
    BY DEF Ingest, Known
  <2>3. OriginOf[b.about] \in Channels /\ b.about \notin astray
          => \A d \in claimed : d.about # b.about
    BY <1>1, <2>2, OneBillEach, OwnBills DEF IntakeInv
  <2>4. QED
    BY <2>1, <2>3 DEF IntakeInv, WrittenIsClaimed, Ingest, Claim, Take
<1>3. DecisionsStand'
  BY DEF IntakeInv, DecisionsStand, Ingest, Claim, Known
<1>4. QED
  BY <1>1, <1>2, <1>3 DEF IntakeInv, Ingest, Claim, Take

LEMMA DuplicateStep == ASSUME IntakeInv, NEW b, IngestDuplicate(b) PROVE IntakeInv'
<1>1. /\ b \in sent /\ IsABag(queue)' /\ BagToSet(queue)' \subseteq BagToSet(queue)
      /\ SentIsParsed' /\ RequestIsServed' /\ AcceptedIsKept'
  BY TakeStep DEF IngestDuplicate, tables
<1>2. QED
  BY <1>1 DEF IntakeInv, WrittenIsClaimed, IngestDuplicate, Take, tables, items, DecisionsStand

\* Steps of the review: an item that is decided was waiting, or is contested.
LEMMA ReviewStep == ASSUME IntakeInv, Review PROVE IntakeInv'
<1>1. UNCHANGED <<clock, request, queue, claimed, written, replies, sent, astray>>
  BY DEF Review, Decide, DecideAgain, Finalize, Resolve
<1>2. RequestIsServed' /\ SentIsParsed' /\ WrittenIsClaimed' /\ AcceptedIsKept'
  BY <1>1 DEF IntakeInv, SentIsParsed, FromFile, FromNote, WrittenIsClaimed, RequestIsServed,
     AcceptedIsKept, Kept
<1>3. ASSUME NEW b \in pending, NEW verdict \in {"approve", "reject"}, NEW alone \in BOOLEAN,
             Decide(b, verdict, alone)
      PROVE  /\ DecisionsStand'
             /\ (pending \union approved \union rejected \union contested \union imported)'
                  \subseteq claimed
  BY <1>3 DEF IntakeInv, DecisionsStand, Decide, Resolve
<1>4. ASSUME NEW b \in contested, NEW verdict \in {"approve", "reject"}, DecideAgain(b, verdict)
      PROVE  /\ DecisionsStand'
             /\ (pending \union approved \union rejected \union contested \union imported)'
                  \subseteq claimed
  BY <1>4 DEF IntakeInv, DecisionsStand, DecideAgain, Resolve
<1>5. ASSUME NEW b \in approved, NEW stored \in BOOLEAN, Finalize(b, stored)
      PROVE  /\ DecisionsStand'
             /\ (pending \union approved \union rejected \union contested \union imported)'
                  \subseteq claimed
  BY <1>5 DEF IntakeInv, DecisionsStand, Finalize, items
<1>6. QED
  BY <1>1, <1>2, <1>3, <1>4, <1>5 DEF IntakeInv, Review, IsABag, BagToSet

LEMMA IntakeStep == IntakeInv /\ [Next]_vars => IntakeInv'
<1> SUFFICES ASSUME IntakeInv, [Next]_vars PROVE IntakeInv'
  OBVIOUS
<1>1. ASSUME UNCHANGED <<request, queue, tables, replies, sent, astray>>, clock' \in Nat
      PROVE  IntakeInv'
  BY <1>1, QuietStep DEF IntakeInv, RequestIsServed, AcceptedIsKept, Kept, tables
<1>2. CASE Tick
  BY <1>1, <1>2 DEF Tick, IntakeInv
<1>3. ASSUME NEW file \in Files, NEW chosen \in Channels \union {"auto", "other"},
             UploadRefused(file, chosen)
      PROVE  IntakeInv'
  BY <1>1, <1>3 DEF UploadRefused, vars, tables, items, IntakeInv
<1>4. ASSUME NEW note \in Notes, NoteRefused(note) PROVE IntakeInv'
  BY <1>1, <1>4 DEF NoteRefused, vars, tables, IntakeInv
<1>5. CASE BrokerDown
  BY <1>5, QuietStep DEF BrokerDown, IntakeInv, RequestIsServed, AcceptedIsKept, Kept, tables
<1>6. CASE UNCHANGED vars
  BY <1>1, <1>6 DEF vars, tables, IntakeInv
<1>7. QED
  BY <1>2, <1>3, <1>4, <1>5, <1>6, UploadStep, TypeNoteStep, EnqueueStep, AcceptStep,
     IngestStep, DuplicateStep, ReviewStep DEF Next, Serve, Work

LEMMA IntakeInvHolds == Spec => []IntakeInv
  BY NothingSentAtFirst, IntakeStep, PTL DEF Spec

-----------------------------------------------------------------------------
(* The properties. *)

\* A purchase that is uploaded as what it is is recorded once at most, whatever
\* the exports, broken off uploads, redeliveries and their order.
THEOREM RecordedOnce == Spec => []OnceThroughItsChannel
<1>1. IntakeInv => OnceThroughItsChannel
  BY DEF IntakeInv, WrittenIsClaimed, OnceThroughItsChannel
<1>2. QED
  BY <1>1, IntakeInvHolds, PTL

\* Only purchases that cannot be told apart by what the code keeps of them are
\* taken for one another, and their days are one apart at most.
THEOREM OnlyTwinsAreLost == Spec => []LostBillsAreTwins
<1>1. IntakeInv => LostBillsAreTwins
  <2> SUFFICES ASSUME IntakeInv, NEW b \in sent, NEW c \in claimed,
                      Fingerprint(b) = Fingerprint(c), b.about # c.about
               PROVE  /\ b.ref = NoRef /\ c.ref = NoRef
                      /\ b.amount = c.amount /\ b.direction = c.direction
                      /\ Normal[b.merchant] = Normal[c.merchant]
                      /\ b.meant - c.meant \in -1 .. 1
    BY DEF LostBillsAreTwins
  <2>1. SentIsParsed /\ c \in sent
    BY DEF IntakeInv
  <2>2. /\ b.ref = NoRef /\ c.ref = NoRef
        /\ b.day = c.day /\ b.amount = c.amount /\ b.direction = c.direction
        /\ Normal[b.merchant] = Normal[c.merchant]
    BY <2>1, EqualFingerprints
  <2>3. b.meant - c.meant \in -1 .. 1
    BY <2>1, <2>2, SentFields
  <2>4. QED
    BY <2>2, <2>3
<1>2. QED
  BY <1>1, IntakeInvHolds, PTL

\* No transaction of an upload that was answered with 202 is lost.
THEOREM NothingAcceptedIsLost == Spec => []AcceptedIsKept
<1>1. IntakeInv => AcceptedIsKept
  BY DEF IntakeInv
<1>2. QED
  BY <1>1, IntakeInvHolds, PTL

\* What one decision alone rejected does not come back through its own channel:
\* there the purchase is always the same transaction, and its fingerprint is taken.
THEOREM RejectedIsFinal == Spec => []RejectedDoesNotReturn
<1>1. IntakeInv => RejectedDoesNotReturn
  <2> SUFFICES ASSUME IntakeInv,
                      NEW b \in rejected \ contested,
                      NEW c \in pending \union approved \union imported,
                      OriginOf[b.about] \in Channels, b.about \notin astray, c.about = b.about
               PROVE  FALSE
    BY DEF RejectedDoesNotReturn
  <2>1. b \in sent /\ c \in sent /\ SentIsParsed
    BY DEF IntakeInv
  <2>2. b = c
    BY <2>1, OwnBills, OneBillEach
  <2>3. QED
    BY <2>2 DEF IntakeInv, DecisionsStand
<1>2. QED
  BY <1>1, IntakeInvHolds, PTL
=============================================================================
