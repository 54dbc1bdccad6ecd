---------------------------- MODULE LedgerReader ----------------------------
(***************************************************************************)
(* Reading Firefly's ledger page by page (list_transactions) while workers *)
(* book and the user deletes, and what is made of what was read: the       *)
(* answer to a question on the console, the duplicate scan, the weekly     *)
(* digest, and the agent's summary, search and duplicate tools.            *)
(*                                                                         *)
(* Firefly lists the transactions of one type in the asked period, newest  *)
(* first; a new one may be of an older day and appear anywhere.  Nothing   *)
(* holds the list still between two pages, or between the two lists that   *)
(* a digest is made of.                                                    *)
(***************************************************************************)
EXTENDS Naturals, SequencesExt

CONSTANTS
    NewestFirst,  \* the transactions there can be, newest first,
    Week,         \*   and those of the last complete week
    TypeOf,       \* "withdrawal" or "deposit"
    MerchantOf,   \* the other side's name, or NoMerchant
    CategoryOf,   \* the category, or NoCategory
    AmountOf,     \* the amount, or NoAmount when it is no number
    Containing,   \* for each name the names that contain it
    NoMerchant, NoCategory, NoAmount,
    PageSize,     \* Firefly's page length
    MaxGroups,    \* groups the agent's tools list (20 in the code)
    Limit,        \* transactions the search returns (1 to 20)
    MaxLength,    \* bound: the ledger when the reading begins
    MaxChanges    \* bound: bookings and deletions while it goes on

Splits == ToSet(NewestFirst)
Types == {"withdrawal", "deposit"}
\* A list is of one type and of a long period or of the week.
Lists == Types \X {"all", "week"}

ASSUME LedgerReaderAssumption ==
    /\ NewestFirst \in Seq(Splits) /\ IsInjective(NewestFirst) /\ Week \subseteq Splits
    /\ PageSize \in Nat \ {0} /\ MaxGroups \in Nat \ {0} /\ Limit \in Nat \ {0}
    /\ MaxLength \in Nat /\ MaxChanges \in Nat
    /\ \A s \in Splits : TypeOf[s] \in Types /\ AmountOf[s] \in Nat \union {NoAmount}
    /\ \A m \in DOMAIN Containing : m \in Containing[m]

Merchants == DOMAIN Containing
Categories == {CategoryOf[s] : s \in Splits} \ {NoCategory}

VARIABLES
    ledger,    \* what there is in Firefly now
    pc,        \* idle, reading, read, reported or failed
    digest,    \* the lists are read for a digest
    asked,     \* the list that is read,
    page,      \*   the page to ask for next,
    splits,    \*   and what its pages gave so far
    history,   \* what the first list of a digest gave
    report,    \* what was made of it
    before,    \* history: the ledger when the reading began,
    staying,   \*   what of it was there all the time,
    inserted, deleted   \* and how much came and went meanwhile

vars == <<ledger, pc, digest, asked, page, splits, history, report, before, staying, inserted, deleted>>

NoReport == [kind |-> "none"]

Init ==
    /\ ledger \in {set \in SUBSET Splits : Cardinality(set) =< MaxLength}
    /\ pc = "idle" /\ digest = FALSE
    /\ asked = <<"withdrawal", "all">> /\ page = 1
    /\ splits = <<>> /\ history = <<>> /\ report = NoReport
    /\ before = {} /\ staying = {}
    /\ inserted = 0 /\ deleted = 0

-----------------------------------------------------------------------------
(* Firefly. *)

Belongs(s, list) == TypeOf[s] = list[1] /\ (list[2] = "week" => s \in Week)

Visible(set, list) == {s \in set : Belongs(s, list)}

\* How many elements of a set, itself included, are no later than x.
Rank(x, set, at) == Cardinality({y \in set : at[y] =< at[x]})

PlaceOf == [s \in Splits |-> CHOOSE i \in DOMAIN NewestFirst : NewestFirst[i] = s]

Listing(set, list) ==
    LET there == Visible(set, list)
    IN  [i \in 1 .. Cardinality(there) |-> CHOOSE s \in there : Rank(s, there, PlaceOf) = i]

PageOf(k) ==
    LET list == Listing(ledger, asked)
    IN  SubSeq(list, (k - 1) * PageSize + 1, Min({k * PageSize, Len(list)}))

\* total_pages is past the page, or there is a next link: both say the same.
HasNext(k) == k * PageSize < Len(Listing(ledger, asked))

\* The second list of a digest.
Second == digest /\ asked[1] = "deposit"

\* A change before the first page or after the last makes no difference to what
\* was read.
Changeable == pc = "reading" /\ (page > 1 \/ Second) /\ inserted + deleted < MaxChanges

\* A worker books a transaction, of today or of an older day.
Book(s) ==
    /\ Changeable
    /\ s \notin ledger
    /\ ledger' = ledger \union {s}
    /\ inserted' = inserted + 1
    /\ UNCHANGED <<pc, digest, asked, page, splits, history, report, before, staying, deleted>>

\* The user deletes one in Firefly.
Delete(s) ==
    /\ Changeable
    /\ s \in ledger
    /\ ledger' = ledger \ {s}
    /\ deleted' = deleted + 1
    /\ staying' = staying \ {s}
    /\ UNCHANGED <<pc, digest, asked, page, splits, history, report, before, inserted>>

-----------------------------------------------------------------------------
(* list_transactions. *)

\* A tool or a question asks for one list, the digest for all withdrawals of its
\* history first.
Begin(list, forDigest) ==
    /\ pc = "idle"
    /\ forDigest => list = <<"withdrawal", "all">>
    /\ pc' = "reading"
    /\ digest' = forDigest
    /\ asked' = list
    /\ UNCHANGED <<ledger, page, splits, history, report, before, staying, inserted, deleted>>

\* The answer to the first page is what the reading is measured against.
Measure ==
    IF page = 1 /\ ~Second THEN before' = ledger /\ staying' = ledger
    ELSE UNCHANGED <<before, staying>>

\* The list is complete; a digest goes on with the week's deposits.
EndOfList(read) ==
    IF digest /\ ~Second
    THEN /\ history' = read /\ splits' = <<>>
         /\ asked' = <<"deposit", "week">> /\ page' = 1
         /\ UNCHANGED pc
    ELSE /\ splits' = read
         /\ pc' = "read"
         /\ UNCHANGED <<history, asked, page>>

\* Mutant of Fetch: the last page is recognised one page early.
StopsEarly ==
    /\ pc = "reading"
    /\ IF HasNext(page + 1)
       THEN splits' = splits \o PageOf(page) /\ page' = page + 1 /\ UNCHANGED <<pc, history, asked>>
       ELSE EndOfList(splits \o PageOf(page))
    /\ Measure
    /\ UNCHANGED <<ledger, digest, report, inserted, deleted>>

\* One page is fetched, its splits are appended, and the next page is the
\* following number: the reader knows no other position in the list.
Fetch ==
    /\ pc = "reading"
    /\ IF HasNext(page)
       THEN splits' = splits \o PageOf(page) /\ page' = page + 1 /\ UNCHANGED <<pc, history, asked>>
       ELSE EndOfList(splits \o PageOf(page))
    /\ Measure
    /\ UNCHANGED <<ledger, digest, report, inserted, deleted>>

\* Firefly answers with an error, or not at all: what was read is dropped, and
\* the scan, the digest and the question end with the error.
Unreachable ==
    /\ pc = "reading"
    /\ pc' = "failed"
    /\ splits' = <<>> /\ history' = <<>>
    /\ UNCHANGED <<ledger, digest, asked, page, report, before, staying, inserted, deleted>>

-----------------------------------------------------------------------------
(* What is made of a list: of all its places, or of some of them. *)

Numbered(seq, places) == {i \in places : AmountOf[seq[i]] # NoAmount}
SumOf(seq, places) == SumFunction([i \in Numbered(seq, places) |-> AmountOf[seq[i]]])
SumsBy(groupOf, seq, places) ==
    [g \in {groupOf[seq[i]] : i \in places} |->
        SumOf(seq, {i \in places : groupOf[seq[i]] = g})]

\* A filter names a category, or part of a merchant's name, or neither.
Matches(s, category, merchant) ==
    /\ category = NoCategory \/ CategoryOf[s] = category
    /\ merchant = NoMerchant \/ (MerchantOf[s] # NoMerchant /\ MerchantOf[s] \in Containing[merchant])

Key(s) == <<MerchantOf[s], AmountOf[s]>>
IsCharge(s) == MerchantOf[s] # NoMerchant /\ AmountOf[s] # NoAmount

\* Mutant of DuplicateGroups: charges of other merchants are taken for repeats.
GroupsByAmount(seq, places) ==
    {Key(seq[i]) : i \in {i \in places :
        IsCharge(seq[i]) /\ \E j \in places \ {i} : AmountOf[seq[j]] = AmountOf[seq[i]]}}

\* find_duplicate_groups: the merchants and amounts that occur twice or more.
DuplicateGroups(seq, places) ==
    {Key(seq[i]) : i \in {i \in places :
        IsCharge(seq[i]) /\ \E j \in places \ {i} : Key(seq[j]) = Key(seq[i])}}

\* The first n of the groups, in the order of their first charges.
FirstGroups(n, groups, seq) ==
    LET first == [g \in groups |-> Min({i \in DOMAIN seq : Key(seq[i]) = g})]
    IN  {g \in groups : Rank(g, groups, first) =< n}

\* Mutant of Top: the groups are cut before they are sorted.
FirstListed(n, set, amount) ==
    IF Cardinality(set) =< n THEN set ELSE CHOOSE top \in kSubset(n, set) : TRUE

\* The n elements of a set with the largest amounts.
Top(n, set, amount) ==
    IF Cardinality(set) =< n THEN set
    ELSE CHOOSE top \in kSubset(n, set) :
            \A x \in top, y \in set \ top : amount[x] >= amount[y]

\* _summary: the total, and the largest groups with their amounts.
Summary(seq, by) ==
    LET numbered == Numbered(seq, DOMAIN seq)
        sums == SumsBy(IF by = "category" THEN CategoryOf ELSE MerchantOf, seq, numbered)
    IN  [kind |-> "summary", by |-> by, total |-> SumOf(seq, numbered), count |-> Cardinality(numbered),
         groups |-> [g \in Top(MaxGroups, DOMAIN sums, sums) |-> sums[g]]]

\* _search: the largest amounts, each place of the list for itself.
Search(seq, category, merchant) ==
    LET found == {i \in DOMAIN seq : /\ Matches(seq[i], category, merchant)
                                     /\ AmountOf[seq[i]] # NoAmount}
        listed == Top(Limit, found, [i \in found |-> AmountOf[seq[i]]])
    IN  [kind |-> "search", category |-> category, merchant |-> merchant,
         count |-> Cardinality(listed), transactions |-> {seq[i] : i \in listed}]

\* Mutant of Answer: a transaction whose amount is no number is not counted.
AnswerOfNumbered(seq, category, merchant, metric) ==
    LET matched == {i \in Numbered(seq, DOMAIN seq) :
                       Belongs(seq[i], asked) /\ Matches(seq[i], category, merchant)}
    IN  [kind |-> "answer", category |-> category, merchant |-> merchant, metric |-> metric,
         result |-> IF metric = "count" THEN Cardinality(matched) ELSE SumOf(seq, matched)]

\* aggregate_transactions: the count has every match, the sum those with a number.
Answer(seq, category, merchant, metric) ==
    LET matched == {i \in DOMAIN seq :
                       Belongs(seq[i], asked) /\ Matches(seq[i], category, merchant)}
    IN  [kind |-> "answer", category |-> category, merchant |-> merchant, metric |-> metric,
         result |-> IF metric = "count" THEN Cardinality(matched) ELSE SumOf(seq, matched)]

\* _build_weekly_text: of the withdrawals of the history those of the week.  A
\* category is listed even if none of its amounts is a number.
Digest(withdrawals, deposits) ==
    LET week == {i \in DOMAIN withdrawals : withdrawals[i] \in Week}
    IN  [kind |-> "digest", income |-> SumOf(deposits, DOMAIN deposits),
         expense |-> SumOf(withdrawals, week),
         deposits |-> Len(deposits), withdrawals |-> Cardinality(week),
         categories |-> SumsBy(CategoryOf, withdrawals, week),
         groups |-> DuplicateGroups(withdrawals, week)]

-----------------------------------------------------------------------------
(* The reports. *)

Reported(what) ==
    /\ pc = "read"
    /\ pc' = "reported"
    /\ report' = what
    /\ UNCHANGED <<ledger, digest, asked, page, splits, history, before, staying, inserted, deleted>>

\* The agent's tools and the scan read withdrawals only.
ForTool == ~digest /\ asked[1] = "withdrawal"

\* Mutant of ReportDuplicates: each page is reported as it comes.
ReportsEachPage ==
    /\ pc = "reading" /\ ForTool
    /\ report' = [kind |-> "duplicates", groups |-> DuplicateGroups(splits, DOMAIN splits), count |-> 0]
    /\ UNCHANGED <<ledger, pc, digest, asked, page, splits, history, before, staying, inserted, deleted>>

\* scan_duplicate_charges tells of all groups, the tool of the same name counts
\* them and lists the first ones.
ReportDuplicates ==
    /\ ForTool
    /\ LET groups == DuplicateGroups(splits, DOMAIN splits) IN
       \E listed \in {groups, FirstGroups(MaxGroups, groups, splits)} :
          Reported([kind |-> "duplicates", groups |-> listed, count |-> Cardinality(groups)])

ReportSummary(by) == ForTool /\ Reported(Summary(splits, by))

ReportSearch(category, merchant) == ForTool /\ Reported(Search(splits, category, merchant))

\* console_query: the answer to a question.
ReportAnswer(category, merchant, metric) ==
    ~digest /\ Reported(Answer(splits, category, merchant, metric))

\* send_weekly_digest
ReportDigest == digest /\ Reported(Digest(history, splits))

-----------------------------------------------------------------------------
Report ==
    \/ ReportDuplicates
    \/ \E by \in {"category", "merchant"} : ReportSummary(by)
    \/ \E category \in Categories \union {NoCategory}, merchant \in Merchants \union {NoMerchant} :
          \/ ReportSearch(category, merchant)
          \/ \E metric \in {"sum", "count"} : ReportAnswer(category, merchant, metric)
    \/ ReportDigest

Next ==
    \/ \E list \in Lists, forDigest \in BOOLEAN : Begin(list, forDigest)
    \/ Fetch \/ Unreachable
    \/ \E s \in Splits : Book(s) \/ Delete(s)
    \/ Report

Spec == Init /\ [][Next]_vars

-----------------------------------------------------------------------------
(* Properties. *)

\* Every variable has its type.
TypeOK ==
    /\ ledger \subseteq Splits
    /\ pc \in {"idle", "reading", "read", "reported", "failed"}
    /\ digest \in BOOLEAN /\ asked \in Lists /\ page \in Nat \ {0}
    /\ splits \in Seq(Splits) /\ history \in Seq(Splits)
    /\ report.kind \in {"none", "duplicates", "summary", "search", "answer", "digest"}
    /\ (report = NoReport) <=> (pc # "reported")
    /\ staying \subseteq before /\ before \subseteq Splits
    /\ inserted \in Nat /\ deleted \in Nat /\ inserted + deleted =< MaxChanges

\* The lists that were read, one after the other, and what they should be.
WasRead == history \o splits
ToRead(set) ==
    IF digest THEN Listing(set, <<"withdrawal", "all">>)
                     \o Listing(set, <<"deposit", "week">>)
    ELSE Listing(set, asked)

Complete == pc \in {"read", "reported"}

\* A complete reading is off by the changes made meanwhile and no more: every
\* deletion hides at most one of the splits that were there all the time, every
\* booking repeats at most one, over both lists of a digest too, and a reading
\* in peace is exact.
ReadIsOffByChanges ==
    Complete =>
        /\ Cardinality(ToSet(ToRead(staying)) \ ToSet(WasRead)) =< deleted
        /\ Len(WasRead) - Cardinality(ToSet(WasRead)) =< inserted
        /\ inserted + deleted = 0 => WasRead = ToRead(before)

\* The merchants and amounts of two different withdrawals of a set.
PairsIn(set) ==
    {Key(s) : s \in {s \in set : IsCharge(s) /\ \E t \in set \ {s} : Key(s) = Key(t)}}

\* The scan, the tool and the digest raise no alarm about a single charge unless
\* something was booked while they read, and miss no pair of the period, or of
\* the week, unless something was deleted: those the tool cuts off are counted.
AlarmsAreReal ==
    report.kind \in {"duplicates", "digest"} =>
        LET charges(set) ==
                ToSet(Listing(set, IF digest THEN <<"withdrawal", "week">> ELSE asked))
        IN  /\ inserted = 0 => report.groups \subseteq PairsIn(charges(before))
            /\ deleted = 0 =>
                  \/ PairsIn(charges(staying)) \subseteq report.groups
                  \/ /\ ~digest /\ Cardinality(report.groups) >= MaxGroups
                     /\ report.count >= Cardinality(PairsIn(charges(staying)))

\* The matches of an answer, and the two counts of a digest, in a set.
Counted(set) ==
    IF digest THEN Cardinality({s \in set : s \in Week})
    ELSE Cardinality({s \in set : Belongs(s, asked) /\ Matches(s, report.category, report.merchant)})

\* What is counted while the ledger changes is off by two for each change: a
\* booking is counted itself and repeats another one, a deletion takes itself
\* away and hides another one.  A question and a digest are never worse.
CountsAreOffByTwo ==
    \A count \in (IF report.kind = "digest" THEN {report.withdrawals + report.deposits}
                  ELSE IF report.kind = "answer" /\ report.metric = "count" THEN {report.result}
                  ELSE {}) :
        /\ count =< Counted(before) + 2 * inserted
        /\ count + 2 * deleted >= Counted(before)

Total(set) == SumFunctionOnSet(AmountOf, {s \in set : AmountOf[s] # NoAmount})

\* What the user is told of a ledger at rest is true: an answer is the total of
\* the transactions it names, the digest's sums are those of the week and its
\* categories add up to them; the groups of a summary are right and the cut ones
\* no larger than those listed, and no unlisted transaction of a search is
\* larger than a listed one.
QuietReportsAreExact ==
    inserted + deleted = 0 =>
        LET there == ToSet(Listing(before, asked)) IN
        /\ report.kind = "answer" /\ report.metric = "sum" =>
            report.result = Total({s \in there : Matches(s, report.category, report.merchant)})
        /\ report.kind = "digest" =>
            /\ report.income = Total({s \in before \intersect Week : TypeOf[s] = "deposit"})
            /\ report.expense = Total({s \in before \intersect Week : TypeOf[s] = "withdrawal"})
            /\ report.expense = SumFunction(report.categories)
        /\ report.kind = "summary" =>
            LET groupOf == IF report.by = "category" THEN CategoryOf ELSE MerchantOf
                all == {groupOf[s] : s \in {s \in there : AmountOf[s] # NoAmount}}
                sum(g) == Total({s \in there : groupOf[s] = g})
            IN  /\ report.total = Total(there)
                /\ Cardinality(DOMAIN report.groups) = Min({MaxGroups, Cardinality(all)})
                /\ \A g \in DOMAIN report.groups :
                      /\ report.groups[g] = sum(g)
                      /\ \A h \in all \ DOMAIN report.groups : sum(g) >= sum(h)
        /\ report.kind = "search" =>
            LET found == {s \in there : /\ Matches(s, report.category, report.merchant)
                                        /\ AmountOf[s] # NoAmount}
            IN  /\ report.transactions \subseteq found
                /\ Cardinality(report.transactions) = Min({Limit, Cardinality(found)})
                /\ \A s \in report.transactions, t \in found \ report.transactions :
                      AmountOf[s] >= AmountOf[t]
=============================================================================
