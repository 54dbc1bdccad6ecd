---------------------------- MODULE FinanceDays ----------------------------
(***************************************************************************)
(* The calendar of the finance features, on any day: the period a question *)
(* in natural language means (_query_period and the validation and retry   *)
(* around it, up to the answer of console_query), and the week, the        *)
(* history and the subscriptions of the weekly digest.                     *)
(*                                                                         *)
(* A day is counted as Python counts it (date.toordinal).  A question is   *)
(* the time words in it and what its other words say of the direction, the *)
(* metric and the category; a merchant is passed on as the model names it. *)
(***************************************************************************)
EXTENDS Integers, FiniteSetsExt

CONSTANTS
    Years,       \* the years in which a request may come
    Questions,   \* the words of the questions, see Question
    Categories,  \* DEFAULT_CATEGORIES
    Claims,      \* what the model may say of direction, metric and category
    NoWord,      \* no word, or none that is known
    DueDays,     \* days of the month on which a subscription is charged
    MaxDelay,    \* days a charge may be late
    NoPeriod     \* a period that is refused, or not there yet

Months == 1 .. 12
Form == {"days", "months", "both_months", "last_two_months", "month_and_a_half",
         "this_month", "last_month", "this_year", "month", "none", "model"}

Types == {"withdrawal", "deposit"}
Metrics == {"sum", "count"}

\* The question itself can name income, a count, and a category or something
\* that belongs to one; expenses and sums are what it means without a word.
Question == [form : Form, n : 0 .. 999, direction : {"deposit", NoWord},
             metric : {"count", NoWord}, category : Categories \union {NoWord}]

ASSUME FinanceDaysAssumption ==
    /\ Years \subseteq 2 .. 9998
    /\ Questions \subseteq Question
    /\ Claims \subseteq (Types \union {NoWord}) \X (Metrics \union {NoWord})
                          \X (Categories \union {NoWord})
    /\ DueDays \subseteq 1 .. 31
    /\ MaxDelay \in Nat
    /\ NoPeriod \notin [start : Int, end : Int]

-----------------------------------------------------------------------------
(* The calendar. *)

IsLeap(year) == year % 4 = 0 /\ (year % 100 # 0 \/ year % 400 = 0)

\* monthrange
MonthLength(year, month) ==
    CASE month = 2 -> IF IsLeap(year) THEN 29 ELSE 28
      [] month \in {4, 6, 9, 11} -> 30
      [] OTHER -> 31

Date(year, month, day) == [year |-> year, month |-> month, day |-> day]

\* The days of a year before the first of a month.
DaysBefore(year, month) ==
    <<0, 31, 59, 90, 120, 151, 181, 212, 243, 273, 304, 334>>[month]
      + (IF month > 2 /\ IsLeap(year) THEN 1 ELSE 0)

Ordinal(d) ==
    LET past == d.year - 1 IN
    (365 * past) + (past \div 4) - (past \div 100) + (past \div 400)
      + DaysBefore(d.year, d.month) + d.day

\* Monday is 0.
Weekday(ordinal) == (ordinal + 6) % 7

Days == {d \in [year : Years, month : Months, day : 1 .. 31] :
            d.day =< MonthLength(d.year, d.month)}

\* Mutant of ShiftMonths: the day is kept although the month may be shorter.
ShiftKeepingDay(d, months) ==
    LET index == (12 * d.year) + d.month - 1 + months
    IN  Date(index \div 12, (index % 12) + 1, d.day)

\* The same day months later, or the last one of that month.
ShiftMonths(d, months) ==
    LET index == (12 * d.year) + d.month - 1 + months
        year == index \div 12
        month == (index % 12) + 1
    IN  Date(year, month, Min({d.day, MonthLength(year, month)}))

-----------------------------------------------------------------------------
(* The period of a question. *)

FirstOf(d) == Date(d.year, d.month, 1)
Period(first, last) == [start |-> first, end |-> last]

\* The forms in the order in which the code looks for them; raw is the period
\* that the model gave, which counts only when the question has time words
\* that the code does not know.
QueryPeriod(question, today, raw) ==
    LET now == Ordinal(today)
        monthStart == Ordinal(FirstOf(today))
        previousStart == Ordinal(ShiftMonths(FirstOf(today), -1))
        n == question.n
    IN
    CASE question.form = "days" -> Period(now - n, now)
      [] question.form = "months" ->
            IF n \in Months THEN Period(Ordinal(ShiftMonths(today, -n)), now) ELSE NoPeriod
      [] question.form = "both_months" -> Period(previousStart, now)
      [] question.form = "last_two_months" -> Period(Ordinal(ShiftMonths(today, -2)), now)
      [] question.form = "month_and_a_half" -> Period(now - 45, now)
      [] question.form = "this_month" -> Period(monthStart, now)
      [] question.form = "last_month" -> Period(previousStart, monthStart - 1)
      [] question.form = "this_year" -> Period(Ordinal(Date(today.year, 1, 1)), now)
      [] question.form = "month" ->
            IF n \in Months
            THEN Period(Ordinal(Date(today.year, n, 1)),
                        Ordinal(Date(today.year, n, MonthLength(today.year, n))))
            ELSE NoPeriod
      [] question.form = "none" -> Period(monthStart, now)
      [] OTHER -> raw

\* Mutant of InRange: at most a common year.
WithinYear(period) ==
    period # NoPeriod /\ period.end - period.start \in 0 .. 365

\* validate_range
InRange(period) ==
    period # NoPeriod /\ period.end - period.start \in 0 .. 366

\* The periods a model may give: one it could be, a reversed one, one too
\* long, and dates that cannot be parsed.
RawPeriods(today) ==
    LET now == Ordinal(today) IN
    {Period(now - 10, now), Period(now, now - 1), Period(now - 367, now), NoPeriod}

-----------------------------------------------------------------------------
(* The other words of a question: the model decides on direction and metric,  *)
(* the question on the category, and the other of them if it has no word.     *)

Direction(claim, question) ==
    IF claim[1] # NoWord THEN claim[1]
    ELSE IF question.direction # NoWord THEN question.direction ELSE "withdrawal"

Metric(claim, question) ==
    IF claim[2] # NoWord THEN claim[2]
    ELSE IF question.metric # NoWord THEN question.metric ELSE "sum"

Category(claim, question) ==
    IF question.category # NoWord THEN question.category ELSE claim[3]

-----------------------------------------------------------------------------
(* Subscriptions. *)

\* The ordinals of a monthly charge in the months up to a day: due on the same
\* day of each month, or its last one, and late by the month's delay.
Charges(day, due, late) ==
    {LET m == ShiftMonths(FirstOf(day), -k)
     IN  Ordinal(Date(m.year, m.month, Min({due, MonthLength(m.year, m.month)}))) + late[k] :
        k \in DOMAIN late}

\* Mutant of IsSubscription: the longest interval is a month of 30 days.
StrictlyMonthly(charges, asOf) ==
    LET last == Max(charges)
        second == Max(charges \ {last})
        third == Max(charges \ {last, second})
    IN  /\ Cardinality(charges) >= 3
        /\ asOf - last =< 40
        /\ last - second \in 25 .. 30 /\ second - third \in 25 .. 30

\* detect_subscriptions for the charges of one merchant, on different days.
IsSubscription(charges, asOf) ==
    LET last == Max(charges)
        second == Max(charges \ {last})
        third == Max(charges \ {last, second})
    IN  /\ Cardinality(charges) >= 3
        /\ asOf - last =< 40
        /\ last - second \in 25 .. 35 /\ second - third \in 25 .. 35

-----------------------------------------------------------------------------
VARIABLES
    today,    \* the day of the request
    request,  \* a question, or a digest with a subscription in the ledger
    pc,       \* where it is
    attempt,  \* calls of the model so far
    errors,   \* how many of them failed
    period,   \* the period the ledger is asked for,
    filter,   \*   and the direction, metric and category
    found     \* the digest names the subscription

vars == <<today, request, pc, attempt, errors, period, filter, found>>

\* The months whose charges can be in a digest's history, the latest first.
Recent == 0 .. 4
Requests ==
    [kind : {"question"}, question : Questions]
    \union [kind : {"digest"}, due : DueDays, late : [Recent -> {0, MaxDelay}]]

Init ==
    /\ today \in Days
    /\ request \in Requests
    /\ pc = request.kind
    /\ attempt = 0 /\ errors = 0
    /\ period = NoPeriod /\ filter = <<NoWord, NoWord, NoWord>>
    /\ found = FALSE

\* An attempt that gave no query is followed by another; after two, LLMError.
AttemptFailed ==
    /\ attempt' = attempt + 1
    /\ pc' = IF attempt = 0 THEN pc ELSE "refused"
    /\ UNCHANGED <<today, request, period, filter, found>>

\* The model gives an intent: to_query succeeds, or raises.
Interpret(raw, claim) ==
    LET asked == QueryPeriod(request.question, today, raw) IN
    /\ pc = "question"
    /\ UNCHANGED errors
    /\ IF InRange(asked)
       THEN /\ period' = asked
            /\ filter' = <<Direction(claim, request.question), Metric(claim, request.question),
                          Category(claim, request.question)>>
            /\ pc' = "asked"
            /\ attempt' = attempt + 1
            /\ UNCHANGED <<today, request, found>>
       ELSE AttemptFailed

\* The call fails, or brings no intent.
ModelFails ==
    /\ pc = "question"
    /\ errors' = errors + 1
    /\ AttemptFailed

\* list_transactions, and the answer or the apology.
Answer(outcome) ==
    /\ pc = "asked"
    /\ pc' = outcome
    /\ UNCHANGED <<today, request, attempt, errors, period, filter, found>>

\* The digest, on a Monday by the schedule or on any day by hand: the last
\* complete week, with the subscriptions of the 120 days up to its end.
SendDigest ==
    LET end == Ordinal(today) - (Weekday(Ordinal(today)) + 1)
        charges == {c \in Charges(today, request.due, request.late) : c \in end - 119 .. end}
    IN
    /\ pc = "digest"
    /\ period' = Period(end - 6, end)
    /\ found' = IsSubscription(charges, end)
    /\ pc' = "answered"
    /\ UNCHANGED <<today, request, attempt, errors, filter>>

\* Firefly is unreachable: an error instead of a digest.
DigestFails ==
    /\ pc = "digest"
    /\ pc' = "unavailable"
    /\ UNCHANGED <<today, request, attempt, errors, period, filter, found>>

Next ==
    \/ \E raw \in RawPeriods(today), claim \in Claims : Interpret(raw, claim)
    \/ ModelFails
    \/ \E outcome \in {"answered", "unavailable"} : Answer(outcome)
    \/ SendDigest \/ DigestFails

Spec == Init /\ [][Next]_vars

-----------------------------------------------------------------------------
(* Properties. *)

\* Time words that name a period the code knows.
Named(question) ==
    \/ question.form \notin {"days", "months", "month", "model"}
    \/ question.form = "days" /\ question.n =< 366
    \/ question.form \in {"months", "month"} /\ question.n \in Months

\* A question with such words is never refused for its period, on no day of any
\* year, leap years included, and whatever dates the model adds: one intent in
\* two attempts is enough.
NamedPeriodsAreAnswered ==
    pc = "refused" /\ Named(request.question) => errors = 2

PeriodOf(form, n) == QueryPeriod([form |-> form, n |-> n], today, NoPeriod)

\* The periods fit each other and the calendar: last month ends the day before
\* this one begins, "these two months" are both; the months of the year follow
\* each other without a gap; n months back begins in the n-th month before,
\* from the 29th to the 31st too; and a digest covers the last complete week,
\* Monday to Sunday.
PeriodsFit ==
    /\ pc = "asked" =>
        /\ PeriodOf("last_month", 0).end + 1 = PeriodOf("this_month", 0).start
        /\ PeriodOf("both_months", 0).start = PeriodOf("last_month", 0).start
        /\ PeriodOf("month", today.month).start = PeriodOf("this_month", 0).start
        /\ PeriodOf("month", 1).start = PeriodOf("this_year", 0).start
        /\ \A m \in 1 .. 11 : PeriodOf("month", m).end + 1 = PeriodOf("month", m + 1).start
        /\ \A n \in Months :
              PeriodOf("months", n).start \in Ordinal(ShiftMonths(FirstOf(today), -n))
                                               .. Ordinal(ShiftMonths(FirstOf(today), 1 - n)) - 1
    /\ request.kind = "digest" /\ pc = "answered" =>
        /\ Weekday(period.start) = 0 /\ Weekday(period.end) = 6
        /\ period.end - period.start = 6
        /\ Ordinal(today) - period.end \in 1 .. 7

\* README.md:153: a subscription that is charged every month, on whatever day
\* of it and up to MaxDelay days late, is in every digest: the intervals stay
\* within 25 to 35 days, the last charge within 40, and three of them within
\* the history that is read.
MonthlySubscriptionsFound ==
    request.kind = "digest" /\ pc = "answered" => found
=============================================================================
