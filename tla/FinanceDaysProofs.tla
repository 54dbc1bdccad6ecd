------------------------- MODULE FinanceDaysProofs -------------------------
(***************************************************************************)
(* The calendar of the finance features on every day of every year.  The   *)
(* months are numbered one after the other, twelve to a year: Opening(k)   *)
(* is the ordinal of the first day of month k.  All that the properties    *)
(* need of the calendar is that the openings are one month's length apart  *)
(* and 365 or 366 days in twelve months, the latter only over a 29         *)
(* February, and that a month has 28 to 31 days.                           *)
(***************************************************************************)
EXTENDS FinanceDays, FiniteSetTheorems, TLAPS

-----------------------------------------------------------------------------
(* Numbered months. *)

YearOf(k) == k \div 12
MonthOf(k) == (k % 12) + 1
LengthOf(k) == MonthLength(YearOf(k), MonthOf(k))
Opening(k) == Ordinal(Date(YearOf(k), MonthOf(k), 1))
Index(d) == (12 * d.year) + d.month - 1

\* The days of the years up to a year.
YearsEnd(year) == (365 * year) + (year \div 4) - (year \div 100) + (year \div 400)

LEMMA LengthFacts ==
    ASSUME NEW y \in Nat, NEW m \in Months
    PROVE  /\ MonthLength(y, m) \in Nat
           /\ MonthLength(y, m) \in 28 .. 31
           /\ DaysBefore(y, m) \in Nat
  BY DEF MonthLength, DaysBefore, Months

LEMMA OrdinalOf ==
    ASSUME NEW y, NEW m, NEW n
    PROVE  Ordinal(Date(y, m, n)) = YearsEnd(y - 1) + DaysBefore(y, m) + n
  BY DEF Ordinal, Date, YearsEnd

LEMMA YearLength ==
    ASSUME NEW y \in Nat, y >= 1
    PROVE  /\ YearsEnd(y) \in Int /\ YearsEnd(y - 1) \in Int
           /\ YearsEnd(y) = YearsEnd(y - 1) + (IF IsLeap(y) THEN 366 ELSE 365)
  BY DEF IsLeap, YearsEnd

LEMMA MonthsInTurn ==
    ASSUME NEW y \in Nat, NEW m \in 1 .. 11
    PROVE  DaysBefore(y, m + 1) = DaysBefore(y, m) + MonthLength(y, m)
  BY DEF DaysBefore, MonthLength

LEMMA YearEndsInDecember ==
    ASSUME NEW y \in Nat
    PROVE  /\ DaysBefore(y, 12) + MonthLength(y, 12) = IF IsLeap(y) THEN 366 ELSE 365
           /\ DaysBefore(y, 1) = 0
  BY DEF DaysBefore, MonthLength

LEMMA IndexFacts ==
    ASSUME NEW k \in Nat, k >= 12
    PROVE  /\ YearOf(k) \in Nat /\ YearOf(k) >= 1 /\ MonthOf(k) \in Months
           /\ k = (12 * YearOf(k)) + MonthOf(k) - 1
           /\ MonthOf(k) < 12 => YearOf(k + 1) = YearOf(k) /\ MonthOf(k + 1) = MonthOf(k) + 1
           /\ MonthOf(k) = 12 => YearOf(k + 1) = YearOf(k) + 1 /\ MonthOf(k + 1) = 1
           /\ YearOf(k + 12) = YearOf(k) + 1 /\ MonthOf(k + 12) = MonthOf(k)
  BY DEF YearOf, MonthOf, Months

LEMMA IndexOf ==
    ASSUME NEW y \in Nat, y >= 1, NEW m \in Months
    PROVE  /\ (12 * y) + m - 1 \in Nat /\ (12 * y) + m - 1 >= 12
           /\ YearOf((12 * y) + m - 1) = y /\ MonthOf((12 * y) + m - 1) = m
  BY DEF YearOf, MonthOf, Months

\* A day of month k is that many days into it.
LEMMA DayOfMonth ==
    ASSUME NEW k \in Nat, k >= 12, NEW n \in Int
    PROVE  /\ Ordinal(Date(YearOf(k), MonthOf(k), n)) = Opening(k) + n - 1
           /\ Opening(k) \in Int
           /\ LengthOf(k) \in 28 .. 31
<1>1. YearOf(k) \in Nat /\ YearOf(k) >= 1 /\ MonthOf(k) \in Months
  BY IndexFacts
<1>2. YearsEnd(YearOf(k) - 1) \in Int
  BY <1>1, YearLength
<1>3. DaysBefore(YearOf(k), MonthOf(k)) \in Nat /\ LengthOf(k) \in 28 .. 31
  BY <1>1, LengthFacts DEF LengthOf
<1>4. /\ Opening(k) = YearsEnd(YearOf(k) - 1) + DaysBefore(YearOf(k), MonthOf(k)) + 1
      /\ Ordinal(Date(YearOf(k), MonthOf(k), n))
           = YearsEnd(YearOf(k) - 1) + DaysBefore(YearOf(k), MonthOf(k)) + n
  BY OrdinalOf DEF Opening
<1> QED
  BY <1>2, <1>3, <1>4

\* A month begins when the month before it is over.
LEMMA NextOpening ==
    ASSUME NEW k \in Nat, k >= 12
    PROVE  Opening(k + 1) = Opening(k) + LengthOf(k)
<1> DEFINE y == YearOf(k)
           m == MonthOf(k)
<1>1. y \in Nat /\ y >= 1 /\ m \in Months /\ y + 1 \in Nat /\ (y + 1) - 1 = y
  BY IndexFacts
<1>2. /\ YearsEnd(y - 1) \in Int /\ YearsEnd(y) \in Int
      /\ YearsEnd(y) = YearsEnd(y - 1) + (IF IsLeap(y) THEN 366 ELSE 365)
  BY <1>1, YearLength
<1>3. DaysBefore(y, m) \in Nat /\ MonthLength(y, m) \in Nat
  BY <1>1, LengthFacts
<1>4. Opening(k) = YearsEnd(y - 1) + DaysBefore(y, m) + 1
  BY OrdinalOf DEF Opening
<1>5. CASE m < 12
  <2>1. m \in 1 .. 11 /\ YearOf(k + 1) = y /\ MonthOf(k + 1) = m + 1
    BY <1>1, <1>5, IndexFacts DEF Months
  <2>2. Opening(k + 1) = YearsEnd(y - 1) + DaysBefore(y, m + 1) + 1
    BY <2>1, OrdinalOf DEF Opening
  <2>3. DaysBefore(y, m + 1) = DaysBefore(y, m) + MonthLength(y, m)
    BY <1>1, <2>1, MonthsInTurn
  <2> QED
    BY <1>2, <1>3, <1>4, <2>2, <2>3 DEF LengthOf
<1>6. CASE m = 12
  <2>1. YearOf(k + 1) = y + 1 /\ MonthOf(k + 1) = 1
    BY <1>6, IndexFacts
  <2>2. Opening(k + 1) = YearsEnd((y + 1) - 1) + DaysBefore(y + 1, 1) + 1
    BY <2>1, OrdinalOf DEF Opening
  <2>3. DaysBefore(y + 1, 1) = 0
    BY <1>1, YearEndsInDecember
  <2>4. DaysBefore(y, 12) + MonthLength(y, 12) = IF IsLeap(y) THEN 366 ELSE 365
    BY <1>1, YearEndsInDecember
  <2> QED
    BY <1>1, <1>2, <1>3, <1>4, <1>6, <2>2, <2>3, <2>4 DEF LengthOf
<1> QED
  BY <1>1, <1>5, <1>6 DEF Months

\* Twelve months have 365 days, or 366 when one of them is a leap February.
LEMMA TwelveMonths ==
    ASSUME NEW k \in Nat, k >= 12
    PROVE  /\ Opening(k + 12) - Opening(k) \in {365, 366}
           /\ LengthOf(k + 12) = 29 => Opening(k + 12) - Opening(k) = 365
<1> DEFINE y == YearOf(k)
           m == MonthOf(k)
<1>1. /\ y \in Nat /\ y >= 1 /\ m \in Months /\ y + 1 \in Nat /\ (y + 1) - 1 = y
      /\ YearOf(k + 12) = y + 1 /\ MonthOf(k + 12) = m
  BY IndexFacts
<1>2. /\ YearsEnd(y - 1) \in Int /\ YearsEnd(y) \in Int
      /\ YearsEnd(y) = YearsEnd(y - 1) + (IF IsLeap(y) THEN 366 ELSE 365)
  BY <1>1, YearLength
<1>3. DaysBefore(y, m) \in Nat /\ DaysBefore(y + 1, m) \in Nat
  BY <1>1, LengthFacts
<1>4. Opening(k) = YearsEnd(y - 1) + DaysBefore(y, m) + 1
  BY OrdinalOf DEF Opening
<1>5. Opening(k + 12) = YearsEnd((y + 1) - 1) + DaysBefore(y + 1, m) + 1
  BY <1>1, OrdinalOf DEF Opening
<1>6. DaysBefore(y + 1, m) - DaysBefore(y, m)
        = IF m > 2 THEN (IF IsLeap(y + 1) THEN 1 ELSE 0) - (IF IsLeap(y) THEN 1 ELSE 0) ELSE 0
  BY <1>1 DEF DaysBefore, Months
<1>7. ~(IsLeap(y) /\ IsLeap(y + 1))
  BY <1>1 DEF IsLeap
<1>8. Opening(k + 12) - Opening(k) = (IF IsLeap(y) THEN 366 ELSE 365)
                                       + DaysBefore(y + 1, m) - DaysBefore(y, m)
  BY <1>1, <1>2, <1>3, <1>4, <1>5
<1>9. Opening(k + 12) - Opening(k) \in {365, 366}
  BY <1>1, <1>3, <1>6, <1>7, <1>8
<1>10. LengthOf(k + 12) = 29 => m = 2 /\ IsLeap(y + 1)
  BY <1>1 DEF LengthOf, MonthLength
<1>11. LengthOf(k + 12) = 29 => Opening(k + 12) - Opening(k) = 365
  BY <1>1, <1>3, <1>6, <1>7, <1>8, <1>10
<1> QED
  BY <1>9, <1>11

LEMMA MonthByMonth ==
    ASSUME NEW k \in Nat, k >= 12
    PROVE  /\ Opening(k) \in Int /\ Opening(k + 1) \in Int
           /\ Opening(k + 1) - Opening(k) \in 28 .. 31
<1>1. LengthOf(k) \in 28 .. 31 /\ Opening(k) \in Int
  BY DayOfMonth, 1 \in Int
<1>2. Opening(k + 1) = Opening(k) + LengthOf(k)
  BY NextOpening
<1> QED
  BY <1>1, <1>2

\* Up to twelve months have at least 28 days each.
LEMMA MonthsApart ==
    ASSUME NEW k \in Nat, k >= 12, NEW n \in 0 .. 12
    PROVE  Opening(k + n) - Opening(k) \in 28 * n .. 31 * n
<1>1. \A i \in 0 .. 12 : Opening(k + i) \in Int
  BY DayOfMonth
<1>2. \A i \in 0 .. 11 : Opening((k + i) + 1) - Opening(k + i) \in 28 .. 31
  BY MonthByMonth
<1>3. \A i \in 0 .. 11 : (k + i) + 1 = k + (i + 1)
  OBVIOUS
<1>4. \A i \in 0 .. 11 : Opening(k + (i + 1)) - Opening(k + i) \in 28 .. 31
  BY <1>2, <1>3
<1> DEFINE F(i) == Opening(k + i)
<1>5. \A i \in 0 .. 12 : F(i) \in Int
  BY <1>1
<1>6. \A i \in 0 .. 11 : F(i + 1) - F(i) \in 28 .. 31
  BY <1>4
<1> HIDE DEF F
<1>7. /\ F(1) - F(0) \in 28 .. 31 /\ F(2) - F(1) \in 28 .. 31 /\ F(3) - F(2) \in 28 .. 31
      /\ F(4) - F(3) \in 28 .. 31 /\ F(5) - F(4) \in 28 .. 31 /\ F(6) - F(5) \in 28 .. 31
      /\ F(7) - F(6) \in 28 .. 31 /\ F(8) - F(7) \in 28 .. 31 /\ F(9) - F(8) \in 28 .. 31
      /\ F(10) - F(9) \in 28 .. 31 /\ F(11) - F(10) \in 28 .. 31 /\ F(12) - F(11) \in 28 .. 31
  BY <1>6
<1>8. F(n) - F(0) \in 28 * n .. 31 * n
  BY <1>5, <1>7
<1> QED
  BY <1>8 DEF F

LEMMA MinOfTwo ==
    ASSUME NEW a \in Int, NEW b \in Int
    PROVE  Min({a, b}) = IF a =< b THEN a ELSE b
<1>1. \E x \in {a, b} : \A y \in {a, b} : x =< y
  OBVIOUS
<1>2. Min({a, b}) \in {a, b} /\ \A y \in {a, b} : Min({a, b}) =< y
  BY <1>1 DEF Min
<1> QED
  BY <1>2

-----------------------------------------------------------------------------
(* Days of the program in numbered months. *)

LEMMA DayFacts ==
    ASSUME NEW d \in Days
    PROVE  /\ Index(d) \in Nat /\ Index(d) >= 24
           /\ YearOf(Index(d)) = d.year /\ MonthOf(Index(d)) = d.month
           /\ d.day \in 1 .. LengthOf(Index(d))
           /\ Ordinal(d) = Opening(Index(d)) + d.day - 1
           /\ Ordinal(FirstOf(d)) = Opening(Index(d))
           /\ FirstOf(d).day = 1 /\ Index(FirstOf(d)) = Index(d)
           /\ d.year \in Nat /\ d.year >= 2 /\ d.month \in Months
<1>1. /\ d.year \in Nat /\ d.year >= 2 /\ d.month \in Months
      /\ d.day \in 1 .. 31 /\ d.day =< MonthLength(d.year, d.month)
  <2>1. Years \subseteq 2 .. 9998
    BY FinanceDaysAssumption
  <2>2. /\ d \in [year : Years, month : Months, day : 1 .. 31]
        /\ d.day =< MonthLength(d.year, d.month)
    BY DEF Days
  <2>3. d.year \in Years /\ d.month \in Months /\ d.day \in 1 .. 31
    BY <2>2
  <2>4. d.year \in Nat /\ d.year >= 2
    <3> DEFINE y == d.year
    <3>1. y \in Years
      BY <2>3
    <3> HIDE DEF y
    <3>2. y \in 2 .. 9998
      BY <2>1, <3>1
    <3>3. y \in Nat /\ y >= 2
      BY <3>2
    <3> QED
      BY <3>3 DEF y
  <2> QED
    BY <2>2, <2>3, <2>4
<1>2. Index(d) \in Nat /\ Index(d) >= 24
  BY <1>1 DEF Index, Months
<1>3. YearOf(Index(d)) = d.year /\ MonthOf(Index(d)) = d.month
  BY <1>1, IndexOf DEF Index
<1>4. LengthOf(Index(d)) = MonthLength(d.year, d.month) /\ LengthOf(Index(d)) \in 28 .. 31
  BY <1>1, <1>3, LengthFacts DEF LengthOf
<1>5. Ordinal(d) = Ordinal(Date(d.year, d.month, d.day))
  BY DEF Ordinal, Date
<1>6. Ordinal(d) = Opening(Index(d)) + d.day - 1
  <2>1. \A n \in Int : Ordinal(Date(YearOf(Index(d)), MonthOf(Index(d)), n))
                          = Opening(Index(d)) + n - 1
    BY <1>2, DayOfMonth
  <2>2. d.day \in Int
    BY <1>1
  <2> QED
    BY <1>3, <1>5, <2>1, <2>2
<1>7. Ordinal(FirstOf(d)) = Opening(Index(d))
  BY <1>3 DEF FirstOf, Opening
<1>8. FirstOf(d).day = 1 /\ Index(FirstOf(d)) = Index(d)
  BY DEF FirstOf, Index, Date
<1> QED
  BY <1>1, <1>2, <1>3, <1>4, <1>6, <1>7, <1>8

\* What shifting a day by months means for its ordinal.
LEMMA ShiftedOrdinal ==
    ASSUME NEW d, Index(d) \in Nat, NEW s \in Int, Index(d) + s >= 12, d.day \in Int
    PROVE  LET k == Index(d) + s IN
           Ordinal(ShiftMonths(d, s))
             = Opening(k) + (IF d.day =< LengthOf(k) THEN d.day ELSE LengthOf(k)) - 1
<1> DEFINE k == Index(d) + s
           n == Min({d.day, LengthOf(k)})
<1>1. k \in Nat /\ k >= 12
  OBVIOUS
<1>2. LengthOf(k) \in 28 .. 31
  BY <1>1, DayOfMonth
<1>3. n = IF d.day =< LengthOf(k) THEN d.day ELSE LengthOf(k)
  BY <1>2, MinOfTwo
<1>4. n \in Int
  BY <1>2, <1>3
<1>5. ShiftMonths(d, s) = Date(YearOf(k), MonthOf(k), n)
  BY DEF ShiftMonths, Index, YearOf, MonthOf, LengthOf
<1>6. Ordinal(ShiftMonths(d, s)) = Opening(k) + n - 1
  BY <1>1, <1>4, <1>5, DayOfMonth
<1> QED
  BY <1>3, <1>6

LEMMA ShiftedFirst ==
    ASSUME NEW d \in Days, NEW s \in -12 .. 0
    PROVE  Ordinal(ShiftMonths(FirstOf(d), s)) = Opening(Index(d) + s)
<1>1. /\ Index(FirstOf(d)) = Index(d) /\ Index(d) \in Nat /\ Index(d) >= 24 /\ FirstOf(d).day = 1
  BY DayFacts
<1>2. Index(d) + s \in Nat /\ Index(d) + s >= 12
  BY <1>1
<1>3. LengthOf(Index(d) + s) \in 28 .. 31 /\ Opening(Index(d) + s) \in Int
  BY <1>2, DayOfMonth
<1>4. Ordinal(ShiftMonths(FirstOf(d), s))
        = Opening(Index(d) + s) + (IF 1 =< LengthOf(Index(d) + s) THEN 1
                                   ELSE LengthOf(Index(d) + s)) - 1
  BY <1>1, <1>2, ShiftedOrdinal
<1> QED
  BY <1>3, <1>4

\* The months of a year by their number in it.
LEMMA MonthOfYear ==
    ASSUME NEW y \in Nat, y >= 1, NEW m \in Months
    PROVE  LET k == (12 * y) + m - 1 IN
           /\ k \in Nat /\ k >= 12 /\ Opening(k) \in Int
           /\ Ordinal(Date(y, m, 1)) = Opening(k)
           /\ MonthLength(y, m) \in 28 .. 31
           /\ Ordinal(Date(y, m, MonthLength(y, m))) + 1 = Opening(k + 1)
<1> DEFINE k == (12 * y) + m - 1
<1>1. k \in Nat /\ k >= 12 /\ YearOf(k) = y /\ MonthOf(k) = m
  BY IndexOf
<1>2. MonthLength(y, m) = LengthOf(k) /\ LengthOf(k) \in 28 .. 31 /\ Opening(k) \in Int
  BY <1>1, DayOfMonth DEF LengthOf
<1>3. Ordinal(Date(y, m, 1)) = Opening(k)
  BY <1>1 DEF Opening
<1>4. Ordinal(Date(y, m, MonthLength(y, m))) = Opening(k) + LengthOf(k) - 1
  BY <1>1, <1>2, DayOfMonth
<1>5. Opening(k + 1) = Opening(k) + LengthOf(k)
  BY <1>1, NextOpening
<1> QED
  BY <1>1, <1>2, <1>3, <1>4, <1>5

-----------------------------------------------------------------------------
(* The periods of the questions. *)

\* The day n months back is at least the first of its month, and at most the last.
LEMMA MonthsBack ==
    ASSUME NEW d \in Days, NEW n \in Months
    PROVE  LET start == Ordinal(ShiftMonths(d, -n)) IN
           /\ start \in Opening(Index(d) - n) .. Opening(Index(d) - n + 1) - 1
           /\ Opening(Index(d) - n) \in Int /\ Opening(Index(d) - n + 1) \in Int
           /\ Ordinal(d) - start \in 0 .. 366
<1> DEFINE now == Index(d)
           k == now - n
           start == Ordinal(ShiftMonths(d, -n))
<1>1. /\ now \in Nat /\ now >= 24 /\ d.day \in 1 .. LengthOf(now)
      /\ Ordinal(d) = Opening(now) + d.day - 1
  BY DayFacts
<1>2. n \in 1 .. 12 /\ k \in Nat /\ k >= 12 /\ k = now + (-n) /\ k + n = now
  BY <1>1 DEF Months
<1>3. LengthOf(k) \in 28 .. 31 /\ Opening(k) \in Int
  BY <1>2, DayOfMonth, 1 \in Int
<1>4. LengthOf(now) \in 28 .. 31 /\ Opening(now) \in Int
  BY <1>1, DayOfMonth, 1 \in Int
<1>5. Opening(k + 1) = Opening(k) + LengthOf(k)
  BY <1>2, NextOpening
<1>6. start = Opening(k) + (IF d.day =< LengthOf(k) THEN d.day ELSE LengthOf(k)) - 1
  <2>1. d.day \in Int
    BY <1>1, <1>4
  <2>2. -n \in Int /\ now + (-n) >= 12
    BY <1>2
  <2> HIDE DEF now
  <2>3. Ordinal(ShiftMonths(d, -n))
          = Opening(now + (-n)) + (IF d.day =< LengthOf(now + (-n)) THEN d.day
                                   ELSE LengthOf(now + (-n))) - 1
    BY <1>1, <2>1, <2>2, ShiftedOrdinal DEF now
  <2> QED
    BY <1>2, <2>3
<1>7. Opening(now) - Opening(k) \in 28 * n .. 31 * n
  <2> HIDE DEF now, k
  <2>1. n \in 0 .. 12 /\ k \in Nat /\ k >= 12
    BY <1>2
  <2>2. Opening(k + n) - Opening(k) \in 28 * n .. 31 * n
    BY <2>1, MonthsApart
  <2> QED
    BY <1>2, <2>2
<1>8. CASE n = 12
  <2>1. /\ Opening(k + 12) - Opening(k) \in {365, 366}
        /\ LengthOf(k + 12) = 29 => Opening(k + 12) - Opening(k) = 365
    BY <1>2, TwelveMonths
  <2>2. k + 12 = now
    BY <1>2, <1>8
  <2>3. /\ Opening(now) - Opening(k) \in {365, 366}
        /\ LengthOf(now) = 29 => Opening(now) - Opening(k) = 365
    BY <2>1, <2>2
  <2>4. LengthOf(now) # 29 => LengthOf(k) >= LengthOf(now)
    <3>1. /\ YearOf(k) \in Nat /\ MonthOf(k) \in Months
          /\ YearOf(k + 12) = YearOf(k) + 1 /\ MonthOf(k + 12) = MonthOf(k)
      BY <1>2, IndexFacts
    <3> QED
      BY <2>2, <3>1 DEF LengthOf, MonthLength
  <2>5. LengthOf(now) = 29 => LengthOf(k) >= 28
    BY <1>3
  <2> QED
    BY <1>1, <1>3, <1>4, <1>5, <1>6, <2>3, <2>4, <2>5, <1>2
<1>9. CASE n # 12
  <2>1. n =< 11 /\ Opening(now) - Opening(k) =< 341 /\ Opening(now) - Opening(k) >= 28
    BY <1>2, <1>3, <1>4, <1>7, <1>9
  <2> QED
    BY <1>1, <1>2, <1>3, <1>4, <1>5, <1>6, <2>1
<1> QED
  BY <1>8, <1>9

\* The period each form of a question means, in numbered months.
LEMMA PeriodMeant ==
    ASSUME NEW d \in Days, NEW q, q.n \in Nat, NEW raw
    PROVE  LET now == Ordinal(d)
               k == Index(d)
               asked == QueryPeriod(q, d, raw)
           IN
           /\ q.form = "days" => asked = Period(now - q.n, now)
           /\ q.form = "months" /\ q.n \in Months =>
                asked = Period(Ordinal(ShiftMonths(d, -q.n)), now)
           /\ q.form = "both_months" => asked = Period(Opening(k - 1), now)
           /\ q.form = "last_two_months" => asked = Period(Ordinal(ShiftMonths(d, -2)), now)
           /\ q.form = "month_and_a_half" => asked = Period(now - 45, now)
           /\ q.form = "this_month" => asked = Period(Opening(k), now)
           /\ q.form = "last_month" => asked = Period(Opening(k - 1), Opening(k) - 1)
           /\ q.form = "this_year" => asked = Period(Opening(12 * d.year), now)
           /\ q.form = "month" /\ q.n \in Months =>
                asked = Period(Opening(12 * d.year + q.n - 1), Opening(12 * d.year + q.n) - 1)
           /\ q.form = "none" => asked = Period(Opening(k), now)
<1>1. /\ Ordinal(FirstOf(d)) = Opening(Index(d)) /\ d.year \in Nat /\ d.year >= 2
      /\ Index(d) \in Nat
  BY DayFacts
<1>2. Ordinal(ShiftMonths(FirstOf(d), -1)) = Opening(Index(d) - 1)
  <2>1. Ordinal(ShiftMonths(FirstOf(d), -1)) = Opening(Index(d) + (-1))
    BY ShiftedFirst
  <2> QED
    BY <1>1, <2>1
<1>3. Ordinal(Date(d.year, 1, 1)) = Opening(12 * d.year)
  <2>1. Ordinal(Date(d.year, 1, 1)) = Opening((12 * d.year) + 1 - 1)
    <3>1. 1 \in Months
      BY DEF Months
    <3> HIDE DEF Months
    <3> QED
      BY <1>1, <3>1, MonthOfYear
  <2>2. (12 * d.year) + 1 - 1 = 12 * d.year
    BY <1>1
  <2> QED
    BY <2>1, <2>2
<1>4. \A n \in Months :
        /\ Ordinal(Date(d.year, n, 1)) = Opening(12 * d.year + n - 1)
        /\ Ordinal(Date(d.year, n, MonthLength(d.year, n))) = Opening(12 * d.year + n) - 1
  <2> TAKE n \in Months
  <2> DEFINE k == (12 * d.year) + n - 1
  <2>1. /\ k \in Nat /\ k >= 12
        /\ Ordinal(Date(d.year, n, 1)) = Opening(k)
        /\ MonthLength(d.year, n) \in 28 .. 31
        /\ Ordinal(Date(d.year, n, MonthLength(d.year, n))) + 1 = Opening(k + 1)
    BY <1>1, MonthOfYear
  <2>2. k + 1 = 12 * d.year + n
    BY <1>1 DEF Months
  <2>3. Ordinal(Date(d.year, n, MonthLength(d.year, n))) \in Int
    <3>1. \A i \in Int : Ordinal(Date(YearOf(k), MonthOf(k), i)) = Opening(k) + i - 1
      BY <2>1, DayOfMonth
    <3>2. YearOf(k) = d.year /\ MonthOf(k) = n /\ Opening(k) \in Int
      BY <1>1, IndexOf, MonthOfYear
    <3> QED
      BY <2>1, <3>1, <3>2
  <2> QED
    BY <2>1, <2>2, <2>3
<1> QED
  BY <1>1, <1>2, <1>3, <1>4 DEF QueryPeriod

\* A period whose ends are days at most 366 apart is accepted.
LEMMA PeriodAccepted ==
    ASSUME NEW a \in Int, NEW b \in Int, b - a \in 0 .. 366
    PROVE  InRange(Period(a, b))
<1>1. Period(a, b) \in [start : Int, end : Int]
  BY DEF Period
<1>2. Period(a, b) # NoPeriod
  BY <1>1, FinanceDaysAssumption
<1>3. Period(a, b).end - Period(a, b).start = b - a
  BY DEF Period
<1> QED
  BY <1>2, <1>3 DEF InRange

LEMMA NamedIsAccepted ==
    ASSUME NEW d \in Days, NEW q \in Questions, NEW raw, Named(q)
    PROVE  InRange(QueryPeriod(q, d, raw))
<1> DEFINE now == Ordinal(d)
           k == Index(d)
<1>1. q.form \in Form /\ q.n \in 0 .. 999
  BY FinanceDaysAssumption DEF Question
<1>2. /\ k \in Nat /\ k >= 24 /\ d.day \in 1 .. LengthOf(k)
      /\ now = Opening(k) + d.day - 1
      /\ d.year \in Nat /\ d.year >= 2 /\ d.month \in Months
      /\ k = 12 * d.year + d.month - 1
  BY DayFacts DEF Index
<1>3. Opening(k) \in Int /\ LengthOf(k) \in 28 .. 31 /\ now \in Int
  <2>1. Opening(k) \in Int /\ LengthOf(k) \in 28 .. 31
    BY <1>2, DayOfMonth, 1 \in Int
  <2> QED
    BY <1>2, <2>1
<1>4. Opening(k - 1) \in Int /\ Opening(k) - Opening(k - 1) \in 28 .. 31
  <2>1. (k - 1) \in Nat /\ k - 1 >= 12 /\ (k - 1) + 1 = k
    BY <1>2
  <2> QED
    BY <2>1, MonthByMonth
<1>5. \A n \in Months : /\ Ordinal(ShiftMonths(d, -n)) \in Int
                        /\ now - Ordinal(ShiftMonths(d, -n)) \in 0 .. 366
  BY MonthsBack
<1>6. q.n \in Nat
  BY <1>1
<1> HIDE DEF now, k
<1>7. CASE q.form = "days"
  <2>1. QueryPeriod(q, d, raw) = Period(now - q.n, now) /\ q.n =< 366
    BY <1>6, <1>7, PeriodMeant DEF Named, now
  <2> QED
    BY <1>3, <1>6, <2>1, PeriodAccepted
<1>8. CASE q.form = "months"
  <2>1. /\ q.n \in Months
        /\ QueryPeriod(q, d, raw) = Period(Ordinal(ShiftMonths(d, -q.n)), now)
    BY <1>6, <1>8, PeriodMeant DEF Named, now
  <2> QED
    BY <1>3, <1>5, <2>1, PeriodAccepted
<1>9. CASE q.form = "both_months"
  <2>1. QueryPeriod(q, d, raw) = Period(Opening(k - 1), now)
    BY <1>6, <1>9, PeriodMeant DEF now, k
  <2>2. now - Opening(k - 1) \in 0 .. 366
    BY <1>2, <1>3, <1>4
  <2> QED
    BY <1>3, <1>4, <2>1, <2>2, PeriodAccepted
<1>10. CASE q.form = "last_two_months"
  <2>1. QueryPeriod(q, d, raw) = Period(Ordinal(ShiftMonths(d, -2)), now)
    BY <1>6, <1>10, PeriodMeant DEF now
  <2>2. 2 \in Months
    BY DEF Months
  <2> QED
    BY <1>3, <1>5, <2>1, <2>2, PeriodAccepted
<1>11. CASE q.form = "month_and_a_half"
  <2>1. QueryPeriod(q, d, raw) = Period(now - 45, now)
    BY <1>6, <1>11, PeriodMeant DEF now
  <2> QED
    BY <1>3, <2>1, PeriodAccepted
<1>12. CASE q.form \in {"this_month", "none"}
  <2>1. QueryPeriod(q, d, raw) = Period(Opening(k), now)
    BY <1>6, <1>12, PeriodMeant DEF now, k
  <2> QED
    BY <1>2, <1>3, <2>1, PeriodAccepted
<1>13. CASE q.form = "last_month"
  <2>1. QueryPeriod(q, d, raw) = Period(Opening(k - 1), Opening(k) - 1)
    BY <1>6, <1>13, PeriodMeant DEF k
  <2> QED
    BY <1>3, <1>4, <2>1, PeriodAccepted
<1>14. CASE q.form = "this_year"
  <2>1. QueryPeriod(q, d, raw) = Period(Opening(12 * d.year), now)
    BY <1>6, <1>14, PeriodMeant DEF now
  <2> DEFINE y == 12 * d.year
  <2>2. y \in Nat /\ y >= 12 /\ d.month - 1 \in 0 .. 11 /\ k = y + (d.month - 1)
    BY <1>2 DEF Months
  <2>3. Opening(y) \in Int
    BY <2>2, DayOfMonth, 1 \in Int
  <2>4. now - Opening(y) \in 0 .. 366
    <3> DEFINE m == d.month - 1
    <3>1. Opening(y + m) - Opening(y) \in 28 * m .. 31 * m
      <4>1. m \in 0 .. 12
        BY <2>2
      <4> HIDE DEF m, y
      <4> QED
        BY <2>2, <4>1, MonthsApart
    <3>2. Opening(y + 12) - Opening(y) \in {365, 366}
      BY <2>2, TwelveMonths
    <3>3. /\ Opening((k + 1) + (11 - m)) - Opening(k + 1) \in 28 * (11 - m) .. 31 * (11 - m)
          /\ Opening(k + 1) \in Int /\ Opening(k + 1) = Opening(k) + LengthOf(k)
      <4>1. 11 - m \in 0 .. 12 /\ k + 1 \in Nat /\ k + 1 >= 12
        BY <1>2, <2>2
      <4> HIDE DEF m, y
      <4>2. \A n \in 0 .. 12 : Opening((k + 1) + n) - Opening(k + 1) \in 28 * n .. 31 * n
        BY <4>1, MonthsApart
      <4>3. Opening((k + 1) + (11 - m)) - Opening(k + 1) \in 28 * (11 - m) .. 31 * (11 - m)
        BY <4>1, <4>2
      <4>4. Opening(k + 1) \in Int /\ Opening(k + 1) = Opening(k) + LengthOf(k)
        BY <1>2, MonthByMonth, NextOpening
      <4> QED
        BY <4>3, <4>4
    <3>4. (k + 1) + (11 - m) = y + 12 /\ y + m = k /\ m \in 0 .. 11
      BY <1>2, <2>2
    <3>5. Opening(y + 12) \in Int
      BY <2>2, DayOfMonth, 1 \in Int
    <3>6. Opening(k) - Opening(y) \in 28 * m .. 31 * m
      BY <3>1, <3>4
    <3>7. Opening(y + 12) - Opening(k + 1) \in 28 * (11 - m) .. 31 * (11 - m)
      BY <3>3, <3>4
    <3>8. Opening(k) - Opening(y) >= 0 /\ Opening(y + 12) - Opening(k + 1) >= 0
      BY <1>3, <2>3, <3>3, <3>4, <3>5, <3>6, <3>7
    <3> HIDE DEF m, y
    <3>9. Opening(k + 1) \in Int /\ Opening(k + 1) = Opening(k) + LengthOf(k)
      BY <3>3
    <3>10. now =< Opening(k + 1) - 1 /\ now >= Opening(k)
      BY <1>2, <1>3, <3>9
    <3> QED
      BY <1>3, <2>3, <3>2, <3>5, <3>8, <3>9, <3>10
  <2> QED
    BY <1>3, <2>1, <2>3, <2>4, PeriodAccepted
<1>15. CASE q.form = "month"
  <2> DEFINE j == (12 * d.year) + q.n - 1
  <2>1. /\ q.n \in Months
        /\ QueryPeriod(q, d, raw) = Period(Opening(12 * d.year + q.n - 1),
                                           Opening(12 * d.year + q.n) - 1)
    BY <1>6, <1>15, PeriodMeant DEF Named
  <2>2. j \in Nat /\ j >= 12 /\ j + 1 = 12 * d.year + q.n
    BY <1>2, <1>6, <2>1 DEF Months
  <2>3. /\ Opening(j) \in Int /\ Opening(j + 1) \in Int
        /\ Opening(j + 1) - Opening(j) \in 28 .. 31
    BY <2>2, MonthByMonth
  <2> QED
    BY <2>1, <2>2, <2>3, PeriodAccepted
<1>16. q.form # "model"
  BY DEF Named
<1> QED
  BY <1>1, <1>7, <1>8, <1>9, <1>10, <1>11, <1>12, <1>13, <1>14, <1>15, <1>16 DEF Form

-----------------------------------------------------------------------------
(* The week of a digest. *)

WeekEnd(d) == Ordinal(d) - (Weekday(Ordinal(d)) + 1)
History(r, d) == {c \in Charges(d, r.due, r.late) : c \in WeekEnd(d) - 119 .. WeekEnd(d)}

LEMMA WeekFacts ==
    ASSUME NEW d \in Days
    PROVE  /\ WeekEnd(d) \in Int
           /\ Ordinal(d) \in Int /\ Ordinal(d) - WeekEnd(d) \in 1 .. 7
           /\ Weekday(WeekEnd(d)) = 6 /\ Weekday(WeekEnd(d) - 6) = 0
<1>1. Ordinal(d) \in Int
  <2>1. Index(d) \in Nat /\ Index(d) >= 24 /\ d.day \in 1 .. LengthOf(Index(d))
        /\ Ordinal(d) = Opening(Index(d)) + d.day - 1
    BY DayFacts
  <2>2. Opening(Index(d)) \in Int /\ LengthOf(Index(d)) \in 28 .. 31
    BY <2>1, DayOfMonth, 1 \in Int
  <2> QED
    BY <2>1, <2>2
<1> DEFINE now == Ordinal(d)
<1> HIDE DEF now
<1>2. now \in Int
  BY <1>1 DEF now
<1>3. /\ now - (((now + 6) % 7) + 1) \in Int
      /\ now - (now - (((now + 6) % 7) + 1)) \in 1 .. 7
      /\ (now - (((now + 6) % 7) + 1) + 6) % 7 = 6
      /\ (now - (((now + 6) % 7) + 1) - 6 + 6) % 7 = 0
  BY <1>2
<1> QED
  BY <1>2, <1>3 DEF now, WeekEnd, Weekday

-----------------------------------------------------------------------------
(* The invariant of a request. *)

QuestionInv ==
    request.kind = "question" =>
        /\ pc # "digest"
        /\ Named(request.question) =>
              /\ pc = "question" => errors = attempt /\ attempt \in {0, 1}
              /\ pc = "refused" => errors = 2

DigestInv ==
    request.kind = "digest" =>
        /\ pc \in {"digest", "answered", "unavailable"}
        /\ pc = "answered" =>
              /\ period = Period(WeekEnd(today) - 6, WeekEnd(today))
              /\ found = IsSubscription(History(request, today), WeekEnd(today))

RequestInv ==
    /\ today \in Days
    /\ request \in Requests
    /\ QuestionInv
    /\ DigestInv

LEMMA InitRequest == Init => RequestInv
<1> SUFFICES ASSUME Init PROVE RequestInv
  OBVIOUS
<1> QED
  BY DEF Init, RequestInv, QuestionInv, DigestInv

LEMMA RequestKinds ==
    ASSUME NEW r \in Requests
    PROVE  \/ r.kind = "question" /\ r.question \in Questions
           \/ r.kind = "digest" /\ r.due \in DueDays /\ r.late \in [Recent -> {0, MaxDelay}]
  BY DEF Requests

LEMMA NextRequest == RequestInv /\ [Next]_vars => RequestInv'
<1> SUFFICES ASSUME RequestInv, [Next]_vars PROVE RequestInv'
  OBVIOUS
<1>1. CASE UNCHANGED vars
  BY <1>1 DEF vars, RequestInv, QuestionInv, DigestInv
<1>2. ASSUME NEW raw \in RawPeriods(today), NEW claim \in Claims, Interpret(raw, claim)
      PROVE  RequestInv'
  <2>1. /\ pc = "question" /\ errors' = errors /\ UNCHANGED <<today, request, found>>
        /\ ~InRange(QueryPeriod(request.question, today, raw)) => AttemptFailed
        /\ InRange(QueryPeriod(request.question, today, raw)) => pc' = "asked"
    BY <1>2 DEF Interpret, AttemptFailed
  <2>2. request.kind = "question" /\ request.question \in Questions
    BY <2>1, RequestKinds DEF RequestInv, DigestInv
  <2>3. Named(request.question) => pc' = "asked"
    BY <2>1, <2>2, NamedIsAccepted DEF RequestInv
  <2>4. pc' # "digest"
    BY <2>1 DEF AttemptFailed
  <2>5. QuestionInv'
    BY <2>1, <2>2, <2>3, <2>4 DEF QuestionInv
  <2> QED
    BY <2>1, <2>2, <2>5 DEF RequestInv, DigestInv
<1>3. CASE ModelFails
  <2>1. /\ pc = "question" /\ errors' = errors + 1 /\ attempt' = attempt + 1
        /\ pc' = (IF attempt = 0 THEN pc ELSE "refused")
        /\ UNCHANGED <<today, request>>
    BY <1>3 DEF ModelFails, AttemptFailed
  <2>2. request.kind = "question"
    BY <2>1, RequestKinds DEF RequestInv, DigestInv
  <2>3. QuestionInv'
    BY <2>1, <2>2 DEF RequestInv, QuestionInv
  <2> QED
    BY <2>1, <2>2, <2>3 DEF RequestInv, DigestInv
<1>4. ASSUME NEW outcome \in {"answered", "unavailable"}, Answer(outcome)
      PROVE  RequestInv'
  BY <1>4, RequestKinds DEF Answer, RequestInv, QuestionInv, DigestInv
<1>5. CASE SendDigest
  <2>1. /\ pc = "digest" /\ pc' = "answered"
        /\ period' = Period(WeekEnd(today) - 6, WeekEnd(today))
        /\ found' = IsSubscription(History(request, today), WeekEnd(today))
        /\ UNCHANGED <<today, request>>
    BY <1>5 DEF SendDigest, WeekEnd, History
  <2> QED
    BY <2>1, RequestKinds DEF RequestInv, QuestionInv, DigestInv
<1>6. CASE DigestFails
  BY <1>6, RequestKinds DEF DigestFails, RequestInv, QuestionInv, DigestInv
<1> QED
  BY <1>1, <1>2, <1>3, <1>4, <1>5, <1>6 DEF Next

\* A request keeps the day, the words and the history it came with, and what
\* the model has failed at is all that a named period can be refused for.
THEOREM RequestInvHolds == Spec => []RequestInv
<1>1. Init => RequestInv
  BY InitRequest
<1>2. RequestInv /\ [Next]_vars => RequestInv'
  BY NextRequest
<1> QED
  BY <1>1, <1>2, PTL DEF Spec

-----------------------------------------------------------------------------
(* The properties. *)

\* On no day of no year is a question with time words that name a period
\* refused for it: two failures of the model are the only reason.
THEOREM NamedQuestionsAreAnswered == Spec => []NamedPeriodsAreAnswered
<1>1. RequestInv => NamedPeriodsAreAnswered
  BY RequestKinds DEF RequestInv, QuestionInv, DigestInv, NamedPeriodsAreAnswered
<1> QED
  BY <1>1, RequestInvHolds, PTL

LEMMA PeriodsOfForms ==
    ASSUME today \in Days
    PROVE  LET k == Index(today) IN
           /\ PeriodOf("both_months", 0).start = Opening(k - 1)
           /\ PeriodOf("this_month", 0).start = Opening(k)
           /\ PeriodOf("last_month", 0) = Period(Opening(k - 1), Opening(k) - 1)
           /\ PeriodOf("this_year", 0).start = Opening(12 * today.year)
           /\ \A m \in Months :
                 /\ PeriodOf("month", m) = Period(Opening(12 * today.year + m - 1),
                                                  Opening(12 * today.year + m) - 1)
                 /\ PeriodOf("months", m).start = Ordinal(ShiftMonths(today, -m))
<1> DEFINE q(f, n) == [form |-> f, n |-> n]
<1>1. \A f \in Form, n \in Nat : q(f, n).form = f /\ q(f, n).n = n
  OBVIOUS
<1>2. \A f \in Form, n \in Nat : PeriodOf(f, n) = QueryPeriod(q(f, n), today, NoPeriod)
  BY DEF PeriodOf
<1>3. 0 \in Nat /\ \A m \in Months : m \in Nat
  BY DEF Months
<1>4. {"both_months", "this_month", "last_month", "this_year", "month", "months"} \subseteq Form
  BY DEF Form
<1> HIDE DEF q
<1>5. PeriodOf("both_months", 0) = Period(Opening(Index(today) - 1), Ordinal(today))
  BY <1>1, <1>2, <1>3, <1>4, PeriodMeant
<1>6. PeriodOf("this_month", 0) = Period(Opening(Index(today)), Ordinal(today))
  BY <1>1, <1>2, <1>3, <1>4, PeriodMeant
<1>7. PeriodOf("last_month", 0) = Period(Opening(Index(today) - 1), Opening(Index(today)) - 1)
  BY <1>1, <1>2, <1>3, <1>4, PeriodMeant
<1>8. PeriodOf("this_year", 0) = Period(Opening(12 * today.year), Ordinal(today))
  BY <1>1, <1>2, <1>3, <1>4, PeriodMeant
<1>9. ASSUME NEW m \in Months
      PROVE  /\ PeriodOf("month", m) = Period(Opening(12 * today.year + m - 1),
                                              Opening(12 * today.year + m) - 1)
             /\ PeriodOf("months", m) = Period(Ordinal(ShiftMonths(today, -m)), Ordinal(today))
  BY <1>1, <1>2, <1>3, <1>4, PeriodMeant
<1> QED
  BY <1>5, <1>6, <1>7, <1>8, <1>9 DEF Period

\* The periods of the questions and of the digest fit each other and the
\* calendar, on every day of every year.
THEOREM PeriodsFitTheCalendar == Spec => []PeriodsFit
<1>1. ASSUME RequestInv PROVE PeriodsFit
  <2> DEFINE k == Index(today)
             y == today.year
  <2>1. today \in Days
    BY <1>1 DEF RequestInv
  <2>2. /\ k \in Nat /\ k >= 24 /\ y \in Nat /\ y >= 2 /\ today.month \in Months
        /\ k = 12 * y + today.month - 1
    BY <2>1, DayFacts DEF Index
  <2>3. /\ PeriodOf("both_months", 0).start = Opening(k - 1)
        /\ PeriodOf("this_month", 0).start = Opening(k)
        /\ PeriodOf("last_month", 0).start = Opening(k - 1)
        /\ PeriodOf("last_month", 0).end = Opening(k) - 1
        /\ PeriodOf("this_year", 0).start = Opening(12 * y)
    BY <2>1, PeriodsOfForms DEF Period
  <2>4. \A m \in Months : /\ PeriodOf("month", m).start = Opening(12 * y + m - 1)
                          /\ PeriodOf("month", m).end = Opening(12 * y + m) - 1
                          /\ PeriodOf("months", m).start = Ordinal(ShiftMonths(today, -m))
    BY <2>1, PeriodsOfForms DEF Period
  <2>5. Opening(k) \in Int
    BY <2>2, DayOfMonth, 1 \in Int
  <2>6. PeriodOf("last_month", 0).end + 1 = PeriodOf("this_month", 0).start
    BY <2>3, <2>5
  <2>7. PeriodOf("month", today.month).start = PeriodOf("this_month", 0).start
    BY <2>2, <2>3, <2>4
  <2>8. PeriodOf("month", 1).start = PeriodOf("this_year", 0).start
    <3>1. 1 \in Months /\ 12 * y + 1 - 1 = 12 * y
      BY <2>2 DEF Months
    <3> QED
      BY <2>3, <2>4, <3>1
  <2>9. \A m \in 1 .. 11 : PeriodOf("month", m).end + 1 = PeriodOf("month", m + 1).start
    <3> TAKE m \in 1 .. 11
    <3>1. m \in Months /\ m + 1 \in Months /\ 12 * y + (m + 1) - 1 = 12 * y + m
      BY <2>2 DEF Months
    <3>2. Opening(12 * y + m) \in Int
      <4>1. 12 * y + m \in Nat /\ 12 * y + m >= 12
        BY <2>2
      <4> QED
        BY <4>1, DayOfMonth, 1 \in Int
    <3>3. /\ PeriodOf("month", m).end = Opening(12 * y + m) - 1
          /\ PeriodOf("month", m + 1).start = Opening(12 * y + m)
      BY <2>4, <3>1
    <3> QED
      BY <3>2, <3>3
  <2>10. \A n \in Months :
            PeriodOf("months", n).start \in Ordinal(ShiftMonths(FirstOf(today), -n))
                                             .. Ordinal(ShiftMonths(FirstOf(today), 1 - n)) - 1
    <3> TAKE n \in Months
    <3>1. -n \in -12 .. 0 /\ 1 - n \in -12 .. 0 /\ k + (-n) = k - n /\ k + (1 - n) = k - n + 1
      BY <2>2 DEF Months
    <3>2. \A s \in -12 .. 0 : Ordinal(ShiftMonths(FirstOf(today), s)) = Opening(k + s)
      BY <2>1, ShiftedFirst
    <3>3. /\ Ordinal(ShiftMonths(FirstOf(today), -n)) = Opening(k - n)
          /\ Ordinal(ShiftMonths(FirstOf(today), 1 - n)) = Opening(k - n + 1)
      BY <3>1, <3>2
    <3>4. Ordinal(ShiftMonths(today, -n)) \in Opening(k - n) .. Opening(k - n + 1) - 1
      BY <2>1, MonthsBack
    <3> QED
      BY <2>4, <3>3, <3>4
  <2>11. request.kind = "digest" /\ pc = "answered" =>
            /\ Weekday(period.start) = 0 /\ Weekday(period.end) = 6
            /\ period.end - period.start = 6
            /\ Ordinal(today) - period.end \in 1 .. 7
    <3> SUFFICES ASSUME request.kind = "digest", pc = "answered"
                 PROVE  /\ Weekday(period.start) = 0 /\ Weekday(period.end) = 6
                        /\ period.end - period.start = 6
                        /\ Ordinal(today) - period.end \in 1 .. 7
      OBVIOUS
    <3>1. period.start = WeekEnd(today) - 6 /\ period.end = WeekEnd(today)
      BY <1>1 DEF RequestInv, DigestInv, Period
    <3>2. /\ WeekEnd(today) \in Int /\ Ordinal(today) - WeekEnd(today) \in 1 .. 7
          /\ Weekday(WeekEnd(today)) = 6 /\ Weekday(WeekEnd(today) - 6) = 0
      BY <2>1, WeekFacts
    <3> QED
      BY <3>1, <3>2
  <2> QED
    BY <2>3, <2>6, <2>7, <2>8, <2>9, <2>10, <2>11 DEF PeriodsFit
<1> QED
  BY <1>1, RequestInvHolds, PTL

-----------------------------------------------------------------------------
(* Monthly charges. *)

\* The charge of the k-th month before a day, as in Charges.
ChargeOf(d, due, late, k) ==
    LET m == ShiftMonths(FirstOf(d), -k)
    IN  Ordinal(Date(m.year, m.month, Min({due, MonthLength(m.year, m.month)}))) + late[k]

LEMMA ChargesOf ==
    ASSUME NEW d, NEW due, NEW late \in [Recent -> {0, MaxDelay}]
    PROVE  Charges(d, due, late) = {ChargeOf(d, due, late, k) : k \in Recent}
  BY DEF Charges, ChargeOf

Clipped(due, k) == IF due =< LengthOf(k) THEN due ELSE LengthOf(k)

LEMMA ChargeDay ==
    ASSUME NEW d \in Days, NEW due \in 1 .. 31, NEW late \in [Recent -> {0, MaxDelay}],
           NEW k \in Recent
    PROVE  LET j == Index(d) - k IN
           /\ j \in Nat /\ j >= 12
           /\ LengthOf(j) \in 28 .. 31 /\ Opening(j) \in Int
           /\ Opening(j + 1) = Opening(j) + LengthOf(j)
           /\ ChargeOf(d, due, late, k) = Opening(j) + Clipped(due, j) - 1 + late[k]
<1> DEFINE j == Index(d) - k
           m == ShiftMonths(FirstOf(d), -k)
<1>1. /\ Index(d) \in Nat /\ Index(d) >= 24 /\ Index(FirstOf(d)) = Index(d)
      /\ k \in 0 .. 4 /\ j \in Nat /\ j >= 12 /\ j = Index(d) + (-k)
  BY DayFacts DEF Recent
<1>2. m.year = YearOf(j) /\ m.month = MonthOf(j)
  BY <1>1 DEF ShiftMonths, Date, Index, YearOf, MonthOf
<1>3. LengthOf(j) \in 28 .. 31 /\ Opening(j) \in Int
  BY <1>1, DayOfMonth, 1 \in Int
<1>4. Opening(j + 1) = Opening(j) + LengthOf(j)
  BY <1>1, NextOpening
<1>5. Min({due, LengthOf(j)}) = Clipped(due, j)
  BY <1>3, MinOfTwo DEF Clipped
<1>6. Clipped(due, j) \in Int
  BY <1>3 DEF Clipped
<1>7. Ordinal(Date(YearOf(j), MonthOf(j), Clipped(due, j))) = Opening(j) + Clipped(due, j) - 1
  BY <1>1, <1>6, DayOfMonth
<1>8. ChargeOf(d, due, late, k)
        = Ordinal(Date(YearOf(j), MonthOf(j), Min({due, LengthOf(j)}))) + late[k]
  BY <1>2 DEF ChargeOf, LengthOf
<1> QED
  BY <1>1, <1>3, <1>4, <1>5, <1>7, <1>8

LEMMA DelayFacts ==
    ASSUME MaxDelay =< 3, NEW late \in [Recent -> {0, MaxDelay}], NEW k \in Recent
    PROVE  late[k] \in 0 .. 3
<1>1. MaxDelay \in 0 .. 3 /\ 0 \in 0 .. 3
  BY FinanceDaysAssumption
<1>2. late[k] \in {0, MaxDelay}
  OBVIOUS
<1> QED
  BY <1>1, <1>2, Zenon

\* Charges of two months in a row are 25 to 34 days apart.
LEMMA ChargesApart ==
    ASSUME MaxDelay =< 3, NEW d \in Days, NEW due \in 1 .. 31,
           NEW late \in [Recent -> {0, MaxDelay}], NEW k \in 0 .. 3
    PROVE  /\ ChargeOf(d, due, late, k) \in Int /\ ChargeOf(d, due, late, k + 1) \in Int
           /\ ChargeOf(d, due, late, k) - ChargeOf(d, due, late, k + 1) \in 25 .. 34
<1> DEFINE a == Index(d) - k
           b == Index(d) - (k + 1)
<1>1. k \in Recent /\ k + 1 \in Recent
  BY DEF Recent
<1>2. late[k] \in 0 .. 3 /\ late[k + 1] \in 0 .. 3
  BY <1>1, DelayFacts
<1>3. /\ a \in Nat /\ LengthOf(a) \in 28 .. 31 /\ Opening(a) \in Int
      /\ ChargeOf(d, due, late, k) = Opening(a) + Clipped(due, a) - 1 + late[k]
  BY <1>1, ChargeDay
<1>4. /\ LengthOf(b) \in 28 .. 31 /\ Opening(b) \in Int
      /\ Opening(b + 1) = Opening(b) + LengthOf(b)
      /\ ChargeOf(d, due, late, k + 1) = Opening(b) + Clipped(due, b) - 1 + late[k + 1]
  BY <1>1, ChargeDay
<1>5. b + 1 = a
  <2>1. Index(d) \in Nat
    BY DayFacts
  <2> QED
    BY <2>1
<1>6. Opening(a) = Opening(b) + LengthOf(b)
  BY <1>4, <1>5
<1>7. /\ Clipped(due, a) = IF due =< LengthOf(a) THEN due ELSE LengthOf(a)
      /\ Clipped(due, b) = IF due =< LengthOf(b) THEN due ELSE LengthOf(b)
  BY DEF Clipped
<1> HIDE DEF a, b
<1>8. /\ Clipped(due, a) \in Int /\ Clipped(due, b) \in Int
      /\ LengthOf(b) + Clipped(due, a) - Clipped(due, b) \in 28 .. 31
  BY <1>3, <1>4, <1>7
<1>9. ChargeOf(d, due, late, k) - ChargeOf(d, due, late, k + 1)
        = (LengthOf(b) + Clipped(due, a) - Clipped(due, b)) + late[k] - late[k + 1]
  BY <1>2, <1>3, <1>4, <1>6, <1>8
<1>10. ChargeOf(d, due, late, k) \in Int /\ ChargeOf(d, due, late, k + 1) \in Int
  BY <1>2, <1>3, <1>4, <1>8
<1> QED
  BY <1>2, <1>4, <1>8, <1>9, <1>10

\* The latest charge before the end of the week is one of the last three, and
\* the charges that are later are after the end.
LEMMA LatestCharge ==
    ASSUME MaxDelay =< 3, NEW d \in Days, NEW due \in 1 .. 31,
           NEW late \in [Recent -> {0, MaxDelay}]
    PROVE  \E j \in 0 .. 2 :
              /\ ChargeOf(d, due, late, j) =< WeekEnd(d)
              /\ WeekEnd(d) - ChargeOf(d, due, late, j) =< 40
              /\ \A k \in Recent : k < j => ChargeOf(d, due, late, k) > WeekEnd(d)
<1> DEFINE c(k) == ChargeOf(d, due, late, k)
           n == Index(d)
           end == WeekEnd(d)
<1>1. /\ c(0) - c(1) \in 25 .. 34 /\ c(1) - c(2) \in 25 .. 34
      /\ c(0) \in Int /\ c(1) \in Int /\ c(2) \in Int
  <2>1. \A k \in 0 .. 3 : c(k) \in Int /\ c(k + 1) \in Int /\ c(k) - c(k + 1) \in 25 .. 34
    BY ChargesApart
  <2> HIDE DEF c
  <2> QED
    BY <2>1
<1>2. end \in Int /\ Ordinal(d) - end \in 1 .. 7 /\ Ordinal(d) \in Int
  BY WeekFacts
<1>3. /\ n \in Nat /\ n >= 24 /\ d.day \in 1 .. LengthOf(n) /\ Ordinal(d) = Opening(n) + d.day - 1
      /\ n - 0 = n
  BY DayFacts
<1>4. 0 \in Recent /\ 2 \in Recent
  BY DEF Recent
<1>5. /\ LengthOf(n) \in 28 .. 31 /\ Opening(n) \in Int
      /\ c(0) = Opening(n) + Clipped(due, n) - 1 + late[0]
  <2>1. /\ LengthOf(n - 0) \in 28 .. 31 /\ Opening(n - 0) \in Int
        /\ c(0) = Opening(n - 0) + Clipped(due, n - 0) - 1 + late[0]
    BY <1>4, ChargeDay
  <2> QED
    BY <1>3, <2>1
<1>6. /\ LengthOf(n - 2) \in 28 .. 31 /\ Opening(n - 2) \in Int
      /\ c(2) = Opening(n - 2) + Clipped(due, n - 2) - 1 + late[2]
  BY <1>4, ChargeDay
<1>7. Opening(n) - Opening(n - 2) \in 56 .. 62
  <2>1. n - 2 \in Nat /\ n - 2 >= 12 /\ (n - 2) + 2 = n
    BY <1>3
  <2>2. \A i \in 0 .. 12 : Opening((n - 2) + i) - Opening(n - 2) \in 28 * i .. 31 * i
    BY <2>1, MonthsApart
  <2>3. Opening((n - 2) + 2) - Opening(n - 2) \in 28 * 2 .. 31 * 2
    BY <2>2
  <2> QED
    BY <2>1, <2>3
<1>8. late[0] \in 0 .. 3 /\ late[2] \in 0 .. 3
  BY <1>4, DelayFacts
<1>9. /\ Clipped(due, n) \in 1 .. 31
      /\ Clipped(due, n - 2) \in 1 .. 31
      /\ Clipped(due, n - 2) =< LengthOf(n - 2)
  BY <1>5, <1>6 DEF Clipped
<1> HIDE DEF c, n, end
<1>10. c(0) >= Opening(n) /\ end =< Opening(n) + 29 /\ end >= Opening(n) - 7
  BY <1>2, <1>3, <1>5, <1>8, <1>9
<1>11. c(2) =< end
  BY <1>1, <1>2, <1>5, <1>6, <1>7, <1>8, <1>9, <1>10
<1>12. \A k \in Recent : k < 0 => FALSE
  BY DEF Recent
<1>13. CASE c(0) =< end
  <2>1. end - c(0) =< 40
    BY <1>1, <1>2, <1>5, <1>10
  <2> QED
    BY <1>12, <1>13, <2>1 DEF c, end
<1>14. CASE ~(c(0) =< end) /\ c(1) =< end
  <2>1. end - c(1) =< 40 /\ c(0) > end
    BY <1>1, <1>2, <1>14
  <2>2. \A k \in Recent : k < 1 => k = 0
    BY DEF Recent
  <2> QED
    BY <1>14, <2>1, <2>2 DEF c, end
<1>15. CASE ~(c(0) =< end) /\ ~(c(1) =< end)
  <2>1. end - c(2) =< 40 /\ c(0) > end /\ c(1) > end
    BY <1>1, <1>2, <1>15
  <2>2. \A k \in Recent : k < 2 => k \in {0, 1}
    BY DEF Recent
  <2> QED
    BY <1>11, <2>1, <2>2 DEF c, end
<1> QED
  BY <1>13, <1>14, <1>15

-----------------------------------------------------------------------------
(* The three latest charges of a history. *)

LEMMA MaxIs ==
    ASSUME NEW S, S \subseteq Int, NEW x \in S, \A y \in S : x >= y
    PROVE  Max(S) = x
<1>1. /\ Max(S) \in S /\ \A y \in S : Max(S) >= y
  BY DEF Max
<1>2. Max(S) >= x /\ x >= Max(S) /\ Max(S) \in Int /\ x \in Int
  BY <1>1
<1> QED
  BY <1>2

\* Adding an element that is not there adds one to the size.
LEMMA OneMore ==
    ASSUME NEW T, IsFiniteSet(T), NEW e, e \notin T
    PROVE  IsFiniteSet(T \cup {e}) /\ Cardinality(T \cup {e}) = Cardinality(T) + 1
BY FS_AddElement

\* A finite set with three different elements has at least three.
LEMMA AtLeastThree ==
    ASSUME NEW T, IsFiniteSet(T), NEW a, NEW b, NEW c,
           a # b, b # c, c # a, {a, b, c} \subseteq T
    PROVE  Cardinality(T) >= 3
<1>1. Cardinality({a}) = 1 /\ IsFiniteSet({a})
  BY FS_Singleton
<1>2. Cardinality({a} \cup {b}) = 2 /\ IsFiniteSet({a} \cup {b})
  <2>1. b \notin {a}
    OBVIOUS
  <2>2. IsFiniteSet({a} \cup {b}) /\ Cardinality({a} \cup {b}) = Cardinality({a}) + 1
    BY <1>1, <2>1, OneMore
  <2> QED
    BY <1>1, <2>2
<1> DEFINE U == {a} \cup {b}
<1>3. Cardinality(U \cup {c}) = 3
  <2>1. c \notin U
    OBVIOUS
  <2>2. IsFiniteSet(U) /\ Cardinality(U) = 2
    BY <1>2
  <2> HIDE DEF U
  <2>3. Cardinality(U \cup {c}) = Cardinality(U) + 1
    BY <2>1, <2>2, OneMore
  <2> QED
    BY <2>2, <2>3
<1>4. U \cup {c} \subseteq T
  OBVIOUS
<1> HIDE DEF U
<1>5. Cardinality(U \cup {c}) =< Cardinality(T)
  BY <1>4, FS_Subset
<1>6. Cardinality(T) \in Nat
  BY FS_CardinalityType
<1> QED
  BY <1>3, <1>5, <1>6

\* Three charges a month apart, the latest of them all, make a subscription.
LEMMA ThreeMakeOne ==
    ASSUME NEW S, S \subseteq Int, IsFiniteSet(S), NEW end \in Int,
           NEW x \in S, NEW y \in S, NEW z \in S,
           x - y \in 25 .. 35, y - z \in 25 .. 35, end - x =< 40,
           \A w \in S : w = x \/ w = y \/ w =< z
    PROVE  IsSubscription(S, end)
<1>1. Max(S) = x
  <2>1. \A w \in S : x >= w
    OBVIOUS
  <2> QED
    BY <2>1, MaxIs
<1>2. Max(S \ {x}) = y
  <2>1. S \ {x} \subseteq Int /\ y \in S \ {x} /\ \A w \in S \ {x} : y >= w
    OBVIOUS
  <2> QED
    BY <2>1, MaxIs
<1>3. Max(S \ {x, y}) = z
  <2>1. S \ {x, y} \subseteq Int /\ z \in S \ {x, y} /\ \A w \in S \ {x, y} : z >= w
    OBVIOUS
  <2> QED
    BY <2>1, MaxIs
<1>4. Cardinality(S) >= 3
  <2>1. x # y /\ y # z /\ z # x
    OBVIOUS
  <2>2. {x, y, z} \subseteq S
    OBVIOUS
  <2> QED
    BY <2>1, <2>2, AtLeastThree
<1> QED
  BY <1>1, <1>2, <1>3, <1>4 DEF IsSubscription

LEMMA HistoryHasThree ==
    ASSUME MaxDelay =< 3, NEW d \in Days, NEW r,
           r.due \in DueDays, r.late \in [Recent -> {0, MaxDelay}]
    PROVE  IsSubscription(History(r, d), WeekEnd(d))
<1> DEFINE c(k) == ChargeOf(d, r.due, r.late, k)
           end == WeekEnd(d)
           S == History(r, d)
<1>1. r.due \in 1 .. 31
  <2>1. \A n \in DueDays : n \in 1 .. 31
    BY FinanceDaysAssumption
  <2> QED
    BY <2>1, Zenon
<1>2. end \in Int
  BY WeekFacts
<1>3. \A k \in 0 .. 3 : c(k) \in Int /\ c(k + 1) \in Int /\ c(k) - c(k + 1) \in 25 .. 34
  BY <1>1, ChargesApart
<1>4. S = {w \in {c(k) : k \in Recent} : w \in end - 119 .. end}
  BY ChargesOf DEF History
<1>5. PICK j \in 0 .. 2 : /\ c(j) =< end /\ end - c(j) =< 40
                          /\ \A k \in Recent : k < j => c(k) > end
  BY <1>1, LatestCharge
<1> HIDE DEF c, end, S
<1>6. /\ c(0) \in Int /\ c(1) \in Int /\ c(2) \in Int /\ c(3) \in Int /\ c(4) \in Int
      /\ c(0) - c(1) \in 25 .. 34 /\ c(1) - c(2) \in 25 .. 34
      /\ c(2) - c(3) \in 25 .. 34 /\ c(3) - c(4) \in 25 .. 34
  BY <1>3
<1>7. \A k \in Recent : c(k) \in Int
  BY <1>6 DEF Recent
<1>8. j \in Recent /\ j + 1 \in Recent /\ j + 2 \in Recent
  BY DEF Recent
<1>9. /\ c(j) - c(j + 1) \in 25 .. 34 /\ c(j + 1) - c(j + 2) \in 25 .. 34
      /\ \A k \in Recent : k > j + 2 => c(k) < c(j + 2)
  BY <1>6 DEF Recent
<1>10. c(j) \in S /\ c(j + 1) \in S /\ c(j + 2) \in S
  <2>1. /\ c(j) \in end - 119 .. end /\ c(j + 1) \in end - 119 .. end
        /\ c(j + 2) \in end - 119 .. end
    BY <1>2, <1>5, <1>7, <1>8, <1>9
  <2> QED
    BY <1>4, <1>8, <2>1
<1>11. \A w \in S : w = c(j) \/ w = c(j + 1) \/ w =< c(j + 2)
  <2> TAKE w \in S
  <2>1. PICK k \in Recent : w = c(k) /\ w \in end - 119 .. end
    BY <1>4
  <2>2. ~(k < j)
    <3> SUFFICES ASSUME k < j PROVE FALSE
      OBVIOUS
    <3>1. c(k) > end
      BY <1>5
    <3> QED
      BY <1>2, <1>7, <2>1, <3>1
  <2>3. k = j \/ k = j + 1 \/ k = j + 2 \/ k > j + 2
    BY <2>2 DEF Recent
  <2>4. c(k) \in Int /\ c(j + 2) \in Int
    BY <1>7, <1>8
  <2> QED
    BY <1>9, <2>1, <2>3, <2>4
<1>12. S \subseteq Int
  BY <1>4, <1>7
<1>13. IsFiniteSet(S)
  <2>1. IsFiniteSet(end - 119 .. end)
    BY <1>2, FS_Interval
  <2>2. S \subseteq end - 119 .. end
    BY <1>4
  <2> QED
    BY <2>1, <2>2, FS_Subset
<1>14. IsSubscription(S, end)
  <2>1. c(j) - c(j + 1) \in 25 .. 35 /\ c(j + 1) - c(j + 2) \in 25 .. 35
    BY <1>9
  <2> QED
    BY <1>2, <1>5, <1>10, <1>11, <1>12, <1>13, <2>1, ThreeMakeOne
<1> QED
  BY <1>14 DEF S, end

\* With charges at most three days late, a monthly subscription is in every
\* digest, on whatever day the digest is sent and whatever day it is due.
THEOREM SubscriptionsAreFound ==
    ASSUME MaxDelay =< 3
    PROVE  Spec => []MonthlySubscriptionsFound
<1>1. ASSUME RequestInv PROVE MonthlySubscriptionsFound
  <2> SUFFICES ASSUME request.kind = "digest", pc = "answered" PROVE found
    BY DEF MonthlySubscriptionsFound
  <2>1. today \in Days /\ request \in Requests
        /\ found = IsSubscription(History(request, today), WeekEnd(today))
    BY <1>1 DEF RequestInv, DigestInv
  <2>2. request.due \in DueDays /\ request.late \in [Recent -> {0, MaxDelay}]
    BY <2>1, RequestKinds
  <2>3. IsSubscription(History(request, today), WeekEnd(today))
    BY <2>1, <2>2, HistoryHasThree
  <2> QED
    BY <2>1, <2>3
<1> QED
  BY <1>1, RequestInvHolds, PTL
=============================================================================
