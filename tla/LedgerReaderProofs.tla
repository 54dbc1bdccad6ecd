------------------------- MODULE LedgerReaderProofs -------------------------
(***************************************************************************)
(* Reading a list page by page while it changes.  A split is known by its  *)
(* rank in the list as it is now; the pages read so far cover the ranks up *)
(* to Covered.  A deletion moves at most one split to a covered rank that  *)
(* was not read, a booking at most one read split to a rank that is still  *)
(* to come: from this accounting follows how far a reading can be off.     *)
(***************************************************************************)
EXTENDS LedgerReader, FiniteSetTheorems, FunctionTheorems, SequenceTheorems, TLAPS

FirstList == <<"withdrawal", "all">>
SecondList == <<"deposit", "week">>

\* The ranks covered by the pages read, and the splits at them and after them.
Covered == (page - 1) * PageSize
UpTo(n, set) == {s \in set : Rank(s, set, PlaceOf) =< n}
After(n, set) == {s \in set : ~(Rank(s, set, PlaceOf) =< n)}

Reading == pc = "reading"
Measured == Complete \/ (Reading /\ (page > 1 \/ Second))

-----------------------------------------------------------------------------
(* The invariant. *)

\* Where a reading begins, and what is asked for.
CourseInv ==
    /\ pc = "idle" \/ (Reading /\ ~Measured) =>
          /\ page = 1 /\ splits = <<>> /\ before = {} /\ staying = {}
          /\ inserted = 0 /\ deleted = 0
    /\ pc = "idle" => ~digest
    /\ digest => asked \in {FirstList, SecondList}
    /\ digest /\ Complete => Second
    /\ ~Second => history = <<>>
    /\ Reading => Len(splits) = Covered

\* What is read is of the list asked for.
KindInv ==
    /\ \A s \in ToSet(splits) : Belongs(s, asked)
    /\ \A s \in ToSet(history) : Belongs(s, FirstList)

\* What came and went.
ChangesInv ==
    Measured =>
        /\ staying \subseteq ledger
        /\ Cardinality(before \ staying) =< deleted
        /\ Cardinality((ledger \union ToSet(history) \union ToSet(splits)) \ before) =< inserted

\* What stayed and was missed, in the list before and in this one.
MissedBefore == IF Second THEN Visible(staying, FirstList) \ ToSet(history) ELSE {}
MissedHere ==
    LET past == IF Reading THEN UpTo(Covered, Visible(ledger, asked)) ELSE Visible(ledger, asked)
    IN  (past \intersect staying) \ ToSet(splits)

MissedInv == Measured => Cardinality(MissedBefore \union MissedHere) =< deleted

\* What was read and will be read again.
ToRepeat ==
    IF Reading THEN After(Covered, Visible(ledger, asked)) \intersect ToSet(splits) ELSE {}

RepeatedInv ==
    Measured =>
        Len(history) + Len(splits) + Cardinality(ToRepeat)
            =< inserted + Cardinality(ToSet(history)) + Cardinality(ToSet(splits))

\* A reading in peace.
PeaceInv ==
    Measured /\ inserted + deleted = 0 =>
        /\ ledger = before
        /\ Second => history = Listing(before, FirstList)
        /\ Reading => /\ splits = SubSeq(Listing(before, asked), 1, Covered)
                      /\ Covered =< Len(Listing(before, asked))
        /\ Complete => splits = Listing(before, asked)

ReadInv ==
    TypeOK /\ CourseInv /\ KindInv /\ ChangesInv /\ MissedInv /\ RepeatedInv /\ PeaceInv

-----------------------------------------------------------------------------
(* Ranks. *)

\* A numbering of a finite set by different numbers.
Ordered(set, at) ==
    /\ IsFiniteSet(set)
    /\ \A x \in set : at[x] \in Int
    /\ \A x, y \in set : at[x] = at[y] => x = y

LEMMA RankBounds ==
    ASSUME NEW V, NEW at, Ordered(V, at), NEW x \in V
    PROVE  /\ Rank(x, V, at) \in Nat
           /\ Rank(x, V, at) >= 1 /\ Rank(x, V, at) =< Cardinality(V)
<1> DEFINE low == {y \in V : at[y] =< at[x]}
<1>1. IsFiniteSet(V) /\ at[x] \in Int
  BY DEF Ordered
<1>2. x \in low /\ low \subseteq V
  BY <1>1
<1>3. IsFiniteSet(low) /\ Cardinality(low) =< Cardinality(V)
  BY <1>1, <1>2, FS_Subset
<1>4. Cardinality(low) \in Nat /\ Cardinality(V) \in Nat
  BY <1>1, <1>3, FS_CardinalityType
<1>5. Cardinality(low) # 0
  BY <1>2, <1>3, FS_EmptySet
<1> QED
  BY <1>3, <1>4, <1>5 DEF Rank

LEMMA RankIsMonotone ==
    ASSUME NEW V, NEW at, Ordered(V, at), NEW x \in V, NEW y \in V, at[x] < at[y]
    PROVE  Rank(x, V, at) < Rank(y, V, at)
<1> DEFINE lowX == {z \in V : at[z] =< at[x]}
           lowY == {z \in V : at[z] =< at[y]}
<1>1. IsFiniteSet(V) /\ at[x] \in Int /\ at[y] \in Int /\ \A z \in V : at[z] \in Int
  BY DEF Ordered
<1>2. lowX \subseteq lowY /\ y \in lowY /\ y \notin lowX
  BY <1>1
<1>3. IsFiniteSet(lowY)
  BY <1>1, FS_Subset
<1>4. /\ IsFiniteSet(lowX) /\ Cardinality(lowX) =< Cardinality(lowY)
      /\ Cardinality(lowX) # Cardinality(lowY)
  BY <1>2, <1>3, FS_Subset
<1>5. Cardinality(lowX) \in Nat /\ Cardinality(lowY) \in Nat
  BY <1>3, <1>4, FS_CardinalityType
<1> QED
  BY <1>4, <1>5 DEF Rank

LEMMA RankIsInjective ==
    ASSUME NEW V, NEW at, Ordered(V, at), NEW x \in V, NEW y \in V,
           Rank(x, V, at) = Rank(y, V, at)
    PROVE  x = y
<1>1. at[x] \in Int /\ at[y] \in Int /\ (at[x] = at[y] => x = y)
  BY DEF Ordered
<1>2. Rank(x, V, at) \in Nat /\ Rank(y, V, at) \in Nat
  BY RankBounds
<1>3. ~(at[x] < at[y])
  BY <1>2, RankIsMonotone
<1>4. ~(at[y] < at[x])
  BY <1>2, RankIsMonotone
<1> QED
  BY <1>1, <1>3, <1>4

LEMMA IntervalSize ==
    ASSUME NEW n \in Nat
    PROVE  IsFiniteSet(1 .. n) /\ Cardinality(1 .. n) = n
<1>1. IsFiniteSet(1 .. n) /\ Cardinality(1 .. n) = IF 1 > n THEN 0 ELSE n - 1 + 1
  BY FS_Interval
<1> QED
  BY <1>1

\* Every rank up to the size of the set is taken.
LEMMA RankIsOnto ==
    ASSUME NEW V, NEW at, Ordered(V, at), NEW n \in 1 .. Cardinality(V)
    PROVE  \E x \in V : Rank(x, V, at) = n
<1> DEFINE f == [x \in V |-> Rank(x, V, at)]
           T == 1 .. Cardinality(V)
<1>1. IsFiniteSet(V) /\ Cardinality(V) \in Nat
  BY FS_CardinalityType DEF Ordered
<1>2. f \in [V -> T]
  BY <1>1, RankBounds
<1>3. \A x, y \in V : f[x] = f[y] => x = y
  BY RankIsInjective
<1>4. f \in Injection(V, T)
  BY <1>2, <1>3, Fun_IsInj
<1>5. IsFiniteSet(T) /\ Cardinality(T) = Cardinality(V)
  BY <1>1, IntervalSize
<1>6. f \in Surjection(V, T)
  BY <1>4, <1>5, FS_Injection
<1>7. \E x \in V : f[x] = n
  <2> HIDE DEF f
  <2>1. \A t \in T : \E x \in V : f[x] = t
    BY <1>6 DEF Surjection
  <2> QED
    BY <2>1
<1> QED
  BY <1>7

\* A new element moves those after it by one.
LEMMA RankWithOneMore ==
    ASSUME NEW V, NEW at, NEW x, x \notin V, Ordered(V \union {x}, at), NEW s \in V
    PROVE  /\ at[x] < at[s] => Rank(s, V \union {x}, at) = Rank(s, V, at) + 1
           /\ ~(at[x] < at[s]) => Rank(s, V \union {x}, at) = Rank(s, V, at)
<1> DEFINE W == V \union {x}
           low == {y \in V : at[y] =< at[s]}
<1>1. /\ IsFiniteSet(W) /\ at[x] \in Int /\ at[s] \in Int /\ at[x] # at[s]
      /\ \A y \in W : at[y] \in Int
  BY DEF Ordered
<1>2. IsFiniteSet(low)
  BY <1>1, FS_Subset
<1>3. x \notin low
  OBVIOUS
<1>4. CASE at[x] < at[s]
  <2>1. {y \in W : at[y] =< at[s]} = low \union {x}
    BY <1>1, <1>4
  <2>2. Cardinality(low \union {x}) = Cardinality(low) + 1
    BY <1>2, <1>3, FS_AddElement
  <2> QED
    BY <1>4, <2>1, <2>2 DEF Rank
<1>5. CASE ~(at[x] < at[s])
  <2>1. {y \in W : at[y] =< at[s]} = low
    BY <1>1, <1>5
  <2> QED
    BY <1>5, <2>1 DEF Rank
<1> QED
  BY <1>4, <1>5

-----------------------------------------------------------------------------
(* The list Firefly gives. *)

LEMMA SplitsFacts ==
    /\ IsFiniteSet(Splits)
    /\ \A V \in SUBSET Splits : Ordered(V, PlaceOf)
<1>1. NewestFirst \in Seq(Splits) /\ IsInjective(NewestFirst)
  BY LedgerReaderAssumption
<1> DEFINE D == 1 .. Len(NewestFirst)
<1>2. DOMAIN NewestFirst = D /\ Len(NewestFirst) \in Nat /\ NewestFirst \in [D -> Splits]
  BY <1>1, LenProperties
<1>3. \A s \in Splits : \E i \in D : NewestFirst[i] = s
  BY <1>2 DEF Splits, ToSet
<1>4. NewestFirst \in Surjection(D, Splits)
  BY <1>2, <1>3, Fun_IsSurj
<1>5. IsFiniteSet(D)
  BY <1>2, IntervalSize
<1>6. IsFiniteSet(Splits)
  BY <1>4, <1>5, FS_Surjection
<1>7. \A s \in Splits : PlaceOf[s] \in D /\ NewestFirst[PlaceOf[s]] = s
  BY <1>2, <1>3 DEF PlaceOf
<1>8. ASSUME NEW V \in SUBSET Splits PROVE Ordered(V, PlaceOf)
  <2>1. IsFiniteSet(V)
    BY <1>6, FS_Subset
  <2>2. \A x \in V : PlaceOf[x] \in Int
    BY <1>2, <1>7
  <2>3. \A x, y \in V : PlaceOf[x] = PlaceOf[y] => x = y
    BY <1>7
  <2> QED
    BY <2>1, <2>2, <2>3 DEF Ordered
<1> QED
  BY <1>6, <1>8

\* What the list of a set has at each place.
LEMMA ListingFacts ==
    ASSUME NEW set \in SUBSET Splits, NEW list
    PROVE  LET V == Visible(set, list)
               L == Listing(set, list)
           IN  /\ V \in SUBSET Splits /\ IsFiniteSet(V) /\ Cardinality(V) \in Nat
               /\ L \in Seq(Splits) /\ Len(L) = Cardinality(V) /\ DOMAIN L = 1 .. Cardinality(V)
               /\ \A i \in 1 .. Cardinality(V) : L[i] \in V /\ Rank(L[i], V, PlaceOf) = i
               /\ \A s \in V : /\ Rank(s, V, PlaceOf) \in 1 .. Cardinality(V)
                               /\ L[Rank(s, V, PlaceOf)] = s
               /\ ToSet(L) = V
<1> DEFINE V == Visible(set, list)
           L == Listing(set, list)
           n == Cardinality(V)
           e(i) == CHOOSE s \in V : Rank(s, V, PlaceOf) = i
<1>1. V \in SUBSET Splits
  BY DEF Visible
<1> HIDE DEF V
<1>2. Ordered(V, PlaceOf) /\ IsFiniteSet(V)
  BY <1>1, SplitsFacts DEF Ordered
<1>3. n \in Nat
  BY <1>2, FS_CardinalityType
<1>4. \A i \in 1 .. n : \E s \in V : Rank(s, V, PlaceOf) = i
  BY <1>2, RankIsOnto
<1>5. \A i \in 1 .. n : e(i) \in V /\ Rank(e(i), V, PlaceOf) = i
  BY <1>4
<1>6. L = [i \in 1 .. n |-> e(i)]
  BY DEF Listing, V
<1>7. L \in Seq(Splits)
  BY <1>1, <1>3, <1>5, <1>6, IsASeq
<1>8. DOMAIN L = 1 .. n /\ Len(L) = n
  BY <1>3, <1>6, <1>7, LenProperties
<1>9. \A i \in 1 .. n : L[i] \in V /\ Rank(L[i], V, PlaceOf) = i
  BY <1>5, <1>6
<1>10. \A s \in V : Rank(s, V, PlaceOf) \in 1 .. n
  BY <1>2, <1>3, RankBounds
<1> HIDE DEF L, n, e
<1>11. \A s \in V : L[Rank(s, V, PlaceOf)] = s
  <2> TAKE s \in V
  <2>1. /\ L[Rank(s, V, PlaceOf)] \in V
        /\ Rank(L[Rank(s, V, PlaceOf)], V, PlaceOf) = Rank(s, V, PlaceOf)
    BY <1>9, <1>10
  <2> QED
    BY <1>2, <2>1, RankIsInjective
<1>12. ToSet(L) = V
  BY <1>8, <1>9, <1>10, <1>11 DEF ToSet
<1> QED
  BY <1>1, <1>2, <1>3, <1>7, <1>8, <1>9, <1>10, <1>11, <1>12 DEF L, n, V

-----------------------------------------------------------------------------
(* One split more, or less. *)

\* At most one split crosses a rank when another one comes, and if one does the
\* new one is before that rank.
LEMMA Crossing ==
    ASSUME NEW V \in SUBSET Splits, NEW x \in Splits, x \notin V, NEW n \in Nat
    PROVE  LET W == V \union {x} IN
           /\ \A s \in V : Rank(s, W, PlaceOf) =< n => Rank(s, V, PlaceOf) =< n
           /\ \E y : \A s \in V :
                 Rank(s, V, PlaceOf) =< n /\ ~(Rank(s, W, PlaceOf) =< n) =>
                     s = y /\ Rank(x, W, PlaceOf) =< n
<1> DEFINE W == V \union {x}
           rankV == [s \in V |-> Rank(s, V, PlaceOf)]
           rankW == [s \in W |-> Rank(s, W, PlaceOf)]
<1>1. Ordered(V, PlaceOf) /\ Ordered(W, PlaceOf)
  BY SplitsFacts
<1>2. \A s \in V : rankV[s] \in Nat
  BY <1>1, RankBounds
<1>3. \A s \in W : rankW[s] \in Nat
  BY <1>1, RankBounds
<1>4. \A s \in V : \/ rankW[s] = rankV[s]
                   \/ rankW[s] = rankV[s] + 1 /\ PlaceOf[x] < PlaceOf[s]
  BY <1>1, RankWithOneMore
<1>5. \A s \in V : PlaceOf[x] < PlaceOf[s] => rankW[x] < rankW[s]
  BY <1>1, RankIsMonotone
<1>6. \A s, t \in W : rankW[s] = rankW[t] => s = t
  BY <1>1, RankIsInjective
<1>7. \A s \in V : Rank(s, V, PlaceOf) = rankV[s] /\ Rank(s, W, PlaceOf) = rankW[s]
  OBVIOUS
<1>8. Rank(x, W, PlaceOf) = rankW[x] /\ x \in W
  OBVIOUS
<1> HIDE DEF rankV, rankW
<1>9. \A s \in V : rankV[s] =< n /\ ~(rankW[s] =< n) => rankW[s] = n + 1 /\ rankW[x] =< n
  BY <1>2, <1>3, <1>4, <1>5, <1>8
<1>10. \A s \in V : rankW[s] =< n => rankV[s] =< n
  BY <1>2, <1>3, <1>4
<1>11. \E y : \A s \in V : rankV[s] =< n /\ ~(rankW[s] =< n) => s = y /\ rankW[x] =< n
  <2>1. CASE \E y \in V : rankW[y] = n + 1
    <3>1. PICK y \in V : rankW[y] = n + 1
      BY <2>1
    <3>2. \A s \in V : rankV[s] =< n /\ ~(rankW[s] =< n) => s = y /\ rankW[x] =< n
      BY <1>6, <1>9, <3>1
    <3> QED
      BY <3>2
  <2>2. CASE ~ \E y \in V : rankW[y] = n + 1
    BY <1>9, <2>2
  <2> QED
    BY <2>1, <2>2
<1> QED
  BY <1>7, <1>8, <1>10, <1>11

LEMMA OneMore ==
    ASSUME NEW V \in SUBSET Splits, NEW x \in Splits, x \notin V, NEW n \in Nat
    PROVE  /\ UpTo(n, V \union {x}) \intersect V \subseteq UpTo(n, V)
           /\ \E y : After(n, V \union {x}) \subseteq After(n, V) \union {y}
<1> DEFINE W == V \union {x}
<1>1. PICK y : \A s \in V : Rank(s, V, PlaceOf) =< n /\ ~(Rank(s, W, PlaceOf) =< n) =>
                     s = y /\ Rank(x, W, PlaceOf) =< n
  BY Crossing
<1>2. \A s \in V : Rank(s, W, PlaceOf) =< n => Rank(s, V, PlaceOf) =< n
  BY Crossing
<1>3. UpTo(n, W) \intersect V \subseteq UpTo(n, V)
  BY <1>2 DEF UpTo
<1>4. CASE Rank(x, W, PlaceOf) =< n
  <2>1. After(n, W) \subseteq After(n, V) \union {y}
    BY <1>1, <1>4 DEF After
  <2> QED
    BY <1>3, <2>1
<1>5. CASE ~(Rank(x, W, PlaceOf) =< n)
  <2>1. After(n, W) \subseteq After(n, V) \union {x}
    BY <1>1, <1>5 DEF After
  <2> QED
    BY <1>3, <2>1
<1> QED
  BY <1>4, <1>5

LEMMA OneLess ==
    ASSUME NEW V \in SUBSET Splits, NEW x \in Splits, x \notin V, NEW n \in Nat
    PROVE  /\ After(n, V) \subseteq After(n, V \union {x})
           /\ \E y : UpTo(n, V) \subseteq UpTo(n, V \union {x}) \union {y}
<1> DEFINE W == V \union {x}
<1>1. PICK y : \A s \in V : Rank(s, V, PlaceOf) =< n /\ ~(Rank(s, W, PlaceOf) =< n) =>
                     s = y /\ Rank(x, W, PlaceOf) =< n
  BY Crossing
<1>2. \A s \in V : Rank(s, W, PlaceOf) =< n => Rank(s, V, PlaceOf) =< n
  BY Crossing
<1>3. After(n, V) \subseteq After(n, W)
  BY <1>2 DEF After
<1>4. UpTo(n, V) \subseteq UpTo(n, W) \union {y}
  BY <1>1 DEF UpTo
<1> QED
  BY <1>3, <1>4

-----------------------------------------------------------------------------
(* One page. *)

LEMMA MinOfTwo ==
    ASSUME NEW a \in Int, NEW b \in Int
    PROVE  Min({a, b}) = IF a =< b THEN a ELSE b
<1>1. \E x \in {a, b} : \A y \in {a, b} : x =< y
  OBVIOUS
<1>2. Min({a, b}) \in {a, b} /\ \A y \in {a, b} : Min({a, b}) =< y
  BY <1>1 DEF Min
<1> QED
  BY <1>2

LEMMA ConcatSet ==
    ASSUME NEW s \in Seq(Splits), NEW t \in Seq(Splits)
    PROVE  /\ s \o t \in Seq(Splits) /\ Len(s \o t) = Len(s) + Len(t)
           /\ Len(s) \in Nat /\ Len(t) \in Nat
           /\ ToSet(s \o t) = ToSet(s) \union ToSet(t)
<1>1. /\ Len(s) \in Nat /\ DOMAIN s = 1 .. Len(s)
      /\ Len(t) \in Nat /\ DOMAIN t = 1 .. Len(t)
  BY LenProperties
<1>2. /\ s \o t \in Seq(Splits) /\ Len(s \o t) = Len(s) + Len(t)
      /\ \A i \in 1 .. Len(s) + Len(t) : (s \o t)[i] = IF i =< Len(s) THEN s[i] ELSE t[i - Len(s)]
  BY ConcatProperties
<1>3. DOMAIN (s \o t) = 1 .. Len(s) + Len(t)
  BY <1>2, LenProperties
<1>4. ToSet(s \o t) \subseteq ToSet(s) \union ToSet(t)
  BY <1>1, <1>2, <1>3 DEF ToSet
<1>5. ToSet(s) \subseteq ToSet(s \o t)
  BY <1>1, <1>2, <1>3 DEF ToSet
<1>6. ToSet(t) \subseteq ToSet(s \o t)
  <2> SUFFICES ASSUME NEW i \in 1 .. Len(t) PROVE t[i] \in ToSet(s \o t)
    BY <1>1 DEF ToSet
  <2>1. Len(s) + i \in 1 .. Len(s) + Len(t) /\ (Len(s) + i) - Len(s) = i /\ ~(Len(s) + i =< Len(s))
    BY <1>1
  <2>2. (s \o t)[Len(s) + i] = t[i]
    BY <1>2, <2>1
  <2> QED
    BY <1>3, <2>1, <2>2 DEF ToSet
<1> QED
  BY <1>1, <1>2, <1>4, <1>5, <1>6

\* The distinct splits of a sequence are not more than its places.
LEMMA SetOfSeq ==
    ASSUME NEW s \in Seq(Splits)
    PROVE  /\ IsFiniteSet(ToSet(s)) /\ ToSet(s) \subseteq Splits
           /\ Cardinality(ToSet(s)) \in Nat /\ Len(s) \in Nat
           /\ Cardinality(ToSet(s)) =< Len(s)
           /\ (Cardinality(ToSet(s)) = Len(s)) <=> IsInjective(s)
<1> DEFINE D == 1 .. Len(s)
<1>1. Len(s) \in Nat /\ DOMAIN s = D /\ s \in [D -> Splits]
  BY LenProperties
<1>2. s \in [D -> ToSet(s)]
  BY <1>1 DEF ToSet
<1>3. s \in Surjection(D, ToSet(s))
  BY <1>1, <1>2, Fun_IsSurj DEF ToSet
<1>4. IsFiniteSet(D) /\ Cardinality(D) = Len(s)
  BY <1>1, IntervalSize
<1>5. /\ IsFiniteSet(ToSet(s)) /\ Cardinality(ToSet(s)) =< Cardinality(D)
      /\ (Cardinality(ToSet(s)) = Cardinality(D)) <=> s \in Injection(D, ToSet(s))
  BY <1>3, <1>4, FS_Surjection
<1>6. s \in Injection(D, ToSet(s)) <=> IsInjective(s)
  BY <1>2 DEF Injection
<1>7. Cardinality(ToSet(s)) \in Nat
  BY <1>5, FS_CardinalityType
<1>8. ToSet(s) \subseteq Splits
  BY <1>1 DEF ToSet
<1> QED
  BY <1>1, <1>4, <1>5, <1>6, <1>7, <1>8

\* A page has the splits whose ranks are the next ones, and is full if another
\* one follows.
LEMMA PageFacts ==
    ASSUME ledger \in SUBSET Splits, page \in Nat \ {0}
    PROVE  LET V == Visible(ledger, asked)
               L == Listing(ledger, asked)
               pg == PageOf(page)
               n == Covered + PageSize
           IN  /\ Covered \in Nat /\ page * PageSize = n /\ n \in Nat
               /\ page = 1 => Covered = 0
               /\ pg \in Seq(Splits) /\ IsInjective(pg)
               /\ ToSet(pg) = UpTo(n, V) \ UpTo(Covered, V)
               /\ pg = SubSeq(L, Covered + 1, IF n =< Len(L) THEN n ELSE Len(L))
               /\ HasNext(page) => Len(pg) = PageSize /\ n =< Len(L)
               /\ ~HasNext(page) => Len(L) =< n
<1> DEFINE V == Visible(ledger, asked)
           L == Listing(ledger, asked)
           pg == PageOf(page)
           n == Covered + PageSize
           last == IF n =< Len(L) THEN n ELSE Len(L)
<1>1. PageSize \in Nat /\ PageSize >= 1
  BY LedgerReaderAssumption
<1>2. Covered \in Nat /\ page * PageSize = n /\ n \in Nat /\ (page = 1 => Covered = 0)
  <2>1. \A p \in Nat \ {0} : (p - 1) * PageSize \in Nat /\ p * PageSize = (p - 1) * PageSize + PageSize
    BY <1>1
  <2>2. page = 1 => (page - 1) * PageSize = 0
    BY <1>1
  <2> QED
    BY <1>1, <2>1, <2>2 DEF Covered
<1>3. /\ V \in SUBSET Splits /\ Cardinality(V) \in Nat
      /\ L \in Seq(Splits) /\ Len(L) = Cardinality(V) /\ DOMAIN L = 1 .. Cardinality(V)
      /\ \A i \in 1 .. Cardinality(V) : L[i] \in V /\ Rank(L[i], V, PlaceOf) = i
      /\ \A s \in V : Rank(s, V, PlaceOf) \in 1 .. Cardinality(V) /\ L[Rank(s, V, PlaceOf)] = s
  BY ListingFacts
<1>4. pg = SubSeq(L, Covered + 1, last)
  <2>1. Min({page * PageSize, Len(L)}) = last
    BY <1>2, <1>3, MinOfTwo
  <2> QED
    BY <2>1 DEF PageOf, Covered
<1> HIDE DEF V, L, pg
<1>5. last \in Nat /\ last =< Cardinality(V) /\ last =< n /\ (last = n \/ last = Cardinality(V))
  BY <1>2, <1>3
<1>6. /\ pg \in Seq(Splits)
      /\ Len(pg) = IF Covered + 1 =< last THEN last - Covered ELSE 0
      /\ \A i \in 1 .. last - Covered : pg[i] = L[Covered + i]
  <2>1. \A i \in (Covered + 1) .. last : L[i] \in Splits
    BY <1>2, <1>3, <1>5
  <2>2. /\ SubSeq(L, Covered + 1, last) \in Seq(Splits)
        /\ Len(SubSeq(L, Covered + 1, last))
             = IF Covered + 1 =< last THEN last - (Covered + 1) + 1 ELSE 0
        /\ \A i \in 1 .. last - (Covered + 1) + 1 :
              SubSeq(L, Covered + 1, last)[i] = L[(Covered + 1) + i - 1]
    BY <1>2, <1>5, <2>1, SubSeqProperties
  <2>3. \A i \in 1 .. last - Covered : (Covered + 1) + i - 1 = Covered + i
    BY <1>2, <1>5
  <2>4. last - (Covered + 1) + 1 = last - Covered
    BY <1>2, <1>5
  <2> HIDE DEF last, n
  <2> QED
    BY <1>4, <2>2, <2>3, <2>4
<1> HIDE DEF last
<1>7. DOMAIN pg = 1 .. Len(pg)
  BY <1>6, LenProperties
<1>8. \A i \in DOMAIN pg : /\ i \in 1 .. last - Covered /\ Covered + i \in 1 .. Cardinality(V)
                           /\ pg[i] = L[Covered + i]
  BY <1>2, <1>3, <1>5, <1>6, <1>7
<1>9. \A i \in DOMAIN pg : pg[i] \in V /\ Rank(pg[i], V, PlaceOf) = Covered + i
  BY <1>3, <1>8
<1>10. IsInjective(pg)
  <2>1. \A i, j \in DOMAIN pg : Covered + i = Covered + j => i = j
    BY <1>2, <1>7, <1>8
  <2> QED
    BY <1>9, <2>1 DEF IsInjective
<1>11. ToSet(pg) \subseteq UpTo(n, V) \ UpTo(Covered, V)
  <2> SUFFICES ASSUME NEW i \in DOMAIN pg PROVE pg[i] \in UpTo(n, V) \ UpTo(Covered, V)
    BY DEF ToSet
  <2>1. Covered + i =< n /\ ~(Covered + i =< Covered)
    BY <1>2, <1>3, <1>5, <1>8
  <2> QED
    BY <1>9, <2>1 DEF UpTo
<1>12. UpTo(n, V) \ UpTo(Covered, V) \subseteq ToSet(pg)
  <2> SUFFICES ASSUME NEW s \in V, Rank(s, V, PlaceOf) =< n, ~(Rank(s, V, PlaceOf) =< Covered)
               PROVE  s \in ToSet(pg)
    BY DEF UpTo
  <2> DEFINE i == Rank(s, V, PlaceOf) - Covered
  <2>1. Rank(s, V, PlaceOf) \in 1 .. Cardinality(V) /\ L[Rank(s, V, PlaceOf)] = s
    BY <1>3
  <2>2. i \in 1 .. last - Covered /\ Covered + i = Rank(s, V, PlaceOf)
    BY <1>2, <1>3, <1>5, <2>1
  <2>3. i \in DOMAIN pg
    BY <1>2, <1>5, <1>6, <1>7, <2>2
  <2>4. pg[i] = s
    BY <1>6, <2>1, <2>2
  <2> QED
    BY <2>3, <2>4 DEF ToSet
<1>13. HasNext(page) => Len(pg) = PageSize /\ n =< Len(L)
  <2> SUFFICES ASSUME HasNext(page) PROVE Len(pg) = PageSize /\ n =< Len(L)
    OBVIOUS
  <2>1. n < Len(L)
    BY <1>2 DEF HasNext, L
  <2>2. last = n
    BY <1>2, <1>3, <2>1 DEF last
  <2> QED
    BY <1>1, <1>2, <1>3, <1>6, <2>1, <2>2
<1>14. ~HasNext(page) => Len(L) =< n
  BY <1>2, <1>3 DEF HasNext, L
<1> QED
  BY <1>2, <1>4, <1>6, <1>10, <1>11, <1>12, <1>13, <1>14 DEF V, L, pg, last

-----------------------------------------------------------------------------
(* The invariant at a page. *)

\* The first page sets what is there before and stays; it is as if these had
\* been set all the time, and nothing had been missed.
Then == IF page = 1 /\ ~Second THEN ledger ELSE before
Still == IF page = 1 /\ ~Second THEN ledger ELSE staying

MissedFirst(set) == IF Second THEN Visible(set, FirstList) \ ToSet(history) ELSE {}

LEMMA NothingUpToZero ==
    ASSUME NEW V \in SUBSET Splits
    PROVE  UpTo(0, V) = {}
<1>1. Ordered(V, PlaceOf)
  BY SplitsFacts
<1>2. \A s \in V : Rank(s, V, PlaceOf) \in Nat /\ Rank(s, V, PlaceOf) >= 1
  BY <1>1, RankBounds
<1> QED
  BY <1>2 DEF UpTo

LEMMA PageBegins ==
    ASSUME ReadInv, Reading
    PROVE  /\ Still \subseteq ledger /\ Still \subseteq Then /\ Then \subseteq Splits
           /\ Cardinality(Then \ Still) =< deleted
           /\ Cardinality((ledger \union ToSet(history) \union ToSet(splits)) \ Then) =< inserted
           /\ Cardinality(MissedFirst(Still)
                 \union ((UpTo(Covered, Visible(ledger, asked)) \intersect Still) \ ToSet(splits)))
                =< deleted
           /\ Len(history) + Len(splits)
                  + Cardinality(After(Covered, Visible(ledger, asked)) \intersect ToSet(splits))
                =< inserted + Cardinality(ToSet(history)) + Cardinality(ToSet(splits))
           /\ inserted + deleted = 0 =>
                /\ ledger = Then
                /\ Second => history = Listing(Then, FirstList)
                /\ splits = SubSeq(Listing(Then, asked), 1, Covered)
                /\ Covered =< Len(Listing(Then, asked))
<1>0. /\ TypeOK /\ CourseInv /\ ChangesInv /\ MissedInv /\ RepeatedInv /\ PeaceInv
      /\ page \in Nat \ {0} /\ ledger \subseteq Splits
  BY DEF ReadInv, TypeOK
<1>1. CASE page = 1 /\ ~Second
  <2>1. ~Measured
    BY <1>1 DEF Measured, Complete, Reading
  <2>2. /\ splits = <<>> /\ history = <<>> /\ inserted = 0 /\ deleted = 0
        /\ Then = ledger /\ Still = ledger
    BY <1>0, <1>1, <2>1 DEF CourseInv, Then, Still
  <2>3. ToSet(<<>>) = {} /\ Len(<<>>) = 0
    BY DEF ToSet
  <2>4. Covered = 0
    BY <1>0, <1>1, PageFacts
  <2>5. Visible(ledger, asked) \in SUBSET Splits
    BY <1>0 DEF Visible
  <2>6. UpTo(Covered, Visible(ledger, asked)) = {}
    BY <2>4, <2>5, NothingUpToZero
  <2>7. Cardinality({}) = 0
    BY FS_EmptySet
  <2>8. MissedFirst(Still) = {}
    BY <1>1 DEF MissedFirst
  <2>9. Listing(ledger, asked) \in Seq(Splits) /\ Len(Listing(ledger, asked)) \in Nat
    BY <1>0, ListingFacts
  <2>10. SubSeq(Listing(ledger, asked), 1, 0) = <<>>
    BY <2>9, SubSeqEmpty
  <2>11. ledger \ ledger = {} /\ (ledger \union {} \union {}) \ ledger = {}
    OBVIOUS
  <2>12. /\ Cardinality(Then \ Still) = 0
         /\ Cardinality((ledger \union ToSet(history) \union ToSet(splits)) \ Then) = 0
    BY <2>2, <2>3, <2>7, <2>11
  <2>13. Cardinality(MissedFirst(Still)
           \union ((UpTo(Covered, Visible(ledger, asked)) \intersect Still) \ ToSet(splits))) = 0
    <3>1. MissedFirst(Still)
            \union ((UpTo(Covered, Visible(ledger, asked)) \intersect Still) \ ToSet(splits)) = {}
      BY <2>6, <2>8
    <3> QED
      BY <2>7, <3>1
  <2>14. Cardinality(After(Covered, Visible(ledger, asked)) \intersect ToSet(splits)) = 0
    <3>1. After(Covered, Visible(ledger, asked)) \intersect ToSet(splits) = {}
      BY <2>2, <2>3
    <3> QED
      BY <2>7, <3>1
  <2>15. Len(history) = 0 /\ Len(splits) = 0 /\ Cardinality(ToSet(history)) = 0
         /\ Cardinality(ToSet(splits)) = 0
    BY <2>2, <2>3, <2>7
  <2>16. splits = SubSeq(Listing(Then, asked), 1, Covered) /\ Covered =< Len(Listing(Then, asked))
    BY <2>2, <2>4, <2>9, <2>10
  <2> QED
    BY <1>0, <1>1, <2>2, <2>12, <2>13, <2>14, <2>15, <2>16
<1>2. CASE ~(page = 1 /\ ~Second)
  <2>1. Measured
    BY <1>0, <1>2 DEF Measured, Reading
  <2>2. Then = before /\ Still = staying
    BY <1>2 DEF Then, Still
  <2>3. MissedFirst(Still) = MissedBefore
    BY <2>2 DEF MissedFirst, MissedBefore
  <2>4. MissedHere = (UpTo(Covered, Visible(ledger, asked)) \intersect Still) \ ToSet(splits)
    BY <2>2 DEF MissedHere
  <2>5. ToRepeat = After(Covered, Visible(ledger, asked)) \intersect ToSet(splits)
    BY DEF ToRepeat
  <2>6. Cardinality(MissedFirst(Still)
             \union ((UpTo(Covered, Visible(ledger, asked)) \intersect Still) \ ToSet(splits)))
           =< deleted
    BY <1>0, <2>1, <2>3, <2>4 DEF MissedInv
  <2>7. Len(history) + Len(splits)
            + Cardinality(After(Covered, Visible(ledger, asked)) \intersect ToSet(splits))
          =< inserted + Cardinality(ToSet(history)) + Cardinality(ToSet(splits))
    BY <1>0, <2>1, <2>5 DEF RepeatedInv
  <2>8. /\ staying \subseteq before /\ before \subseteq Splits
    BY <1>0 DEF TypeOK
  <2>9. inserted + deleted = 0 =>
          /\ ledger = Then
          /\ Second => history = Listing(Then, FirstList)
          /\ splits = SubSeq(Listing(Then, asked), 1, Covered)
          /\ Covered =< Len(Listing(Then, asked))
    BY <1>0, <2>1, <2>2 DEF PeaceInv
  <2> QED
    BY <1>0, <2>1, <2>2, <2>6, <2>7, <2>8, <2>9 DEF ChangesInv
<1> QED
  BY <1>1, <1>2

\* What a page does to the accounts.
LEMMA Accounting ==
    ASSUME NEW R, IsFiniteSet(R), NEW A, IsFiniteSet(A), NEW G \in SUBSET A
    PROVE  Cardinality(R \union G) + Cardinality(A \intersect R)
             = Cardinality(R) + Cardinality(G) + Cardinality((A \ G) \intersect (R \union G))
<1>1. IsFiniteSet(G)
  BY FS_Subset
<1>2. Cardinality(R \union G) = Cardinality(R) + Cardinality(G) - Cardinality(R \intersect G)
  BY <1>1, FS_Union
<1> DEFINE X == (A \ G) \intersect (R \union G)
           Y == R \intersect G
<1>3. IsFiniteSet(X) /\ IsFiniteSet(Y) /\ X \intersect Y = {} /\ X \union Y = A \intersect R
  <2>1. X \subseteq A /\ Y \subseteq A
    OBVIOUS
  <2>2. IsFiniteSet(X) /\ IsFiniteSet(Y)
    BY <2>1, FS_Subset
  <2> QED
    BY <2>2
<1>4. Cardinality(X \union Y) = Cardinality(X) + Cardinality(Y) - Cardinality(X \intersect Y)
  BY <1>3, FS_Union
<1>5. Cardinality(X \intersect Y) = 0
  BY <1>3, FS_EmptySet
<1>6. /\ Cardinality(R) \in Nat /\ Cardinality(G) \in Nat /\ Cardinality(X) \in Nat
      /\ Cardinality(Y) \in Nat
  BY <1>1, <1>3, FS_CardinalityType
<1> HIDE DEF X, Y
<1>7. Cardinality(A \intersect R) = Cardinality(X) + Cardinality(Y)
  <2>1. Cardinality(A \intersect R) = Cardinality(X \union Y)
    BY <1>3
  <2> QED
    BY <1>4, <1>5, <1>6, <2>1
<1>8. Cardinality(R \union G) = Cardinality(R) + Cardinality(G) - Cardinality(Y)
  BY <1>2 DEF Y
<1>9. Cardinality(R \union G) + Cardinality(A \intersect R)
        = Cardinality(R) + Cardinality(G) + Cardinality(X)
  BY <1>6, <1>7, <1>8
<1> QED
  BY <1>9 DEF X

LEMMA Shrinks ==
    ASSUME NEW S, IsFiniteSet(S), NEW T, T \subseteq S, NEW n \in Nat, Cardinality(S) =< n
    PROVE  IsFiniteSet(T) /\ Cardinality(T) \in Nat /\ Cardinality(T) =< n
<1>1. IsFiniteSet(T) /\ Cardinality(T) =< Cardinality(S)
  BY FS_Subset
<1>2. Cardinality(T) \in Nat /\ Cardinality(S) \in Nat
  BY <1>1, FS_CardinalityType
<1> QED
  BY <1>1, <1>2

LEMMA PageEnds ==
    ASSUME ReadInv, Reading
    PROVE  LET V == Visible(ledger, asked)
               L == Listing(Then, asked)
               n == Covered + PageSize
               read == splits \o PageOf(page)
           IN  /\ read \in Seq(Splits) /\ n \in Nat /\ page * PageSize = n
               /\ \A s \in ToSet(read) : Belongs(s, asked)
               /\ Cardinality((ledger \union ToSet(history) \union ToSet(read)) \ Then) =< inserted
               /\ Cardinality(MissedFirst(Still) \union ((UpTo(n, V) \intersect Still) \ ToSet(read)))
                    =< deleted
               /\ Len(history) + Len(read) + Cardinality(After(n, V) \intersect ToSet(read))
                    =< inserted + Cardinality(ToSet(history)) + Cardinality(ToSet(read))
               /\ HasNext(page) =>
                    /\ Len(read) = n
                    /\ inserted + deleted = 0 => read = SubSeq(L, 1, n) /\ n =< Len(L)
               /\ ~HasNext(page) =>
                    /\ UpTo(n, V) = V /\ After(n, V) = {}
                    /\ inserted + deleted = 0 => read = L
<1> DEFINE V == Visible(ledger, asked)
           L == Listing(ledger, asked)
           n == Covered + PageSize
           pg == PageOf(page)
           read == splits \o pg
           A == After(Covered, V)
           G == ToSet(pg)
           R == ToSet(splits)
<1>0. /\ TypeOK /\ CourseInv /\ KindInv
      /\ page \in Nat \ {0} /\ ledger \in SUBSET Splits
      /\ splits \in Seq(Splits) /\ history \in Seq(Splits)
      /\ inserted \in Nat /\ deleted \in Nat
  BY DEF ReadInv, TypeOK
<1>1. /\ Covered \in Nat /\ page * PageSize = n /\ n \in Nat
      /\ pg \in Seq(Splits) /\ IsInjective(pg)
      /\ G = UpTo(n, V) \ UpTo(Covered, V)
      /\ pg = SubSeq(L, Covered + 1, IF n =< Len(L) THEN n ELSE Len(L))
      /\ HasNext(page) => Len(pg) = PageSize /\ n =< Len(L)
      /\ ~HasNext(page) => Len(L) =< n
  BY <1>0, PageFacts
<1>2. /\ V \in SUBSET Splits /\ IsFiniteSet(V)
      /\ L \in Seq(Splits) /\ Len(L) = Cardinality(V) /\ Len(L) \in Nat
      /\ \A s \in V : Rank(s, V, PlaceOf) \in 1 .. Cardinality(V)
  BY <1>0, ListingFacts
<1>3. /\ read \in Seq(Splits) /\ Len(read) = Len(splits) + Len(pg)
      /\ Len(splits) \in Nat /\ Len(pg) \in Nat
      /\ ToSet(read) = R \union G
  BY <1>0, <1>1, ConcatSet
<1>4. Covered =< n /\ PageSize \in Nat
  BY <1>1, LedgerReaderAssumption
<1>5. G \subseteq A /\ After(n, V) = A \ G /\ G \subseteq V
  <2>1. \A s \in V : Rank(s, V, PlaceOf) =< Covered => Rank(s, V, PlaceOf) =< n
    BY <1>1, <1>2, <1>4
  <2> HIDE DEF n, V, pg
  <2> QED
    BY <1>1, <2>1 DEF UpTo, After
<1>6. /\ Still \subseteq ledger /\ Still \subseteq Then /\ Then \subseteq Splits
      /\ Cardinality((ledger \union ToSet(history) \union R) \ Then) =< inserted
      /\ Cardinality(MissedFirst(Still) \union ((UpTo(Covered, V) \intersect Still) \ R)) =< deleted
      /\ Len(history) + Len(splits) + Cardinality(A \intersect R)
           =< inserted + Cardinality(ToSet(history)) + Cardinality(R)
      /\ inserted + deleted = 0 =>
           /\ ledger = Then
           /\ splits = SubSeq(Listing(Then, asked), 1, Covered)
           /\ Covered =< Len(Listing(Then, asked))
  BY PageBegins
<1>7. \A s \in ToSet(read) : Belongs(s, asked)
  <2>1. \A s \in V : Belongs(s, asked)
    BY DEF Visible
  <2> QED
    BY <1>0, <1>3, <1>5, <2>1 DEF KindInv
<1>8. Cardinality((ledger \union ToSet(history) \union ToSet(read)) \ Then) =< inserted
  <2>1. V \subseteq ledger
    BY DEF Visible
  <2>2. ledger \union ToSet(history) \union ToSet(read) = ledger \union ToSet(history) \union R
    BY <1>3, <1>5, <2>1
  <2> QED
    BY <1>6, <2>2
<1>9. /\ IsFiniteSet(R) /\ Cardinality(R) \in Nat /\ IsFiniteSet(G) /\ Cardinality(G) = Len(pg)
      /\ IsFiniteSet(A) /\ Cardinality(A \intersect R) \in Nat
      /\ Cardinality(ToSet(history)) \in Nat /\ Len(history) \in Nat
      /\ IsFiniteSet(ToSet(history))
  <2>1. /\ IsFiniteSet(R) /\ Cardinality(R) \in Nat /\ Cardinality(ToSet(history)) \in Nat
        /\ Len(history) \in Nat /\ IsFiniteSet(G) /\ Cardinality(G) = Len(pg)
        /\ IsFiniteSet(ToSet(history))
    BY <1>0, <1>1, SetOfSeq
  <2>2. A \subseteq V
    BY DEF After
  <2>3. IsFiniteSet(A)
    BY <1>2, <2>2, FS_Subset
  <2>4. IsFiniteSet(A \intersect R)
    BY <2>3, FS_Subset
  <2> QED
    BY <2>1, <2>3, <2>4, FS_CardinalityType
<1>10. Cardinality(MissedFirst(Still) \union ((UpTo(n, V) \intersect Still) \ ToSet(read))) =< deleted
  <2> DEFINE old == MissedFirst(Still) \union ((UpTo(Covered, V) \intersect Still) \ R)
             new == MissedFirst(Still) \union ((UpTo(n, V) \intersect Still) \ ToSet(read))
  <2>1. new \subseteq old
    BY <1>1, <1>3
  <2>2. old \subseteq Splits
    BY <1>6 DEF MissedFirst, Visible
  <2>3. IsFiniteSet(old)
    BY <2>2, SplitsFacts, FS_Subset
  <2>4. Cardinality(old) \in Nat /\ Cardinality(new) \in Nat /\ Cardinality(new) =< Cardinality(old)
    <3>1. IsFiniteSet(new) /\ Cardinality(new) =< Cardinality(old)
      BY <2>1, <2>3, FS_Subset
    <3> QED
      BY <2>3, <3>1, FS_CardinalityType
  <2>5. Cardinality(old) =< deleted
    BY <1>6
  <2>6. deleted \in Nat
    BY <1>0 DEF TypeOK
  <2> QED
    BY <2>4, <2>5, <2>6
<1>11. Len(history) + Len(read) + Cardinality(After(n, V) \intersect ToSet(read))
         =< inserted + Cardinality(ToSet(history)) + Cardinality(ToSet(read))
  <2>1. Cardinality(R \union G) + Cardinality(A \intersect R)
          = Cardinality(R) + Cardinality(G) + Cardinality((A \ G) \intersect (R \union G))
    BY <1>5, <1>9, Accounting
  <2>2. IsFiniteSet((A \ G) \intersect (R \union G)) /\ IsFiniteSet(R \union G)
    <3>1. (A \ G) \intersect (R \union G) \subseteq A
      OBVIOUS
    <3> QED
      BY <1>9, <3>1, FS_Subset, FS_Union
  <2>3. /\ Cardinality((A \ G) \intersect (R \union G)) \in Nat
        /\ Cardinality(R \union G) \in Nat
    BY <2>2, FS_CardinalityType
  <2>4. After(n, V) \intersect ToSet(read) = (A \ G) \intersect (R \union G)
    BY <1>3, <1>5
  <2>5. inserted \in Nat
    BY <1>0 DEF TypeOK
  <2>6. Len(history) + (Len(splits) + Cardinality(G)) + Cardinality((A \ G) \intersect (R \union G))
          =< inserted + Cardinality(ToSet(history)) + Cardinality(R \union G)
    <3> DEFINE both == Cardinality(R \union G)
               again == Cardinality(A \intersect R)
               left == Cardinality((A \ G) \intersect (R \union G))
               r == Cardinality(R)
               g == Cardinality(G)
               first == Cardinality(ToSet(history))
    <3>1. both + again = r + g + left
      BY <2>1
    <3>2. Len(history) + Len(splits) + again =< inserted + first + r
      BY <1>6
    <3>3. /\ both \in Nat /\ again \in Nat /\ left \in Nat /\ r \in Nat /\ g \in Nat
          /\ first \in Nat /\ inserted \in Nat /\ Len(history) \in Nat /\ Len(splits) \in Nat
      <4>1. g = Len(pg) /\ Len(pg) \in Nat
        BY <1>3, <1>9
      <4> QED
        BY <1>0, <1>9, <2>3, <2>5, <4>1, SetOfSeq
    <3> HIDE DEF both, again, left, r, g, first
    <3>4. Len(history) + (Len(splits) + g) + left =< inserted + first + both
      BY <3>1, <3>2, <3>3
    <3> QED
      BY <3>4 DEF both, left, g, first
  <2> QED
    BY <1>3, <1>9, <2>4, <2>6
<1>12. Len(splits) = Covered
  BY <1>0 DEF CourseInv
<1>13. ASSUME inserted + deleted = 0
       PROVE  read = SubSeq(L, 1, IF n =< Len(L) THEN n ELSE Len(L)) /\ Then = ledger
  <2> DEFINE last == IF n =< Len(L) THEN n ELSE Len(L)
  <2>1. splits = SubSeq(L, 1, Covered) /\ Covered =< Len(L) /\ Then = ledger
    BY <1>6, <1>13
  <2>2. last \in Covered .. Len(L) /\ 1 \in 1 .. Len(L) + 1 /\ Covered \in 0 .. Len(L) /\ 1 - 1 = 0
    BY <1>1, <1>2, <1>4, <2>1
  <2> HIDE DEF L, last
  <2>3. SubSeq(L, 1, Covered) \o SubSeq(L, Covered + 1, last) = SubSeq(L, 1, last)
    BY <1>2, <2>2, ConcatAdjacentSubSeq
  <2> QED
    BY <1>1, <2>1, <2>3 DEF last, L
<1>14. HasNext(page) =>
         /\ Len(read) = n
         /\ inserted + deleted = 0 => read = SubSeq(Listing(Then, asked), 1, n) /\ n =< Len(Listing(Then, asked))
  BY <1>1, <1>3, <1>12, <1>13
<1>15. ~HasNext(page) =>
         /\ UpTo(n, V) = V /\ After(n, V) = {}
         /\ inserted + deleted = 0 => read = Listing(Then, asked)
  <2> SUFFICES ASSUME ~HasNext(page)
               PROVE  /\ UpTo(n, V) = V /\ After(n, V) = {}
                      /\ inserted + deleted = 0 => read = Listing(Then, asked)
    OBVIOUS
  <2>1. \A s \in V : Rank(s, V, PlaceOf) =< n
    BY <1>1, <1>2
  <2>2. inserted + deleted = 0 => read = SubSeq(L, 1, Len(L)) /\ Then = ledger
    <3>1. (IF n =< Len(L) THEN n ELSE Len(L)) = Len(L)
      BY <1>1, <1>2
    <3> QED
      BY <1>13, <3>1
  <2>3. SubSeq(L, 1, Len(L)) = L
    BY <1>2, SubSeqFull
  <2> QED
    BY <2>1, <2>2, <2>3 DEF UpTo, After
<1> QED
  BY <1>1, <1>3, <1>7, <1>8, <1>10, <1>11, <1>14, <1>15

-----------------------------------------------------------------------------
(* The steps. *)

LEMMA InitRead == Init => ReadInv
<1> SUFFICES ASSUME Init PROVE ReadInv
  OBVIOUS
<1>1. TypeOK
  <2>1. <<"withdrawal", "all">> \in Lists
    BY DEF Lists, Types
  <2>2. <<>> \in Seq(Splits)
    OBVIOUS
  <2>3. report = NoReport /\ report.kind = "none" /\ pc = "idle"
    BY DEF Init, NoReport
  <2>4. MaxChanges \in Nat
    BY LedgerReaderAssumption
  <2>5. /\ ledger \subseteq Splits /\ digest \in BOOLEAN /\ page \in Nat \ {0}
        /\ staying \subseteq before /\ before \subseteq Splits
        /\ asked \in Lists /\ splits \in Seq(Splits) /\ history \in Seq(Splits)
    <3>1. /\ ledger \in SUBSET Splits /\ digest = FALSE /\ page = 1 /\ staying = {} /\ before = {}
          /\ asked = <<"withdrawal", "all">> /\ splits = <<>> /\ history = <<>>
      BY DEF Init
    <3>2. asked \in Lists
      BY <2>1, <3>1
    <3>3. splits \in Seq(Splits) /\ history \in Seq(Splits)
      BY <2>2, <3>1
    <3>4. ledger \subseteq Splits /\ staying \subseteq before /\ before \subseteq Splits
      BY <3>1
    <3>5. page \in Nat \ {0}
      BY <3>1
    <3>6. digest \in BOOLEAN
      BY <3>1, Zenon
    <3> QED
      BY <3>2, <3>3, <3>4, <3>5, <3>6
  <2>6. inserted \in Nat /\ deleted \in Nat /\ inserted + deleted =< MaxChanges
    BY <2>4 DEF Init
  <2> QED
    BY <2>3, <2>5, <2>6 DEF TypeOK
<1>2. ~Measured /\ ~Reading /\ ~Complete /\ ~Second
  BY DEF Init, Measured, Reading, Complete, Second
<1>3. ToSet(<<>>) = {}
  BY DEF ToSet
<1> QED
  BY <1>1, <1>2, <1>3 DEF Init, ReadInv, CourseInv, KindInv, ChangesInv, MissedInv, RepeatedInv, PeaceInv

LEMMA BeginKeepsRead ==
    ASSUME ReadInv, NEW list \in Lists, NEW forDigest \in BOOLEAN, Begin(list, forDigest)
    PROVE  ReadInv'
<1>1. /\ pc = "idle" /\ pc' = "reading" /\ digest' = forDigest /\ asked' = list
      /\ forDigest => list = FirstList
      /\ UNCHANGED <<ledger, page, splits, history, report, before, staying, inserted, deleted>>
  BY DEF Begin, FirstList
<1>2. TypeOK'
  BY <1>1 DEF ReadInv, TypeOK
<1>3. /\ page = 1 /\ splits = <<>> /\ history = <<>> /\ before = {} /\ staying = {}
      /\ inserted = 0 /\ deleted = 0
  BY <1>1 DEF ReadInv, CourseInv, Second
<1>4. ~Second' /\ Reading' /\ ~Complete'
  BY <1>1 DEF Second, Reading, Complete, FirstList
<1>5. ~Measured'
  BY <1>1, <1>3, <1>4 DEF Measured
<1>6. Covered' = 0
  BY <1>1, <1>3, LedgerReaderAssumption DEF Covered
<1>7. CourseInv'
  BY <1>1, <1>3, <1>4, <1>5, <1>6 DEF CourseInv
<1>8. KindInv'
  BY <1>1, <1>3 DEF KindInv, ToSet
<1> QED
  BY <1>2, <1>4, <1>5, <1>7, <1>8 DEF ReadInv, ChangesInv, MissedInv, RepeatedInv, PeaceInv

LEMMA UnreachableKeepsRead ==
    ASSUME ReadInv, Unreachable
    PROVE  ReadInv'
<1>1. /\ pc = "reading" /\ pc' = "failed" /\ splits' = <<>> /\ history' = <<>>
      /\ UNCHANGED <<ledger, digest, asked, page, report, before, staying, inserted, deleted>>
  BY DEF Unreachable
<1>2. TypeOK'
  <2>1. <<>> \in Seq(Splits)
    OBVIOUS
  <2> QED
    BY <1>1, <2>1 DEF ReadInv, TypeOK
<1>3. ~Reading' /\ ~Complete' /\ ~Measured'
  BY <1>1 DEF Reading, Complete, Measured
<1>4. CourseInv'
  BY <1>1, <1>3 DEF ReadInv, CourseInv
<1>5. KindInv'
  BY <1>1 DEF KindInv, ToSet
<1> QED
  BY <1>2, <1>3, <1>4, <1>5 DEF ReadInv, ChangesInv, MissedInv, RepeatedInv, PeaceInv

\* Reporting changes neither the ledger nor what was read.
LEMMA ReportedKeepsRead ==
    ASSUME ReadInv, NEW what, Reported(what),
           what.kind \in {"duplicates", "summary", "search", "answer", "digest"}
    PROVE  ReadInv'
<1>1. /\ pc = "read" /\ pc' = "reported" /\ report' = what
      /\ UNCHANGED <<ledger, digest, asked, page, splits, history, before, staying, inserted, deleted>>
  BY DEF Reported
<1>2. TypeOK'
  <2>1. what # NoReport
    BY DEF NoReport
  <2> QED
    BY <1>1, <2>1 DEF ReadInv, TypeOK
<1>3. /\ ~Reading /\ ~Reading' /\ Complete /\ Complete' /\ Measured /\ Measured'
      /\ Second' = Second /\ Covered' = Covered
  BY <1>1 DEF Reading, Complete, Measured, Second, Covered
<1>4. CourseInv' /\ KindInv'
  BY <1>1, <1>3 DEF ReadInv, CourseInv, KindInv
<1>5. ChangesInv'
  BY <1>1, <1>3 DEF ReadInv, ChangesInv
<1>6. MissedBefore' = MissedBefore /\ MissedHere' = MissedHere
  BY <1>1, <1>3 DEF MissedBefore, MissedHere
<1>7. ToRepeat' = ToRepeat
  BY <1>1, <1>3 DEF ToRepeat
<1>8. MissedInv'
  BY <1>1, <1>3, <1>6 DEF ReadInv, MissedInv
<1>9. RepeatedInv'
  BY <1>1, <1>3, <1>7 DEF ReadInv, RepeatedInv
<1>10. PeaceInv'
  BY <1>1, <1>3 DEF ReadInv, PeaceInv
<1> QED
  BY <1>2, <1>4, <1>5, <1>8, <1>9, <1>10 DEF ReadInv

\* The three ways a page can end: the list goes on, a digest goes on with its
\* second list, or the reading is complete.
TurnsPage ==
    /\ HasNext(page)
    /\ splits' = splits \o PageOf(page) /\ page' = page + 1
    /\ UNCHANGED <<pc, history, asked>>

TurnsToSecond ==
    /\ ~HasNext(page) /\ digest /\ ~Second
    /\ history' = splits \o PageOf(page) /\ splits' = <<>>
    /\ asked' = SecondList /\ page' = 1 /\ pc' = pc

Completes ==
    /\ ~HasNext(page) /\ (digest => Second)
    /\ splits' = splits \o PageOf(page) /\ pc' = "read"
    /\ UNCHANGED <<history, asked, page>>

LEMMA FetchCases ==
    ASSUME Fetch
    PROVE  /\ Reading /\ before' = Then /\ staying' = Still
           /\ UNCHANGED <<ledger, digest, report, inserted, deleted>>
           /\ TurnsPage \/ TurnsToSecond \/ Completes
<1>1. /\ pc = "reading" /\ Measure
      /\ UNCHANGED <<ledger, digest, report, inserted, deleted>>
  BY DEF Fetch
<1>2. before' = Then /\ staying' = Still
  BY <1>1 DEF Measure, Then, Still
<1>3. TurnsPage \/ TurnsToSecond \/ Completes
  BY DEF Fetch, EndOfList, TurnsPage, TurnsToSecond, Completes, SecondList
<1> QED
  BY <1>1, <1>2, <1>3 DEF Reading

LEMMA FetchFacts ==
    ASSUME ReadInv, Fetch
    PROVE  /\ ledger' = ledger /\ inserted' = inserted /\ deleted' = deleted /\ report' = report
           /\ digest' = digest /\ before' = Then /\ staying' = Still
           /\ Still \subseteq Then /\ Then \subseteq Splits /\ Still \subseteq ledger
           /\ Cardinality(Then \ Still) =< deleted
           /\ inserted + deleted = 0 => Then = ledger
           /\ inserted + deleted = 0 /\ Second => history = Listing(Then, FirstList)
           /\ splits \o PageOf(page) \in Seq(Splits) /\ Reading
  BY FetchCases, PageBegins, PageEnds

LEMMA TurningKeepsRead ==
    ASSUME ReadInv, Fetch, TurnsPage
    PROVE  ReadInv'
<1> DEFINE V == Visible(ledger, asked)
           n == Covered + PageSize
           read == splits \o PageOf(page)
<1>1. /\ HasNext(page) /\ splits' = read /\ page' = page + 1
      /\ pc' = pc /\ history' = history /\ asked' = asked
  BY DEF TurnsPage
<1>2. /\ ledger' = ledger /\ inserted' = inserted /\ deleted' = deleted /\ report' = report
      /\ digest' = digest /\ before' = Then /\ staying' = Still
      /\ Still \subseteq Then /\ Then \subseteq Splits /\ Still \subseteq ledger
      /\ Cardinality(Then \ Still) =< deleted
      /\ inserted + deleted = 0 => Then = ledger
      /\ inserted + deleted = 0 /\ Second => history = Listing(Then, FirstList)
      /\ read \in Seq(Splits) /\ Reading
  BY FetchFacts
<1>3. /\ page * PageSize = n /\ n \in Nat
      /\ \A s \in ToSet(read) : Belongs(s, asked)
      /\ Cardinality((ledger \union ToSet(history) \union ToSet(read)) \ Then) =< inserted
      /\ Cardinality(MissedFirst(Still) \union ((UpTo(n, V) \intersect Still) \ ToSet(read))) =< deleted
      /\ Len(history) + Len(read) + Cardinality(After(n, V) \intersect ToSet(read))
           =< inserted + Cardinality(ToSet(history)) + Cardinality(ToSet(read))
      /\ Len(read) = n
      /\ inserted + deleted = 0 =>
           read = SubSeq(Listing(Then, asked), 1, n) /\ n =< Len(Listing(Then, asked))
  BY <1>1, <1>2, PageEnds
<1>4. page \in Nat \ {0} /\ TypeOK /\ CourseInv /\ KindInv
  BY DEF ReadInv, TypeOK
<1>5. Covered' = n
  <2>1. (page + 1) - 1 = page
    BY <1>4
  <2> QED
    BY <1>1, <1>3, <2>1 DEF Covered
<1>6. TypeOK'
  BY <1>1, <1>2, <1>4 DEF TypeOK
<1>7. /\ Reading' /\ ~Complete' /\ Second' = Second /\ Measured' /\ page' > 1 /\ pc' # "idle"
      /\ (Reading' /\ ~Measured') = FALSE
  <2>1. Reading' /\ ~Complete' /\ Second' = Second /\ page' > 1 /\ pc' # "idle"
    BY <1>1, <1>2, <1>4 DEF Reading, Complete, Second
  <2>2. Measured'
    BY <2>1 DEF Measured
  <2> QED
    BY <2>1, <2>2
<1>8. CourseInv'
  BY <1>1, <1>2, <1>3, <1>4, <1>5, <1>7 DEF CourseInv
<1>9. KindInv'
  BY <1>1, <1>3, <1>4 DEF KindInv
<1>10. ChangesInv'
  BY <1>1, <1>2, <1>3 DEF ChangesInv
<1>11. MissedInv'
  <2>1. MissedBefore' = MissedFirst(Still)
    BY <1>1, <1>2, <1>7 DEF MissedBefore, MissedFirst
  <2>2. MissedHere' = (UpTo(n, V) \intersect Still) \ ToSet(read)
    BY <1>1, <1>2, <1>5, <1>7 DEF MissedHere
  <2> QED
    BY <1>2, <1>3, <2>1, <2>2 DEF MissedInv
<1>12. RepeatedInv'
  <2>1. ToRepeat' = After(n, V) \intersect ToSet(read)
    BY <1>1, <1>2, <1>5, <1>7 DEF ToRepeat
  <2> QED
    BY <1>1, <1>2, <1>3, <2>1 DEF RepeatedInv
<1>13. PeaceInv'
  BY <1>1, <1>2, <1>3, <1>5, <1>7 DEF PeaceInv
<1> QED
  BY <1>6, <1>8, <1>9, <1>10, <1>11, <1>12, <1>13 DEF ReadInv

LEMMA CompletingKeepsRead ==
    ASSUME ReadInv, Fetch, Completes
    PROVE  ReadInv'
<1> DEFINE V == Visible(ledger, asked)
           n == Covered + PageSize
           read == splits \o PageOf(page)
<1>1. /\ ~HasNext(page) /\ splits' = read /\ page' = page /\ (digest => Second)
      /\ pc' = "read" /\ history' = history /\ asked' = asked
  BY DEF Completes
<1>2. /\ ledger' = ledger /\ inserted' = inserted /\ deleted' = deleted /\ report' = report
      /\ digest' = digest /\ before' = Then /\ staying' = Still
      /\ Still \subseteq Then /\ Then \subseteq Splits /\ Still \subseteq ledger
      /\ Cardinality(Then \ Still) =< deleted
      /\ inserted + deleted = 0 => Then = ledger
      /\ inserted + deleted = 0 /\ Second => history = Listing(Then, FirstList)
      /\ read \in Seq(Splits) /\ Reading
  BY FetchFacts
<1>3. /\ \A s \in ToSet(read) : Belongs(s, asked)
      /\ Cardinality((ledger \union ToSet(history) \union ToSet(read)) \ Then) =< inserted
      /\ Cardinality(MissedFirst(Still) \union ((V \intersect Still) \ ToSet(read))) =< deleted
      /\ Len(history) + Len(read) + Cardinality({} \intersect ToSet(read))
           =< inserted + Cardinality(ToSet(history)) + Cardinality(ToSet(read))
      /\ inserted + deleted = 0 => read = Listing(Then, asked)
  <2>1. /\ \A s \in ToSet(read) : Belongs(s, asked)
        /\ Cardinality((ledger \union ToSet(history) \union ToSet(read)) \ Then) =< inserted
        /\ Cardinality(MissedFirst(Still) \union ((UpTo(n, V) \intersect Still) \ ToSet(read))) =< deleted
        /\ Len(history) + Len(read) + Cardinality(After(n, V) \intersect ToSet(read))
             =< inserted + Cardinality(ToSet(history)) + Cardinality(ToSet(read))
        /\ UpTo(n, V) = V /\ After(n, V) = {}
        /\ inserted + deleted = 0 => read = Listing(Then, asked)
    BY <1>1, <1>2, PageEnds
  <2> QED
    BY <2>1
<1>4. page \in Nat \ {0} /\ TypeOK /\ CourseInv /\ KindInv
  BY DEF ReadInv, TypeOK
<1>6. TypeOK'
  BY <1>1, <1>2, <1>4 DEF TypeOK, Reading
<1>7. ~Reading' /\ Complete' /\ Second' = Second /\ Measured' /\ pc' # "idle"
  BY <1>1, <1>2, <1>4 DEF Reading, Complete, Second, Measured
<1>8. CourseInv'
  BY <1>1, <1>2, <1>3, <1>4, <1>7 DEF CourseInv
<1>9. KindInv'
  BY <1>1, <1>3, <1>4 DEF KindInv
<1>10. ChangesInv'
  BY <1>1, <1>2, <1>3 DEF ChangesInv
<1>11. MissedInv'
  <2>1. MissedBefore' = MissedFirst(Still)
    BY <1>1, <1>2, <1>7 DEF MissedBefore, MissedFirst
  <2>2. MissedHere' = (V \intersect Still) \ ToSet(read)
    BY <1>1, <1>2, <1>7 DEF MissedHere
  <2> QED
    BY <1>2, <1>3, <2>1, <2>2 DEF MissedInv
<1>12. RepeatedInv'
  <2>1. ToRepeat' = {} /\ {} \intersect ToSet(read) = {}
    BY <1>1, <1>2, <1>7 DEF ToRepeat
  <2> QED
    BY <1>1, <1>2, <1>3, <2>1 DEF RepeatedInv
<1>13. PeaceInv'
  BY <1>1, <1>2, <1>3, <1>7 DEF PeaceInv
<1> QED
  BY <1>6, <1>8, <1>9, <1>10, <1>11, <1>12, <1>13 DEF ReadInv

LEMMA SecondListKeepsRead ==
    ASSUME ReadInv, Fetch, TurnsToSecond
    PROVE  ReadInv'
<1> DEFINE V == Visible(ledger, asked)
           n == Covered + PageSize
           read == splits \o PageOf(page)
<1>1. /\ ~HasNext(page) /\ digest /\ ~Second /\ history' = read /\ splits' = <<>>
      /\ asked' = SecondList /\ page' = 1 /\ pc' = pc
  BY DEF TurnsToSecond
<1>2. /\ ledger' = ledger /\ inserted' = inserted /\ deleted' = deleted /\ report' = report
      /\ digest' = digest /\ before' = Then /\ staying' = Still
      /\ Still \subseteq Then /\ Then \subseteq Splits /\ Still \subseteq ledger
      /\ Cardinality(Then \ Still) =< deleted
      /\ inserted + deleted = 0 => Then = ledger
      /\ read \in Seq(Splits) /\ Reading
  BY FetchFacts
<1>3. page \in Nat \ {0} /\ TypeOK /\ CourseInv /\ KindInv
  BY DEF ReadInv, TypeOK
<1>4. history = <<>> /\ asked = FirstList
  BY <1>1, <1>3 DEF CourseInv, Second, SecondList
<1>5. ToSet(<<>>) = {} /\ Len(<<>>) = 0 /\ Cardinality({}) = 0
  BY FS_EmptySet DEF ToSet
<1>6. /\ \A s \in ToSet(read) : Belongs(s, FirstList)
      /\ Cardinality((ledger \union ToSet(read)) \ Then) =< inserted
      /\ Cardinality((V \intersect Still) \ ToSet(read)) =< deleted
      /\ Len(read) =< inserted + Cardinality(ToSet(read))
      /\ inserted + deleted = 0 => read = Listing(Then, FirstList)
  <2>1. /\ \A s \in ToSet(read) : Belongs(s, asked)
        /\ Cardinality((ledger \union ToSet(history) \union ToSet(read)) \ Then) =< inserted
        /\ Cardinality(MissedFirst(Still) \union ((UpTo(n, V) \intersect Still) \ ToSet(read))) =< deleted
        /\ Len(history) + Len(read) + Cardinality(After(n, V) \intersect ToSet(read))
             =< inserted + Cardinality(ToSet(history)) + Cardinality(ToSet(read))
        /\ UpTo(n, V) = V /\ After(n, V) = {}
        /\ inserted + deleted = 0 => read = Listing(Then, asked)
    BY <1>1, <1>2, PageEnds
  <2>2. MissedFirst(Still) = {}
    BY <1>1 DEF MissedFirst
  <2>3. (ledger \union ToSet(history) \union ToSet(read)) = (ledger \union ToSet(read))
    BY <1>4, <1>5
  <2>4. MissedFirst(Still) \union ((UpTo(n, V) \intersect Still) \ ToSet(read))
          = (V \intersect Still) \ ToSet(read)
    BY <2>1, <2>2
  <2>5. Len(read) =< inserted + Cardinality(ToSet(read))
    <3>1. Len(read) \in Nat /\ Cardinality(ToSet(read)) \in Nat
      BY <1>2, SetOfSeq
    <3>2. Cardinality(After(n, V) \intersect ToSet(read)) = 0
      <4>1. After(n, V) \intersect ToSet(read) = {}
        BY <2>1
      <4> QED
        BY <1>5, <4>1
    <3>3. Len(history) = 0 /\ Cardinality(ToSet(history)) = 0 /\ inserted \in Nat
      BY <1>3, <1>4, <1>5 DEF TypeOK
    <3> HIDE DEF V, n, read
    <3> QED
      BY <2>1, <3>1, <3>2, <3>3
  <2> QED
    BY <1>4, <2>1, <2>3, <2>4, <2>5
<1>7. /\ Second' /\ Reading' /\ ~Complete' /\ Measured' /\ pc' # "idle"
  <2>1. Second' /\ Reading' /\ ~Complete'
    BY <1>1, <1>2 DEF Second, SecondList, Reading, Complete
  <2>2. pc' # "idle"
    BY <2>1 DEF Reading
  <2> QED
    BY <2>1, <2>2 DEF Measured
<1>8. Covered' = 0
  BY <1>1, LedgerReaderAssumption DEF Covered
<1>9. TypeOK'
  <2>1. SecondList \in Lists /\ <<>> \in Seq(Splits)
    BY DEF Lists, Types, SecondList
  <2> QED
    BY <1>1, <1>2, <1>3, <2>1 DEF TypeOK
<1>10. CourseInv'
  BY <1>1, <1>2, <1>5, <1>7, <1>8 DEF CourseInv
<1>11. KindInv'
  BY <1>1, <1>5, <1>6 DEF KindInv
<1>12. ChangesInv'
  <2>1. ledger \union ToSet(read) \union {} = ledger \union ToSet(read)
    OBVIOUS
  <2>2. (ledger' \union ToSet(history') \union ToSet(splits')) \ before' = (ledger \union ToSet(read)) \ Then
    BY <1>1, <1>2, <1>5, <2>1
  <2> QED
    BY <1>2, <1>6, <2>2 DEF ChangesInv
<1>13. MissedInv'
  <2>1. MissedBefore' = Visible(Still, FirstList) \ ToSet(read)
    BY <1>1, <1>2, <1>7 DEF MissedBefore
  <2>2. UpTo(0, Visible(ledger, SecondList)) = {}
    <3>1. Visible(ledger, SecondList) \in SUBSET Splits
      BY <1>3 DEF TypeOK, Visible
    <3> QED
      BY <3>1, NothingUpToZero
  <2>3. MissedHere' = {}
    BY <1>1, <1>2, <1>7, <1>8, <2>2 DEF MissedHere
  <2>4. Visible(Still, FirstList) = V \intersect Still
    BY <1>2, <1>4 DEF Visible
  <2>5. MissedBefore' \union MissedHere' = (V \intersect Still) \ ToSet(read)
    BY <2>1, <2>3, <2>4
  <2> QED
    BY <1>2, <1>6, <2>5 DEF MissedInv
<1>14. RepeatedInv'
  <2>1. ToRepeat' = {}
    BY <1>1, <1>5 DEF ToRepeat
  <2>2. /\ Cardinality(ToRepeat') = 0 /\ Len(splits') = 0 /\ Cardinality(ToSet(splits')) = 0
    BY <1>1, <1>5, <2>1
  <2>3. Len(read) \in Nat /\ Cardinality(ToSet(read)) \in Nat /\ inserted \in Nat
    BY <1>2, <1>3, SetOfSeq DEF TypeOK
  <2>4. Len(read) + 0 + 0 =< inserted + Cardinality(ToSet(read)) + 0
    BY <1>6, <2>3
  <2> QED
    BY <1>1, <1>2, <2>2, <2>4 DEF RepeatedInv
<1>15. PeaceInv'
  <2>1. Len(Listing(Then, SecondList)) \in Nat
    BY <1>2, ListingFacts
  <2>2. SubSeq(Listing(Then, SecondList), 1, 0) = <<>> /\ 0 =< Len(Listing(Then, SecondList))
    BY <2>1, SubSeqEmpty
  <2> QED
    BY <1>1, <1>2, <1>6, <1>7, <1>8, <2>2 DEF PeaceInv
<1> QED
  BY <1>9, <1>10, <1>11, <1>12, <1>13, <1>14, <1>15 DEF ReadInv

LEMMA GrowsByOne ==
    ASSUME NEW S, IsFiniteSet(S), NEW x, NEW T, T \subseteq S \union {x},
           NEW n \in Nat, Cardinality(S) =< n
    PROVE  IsFiniteSet(T) /\ Cardinality(T) \in Nat /\ Cardinality(T) =< n + 1
<1>1. /\ IsFiniteSet(S \union {x})
      /\ Cardinality(S \union {x}) = IF x \in S THEN Cardinality(S) ELSE Cardinality(S) + 1
  BY FS_AddElement
<1>2. IsFiniteSet(T) /\ Cardinality(T) =< Cardinality(S \union {x})
  BY <1>1, FS_Subset
<1>3. Cardinality(T) \in Nat /\ Cardinality(S) \in Nat
  BY <1>2, FS_CardinalityType
<1> QED
  BY <1>1, <1>2, <1>3

\* What is visible when one split is added to a set.
LEMMA VisibleWithOneMore ==
    ASSUME NEW set \in SUBSET Splits, NEW x \in Splits, x \notin set, NEW list, NEW n \in Nat
    PROVE  LET V == Visible(set, list)
               W == Visible(set \union {x}, list)
           IN  /\ V \in SUBSET Splits /\ W \in SUBSET Splits
               /\ UpTo(n, W) \intersect set \subseteq UpTo(n, V)
               /\ After(n, V) \subseteq After(n, W)
               /\ \E y : After(n, W) \subseteq After(n, V) \union {y}
               /\ \E y : UpTo(n, V) \subseteq UpTo(n, W) \union {y}
<1> DEFINE V == Visible(set, list)
           W == Visible(set \union {x}, list)
<1>1. V \in SUBSET Splits /\ W \in SUBSET Splits /\ x \notin V
      /\ W \intersect set \subseteq V /\ V \subseteq set
  BY DEF Visible
<1>2. CASE Belongs(x, list)
  <2>1. W = V \union {x}
    BY <1>2 DEF Visible
  <2> HIDE DEF V, W
  <2>2. /\ UpTo(n, W) \intersect V \subseteq UpTo(n, V)
        /\ \E y : After(n, W) \subseteq After(n, V) \union {y}
    BY <1>1, <2>1, OneMore
  <2>3. /\ After(n, V) \subseteq After(n, W)
        /\ \E y : UpTo(n, V) \subseteq UpTo(n, W) \union {y}
    BY <1>1, <2>1, OneLess
  <2>4. UpTo(n, W) \intersect set \subseteq UpTo(n, W) \intersect V
    BY <1>1 DEF UpTo
  <2>5. UpTo(n, W) \intersect set \subseteq UpTo(n, V)
    BY <2>2, <2>4
  <2> QED
    BY <1>1, <2>2, <2>3, <2>5 DEF V, W
<1>3. CASE ~Belongs(x, list)
  <2>1. W = V
    BY <1>3 DEF Visible
  <2> HIDE DEF V, W
  <2> QED
    BY <1>1, <2>1 DEF V, W
<1> QED
  BY <1>2, <1>3

LEMMA BookKeepsRead ==
    ASSUME ReadInv, NEW s \in Splits, Book(s)
    PROVE  ReadInv'
<1>1. /\ pc = "reading" /\ (page > 1 \/ Second) /\ inserted + deleted < MaxChanges
      /\ s \notin ledger /\ ledger' = ledger \union {s} /\ inserted' = inserted + 1
      /\ UNCHANGED <<pc, digest, asked, page, splits, history, report, before, staying, deleted>>
  BY DEF Book, Changeable
<1>2. /\ TypeOK /\ CourseInv /\ KindInv /\ ChangesInv /\ MissedInv /\ RepeatedInv
      /\ page \in Nat \ {0} /\ ledger \in SUBSET Splits
      /\ splits \in Seq(Splits) /\ history \in Seq(Splits)
      /\ inserted \in Nat /\ deleted \in Nat /\ MaxChanges \in Nat
      /\ staying \subseteq Splits /\ before \subseteq Splits
  BY LedgerReaderAssumption DEF ReadInv, TypeOK
<1>3. /\ Reading /\ Measured /\ Reading' /\ Measured' /\ ~Complete'
      /\ Second' = Second /\ Covered' = Covered
  BY <1>1 DEF Reading, Measured, Complete, Second, Covered
<1>4. Covered \in Nat
  BY <1>2, PageFacts
<1>5. staying \subseteq ledger
  BY <1>2, <1>3 DEF ChangesInv
<1> DEFINE V == Visible(ledger, asked)
           W == Visible(ledger \union {s}, asked)
<1>6. /\ V \in SUBSET Splits /\ UpTo(Covered, W) \intersect ledger \subseteq UpTo(Covered, V)
      /\ \E y : After(Covered, W) \subseteq After(Covered, V) \union {y}
  BY <1>1, <1>2, <1>4, VisibleWithOneMore
<1>7. TypeOK'
  <2>1. inserted + 1 \in Nat /\ (inserted + 1) + deleted =< MaxChanges
    BY <1>1, <1>2
  <2> QED
    BY <1>1, <1>2, <2>1 DEF TypeOK
<1>8. CourseInv'
  BY <1>1, <1>2, <1>3 DEF CourseInv, Reading
<1>9. KindInv'
  BY <1>1, <1>2 DEF KindInv
<1>10. ChangesInv'
  <2> DEFINE new == (ledger' \union ToSet(history) \union ToSet(splits)) \ before
             old == (ledger \union ToSet(history) \union ToSet(splits)) \ before
  <2>1. new \subseteq old \union {s}
    BY <1>1
  <2>2. IsFiniteSet(old)
    <3>1. old \subseteq Splits
      BY <1>2, SetOfSeq
    <3> QED
      BY <3>1, SplitsFacts, FS_Subset
  <2>3. Cardinality(old) =< inserted
    BY <1>2, <1>3 DEF ChangesInv
  <2> HIDE DEF old, new
  <2>4. Cardinality(new) =< inserted + 1
    BY <1>2, <2>1, <2>2, <2>3, GrowsByOne
  <2>5. Cardinality(before \ staying) =< deleted /\ staying \subseteq ledger'
    BY <1>1, <1>2, <1>3 DEF ChangesInv
  <2> QED
    BY <1>1, <2>4, <2>5 DEF ChangesInv, new
<1>11. MissedInv'
  <2>1. MissedBefore' = MissedBefore
    BY <1>1, <1>3 DEF MissedBefore
  <2>2. MissedHere' = (UpTo(Covered, W) \intersect staying) \ ToSet(splits)
    BY <1>1, <1>3 DEF MissedHere
  <2>3. MissedHere = (UpTo(Covered, V) \intersect staying) \ ToSet(splits)
    BY <1>3 DEF MissedHere
  <2>4. MissedHere' \subseteq MissedHere
    BY <1>5, <1>6, <2>2, <2>3
  <2>5. IsFiniteSet(MissedBefore \union MissedHere)
    <3>1. MissedBefore \union MissedHere \subseteq Splits
      BY <1>2, <2>3 DEF MissedBefore, Visible
    <3> QED
      BY <3>1, SplitsFacts, FS_Subset
  <2>6. Cardinality(MissedBefore \union MissedHere) =< deleted
    BY <1>2, <1>3 DEF MissedInv
  <2>7. MissedBefore' \union MissedHere' \subseteq MissedBefore \union MissedHere
    BY <2>1, <2>4
  <2>8. Cardinality(MissedBefore' \union MissedHere') =< deleted
    BY <1>2, <2>5, <2>6, <2>7, Shrinks
  <2> QED
    BY <1>1, <2>8 DEF MissedInv
<1>12. RepeatedInv'
  <2>1. ToRepeat = After(Covered, V) \intersect ToSet(splits)
    BY <1>3 DEF ToRepeat
  <2>2. ToRepeat' = After(Covered, W) \intersect ToSet(splits)
    BY <1>1, <1>3 DEF ToRepeat
  <2>3. PICK y : After(Covered, W) \subseteq After(Covered, V) \union {y}
    BY <1>6
  <2>4. ToRepeat' \subseteq ToRepeat \union {y}
    BY <2>1, <2>2, <2>3
  <2>5. IsFiniteSet(ToRepeat)
    <3>1. ToRepeat \subseteq Splits
      BY <1>6, <2>1 DEF After
    <3> QED
      BY <3>1, SplitsFacts, FS_Subset
  <2>6. Cardinality(ToRepeat) \in Nat
    BY <2>5, FS_CardinalityType
  <2>7. Cardinality(ToRepeat') \in Nat /\ Cardinality(ToRepeat') =< Cardinality(ToRepeat) + 1
    <3>1. Cardinality(ToRepeat) =< Cardinality(ToRepeat)
      BY <2>6
    <3> QED
      BY <2>4, <2>5, <2>6, <3>1, GrowsByOne
  <2>8. /\ Len(history) \in Nat /\ Len(splits) \in Nat
        /\ Cardinality(ToSet(history)) \in Nat /\ Cardinality(ToSet(splits)) \in Nat
    BY <1>2, SetOfSeq
  <2>9. Len(history) + Len(splits) + Cardinality(ToRepeat)
          =< inserted + Cardinality(ToSet(history)) + Cardinality(ToSet(splits))
    BY <1>2, <1>3 DEF RepeatedInv
  <2> DEFINE again == Cardinality(ToRepeat')
  <2>10. again \in Nat /\ again =< Cardinality(ToRepeat) + 1
    BY <2>7
  <2> HIDE DEF again
  <2>11. Len(history) + Len(splits) + again
          =< (inserted + 1) + Cardinality(ToSet(history)) + Cardinality(ToSet(splits))
    <3> DEFINE left == Cardinality(ToRepeat)
               first == Cardinality(ToSet(history))
               here == Cardinality(ToSet(splits))
               read == Len(history) + Len(splits)
    <3>1. left \in Nat /\ first \in Nat /\ here \in Nat /\ read \in Nat /\ inserted \in Nat
      BY <1>2, <2>6, <2>8
    <3>2. read + left =< inserted + first + here
      BY <2>9
    <3> HIDE DEF left, first, here, read
    <3>3. again \in Nat /\ again =< left + 1
      BY <2>10 DEF left
    <3>4. read + again =< (inserted + 1) + first + here
      BY <3>1, <3>2, <3>3
    <3> QED
      BY <3>4 DEF read, first, here
  <2> QED
    BY <1>1, <2>11 DEF RepeatedInv, again
<1>13. PeaceInv'
  <2>1. (inserted + 1) + deleted # 0
    BY <1>2
  <2> QED
    BY <1>1, <2>1 DEF PeaceInv
<1> QED
  BY <1>7, <1>8, <1>9, <1>10, <1>11, <1>12, <1>13 DEF ReadInv

LEMMA DeleteKeepsRead ==
    ASSUME ReadInv, NEW s \in Splits, Delete(s)
    PROVE  ReadInv'
<1>1. /\ pc = "reading" /\ (page > 1 \/ Second) /\ inserted + deleted < MaxChanges
      /\ s \in ledger /\ ledger' = ledger \ {s} /\ deleted' = deleted + 1
      /\ staying' = staying \ {s}
      /\ UNCHANGED <<pc, digest, asked, page, splits, history, report, before, inserted>>
  BY DEF Delete, Changeable
<1>2. /\ TypeOK /\ CourseInv /\ KindInv /\ ChangesInv /\ MissedInv /\ RepeatedInv
      /\ page \in Nat \ {0} /\ ledger \in SUBSET Splits
      /\ splits \in Seq(Splits) /\ history \in Seq(Splits)
      /\ inserted \in Nat /\ deleted \in Nat /\ MaxChanges \in Nat
      /\ staying \subseteq Splits /\ before \subseteq Splits /\ staying \subseteq before
  BY LedgerReaderAssumption DEF ReadInv, TypeOK
<1>3. /\ Reading /\ Measured /\ Reading' /\ Measured' /\ ~Complete'
      /\ Second' = Second /\ Covered' = Covered
  BY <1>1 DEF Reading, Measured, Complete, Second, Covered
<1>4. Covered \in Nat
  BY <1>2, PageFacts
<1>5. staying \subseteq ledger
  BY <1>2, <1>3 DEF ChangesInv
<1> DEFINE V == Visible(ledger \ {s}, asked)
           W == Visible(ledger, asked)
<1>6. /\ V \in SUBSET Splits /\ W \in SUBSET Splits
      /\ After(Covered, V) \subseteq After(Covered, W)
      /\ \E y : UpTo(Covered, V) \subseteq UpTo(Covered, W) \union {y}
  <2>1. (ledger \ {s}) \union {s} = ledger /\ ledger \ {s} \in SUBSET Splits /\ s \notin ledger \ {s}
    BY <1>1, <1>2
  <2> DEFINE rest == ledger \ {s}
  <2>2. rest \in SUBSET Splits /\ s \notin rest /\ rest \union {s} = ledger
    BY <2>1
  <2> HIDE DEF rest
  <2> DEFINE U == Visible(rest \union {s}, asked)
  <2>3. /\ Visible(rest, asked) \in SUBSET Splits /\ U \in SUBSET Splits
        /\ After(Covered, Visible(rest, asked)) \subseteq After(Covered, U)
        /\ \E y : UpTo(Covered, Visible(rest, asked)) \subseteq UpTo(Covered, U) \union {y}
    BY <1>4, <2>2, VisibleWithOneMore
  <2> QED
    BY <2>2, <2>3 DEF rest
<1>7. TypeOK'
  <2>1. deleted + 1 \in Nat /\ inserted + (deleted + 1) =< MaxChanges
    BY <1>1, <1>2
  <2> QED
    BY <1>1, <1>2, <2>1 DEF TypeOK
<1>8. CourseInv'
  BY <1>1, <1>2, <1>3 DEF CourseInv, Reading
<1>9. KindInv'
  BY <1>1, <1>2 DEF KindInv
<1>10. ChangesInv'
  <2> DEFINE new == before \ staying'
             old == before \ staying
  <2>1. new \subseteq old \union {s}
    BY <1>1
  <2>2. IsFiniteSet(old)
    <3>1. old \subseteq Splits
      BY <1>2
    <3> QED
      BY <3>1, SplitsFacts, FS_Subset
  <2>3. Cardinality(old) =< deleted
    BY <1>2, <1>3 DEF ChangesInv
  <2> HIDE DEF old, new
  <2>4. Cardinality(new) =< deleted + 1
    BY <1>2, <2>1, <2>2, <2>3, GrowsByOne
  <2>5. Cardinality((ledger' \union ToSet(history) \union ToSet(splits)) \ before) =< inserted
    <3> DEFINE all == (ledger \union ToSet(history) \union ToSet(splits)) \ before
               less == (ledger' \union ToSet(history) \union ToSet(splits)) \ before
    <3>1. less \subseteq all
      BY <1>1
    <3>2. all \subseteq Splits
      BY <1>2, SetOfSeq
    <3>3. IsFiniteSet(all)
      BY <3>2, SplitsFacts, FS_Subset
    <3>4. Cardinality(all) =< inserted
      BY <1>2, <1>3 DEF ChangesInv
    <3> HIDE DEF all, less
    <3>5. Cardinality(less) =< inserted
      BY <1>2, <3>1, <3>3, <3>4, Shrinks
    <3> QED
      BY <3>5 DEF less
  <2>6. staying' \subseteq ledger'
    BY <1>1, <1>5
  <2> QED
    BY <1>1, <2>4, <2>5, <2>6 DEF ChangesInv, new
<1>11. MissedInv'
  <2>1. MissedBefore' \subseteq MissedBefore
    BY <1>1, <1>3 DEF MissedBefore, Visible
  <2>2. MissedHere' = (UpTo(Covered, V) \intersect (staying \ {s})) \ ToSet(splits)
    BY <1>1, <1>3 DEF MissedHere
  <2>3. MissedHere = (UpTo(Covered, W) \intersect staying) \ ToSet(splits)
    BY <1>3 DEF MissedHere
  <2>4. PICK y : UpTo(Covered, V) \subseteq UpTo(Covered, W) \union {y}
    BY <1>6
  <2>5. MissedBefore' \union MissedHere' \subseteq (MissedBefore \union MissedHere) \union {y}
    BY <2>1, <2>2, <2>3, <2>4
  <2>6. IsFiniteSet(MissedBefore \union MissedHere)
    <3>1. MissedBefore \union MissedHere \subseteq Splits
      BY <1>2, <2>3 DEF MissedBefore, Visible
    <3> QED
      BY <3>1, SplitsFacts, FS_Subset
  <2>7. Cardinality(MissedBefore \union MissedHere) =< deleted
    BY <1>2, <1>3 DEF MissedInv
  <2>8. Cardinality(MissedBefore' \union MissedHere') =< deleted + 1
    BY <1>2, <2>5, <2>6, <2>7, GrowsByOne
  <2> QED
    BY <1>1, <2>8 DEF MissedInv
<1>12. RepeatedInv'
  <2>1. ToRepeat = After(Covered, W) \intersect ToSet(splits)
    BY <1>3 DEF ToRepeat
  <2>2. ToRepeat' = After(Covered, V) \intersect ToSet(splits)
    BY <1>1, <1>3 DEF ToRepeat
  <2>3. ToRepeat' \subseteq ToRepeat
    BY <1>6, <2>1, <2>2
  <2>4. IsFiniteSet(ToRepeat)
    <3>1. ToRepeat \subseteq Splits
      BY <1>6, <2>1 DEF After
    <3> QED
      BY <3>1, SplitsFacts, FS_Subset
  <2>5. /\ Cardinality(ToRepeat) \in Nat /\ Cardinality(ToRepeat') \in Nat
        /\ Cardinality(ToRepeat') =< Cardinality(ToRepeat)
    <3>1. IsFiniteSet(ToRepeat') /\ Cardinality(ToRepeat') =< Cardinality(ToRepeat)
      BY <2>3, <2>4, FS_Subset
    <3> QED
      BY <2>4, <3>1, FS_CardinalityType
  <2>6. /\ Len(history) \in Nat /\ Len(splits) \in Nat
        /\ Cardinality(ToSet(history)) \in Nat /\ Cardinality(ToSet(splits)) \in Nat
    BY <1>2, SetOfSeq
  <2>7. Len(history) + Len(splits) + Cardinality(ToRepeat)
          =< inserted + Cardinality(ToSet(history)) + Cardinality(ToSet(splits))
    BY <1>2, <1>3 DEF RepeatedInv
  <2> DEFINE again == Cardinality(ToRepeat')
  <2>8. again \in Nat /\ again =< Cardinality(ToRepeat)
    BY <2>5
  <2> HIDE DEF again
  <2>9. Len(history) + Len(splits) + again
          =< inserted + Cardinality(ToSet(history)) + Cardinality(ToSet(splits))
    BY <1>2, <2>5, <2>6, <2>7, <2>8
  <2> QED
    BY <1>1, <2>9 DEF RepeatedInv, again
<1>13. PeaceInv'
  <2>1. inserted + (deleted + 1) # 0
    BY <1>2
  <2> QED
    BY <1>1, <2>1 DEF PeaceInv
<1> QED
  BY <1>7, <1>8, <1>9, <1>10, <1>11, <1>12, <1>13 DEF ReadInv

-----------------------------------------------------------------------------
(* What is reported is made of what was read. *)

ReportMade ==
    \/ /\ ForTool
       /\ LET groups == DuplicateGroups(splits, DOMAIN splits) IN
          \E listed \in {groups, FirstGroups(MaxGroups, groups, splits)} :
             report = [kind |-> "duplicates", groups |-> listed, count |-> Cardinality(groups)]
    \/ report.kind = "summary" /\ ForTool /\ \E by : report = Summary(splits, by)
    \/ /\ report.kind = "search" /\ ForTool
       /\ \E category, merchant : report = Search(splits, category, merchant)
    \/ /\ ~digest
       /\ \E category, merchant, metric : report = Answer(splits, category, merchant, metric)
    \/ digest /\ report = Digest(history, splits)

ReportInv == pc = "reported" => ReportMade

LEMMA ReportStep ==
    ASSUME Report
    PROVE  /\ \E what : /\ Reported(what)
                        /\ what.kind \in {"duplicates", "summary", "search", "answer", "digest"}
           /\ ReportMade'
<1>1. CASE ReportDuplicates
  <2> DEFINE groups == DuplicateGroups(splits, DOMAIN splits)
  <2>1. PICK listed \in {groups, FirstGroups(MaxGroups, groups, splits)} :
           Reported([kind |-> "duplicates", groups |-> listed, count |-> Cardinality(groups)])
    BY <1>1 DEF ReportDuplicates
  <2>2. /\ report' = [kind |-> "duplicates", groups |-> listed, count |-> Cardinality(groups)]
        /\ splits' = splits /\ ForTool' = ForTool /\ ForTool
    BY <1>1, <2>1 DEF Reported, ReportDuplicates, ForTool
  <2>3. ReportMade'
    BY <2>2 DEF ReportMade
  <2> HIDE DEF groups
  <2> QED
    BY <2>1, <2>3
<1>2. ASSUME NEW by \in {"category", "merchant"}, ReportSummary(by)
      PROVE  Reported(Summary(splits, by)) /\ Summary(splits, by).kind = "summary" /\ ReportMade'
  <2>1. /\ Reported(Summary(splits, by)) /\ ForTool
        /\ report' = Summary(splits, by)
        /\ splits' = splits /\ digest' = digest /\ asked' = asked
    BY <1>2 DEF ReportSummary, Reported
  <2>2. Summary(splits, by).kind = "summary"
    BY DEF Summary
  <2>3. Summary(splits', by) = Summary(splits, by) /\ ForTool'
    BY <2>1 DEF ForTool
  <2>4. ReportMade'
    BY <2>1, <2>2, <2>3 DEF ReportMade
  <2> QED
    BY <2>1, <2>2, <2>4
<1>3. ASSUME NEW category, NEW merchant, ReportSearch(category, merchant)
      PROVE  /\ Reported(Search(splits, category, merchant))
             /\ Search(splits, category, merchant).kind = "search" /\ ReportMade'
  <2>1. /\ Reported(Search(splits, category, merchant)) /\ ForTool
        /\ report' = Search(splits, category, merchant)
        /\ splits' = splits /\ digest' = digest /\ asked' = asked
    BY <1>3 DEF ReportSearch, Reported
  <2>2. Search(splits, category, merchant).kind = "search"
    BY DEF Search
  <2>3. Search(splits', category, merchant) = Search(splits, category, merchant) /\ ForTool'
    BY <2>1 DEF ForTool
  <2>4. ReportMade'
    BY <2>1, <2>2, <2>3 DEF ReportMade
  <2> QED
    BY <2>1, <2>2, <2>4
<1>4. ASSUME NEW category, NEW merchant, NEW metric, ReportAnswer(category, merchant, metric)
      PROVE  /\ Reported(Answer(splits, category, merchant, metric))
             /\ Answer(splits, category, merchant, metric).kind = "answer" /\ ReportMade'
  <2>1. /\ Reported(Answer(splits, category, merchant, metric)) /\ ~digest
        /\ report' = Answer(splits, category, merchant, metric)
        /\ splits' = splits /\ digest' = digest /\ asked' = asked
    BY <1>4 DEF ReportAnswer, Reported
  <2>2. Answer(splits, category, merchant, metric).kind = "answer"
    BY DEF Answer
  <2>3. Answer(splits, category, merchant, metric)' = Answer(splits, category, merchant, metric)
    BY <2>1 DEF Answer
  <2>4. ReportMade'
    BY <2>1, <2>3 DEF ReportMade
  <2> QED
    BY <2>1, <2>2, <2>4
<1>5. CASE ReportDigest
  <2>1. Reported(Digest(history, splits)) /\ digest
    BY <1>5 DEF ReportDigest
  <2>2. Digest(history, splits).kind = "digest"
    BY DEF Digest
  <2>3. ReportMade'
    BY <2>1 DEF Reported, ReportMade
  <2> QED
    BY <2>1, <2>2, <2>3
<1> QED
  BY <1>1, <1>2, <1>3, <1>4, <1>5 DEF Report

LEMMA NextRead == ReadInv /\ ReportInv /\ [Next]_vars => ReadInv' /\ ReportInv'
<1> SUFFICES ASSUME ReadInv, ReportInv, [Next]_vars PROVE ReadInv' /\ ReportInv'
  OBVIOUS
<1>1. CASE UNCHANGED vars
  <2>1. /\ Complete' = Complete /\ Reading' = Reading /\ Second' = Second /\ Covered' = Covered
        /\ Measured' = Measured /\ ledger' = ledger /\ inserted' = inserted /\ deleted' = deleted
        /\ before' = before /\ staying' = staying /\ splits' = splits /\ history' = history
        /\ asked' = asked /\ digest' = digest /\ page' = page /\ pc' = pc /\ report' = report
    BY <1>1 DEF vars, Complete, Reading, Second, Covered, Measured
  <2>2. MissedBefore' = MissedBefore /\ MissedHere' = MissedHere /\ ToRepeat' = ToRepeat
    BY <2>1 DEF MissedBefore, MissedHere, ToRepeat
  <2>3. TypeOK' /\ CourseInv' /\ KindInv' /\ ChangesInv' /\ PeaceInv'
    BY <2>1 DEF ReadInv, TypeOK, CourseInv, KindInv, ChangesInv, PeaceInv
  <2>4. MissedInv' /\ RepeatedInv'
    BY <2>1, <2>2 DEF ReadInv, MissedInv, RepeatedInv
  <2>5. ReportInv'
    BY <2>1 DEF ReportInv, ReportMade, ForTool, Answer
  <2> QED
    BY <2>3, <2>4, <2>5 DEF ReadInv
<1>2. ASSUME NEW list \in Lists, NEW forDigest \in BOOLEAN, Begin(list, forDigest)
      PROVE  ReadInv' /\ ReportInv'
  BY <1>2, BeginKeepsRead DEF Begin, ReportInv
<1>3. CASE Fetch
  <2>1. ReadInv'
    BY <1>3, FetchCases, TurningKeepsRead, SecondListKeepsRead, CompletingKeepsRead
  <2>2. pc' # "reported"
    BY <1>3, FetchCases DEF TurnsPage, TurnsToSecond, Completes, Reading
  <2> QED
    BY <2>1, <2>2 DEF ReportInv
<1>4. CASE Unreachable
  BY <1>4, UnreachableKeepsRead DEF Unreachable, ReportInv
<1>5. ASSUME NEW s \in Splits, Book(s) PROVE ReadInv' /\ ReportInv'
  BY <1>5, BookKeepsRead DEF Book, Changeable, ReportInv
<1>6. ASSUME NEW s \in Splits, Delete(s) PROVE ReadInv' /\ ReportInv'
  BY <1>6, DeleteKeepsRead DEF Delete, Changeable, ReportInv
<1>7. CASE Report
  BY <1>7, ReportStep, ReportedKeepsRead DEF ReportInv
<1> QED
  BY <1>1, <1>2, <1>3, <1>4, <1>5, <1>6, <1>7 DEF Next

\* The accounts of a reading hold from its first page to its report.
THEOREM ReadInvHolds == Spec => [](ReadInv /\ ReportInv)
<1>1. Init => ReadInv /\ ReportInv
  BY InitRead DEF Init, ReportInv
<1>2. (ReadInv /\ ReportInv) /\ [Next]_vars => (ReadInv /\ ReportInv)'
  BY NextRead
<1> QED
  BY <1>1, <1>2, PTL DEF Spec

\* Every variable of a reading keeps its type.
THEOREM ReaderTypeCorrect == Spec => []TypeOK
<1>1. ReadInv => TypeOK
  BY DEF ReadInv
<1> QED
  BY <1>1, ReadInvHolds, PTL

-----------------------------------------------------------------------------
(* A complete reading. *)

\* What the accounts say when the lists are complete: what was missed, in each
\* list, and how often something is repeated.
LEMMA CompleteFacts ==
    ASSUME ReadInv, Complete
    PROVE  LET H == ToSet(history)
               R == ToSet(splits)
           IN  /\ staying \in SUBSET Splits /\ before \in SUBSET Splits /\ ledger \in SUBSET Splits
               /\ staying \subseteq before /\ staying \subseteq ledger
               /\ inserted \in Nat /\ deleted \in Nat
               /\ splits \in Seq(Splits) /\ history \in Seq(Splits)
               /\ Cardinality(before \ staying) =< deleted
               /\ Cardinality((ledger \union H \union R) \ before) =< inserted
               /\ Cardinality(MissedBefore \union (Visible(staying, asked) \ R)) =< deleted
               /\ Len(history) + Len(splits) =< inserted + Cardinality(H) + Cardinality(R)
               /\ \A s \in R : Belongs(s, asked)
               /\ \A s \in H : Belongs(s, FirstList)
               /\ digest => asked = SecondList /\ Second
               /\ ~digest => history = <<>> /\ ~Second
               /\ inserted + deleted = 0 =>
                    /\ splits = Listing(before, asked)
                    /\ Second => history = Listing(before, FirstList)
<1>1. /\ TypeOK /\ CourseInv /\ KindInv /\ ChangesInv /\ MissedInv /\ RepeatedInv /\ PeaceInv
      /\ Measured /\ ~Reading
  BY DEF ReadInv, Measured, Complete, Reading
<1>2. /\ staying \in SUBSET Splits /\ before \in SUBSET Splits /\ ledger \in SUBSET Splits
      /\ staying \subseteq before /\ inserted \in Nat /\ deleted \in Nat
      /\ splits \in Seq(Splits) /\ history \in Seq(Splits)
  BY <1>1 DEF TypeOK
<1>3. /\ staying \subseteq ledger /\ Cardinality(before \ staying) =< deleted
      /\ Cardinality((ledger \union ToSet(history) \union ToSet(splits)) \ before) =< inserted
  BY <1>1 DEF ChangesInv
<1>4. Cardinality(MissedBefore \union (Visible(staying, asked) \ ToSet(splits))) =< deleted
  <2>1. MissedHere = (Visible(ledger, asked) \intersect staying) \ ToSet(splits)
    BY <1>1 DEF MissedHere
  <2>2. MissedHere = Visible(staying, asked) \ ToSet(splits)
    BY <1>3, <2>1 DEF Visible
  <2> QED
    BY <1>1, <2>2 DEF MissedInv
<1>5. Len(history) + Len(splits)
        =< inserted + Cardinality(ToSet(history)) + Cardinality(ToSet(splits))
  <2>1. ToRepeat = {}
    BY <1>1 DEF ToRepeat
  <2>2. Cardinality(ToRepeat) = 0
    BY <2>1, FS_EmptySet
  <2>3. Len(history) \in Nat /\ Len(splits) \in Nat
    BY <1>2, SetOfSeq
  <2>4. Len(history) + Len(splits) + 0
        =< inserted + Cardinality(ToSet(history)) + Cardinality(ToSet(splits))
    BY <1>1, <2>2 DEF RepeatedInv
  <2> QED
    BY <2>3, <2>4
<1>6. (\A s \in ToSet(splits) : Belongs(s, asked)) /\ \A s \in ToSet(history) : Belongs(s, FirstList)
  BY <1>1 DEF KindInv
<1>7. (digest => asked = SecondList /\ Second) /\ (~digest => history = <<>> /\ ~Second)
  <2>1. digest => Second /\ asked \in {FirstList, SecondList}
    BY <1>1 DEF CourseInv
  <2>2. ~Second => history = <<>>
    BY <1>1 DEF CourseInv
  <2>3. Second => digest /\ asked[1] = "deposit"
    BY DEF Second
  <2> QED
    BY <2>1, <2>2, <2>3 DEF FirstList
<1>8. inserted + deleted = 0 =>
        splits = Listing(before, asked) /\ (Second => history = Listing(before, FirstList))
  BY <1>1 DEF PeaceInv
<1> QED
  BY <1>2, <1>3, <1>4, <1>5, <1>6, <1>7, <1>8

\* The lists of a digest have nothing in common.
LEMMA ListsAreDisjoint ==
    ASSUME ReadInv, Complete
    PROVE  ToSet(history) \intersect ToSet(splits) = {}
<1>1. CASE digest
  <2>1. \A s \in ToSet(splits) : TypeOf[s] = "deposit"
    BY <1>1, CompleteFacts DEF Belongs, SecondList
  <2>2. \A s \in ToSet(history) : TypeOf[s] = "withdrawal"
    BY CompleteFacts DEF Belongs, FirstList
  <2> QED
    BY <2>1, <2>2
<1>2. CASE ~digest
  <2>1. history = <<>>
    BY <1>2, CompleteFacts
  <2>2. ToSet(history) = {}
    BY <2>1 DEF ToSet
  <2> QED
    BY <2>2
<1> QED
  BY <1>1, <1>2

\* Nothing is read twice without a booking, in either list.
LEMMA RepeatsAreBooked ==
    ASSUME ReadInv, Complete
    PROVE  /\ Len(history) - Cardinality(ToSet(history)) \in Nat
           /\ Len(splits) - Cardinality(ToSet(splits)) \in Nat
           /\ (Len(history) - Cardinality(ToSet(history)))
                + (Len(splits) - Cardinality(ToSet(splits))) =< inserted
           /\ inserted = 0 => IsInjective(history) /\ IsInjective(splits)
<1>1. /\ splits \in Seq(Splits) /\ history \in Seq(Splits) /\ inserted \in Nat
      /\ Len(history) + Len(splits)
           =< inserted + Cardinality(ToSet(history)) + Cardinality(ToSet(splits))
  BY CompleteFacts
<1>2. /\ Cardinality(ToSet(history)) \in Nat /\ Len(history) \in Nat
      /\ Cardinality(ToSet(history)) =< Len(history)
      /\ (Cardinality(ToSet(history)) = Len(history)) <=> IsInjective(history)
  BY <1>1, SetOfSeq
<1>3. /\ Cardinality(ToSet(splits)) \in Nat /\ Len(splits) \in Nat
      /\ Cardinality(ToSet(splits)) =< Len(splits)
      /\ (Cardinality(ToSet(splits)) = Len(splits)) <=> IsInjective(splits)
  BY <1>1, SetOfSeq
<1> DEFINE h == Cardinality(ToSet(history))
           r == Cardinality(ToSet(splits))
<1>4. /\ h \in Nat /\ Len(history) \in Nat /\ h =< Len(history)
      /\ r \in Nat /\ Len(splits) \in Nat /\ r =< Len(splits)
      /\ Len(history) + Len(splits) =< inserted + h + r
  BY <1>1, <1>2, <1>3
<1> HIDE DEF h, r
<1>5. /\ Len(history) - h \in Nat /\ Len(splits) - r \in Nat
      /\ (Len(history) - h) + (Len(splits) - r) =< inserted
  BY <1>1, <1>4
<1>6. inserted = 0 => h = Len(history) /\ r = Len(splits)
  BY <1>1, <1>4
<1>7. inserted = 0 => IsInjective(history) /\ IsInjective(splits)
  BY <1>2, <1>3, <1>6, Zenon DEF h, r
<1> QED
  BY <1>5, <1>7, Zenon DEF h, r

LEMMA OffByChanges == ReadInv => ReadIsOffByChanges
<1> SUFFICES ASSUME ReadInv, Complete
             PROVE  /\ Cardinality(ToSet(ToRead(staying)) \ ToSet(WasRead)) =< deleted
                    /\ Len(WasRead) - Cardinality(ToSet(WasRead)) =< inserted
                    /\ inserted + deleted = 0 => WasRead = ToRead(before)
  BY DEF ReadIsOffByChanges
<1>1. /\ staying \in SUBSET Splits /\ before \in SUBSET Splits /\ inserted \in Nat /\ deleted \in Nat
      /\ splits \in Seq(Splits) /\ history \in Seq(Splits)
      /\ Cardinality(MissedBefore \union (Visible(staying, asked) \ ToSet(splits))) =< deleted
      /\ digest => asked = SecondList /\ Second
      /\ ~digest => history = <<>> /\ ~Second
      /\ inserted + deleted = 0 =>
           /\ splits = Listing(before, asked)
           /\ Second => history = Listing(before, FirstList)
  BY CompleteFacts
<1>2. /\ WasRead = history \o splits /\ ToSet(WasRead) = ToSet(history) \union ToSet(splits)
      /\ Len(WasRead) = Len(history) + Len(splits)
  BY <1>1, ConcatSet DEF WasRead
<1>3. ToSet(ToRead(staying)) \ ToSet(WasRead)
        \subseteq MissedBefore \union (Visible(staying, asked) \ ToSet(splits))
  <2>1. ToSet(Listing(staying, asked)) = Visible(staying, asked) /\ Listing(staying, asked) \in Seq(Splits)
    BY <1>1, ListingFacts
  <2>2. /\ ToSet(Listing(staying, FirstList)) = Visible(staying, FirstList)
        /\ Listing(staying, FirstList) \in Seq(Splits)
    BY <1>1, ListingFacts
  <2>3. CASE digest
    <3>1. ToRead(staying) = Listing(staying, FirstList) \o Listing(staying, asked)
      BY <1>1, <2>3 DEF ToRead, FirstList, SecondList
    <3>2. ToSet(ToRead(staying)) = Visible(staying, FirstList) \union Visible(staying, asked)
      BY <2>1, <2>2, <3>1, ConcatSet
    <3>3. MissedBefore = Visible(staying, FirstList) \ ToSet(history)
      BY <1>1, <2>3 DEF MissedBefore
    <3> QED
      BY <1>2, <3>2, <3>3
  <2>4. CASE ~digest
    <3>1. ToSet(ToRead(staying)) = Visible(staying, asked)
      BY <2>1, <2>4 DEF ToRead
    <3> QED
      BY <1>2, <3>1
  <2> QED
    BY <2>3, <2>4
<1>4. Cardinality(ToSet(ToRead(staying)) \ ToSet(WasRead)) =< deleted
  <2> DEFINE missed == MissedBefore \union (Visible(staying, asked) \ ToSet(splits))
             gone == ToSet(ToRead(staying)) \ ToSet(WasRead)
  <2>1. IsFiniteSet(missed)
    <3>1. missed \subseteq Splits
      BY <1>1 DEF MissedBefore, Visible
    <3> QED
      BY <3>1, SplitsFacts, FS_Subset
  <2>2. gone \subseteq missed /\ Cardinality(missed) =< deleted
    BY <1>1, <1>3
  <2> HIDE DEF gone, missed
  <2>3. Cardinality(gone) =< deleted
    BY <1>1, <2>1, <2>2, Shrinks
  <2> QED
    BY <2>3 DEF gone
<1>5. Len(WasRead) - Cardinality(ToSet(WasRead)) =< inserted
  <2>1. IsFiniteSet(ToSet(history)) /\ IsFiniteSet(ToSet(splits))
    BY <1>1, SetOfSeq
  <2>2. Cardinality(ToSet(history) \union ToSet(splits))
          = Cardinality(ToSet(history)) + Cardinality(ToSet(splits)) - Cardinality({})
    BY <2>1, FS_Union, ListsAreDisjoint
  <2>3. Cardinality(ToSet(history)) \in Nat /\ Cardinality(ToSet(splits)) \in Nat
    BY <2>1, FS_CardinalityType
  <2>4. Cardinality(ToSet(WasRead)) = Cardinality(ToSet(history)) + Cardinality(ToSet(splits))
    BY <1>2, <2>2, <2>3, FS_EmptySet
  <2>5. Len(history) \in Nat /\ Len(splits) \in Nat
    BY <1>1, SetOfSeq
  <2> QED
    BY <1>1, <1>2, <2>3, <2>4, <2>5, RepeatsAreBooked
<1>6. ASSUME inserted + deleted = 0 PROVE WasRead = ToRead(before)
  <2>1. splits = Listing(before, asked) /\ (Second => history = Listing(before, FirstList))
    BY <1>1, <1>6
  <2>2. CASE digest
    BY <1>1, <1>2, <2>1, <2>2 DEF ToRead, FirstList, SecondList
  <2>3. CASE ~digest
    <3>1. history \o splits = splits
      BY <1>1, <2>3, ConcatEmptySeq
    <3> QED
      BY <1>2, <2>1, <2>3, <3>1 DEF ToRead
  <2> QED
    BY <2>2, <2>3
<1> QED
  BY <1>4, <1>5, <1>6

\* A complete reading misses no more than was deleted, repeats no more than was
\* booked, and is exact in peace, however the pages fall.
THEOREM ReadingsAreOffByChanges == Spec => []ReadIsOffByChanges
  BY OffByChanges, ReadInvHolds, PTL

-----------------------------------------------------------------------------
(* Groups of charges. *)

\* A pair in the list is a pair in the ledger when no place is repeated.
LEMMA GroupsArePairs ==
    ASSUME NEW seq \in Seq(Splits), IsInjective(seq), NEW places \in SUBSET DOMAIN seq,
           NEW C, \A i \in places : seq[i] \in C
    PROVE  DuplicateGroups(seq, places) \subseteq PairsIn(C)
<1> SUFFICES ASSUME NEW g \in DuplicateGroups(seq, places) PROVE g \in PairsIn(C)
  OBVIOUS
<1>1. PICK i \in places : /\ g = Key(seq[i]) /\ IsCharge(seq[i])
                          /\ \E j \in places \ {i} : Key(seq[j]) = Key(seq[i])
  BY DEF DuplicateGroups
<1>2. PICK j \in places \ {i} : Key(seq[j]) = Key(seq[i])
  BY <1>1
<1>3. seq[i] \in C /\ seq[j] \in C
  BY <1>2
<1>4. seq[j] # seq[i]
  BY <1>2 DEF IsInjective
<1> QED
  BY <1>1, <1>2, <1>3, <1>4 DEF PairsIn

\* A pair of the ledger whose two charges are in the list is a group of it.
LEMMA PairsAreGroups ==
    ASSUME NEW seq, NEW places, NEW C, \A s \in C : \E i \in places : seq[i] = s
    PROVE  PairsIn(C) \subseteq DuplicateGroups(seq, places)
<1> SUFFICES ASSUME NEW g \in PairsIn(C) PROVE g \in DuplicateGroups(seq, places)
  OBVIOUS
<1>1. PICK s \in C : g = Key(s) /\ IsCharge(s) /\ \E t \in C \ {s} : Key(s) = Key(t)
  BY DEF PairsIn
<1>2. PICK t \in C \ {s} : Key(s) = Key(t)
  BY <1>1
<1>3. PICK i \in places : seq[i] = s
  OBVIOUS
<1>4. PICK j \in places : seq[j] = t
  BY <1>2
<1>5. j # i
  BY <1>2, <1>3, <1>4
<1> QED
  BY <1>1, <1>2, <1>3, <1>4, <1>5 DEF DuplicateGroups

LEMMA Smallest ==
    ASSUME NEW S \in SUBSET Int, IsFiniteSet(S), S # {}
    PROVE  Min(S) \in S /\ \A y \in S : Min(S) =< y
<1> DEFINE itself == [i \in S |-> i]
<1>1. Ordered(S, itself)
  BY DEF Ordered
<1>2. Cardinality(S) \in Nat /\ Cardinality(S) # 0
  BY FS_CardinalityType, FS_EmptySet
<1>3. PICK x \in S : Rank(x, S, itself) = 1
  <2>1. 1 \in 1 .. Cardinality(S)
    BY <1>2
  <2> HIDE DEF itself
  <2> QED
    BY <1>1, <2>1, RankIsOnto
<1>4. \A y \in S : x =< y
  <2> SUFFICES ASSUME NEW y \in S, ~(x =< y) PROVE FALSE
    OBVIOUS
  <2>1. itself[y] < itself[x]
    OBVIOUS
  <2>2. Rank(y, S, itself) < Rank(x, S, itself)
    BY <1>1, <2>1, RankIsMonotone
  <2>3. Rank(y, S, itself) \in Nat /\ Rank(y, S, itself) >= 1
    BY <1>1, RankBounds
  <2> QED
    BY <1>3, <2>2, <2>3
<1> QED
  BY <1>4 DEF Min

\* Of the groups that occur in a list the first ones are listed, as many as asked
\* for if there are not fewer.
LEMMA FirstOfTheGroups ==
    ASSUME NEW seq \in Seq(Splits), NEW groups, IsFiniteSet(groups), NEW n \in Nat,
           \A g \in groups : \E i \in DOMAIN seq : Key(seq[i]) = g
    PROVE  LET listed == FirstGroups(n, groups, seq)
           IN  /\ listed \subseteq groups
               /\ listed = groups \/ Cardinality(listed) >= n
<1> DEFINE at(g) == {i \in DOMAIN seq : Key(seq[i]) = g}
           first == [g \in groups |-> Min(at(g))]
           listed == {g \in groups : Rank(g, groups, first) =< n}
<1>1. FirstGroups(n, groups, seq) = listed
  BY DEF FirstGroups
<1>2. ASSUME NEW g \in groups PROVE first[g] \in Int /\ Key(seq[first[g]]) = g
  <2>1. DOMAIN seq = 1 .. Len(seq) /\ Len(seq) \in Nat
    BY LenProperties
  <2>2. IsFiniteSet(1 .. Len(seq))
    BY <2>1, IntervalSize
  <2>3. at(g) \in SUBSET (1 .. Len(seq)) /\ at(g) # {}
    BY <1>2, <2>1
  <2>4. IsFiniteSet(at(g))
    BY <2>2, <2>3, FS_Subset
  <2>5. at(g) \in SUBSET Int
    BY <2>1, <2>3
  <2> HIDE DEF at
  <2>6. Min(at(g)) \in at(g)
    BY <2>3, <2>4, <2>5, Smallest
  <2>7. first[g] \in at(g)
    BY <1>2, <2>6
  <2>8. first[g] \in Int
    BY <2>5, <2>7
  <2> HIDE DEF first
  <2> QED
    BY <2>7, <2>8 DEF at
<1>3. Ordered(groups, first)
  <2> HIDE DEF first
  <2>1. \A g, h \in groups : first[g] = first[h] => g = h
    BY <1>2
  <2> QED
    BY <1>2, <2>1 DEF Ordered
<1> HIDE DEF first
<1>4. listed \subseteq groups
  OBVIOUS
<1>5. ASSUME listed # groups PROVE Cardinality(listed) >= n
  <2>1. PICK g \in groups : ~(Rank(g, groups, first) =< n)
    BY <1>5
  <2>2. Cardinality(groups) \in Nat /\ Cardinality(groups) > n
    <3>1. /\ Rank(g, groups, first) \in Nat
          /\ Rank(g, groups, first) =< Cardinality(groups) /\ Cardinality(groups) \in Nat
      BY <1>3, <2>1, RankBounds, FS_CardinalityType
    <3> QED
      BY <2>1, <3>1
  <2> DEFINE f == [k \in 1 .. n |-> CHOOSE h \in groups : Rank(h, groups, first) = k]
  <2>3. \A k \in 1 .. n : \E h \in groups : Rank(h, groups, first) = k
    <3>1. \A k \in 1 .. n : k \in 1 .. Cardinality(groups)
      BY <2>2
    <3> QED
      BY <1>3, <3>1, RankIsOnto
  <2>4. \A k \in 1 .. n : f[k] \in groups /\ Rank(f[k], groups, first) = k
    BY <2>3
  <2>5. \A k \in 1 .. n : k =< n
    OBVIOUS
  <2>6. f \in [1 .. n -> listed]
    BY <2>4, <2>5
  <2> HIDE DEF f, listed
  <2>7. \A k, l \in 1 .. n : f[k] = f[l] => k = l
    BY <2>4
  <2>8. f \in Injection(1 .. n, listed)
    BY <2>6, <2>7, Fun_IsInj
  <2>9. IsFiniteSet(listed)
    BY <1>4, FS_Subset
  <2>10. Cardinality(1 .. n) =< Cardinality(listed)
    BY <2>8, <2>9, FS_Injection
  <2>11. Cardinality(1 .. n) = n
    BY IntervalSize
  <2>12. Cardinality(listed) \in Nat
    BY <2>9, FS_CardinalityType
  <2> QED
    BY <2>10, <2>11, <2>12
<1> QED
  BY <1>1, <1>4, <1>5

LEMMA GroupsAreFinite ==
    ASSUME NEW seq \in Seq(Splits)
    PROVE  LET groups == DuplicateGroups(seq, DOMAIN seq)
           IN  /\ IsFiniteSet(groups)
               /\ \A g \in groups : \E i \in DOMAIN seq : Key(seq[i]) = g
<1> DEFINE groups == DuplicateGroups(seq, DOMAIN seq)
           f == [i \in DOMAIN seq |-> Key(seq[i])]
           keys == {Key(seq[i]) : i \in DOMAIN seq}
<1>1. DOMAIN seq = 1 .. Len(seq) /\ Len(seq) \in Nat
  BY LenProperties
<1>2. IsFiniteSet(DOMAIN seq)
  BY <1>1, IntervalSize
<1>3. f \in [DOMAIN seq -> keys] /\ \A k \in keys : \E i \in DOMAIN seq : f[i] = k
  OBVIOUS
<1> HIDE DEF f
<1>4. IsFiniteSet(keys)
  <2> HIDE DEF keys
  <2>1. f \in Surjection(DOMAIN seq, keys)
    BY <1>3, Fun_IsSurj
  <2> QED
    BY <1>2, <2>1, FS_Surjection
<1>5. groups \subseteq keys
  BY DEF DuplicateGroups
<1>6. IsFiniteSet(groups)
  BY <1>4, <1>5, FS_Subset
<1>7. \A g \in groups : \E i \in DOMAIN seq : Key(seq[i]) = g
  BY <1>5
<1> QED
  BY <1>6, <1>7

-----------------------------------------------------------------------------
(* The alarms. *)

\* What there is of the changes when none came, or none went.
LEMMA NothingBooked ==
    ASSUME ReadInv, Complete, inserted = 0
    PROVE  /\ ToSet(history) \subseteq before /\ ToSet(splits) \subseteq before
           /\ IsInjective(history) /\ IsInjective(splits)
<1> DEFINE new == (ledger \union ToSet(history) \union ToSet(splits)) \ before
<1>1. /\ ledger \in SUBSET Splits /\ splits \in Seq(Splits) /\ history \in Seq(Splits)
      /\ Cardinality(new) =< inserted
  BY CompleteFacts
<1>2. IsFiniteSet(new)
  <2>1. new \subseteq Splits
    BY <1>1, SetOfSeq
  <2> QED
    BY <2>1, SplitsFacts, FS_Subset
<1>3. new = {}
  <2> HIDE DEF new
  <2>1. Cardinality(new) = 0
    BY <1>1, <1>2, FS_CardinalityType
  <2> QED
    BY <1>2, <2>1, FS_EmptySet
<1> QED
  BY <1>3, RepeatsAreBooked

LEMMA NothingDeleted ==
    ASSUME ReadInv, Complete, deleted = 0
    PROVE  /\ Visible(staying, asked) \subseteq ToSet(splits)
           /\ digest => Visible(staying, FirstList) \subseteq ToSet(history)
<1> DEFINE missed == MissedBefore \union (Visible(staying, asked) \ ToSet(splits))
<1>1. staying \in SUBSET Splits /\ Cardinality(missed) =< deleted /\ (digest => Second)
  BY CompleteFacts
<1>2. IsFiniteSet(missed)
  <2>1. missed \subseteq Splits
    BY <1>1 DEF MissedBefore, Visible
  <2> QED
    BY <2>1, SplitsFacts, FS_Subset
<1>3. missed = {}
  <2> HIDE DEF missed
  <2>1. Cardinality(missed) = 0
    BY <1>1, <1>2, FS_CardinalityType
  <2> QED
    BY <1>2, <2>1, FS_EmptySet
<1>4. digest => MissedBefore = Visible(staying, FirstList) \ ToSet(history)
  BY <1>1 DEF MissedBefore
<1> QED
  BY <1>3, <1>4

Charges(set) == ToSet(Listing(set, IF digest THEN <<"withdrawal", "week">> ELSE asked))

LEMMA ChargesFacts ==
    ASSUME ReadInv
    PROVE  /\ digest => /\ Charges(before) = Visible(before, <<"withdrawal", "week">>)
                        /\ Charges(staying) = Visible(staying, <<"withdrawal", "week">>)
           /\ ~digest => /\ Charges(before) = Visible(before, asked)
                         /\ Charges(staying) = Visible(staying, asked)
<1>1. before \in SUBSET Splits /\ staying \in SUBSET Splits
  BY DEF ReadInv, TypeOK
<1>2. \A set \in SUBSET Splits : \A list : ToSet(Listing(set, list)) = Visible(set, list)
  BY ListingFacts
<1> QED
  BY <1>1, <1>2 DEF Charges

LEMMA ToolAlarms ==
    ASSUME ReadInv, Complete, ForTool,
           NEW listed \in {DuplicateGroups(splits, DOMAIN splits),
                           FirstGroups(MaxGroups, DuplicateGroups(splits, DOMAIN splits), splits)}
    PROVE  LET groups == DuplicateGroups(splits, DOMAIN splits)
           IN  /\ inserted = 0 => listed \subseteq PairsIn(Charges(before))
               /\ deleted = 0 =>
                     \/ PairsIn(Charges(staying)) \subseteq listed
                     \/ /\ Cardinality(listed) >= MaxGroups
                        /\ Cardinality(groups) >= Cardinality(PairsIn(Charges(staying)))
<1> DEFINE groups == DuplicateGroups(splits, DOMAIN splits)
<1>1. ~digest /\ splits \in Seq(Splits) /\ (\A s \in ToSet(splits) : Belongs(s, asked)) /\ MaxGroups \in Nat
  BY CompleteFacts, LedgerReaderAssumption DEF ForTool
<1>2. Charges(before) = Visible(before, asked) /\ Charges(staying) = Visible(staying, asked)
  BY <1>1, ChargesFacts
<1>3. \A i \in DOMAIN splits : splits[i] \in ToSet(splits)
  BY DEF ToSet
<1>4. IsFiniteSet(groups) /\ \A g \in groups : \E i \in DOMAIN splits : Key(splits[i]) = g
  BY <1>1, GroupsAreFinite
<1>5. listed \subseteq groups /\ (listed = groups \/ Cardinality(listed) >= MaxGroups)
  <2> HIDE DEF groups
  <2>1. listed \in {groups, FirstGroups(MaxGroups, groups, splits)}
    BY DEF groups
  <2> QED
    BY <1>1, <1>4, <2>1, FirstOfTheGroups
<1>6. ASSUME inserted = 0 PROVE listed \subseteq PairsIn(Charges(before))
  <2>1. IsInjective(splits) /\ \A i \in DOMAIN splits : splits[i] \in Charges(before)
    BY <1>1, <1>2, <1>3, <1>6, NothingBooked DEF Visible
  <2>2. groups \subseteq PairsIn(Charges(before))
    BY <1>1, <2>1, GroupsArePairs
  <2> QED
    BY <1>5, <2>2
<1>7. ASSUME deleted = 0
      PROVE  \/ PairsIn(Charges(staying)) \subseteq listed
             \/ /\ Cardinality(listed) >= MaxGroups
                /\ Cardinality(groups) >= Cardinality(PairsIn(Charges(staying)))
  <2>1. \A s \in Charges(staying) : \E i \in DOMAIN splits : splits[i] = s
    BY <1>2, <1>7, NothingDeleted DEF ToSet
  <2>2. PairsIn(Charges(staying)) \subseteq groups
    BY <2>1, PairsAreGroups
  <2> HIDE DEF groups
  <2> DEFINE pairs == PairsIn(Charges(staying))
  <2>3. pairs \in SUBSET groups
    BY <2>2
  <2> HIDE DEF pairs
  <2>4. IsFiniteSet(pairs) /\ Cardinality(pairs) =< Cardinality(groups)
    BY <1>4, <2>3, FS_Subset
  <2>5. Cardinality(groups) \in Nat /\ Cardinality(pairs) \in Nat
    BY <1>4, <2>4, FS_CardinalityType
  <2>6. Cardinality(groups) >= Cardinality(pairs)
    BY <2>4, <2>5
  <2> QED
    BY <1>5, <2>3, <2>6 DEF pairs
<1> QED
  BY <1>6, <1>7

LEMMA DigestAlarms ==
    ASSUME ReadInv, Complete, digest
    PROVE  LET groups == DuplicateGroups(history, {i \in DOMAIN history : history[i] \in Week})
           IN  /\ inserted = 0 => groups \subseteq PairsIn(Charges(before))
               /\ deleted = 0 => PairsIn(Charges(staying)) \subseteq groups
<1> DEFINE week == {i \in DOMAIN history : history[i] \in Week}
           list == <<"withdrawal", "week">>
<1>1. history \in Seq(Splits) /\ \A s \in ToSet(history) : Belongs(s, FirstList)
  BY CompleteFacts
<1>2. Charges(before) = Visible(before, list) /\ Charges(staying) = Visible(staying, list)
  BY ChargesFacts
<1>3. \A i \in DOMAIN history : history[i] \in ToSet(history)
  BY DEF ToSet
<1>4. \A s : Belongs(s, FirstList) /\ s \in Week => Belongs(s, list)
  BY DEF Belongs, FirstList
<1>5. \A s : Belongs(s, list) => Belongs(s, FirstList) /\ s \in Week
  BY DEF Belongs, FirstList
<1>6. ASSUME inserted = 0 PROVE DuplicateGroups(history, week) \subseteq PairsIn(Charges(before))
  <2>1. IsInjective(history) /\ \A i \in week : history[i] \in Charges(before)
    BY <1>1, <1>2, <1>3, <1>4, <1>6, NothingBooked DEF Visible
  <2>2. week \in SUBSET DOMAIN history
    OBVIOUS
  <2> HIDE DEF week
  <2> QED
    BY <1>1, <2>1, <2>2, GroupsArePairs
<1>7. ASSUME deleted = 0 PROVE PairsIn(Charges(staying)) \subseteq DuplicateGroups(history, week)
  <2>1. \A s \in Charges(staying) : s \in ToSet(history) /\ s \in Week
    BY <1>2, <1>5, <1>7, NothingDeleted DEF Visible
  <2>2. \A s \in Charges(staying) : \E i \in week : history[i] = s
    BY <2>1 DEF ToSet
  <2> QED
    BY <2>2, PairsAreGroups
<1> QED
  BY <1>6, <1>7

LEMMA RealAlarms == ReadInv /\ ReportInv => AlarmsAreReal
<1> SUFFICES ASSUME ReadInv, ReportInv, report.kind \in {"duplicates", "digest"}
             PROVE  /\ inserted = 0 => report.groups \subseteq PairsIn(Charges(before))
                    /\ deleted = 0 =>
                          \/ PairsIn(Charges(staying)) \subseteq report.groups
                          \/ /\ ~digest /\ Cardinality(report.groups) >= MaxGroups
                             /\ report.count >= Cardinality(PairsIn(Charges(staying)))
  BY DEF AlarmsAreReal, Charges
<1>1. pc = "reported"
  <2>1. report # NoReport
    BY DEF NoReport
  <2> QED
    BY <2>1 DEF ReadInv, TypeOK
<1>2. Complete /\ ReportMade
  BY <1>1 DEF Complete, ReportInv
<1>3. CASE report.kind = "duplicates"
  <2>1. ForTool /\ \E listed \in {DuplicateGroups(splits, DOMAIN splits),
                           FirstGroups(MaxGroups, DuplicateGroups(splits, DOMAIN splits), splits)} :
             report = [kind |-> "duplicates", groups |-> listed,
                       count |-> Cardinality(DuplicateGroups(splits, DOMAIN splits))]
    <3>1. \A category, merchant, metric : Answer(splits, category, merchant, metric).kind = "answer"
      BY DEF Answer
    <3>2. Digest(history, splits).kind = "digest"
      BY DEF Digest
    <3> QED
      BY <1>2, <1>3, <3>1, <3>2 DEF ReportMade
  <2>2. PICK listed \in {DuplicateGroups(splits, DOMAIN splits),
                           FirstGroups(MaxGroups, DuplicateGroups(splits, DOMAIN splits), splits)} :
             report = [kind |-> "duplicates", groups |-> listed,
                       count |-> Cardinality(DuplicateGroups(splits, DOMAIN splits))]
    BY <2>1
  <2>3. /\ report.groups = listed /\ ~digest
        /\ report.count = Cardinality(DuplicateGroups(splits, DOMAIN splits))
    BY <2>1, <2>2 DEF ForTool
  <2> QED
    BY <1>2, <2>1, <2>3, ToolAlarms
<1>4. CASE report.kind = "digest"
  <2>1. digest /\ report = Digest(history, splits)
    <3>1. \A category, merchant, metric : Answer(splits, category, merchant, metric).kind = "answer"
      BY DEF Answer
    <3> QED
      BY <1>2, <1>4, <3>1 DEF ReportMade
  <2>2. report.groups = DuplicateGroups(history, {i \in DOMAIN history : history[i] \in Week})
    BY <2>1 DEF Digest
  <2> QED
    BY <1>2, <2>1, <2>2, DigestAlarms
<1> QED
  BY <1>3, <1>4

\* No alarm about a single charge without a booking, and no pair kept from the
\* user without a deletion, by the scan, the tool and the digest.
THEOREM ReaderAlarmsAreReal == Spec => []AlarmsAreReal
  BY RealAlarms, ReadInvHolds, PTL

-----------------------------------------------------------------------------
(* The counts. *)

LEMMA ImageIsNoLarger ==
    ASSUME NEW seq, NEW P, IsFiniteSet(P)
    PROVE  LET I == {seq[i] : i \in P}
           IN  /\ IsFiniteSet(P) /\ Cardinality(P) \in Nat
               /\ IsFiniteSet(I) /\ Cardinality(I) \in Nat /\ Cardinality(I) =< Cardinality(P)
<1> DEFINE I == {seq[i] : i \in P}
           f == [i \in P |-> seq[i]]
<1>1. f \in [P -> I] /\ \A x \in I : \E i \in P : f[i] = x
  OBVIOUS
<1> HIDE DEF f, I
<1>2. f \in Surjection(P, I)
  BY <1>1, Fun_IsSurj
<1>3. IsFiniteSet(I) /\ Cardinality(I) =< Cardinality(P)
  BY <1>2, FS_Surjection
<1>4. Cardinality(P) \in Nat /\ Cardinality(I) \in Nat
  BY <1>3, FS_CardinalityType
<1> QED
  BY <1>3, <1>4 DEF I

\* Some places of a list have no more splits than places, and no fewer than that
\* by more than the whole list repeats.
LEMMA CountedPlaces ==
    ASSUME NEW seq \in Seq(Splits), NEW P \in SUBSET DOMAIN seq
    PROVE  LET I == {seq[i] : i \in P}
           IN  /\ Cardinality(P) \in Nat /\ IsFiniteSet(I) /\ Cardinality(I) \in Nat
               /\ Cardinality(I) =< Cardinality(P)
               /\ Cardinality(P) =< Cardinality(I) + (Len(seq) - Cardinality(ToSet(seq)))
<1> DEFINE D == DOMAIN seq
           Q == D \ P
           I == {seq[i] : i \in P}
           J == {seq[i] : i \in Q}
<1>1. D = 1 .. Len(seq) /\ Len(seq) \in Nat
  BY LenProperties
<1>2. IsFiniteSet(D) /\ Cardinality(D) = Len(seq)
  BY <1>1, IntervalSize
<1>3. IsFiniteSet(P) /\ IsFiniteSet(Q)
  BY <1>2, FS_Subset
<1>4. Cardinality(Q) = Len(seq) - Cardinality(P)
  <2>1. Cardinality(Q) = Cardinality(D) - Cardinality(D \intersect P)
    BY <1>2, FS_Difference
  <2>2. D \intersect P = P
    OBVIOUS
  <2> QED
    BY <1>2, <2>1, <2>2
<1>5. /\ IsFiniteSet(I) /\ Cardinality(I) \in Nat /\ Cardinality(I) =< Cardinality(P)
      /\ Cardinality(P) \in Nat
  BY <1>3, ImageIsNoLarger
<1>6. IsFiniteSet(J) /\ Cardinality(J) \in Nat /\ Cardinality(J) =< Cardinality(Q)
  BY <1>3, ImageIsNoLarger
<1>7. ToSet(seq) = I \union J
  BY DEF ToSet
<1> HIDE DEF I, J, Q, D
<1>8. Cardinality(ToSet(seq)) = Cardinality(I) + Cardinality(J) - Cardinality(I \intersect J)
  BY <1>5, <1>6, <1>7, FS_Union
<1>9. Cardinality(I \intersect J) \in Nat
  BY <1>5, FS_Intersection, FS_CardinalityType
<1>10. Cardinality(P) =< Cardinality(I) + (Len(seq) - Cardinality(ToSet(seq)))
  BY <1>1, <1>4, <1>5, <1>6, <1>8, <1>9
<1> QED
  BY <1>5, <1>10 DEF I

LEMMA UnionIsNoLarger ==
    ASSUME NEW S, IsFiniteSet(S), NEW T, IsFiniteSet(T), NEW U, U \subseteq S \union T
    PROVE  /\ IsFiniteSet(U) /\ Cardinality(U) \in Nat
           /\ Cardinality(S) \in Nat /\ Cardinality(T) \in Nat
           /\ Cardinality(U) =< Cardinality(S) + Cardinality(T)
<1>1. /\ IsFiniteSet(S \union T)
      /\ Cardinality(S \union T) = Cardinality(S) + Cardinality(T) - Cardinality(S \intersect T)
  BY FS_Union
<1>2. IsFiniteSet(U) /\ Cardinality(U) =< Cardinality(S \union T)
  BY <1>1, FS_Subset
<1>3. /\ Cardinality(U) \in Nat /\ Cardinality(S) \in Nat /\ Cardinality(T) \in Nat
      /\ Cardinality(S \intersect T) \in Nat
  BY <1>2, FS_Intersection, FS_CardinalityType
<1> QED
  BY <1>1, <1>2, <1>3

\* What was counted and what there was: D is what should be counted and I what of
\* it is in the list; the lists repeat no more than was booked.
LEMMA TwoPerChange ==
    ASSUME ReadInv, Complete, NEW D \in SUBSET before, NEW I \in SUBSET Splits, NEW count \in Nat,
           \A s \in I : s \in ToSet(history) \union ToSet(splits) /\ (s \in before => s \in D),
           \A s \in D : s \in staying =>
              s \in I \union MissedBefore \union (Visible(staying, asked) \ ToSet(splits)),
           Cardinality(I) =< count, count =< Cardinality(I) + inserted
    PROVE  count =< Cardinality(D) + 2 * inserted /\ count + 2 * deleted >= Cardinality(D)
<1> DEFINE new == (ledger \union ToSet(history) \union ToSet(splits)) \ before
           gone == before \ staying
           missed == MissedBefore \union (Visible(staying, asked) \ ToSet(splits))
<1>1. /\ before \in SUBSET Splits /\ staying \in SUBSET Splits /\ ledger \in SUBSET Splits
      /\ inserted \in Nat /\ deleted \in Nat
      /\ splits \in Seq(Splits) /\ history \in Seq(Splits)
      /\ Cardinality(new) =< inserted /\ Cardinality(gone) =< deleted
      /\ Cardinality(missed) =< deleted
  BY CompleteFacts
<1>2. IsFiniteSet(new) /\ IsFiniteSet(gone) /\ IsFiniteSet(missed) /\ IsFiniteSet(I) /\ IsFiniteSet(D)
  <2>1. new \subseteq Splits /\ gone \subseteq Splits /\ missed \subseteq Splits /\ D \subseteq Splits
    BY <1>1, SetOfSeq DEF MissedBefore, Visible
  <2> QED
    BY <2>1, SplitsFacts, FS_Subset
<1>3. I \subseteq D \union new
  OBVIOUS
<1>4. D \subseteq (I \union gone) \union missed
  OBVIOUS
<1> HIDE DEF new, gone, missed
<1>5. Cardinality(I) =< Cardinality(D) + Cardinality(new)
  BY <1>2, <1>3, UnionIsNoLarger
<1>6. /\ IsFiniteSet(I \union gone)
      /\ Cardinality(I \union gone) =< Cardinality(I) + Cardinality(gone)
  BY <1>2, UnionIsNoLarger
<1>7. Cardinality(D) =< Cardinality(I \union gone) + Cardinality(missed)
  BY <1>2, <1>4, <1>6, UnionIsNoLarger
<1>8. /\ Cardinality(I) \in Nat /\ Cardinality(D) \in Nat /\ Cardinality(new) \in Nat
      /\ Cardinality(gone) \in Nat /\ Cardinality(missed) \in Nat
      /\ Cardinality(I \union gone) \in Nat
  BY <1>2, <1>6, FS_CardinalityType
<1> DEFINE i == Cardinality(I)
           d == Cardinality(D)
           n == Cardinality(new)
           g == Cardinality(gone)
           m == Cardinality(missed)
           ig == Cardinality(I \union gone)
<1>9. /\ i \in Nat /\ d \in Nat /\ n \in Nat /\ g \in Nat /\ m \in Nat /\ ig \in Nat
      /\ inserted \in Nat /\ deleted \in Nat
      /\ n =< inserted /\ g =< deleted /\ m =< deleted
      /\ i =< d + n /\ ig =< i + g /\ d =< ig + m
      /\ i =< count /\ count =< i + inserted
  BY <1>1, <1>5, <1>6, <1>7, <1>8 DEF new, gone, missed
<1> HIDE DEF i, d, n, g, m, ig
<1>10. count =< d + 2 * inserted /\ count + 2 * deleted >= d
  BY <1>9
<1> QED
  BY <1>10 DEF d

LEMMA AnswerCounts ==
    ASSUME ReadInv, Complete, ~digest, NEW category, NEW merchant
    PROVE  LET count == Cardinality({i \in DOMAIN splits :
                            Belongs(splits[i], asked) /\ Matches(splits[i], category, merchant)})
               D == {s \in before : Belongs(s, asked) /\ Matches(s, category, merchant)}
           IN  count =< Cardinality(D) + 2 * inserted /\ count + 2 * deleted >= Cardinality(D)
<1> DEFINE P == {i \in DOMAIN splits :
                    Belongs(splits[i], asked) /\ Matches(splits[i], category, merchant)}
           D == {s \in before : Belongs(s, asked) /\ Matches(s, category, merchant)}
           I == {splits[i] : i \in P}
           count == Cardinality(P)
<1>1. /\ splits \in Seq(Splits) /\ history \in Seq(Splits) /\ before \in SUBSET Splits
      /\ inserted \in Nat /\ history = <<>>
  BY CompleteFacts
<1>2. P \in SUBSET DOMAIN splits
  OBVIOUS
<1>3. I \subseteq ToSet(splits) /\ \A s \in I : Belongs(s, asked) /\ Matches(s, category, merchant)
  BY DEF ToSet
<1>4. \A s \in ToSet(splits) : Belongs(s, asked) /\ Matches(s, category, merchant) => s \in I
  BY DEF ToSet
<1>5. /\ count \in Nat /\ Cardinality(I) \in Nat /\ Cardinality(I) =< count
      /\ count =< Cardinality(I) + (Len(splits) - Cardinality(ToSet(splits)))
  <2> HIDE DEF P
  <2> QED
    BY <1>1, <1>2, CountedPlaces
<1>6. count =< Cardinality(I) + inserted
  <2> HIDE DEF count, I
  <2>1. /\ Len(history) - Cardinality(ToSet(history)) \in Nat
        /\ Len(splits) - Cardinality(ToSet(splits)) \in Nat
        /\ (Len(history) - Cardinality(ToSet(history)))
              + (Len(splits) - Cardinality(ToSet(splits))) =< inserted
    BY RepeatsAreBooked
  <2> DEFINE h == Len(history) - Cardinality(ToSet(history))
             r == Len(splits) - Cardinality(ToSet(splits))
  <2>2. h \in Nat /\ r \in Nat /\ h + r =< inserted /\ count =< Cardinality(I) + r
    BY <1>5, <2>1
  <2> HIDE DEF h, r
  <2> QED
    BY <1>1, <1>5, <2>2
<1>7. D \in SUBSET before /\ I \in SUBSET Splits
  BY <1>1, <1>3, SetOfSeq
<1>8. \A s \in I : s \in ToSet(history) \union ToSet(splits) /\ (s \in before => s \in D)
  BY <1>3
<1>9. \A s \in D : s \in staying =>
         s \in I \union MissedBefore \union (Visible(staying, asked) \ ToSet(splits))
  BY <1>4 DEF Visible
<1> HIDE DEF count, D, I
<1>10. count =< Cardinality(D) + 2 * inserted /\ count + 2 * deleted >= Cardinality(D)
  BY <1>5, <1>6, <1>7, <1>8, <1>9, TwoPerChange
<1> QED
  BY <1>10 DEF count, D

LEMMA DigestCounts ==
    ASSUME ReadInv, Complete, digest
    PROVE  LET count == Cardinality({i \in DOMAIN history : history[i] \in Week}) + Len(splits)
               D == {s \in before : s \in Week}
           IN  count =< Cardinality(D) + 2 * inserted /\ count + 2 * deleted >= Cardinality(D)
<1> DEFINE P == {i \in DOMAIN history : history[i] \in Week}
           D == {s \in before : s \in Week}
           K == {history[i] : i \in P}
           R == ToSet(splits)
           I == K \union R
           count == Cardinality(P) + Len(splits)
<1>1. /\ splits \in Seq(Splits) /\ history \in Seq(Splits) /\ before \in SUBSET Splits
      /\ staying \in SUBSET Splits /\ inserted \in Nat /\ asked = SecondList /\ Second
      /\ (\A s \in R : Belongs(s, asked)) /\ \A s \in ToSet(history) : Belongs(s, FirstList)
  BY CompleteFacts
<1>2. P \in SUBSET DOMAIN history
  OBVIOUS
<1>3. K \subseteq ToSet(history) /\ \A s \in K : s \in Week
  BY DEF ToSet
<1>4. \A s \in ToSet(history) : s \in Week => s \in K
  BY DEF ToSet
<1>5. \A s \in R : s \in Week
  BY <1>1 DEF Belongs, SecondList
<1>6. /\ Cardinality(P) \in Nat /\ IsFiniteSet(K) /\ Cardinality(K) \in Nat
      /\ Cardinality(K) =< Cardinality(P)
      /\ Cardinality(P) =< Cardinality(K) + (Len(history) - Cardinality(ToSet(history)))
  <2> HIDE DEF P
  <2> QED
    BY <1>1, <1>2, CountedPlaces
<1>7. IsFiniteSet(R) /\ Cardinality(R) \in Nat /\ Len(splits) \in Nat /\ R \subseteq Splits
  BY <1>1, SetOfSeq
<1>8. Cardinality(I) = Cardinality(K) + Cardinality(R)
  <2>1. K \intersect R = {}
    BY <1>3, ListsAreDisjoint
  <2> HIDE DEF K, R
  <2>2. Cardinality(K \union R) = Cardinality(K) + Cardinality(R) - Cardinality(K \intersect R)
    BY <1>6, <1>7, FS_Union
  <2>3. Cardinality(K \intersect R) = 0
    BY <2>1, FS_EmptySet
  <2> QED
    BY <1>6, <1>7, <2>2, <2>3
<1>9. count \in Nat /\ Cardinality(I) =< count /\ count =< Cardinality(I) + inserted
  <2>1. /\ Len(history) - Cardinality(ToSet(history)) \in Nat
        /\ Len(splits) - Cardinality(R) \in Nat
        /\ (Len(history) - Cardinality(ToSet(history))) + (Len(splits) - Cardinality(R)) =< inserted
    BY RepeatsAreBooked
  <2> DEFINE h == Len(history) - Cardinality(ToSet(history))
             r == Len(splits) - Cardinality(R)
             p == Cardinality(P)
             k == Cardinality(K)
             c == Cardinality(R)
  <2>2. h \in Nat /\ r \in Nat /\ h + r =< inserted /\ p =< k + h
    BY <1>6, <2>1
  <2>3. Len(splits) = c + r /\ p \in Nat /\ k \in Nat /\ c \in Nat /\ k =< p
    BY <1>6, <1>7
  <2> HIDE DEF h, r, p, k, c
  <2>4. p + Len(splits) \in Nat /\ k + c =< p + Len(splits) /\ p + Len(splits) =< (k + c) + inserted
    BY <1>1, <2>2, <2>3
  <2> QED
    BY <1>8, <2>4 DEF p, k, c
<1>10. D \in SUBSET before /\ I \in SUBSET Splits
  BY <1>1, <1>3, <1>7, SetOfSeq
<1>11. \A s \in I : s \in ToSet(history) \union ToSet(splits) /\ (s \in before => s \in D)
  BY <1>3, <1>5
<1>12. \A s \in D : s \in staying =>
          s \in I \union MissedBefore \union (Visible(staying, asked) \ ToSet(splits))
  <2> SUFFICES ASSUME NEW s \in D, s \in staying
               PROVE  s \in I \union MissedBefore \union (Visible(staying, asked) \ ToSet(splits))
    OBVIOUS
  <2>1. TypeOf[s] \in Types
    BY <1>1, LedgerReaderAssumption
  <2>2. CASE TypeOf[s] = "withdrawal"
    <3>1. s \in Visible(staying, FirstList)
      BY <2>2 DEF Visible, Belongs, FirstList
    <3> QED
      BY <1>1, <1>4, <3>1 DEF MissedBefore
  <2>3. CASE TypeOf[s] = "deposit"
    <3>1. s \in Visible(staying, asked)
      BY <1>1, <2>3 DEF Visible, Belongs, SecondList
    <3> QED
      BY <3>1
  <2> QED
    BY <2>1, <2>2, <2>3 DEF Types
<1> HIDE DEF count, D, I
<1>13. count =< Cardinality(D) + 2 * inserted /\ count + 2 * deleted >= Cardinality(D)
  BY <1>9, <1>10, <1>11, <1>12, TwoPerChange
<1> QED
  BY <1>13 DEF count, D

LEMMA OffByTwo == ReadInv /\ ReportInv => CountsAreOffByTwo
<1> SUFFICES ASSUME ReadInv, ReportInv,
                    NEW count \in (IF report.kind = "digest" THEN {report.withdrawals + report.deposits}
                                   ELSE IF report.kind = "answer" /\ report.metric = "count"
                                   THEN {report.result}
                                   ELSE {})
             PROVE  count =< Counted(before) + 2 * inserted /\ count + 2 * deleted >= Counted(before)
  BY DEF CountsAreOffByTwo
<1>1. report.kind \in {"digest", "answer"}
  OBVIOUS
<1>2. Complete /\ ReportMade
  <2>1. report # NoReport
    BY <1>1 DEF NoReport
  <2>2. pc = "reported"
    BY <2>1 DEF ReadInv, TypeOK
  <2> QED
    BY <2>2 DEF Complete, ReportInv
<1>3. CASE report.kind = "digest"
  <2>1. digest /\ report = Digest(history, splits)
    <3>1. \A category, merchant, metric : Answer(splits, category, merchant, metric).kind = "answer"
      BY DEF Answer
    <3> QED
      BY <1>2, <1>3, <3>1 DEF ReportMade
  <2>2. /\ report.withdrawals = Cardinality({i \in DOMAIN history : history[i] \in Week})
        /\ report.deposits = Len(splits)
    BY <2>1 DEF Digest
  <2>3. count = Cardinality({i \in DOMAIN history : history[i] \in Week}) + Len(splits)
    BY <1>3, <2>2
  <2>4. Counted(before) = Cardinality({s \in before : s \in Week})
    BY <2>1 DEF Counted
  <2> QED
    BY <1>2, <2>1, <2>3, <2>4, DigestCounts
<1>4. CASE report.kind = "answer"
  <2>1. ~digest /\ \E category, merchant, metric : report = Answer(splits, category, merchant, metric)
    <3>1. Digest(history, splits).kind = "digest"
      BY DEF Digest
    <3> QED
      BY <1>2, <1>4, <3>1 DEF ReportMade
  <2>2. PICK category, merchant, metric : report = Answer(splits, category, merchant, metric)
    BY <2>1
  <2>3. report.metric = "count" /\ count = report.result
    BY <1>4
  <2>4. /\ report.category = category /\ report.merchant = merchant
        /\ count = Cardinality({i \in DOMAIN splits :
                       Belongs(splits[i], asked) /\ Matches(splits[i], category, merchant)})
    BY <2>2, <2>3 DEF Answer
  <2>5. Counted(before)
          = Cardinality({s \in before : Belongs(s, asked) /\ Matches(s, category, merchant)})
    BY <2>1, <2>4 DEF Counted
  <2> QED
    BY <1>2, <2>1, <2>4, <2>5, AnswerCounts
<1> QED
  BY <1>1, <1>3, <1>4

\* The number of transactions in an answer, and of those in a digest, is off by
\* no more than two for each change.
THEOREM ReaderCountsAreOffByTwo == Spec => []CountsAreOffByTwo
  BY OffByTwo, ReadInvHolds, PTL
=============================================================================
