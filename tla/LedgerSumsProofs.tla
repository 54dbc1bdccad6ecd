-------------------------- MODULE LedgerSumsProofs --------------------------
(***************************************************************************)
(* What the reports make of a ledger at rest: sums, their groups, and the  *)
(* largest of them.  A sum over a set is folded in an order that CHOOSE    *)
(* decides; that any element may be taken out first (SumStep) is shown by  *)
(* induction over the subsets of the set.                                  *)
(***************************************************************************)
EXTENDS LedgerReaderProofs

(* Induction, over the numbers and over the subsets of a finite set.  What is *)
(* shown of each of them is stated as membership in a set.                    *)

\* A set of numbers that has 0 and every successor has all numbers.
LEMMA Induction ==
    ASSUME NEW G \in SUBSET Nat, 0 \in G, \A n \in G : n + 1 \in G
    PROVE  \A n \in Nat : n \in G
<1> SUFFICES ASSUME NEW n \in Nat, n \notin G PROVE FALSE
  OBVIOUS
<1> DEFINE open == {m \in 0 .. n : m \notin G}
<1>1. IsFiniteSet(open)
  <2>1. IsFiniteSet(0 .. n)
    BY FS_Interval
  <2>2. open \subseteq 0 .. n
    OBVIOUS
  <2> QED
    BY <2>1, <2>2, FS_Subset
<1>2. open \in SUBSET Int /\ open # {}
  OBVIOUS
<1>3. PICK m \in open : \A k \in open : m =< k
  <2> HIDE DEF open
  <2>1. Min(open) \in open /\ \A k \in open : Min(open) =< k
    BY <1>1, <1>2, Smallest
  <2> QED
    BY <2>1
<1>4. m # 0 /\ m - 1 \in 0 .. n
  OBVIOUS
<1>5. m - 1 \notin open
  BY <1>3, <1>4
<1>6. m - 1 \in G
  BY <1>4, <1>5
<1>7. (m - 1) + 1 = m
  BY <1>4
<1> QED
  BY <1>6, <1>7

\* A set that has every subset of a finite set, once it has those with one member
\* less, has all of its subsets.
LEMMA SetInduction ==
    ASSUME NEW S, IsFiniteSet(S), NEW G,
           \A T \in SUBSET S : (\A x \in T : T \ {x} \in G) => T \in G
    PROVE  \A T \in SUBSET S : T \in G
<1> DEFINE size == {n \in Nat : \A T \in SUBSET S : Cardinality(T) = n => T \in G}
<1>1. \A T \in SUBSET S : IsFiniteSet(T) /\ Cardinality(T) \in Nat
  BY FS_Subset, FS_CardinalityType
<1>2. 0 \in size
  <2> SUFFICES ASSUME NEW T \in SUBSET S, Cardinality(T) = 0 PROVE T \in G
    OBVIOUS
  <2>1. T = {}
    BY <1>1, FS_EmptySet
  <2> QED
    BY <2>1
<1>3. \A n \in size : n + 1 \in size
  <2> SUFFICES ASSUME NEW n \in size, NEW T \in SUBSET S, Cardinality(T) = n + 1 PROVE T \in G
    OBVIOUS
  <2>1. ASSUME NEW x \in T PROVE T \ {x} \in G
    <3>1. Cardinality(T \ {x}) = Cardinality(T) - 1
      BY <1>1, FS_RemoveElement
    <3>2. Cardinality(T \ {x}) = n
      BY <3>1
    <3> QED
      BY <3>2
  <2> QED
    BY <2>1
<1>4. \A n \in Nat : n \in size
  <2>1. size \in SUBSET Nat
    OBVIOUS
  <2> HIDE DEF size
  <2> QED
    BY <1>2, <1>3, <2>1, Induction
<1> QED
  BY <1>1, <1>4

-----------------------------------------------------------------------------
(* The fold. *)

Chosen(T) == CHOOSE x \in T : TRUE

\* The sum of f over a set, by the sums over smaller ones.
Folded(f, g, T) == IF T = {} THEN 0 ELSE f[Chosen(T)] + g[T \ {Chosen(T)}]

IsSum(f, S, g) == g = [T \in SUBSET S |-> Folded(f, g, T)]

\* The sum over a set is what some solution of the recursion gives for it.
LEMMA SumIsFold ==
    ASSUME NEW f, NEW S
    PROVE  SumFunctionOnSet(f, S) = (CHOOSE g : IsSum(f, S, g))[S]
BY Zenon DEF SumFunctionOnSet, FoldFunctionOnSet, MapThenFoldSet, IsSum, Folded, Chosen

\* The recursion has a solution.
LEMMA FoldExists ==
    ASSUME NEW f, NEW S, IsFiniteSet(S)
    PROVE  \E g : IsSum(f, S, g)
<1> DEFINE UpToSize(n, g) ==
               /\ g = [T \in SUBSET S |-> g[T]]
               /\ \A T \in SUBSET S : Cardinality(T) =< n => g[T] = Folded(f, g, T)
           done == {n \in Nat : \E g : UpToSize(n, g)}
<1>1. \A T \in SUBSET S : IsFiniteSet(T) /\ Cardinality(T) \in Nat /\ Cardinality(T) =< Cardinality(S)
  BY FS_Subset, FS_CardinalityType
<1>2. 0 \in done
  <2> DEFINE g == [T \in SUBSET S |-> 0]
  <2>1. \A T \in SUBSET S : Cardinality(T) =< 0 => T = {}
    BY <1>1, FS_EmptySet
  <2>2. UpToSize(0, g)
    BY <2>1 DEF Folded
  <2> QED
    BY <2>2
<1>3. ASSUME NEW n \in done PROVE n + 1 \in done
  <2>1. PICK g : UpToSize(n, g)
    OBVIOUS
  <2> DEFINE h == [T \in SUBSET S |-> IF Cardinality(T) =< n + 1 THEN Folded(f, g, T) ELSE 0]
  <2>2. ASSUME NEW T \in SUBSET S, Cardinality(T) =< n + 1 PROVE h[T] = Folded(f, h, T)
    <3>1. CASE T = {}
      BY <2>2, <3>1 DEF Folded
    <3>2. CASE T # {}
      <4> DEFINE rest == T \ {Chosen(T)}
      <4>1. Chosen(T) \in T
        BY <3>2 DEF Chosen
      <4>2. rest \in SUBSET S /\ Cardinality(rest) = Cardinality(T) - 1
        BY <1>1, <4>1, FS_RemoveElement
      <4>3. Cardinality(rest) =< n /\ Cardinality(rest) =< n + 1
        BY <1>1, <2>2, <4>2
      <4>4. g[rest] = Folded(f, g, rest)
        BY <2>1, <4>2, <4>3
      <4>5. h[rest] = g[rest]
        BY <4>2, <4>3, <4>4
      <4> HIDE DEF h
      <4>6. Folded(f, h, T) = Folded(f, g, T)
        BY <3>2, <4>5 DEF Folded
      <4> QED
        BY <2>2, <4>6 DEF h
    <3> QED
      BY <3>1, <3>2
  <2>3. h = [T \in SUBSET S |-> h[T]]
    OBVIOUS
  <2>4. UpToSize(n + 1, h)
    BY <2>2, <2>3
  <2>5. n + 1 \in Nat
    OBVIOUS
  <2> HIDE DEF h, UpToSize
  <2> QED
    BY <2>4, <2>5
<1>4. Cardinality(S) \in done
  <2>1. done \in SUBSET Nat /\ Cardinality(S) \in Nat
    BY <1>1
  <2> HIDE DEF done
  <2> QED
    BY <1>2, <1>3, <2>1, Induction
<1>5. PICK g : UpToSize(Cardinality(S), g)
  BY <1>4
<1>6. \A T \in SUBSET S : g[T] = Folded(f, g, T)
  BY <1>1, <1>5
<1>7. IsSum(f, S, g)
  BY <1>5, <1>6 DEF IsSum
<1> QED
  BY <1>7

\* A solution has integers for sums of integers.
LEMMA FoldType ==
    ASSUME NEW f, NEW S, IsFiniteSet(S), \A x \in S : f[x] \in Int, NEW g, IsSum(f, S, g)
    PROVE  \A T \in SUBSET S : g[T] \in Int /\ g[T] = Folded(f, g, T)
<1> DEFINE good == {T \in SUBSET S : g[T] \in Int}
<1>1. \A T \in SUBSET S : g[T] = Folded(f, g, T)
  BY DEF IsSum
<1>2. ASSUME NEW T \in SUBSET S, \A x \in T : T \ {x} \in good PROVE T \in good
  <2>1. ASSUME T = {} PROVE g[T] = 0
    BY <1>1, <2>1 DEF Folded
  <2>2. ASSUME T # {} PROVE g[T] \in Int
    <3>1. Chosen(T) \in T
      BY <2>2 DEF Chosen
    <3>2. g[T \ {Chosen(T)}] \in Int /\ f[Chosen(T)] \in Int
      BY <1>2, <3>1
    <3>3. g[T] = f[Chosen(T)] + g[T \ {Chosen(T)}]
      BY <1>1, <2>2 DEF Folded
    <3> QED
      BY <3>2, <3>3
  <2>3. g[T] \in Int
    BY <2>1, <2>2
  <2> QED
    BY <2>3
<1>3. \A T \in SUBSET S : T \in good
  <2> HIDE DEF good
  <2> QED
    BY <1>2, SetInduction
<1> QED
  BY <1>1, <1>3

\* In a solution any element may be taken out first.
LEMMA FoldStep ==
    ASSUME NEW f, NEW S, IsFiniteSet(S), \A x \in S : f[x] \in Int, NEW g, IsSum(f, S, g)
    PROVE  \A T \in SUBSET S : /\ g[T] \in Int
                               /\ T = {} => g[T] = 0
                               /\ \A x \in T : g[T] = f[x] + g[T \ {x}]
<1> DEFINE good == {T \in SUBSET S : \A x \in T : g[T] = f[x] + g[T \ {x}]}
<1>1. \A T \in SUBSET S : g[T] \in Int /\ g[T] = Folded(f, g, T)
  BY FoldType
<1>2. ASSUME NEW T \in SUBSET S, \A y \in T : T \ {y} \in good,
             NEW x \in T
      PROVE  g[T] = f[x] + g[T \ {x}]
  <2> DEFINE c == Chosen(T)
             rest == T \ {c, x}
  <2>1. c \in T /\ f[c] \in Int /\ f[x] \in Int
    BY <1>2 DEF Chosen
  <2>2. g[T] = f[c] + g[T \ {c}]
    <3>1. T # {}
      BY <1>2
    <3> QED
      BY <1>1, <3>1 DEF Folded
  <2>3. CASE x = c
    BY <2>2, <2>3
  <2>4. CASE x # c
    <3>1. /\ T \ {c} \in good /\ x \in T \ {c}
          /\ T \ {x} \in good /\ c \in T \ {x}
      BY <1>2, <2>1, <2>4
    <3>2. (T \ {c}) \ {x} = rest /\ (T \ {x}) \ {c} = rest
      OBVIOUS
    <3>3. g[T \ {c}] = f[x] + g[rest]
      <4>1. g[T \ {c}] = f[x] + g[(T \ {c}) \ {x}]
        BY <3>1
      <4> QED
        BY <3>2, <4>1
    <3>4. g[T \ {x}] = f[c] + g[rest]
      <4>1. g[T \ {x}] = f[c] + g[(T \ {x}) \ {c}]
        BY <3>1
      <4> QED
        BY <3>2, <4>1
    <3>5. g[rest] \in Int
      <4>1. rest \in SUBSET S
        OBVIOUS
      <4> QED
        BY <1>1, <4>1
    <3> HIDE DEF c, rest
    <3> QED
      BY <2>1, <2>2, <3>3, <3>4, <3>5
  <2> QED
    BY <2>3, <2>4
<1>3. \A T \in SUBSET S : T \in good
  <2>1. ASSUME NEW T \in SUBSET S, \A y \in T : T \ {y} \in good PROVE T \in good
    BY <1>2, <2>1
  <2> HIDE DEF good
  <2> QED
    BY <2>1, SetInduction
<1>4. \A T \in SUBSET S : T = {} => g[T] = 0
  BY <1>1 DEF Folded
<1> QED
  BY <1>1, <1>3, <1>4
-----------------------------------------------------------------------------
(* Sums. *)

\* The sum over a set and those over its subsets are values of one solution.
LEMMA OneSolution ==
    ASSUME NEW f, NEW S, IsFiniteSet(S), NEW T \in SUBSET S,
           NEW e, \A x \in T : e[x] = f[x],
           NEW g, IsSum(f, S, g)
    PROVE  SumFunctionOnSet(e, T) = g[T]
<1> DEFINE h == CHOOSE fold : IsSum(e, T, fold)
           same == {U \in SUBSET T : h[U] = g[U]}
<1>1. IsFiniteSet(T)
  BY FS_Subset
<1>2. IsSum(e, T, h)
  BY <1>1, FoldExists
<1> HIDE DEF h
<1>3. ASSUME NEW U \in SUBSET T PROVE h[U] = Folded(e, h, U) /\ g[U] = Folded(f, g, U)
  <2>1. U \in SUBSET S
    OBVIOUS
  <2> QED
    BY <1>2, <2>1 DEF IsSum
<1>4. ASSUME NEW U \in SUBSET T, \A x \in U : U \ {x} \in same PROVE U \in same
  <2>1. ASSUME U # {} PROVE Folded(e, h, U) = Folded(f, g, U)
    <3>1. Chosen(U) \in U
      BY <2>1 DEF Chosen
    <3>2. h[U \ {Chosen(U)}] = g[U \ {Chosen(U)}] /\ e[Chosen(U)] = f[Chosen(U)]
      BY <1>4, <3>1
    <3> QED
      BY <2>1, <3>2 DEF Folded
  <2>2. ASSUME U = {} PROVE Folded(e, h, U) = Folded(f, g, U)
    BY <2>2 DEF Folded
  <2>3. h[U] = g[U]
    BY <1>3, <2>1, <2>2
  <2> QED
    BY <2>3
<1>5. T \in same
  <2>1. T \in SUBSET T
    OBVIOUS
  <2> HIDE DEF same
  <2> QED
    BY <1>1, <1>4, <2>1, SetInduction
<1>6. SumFunctionOnSet(e, T) = h[T]
  BY SumIsFold DEF h
<1> QED
  BY <1>5, <1>6

\* A sum is an integer, and any element may be taken out of it first.
LEMMA SumStep ==
    ASSUME NEW f, NEW S, IsFiniteSet(S), \A x \in S : f[x] \in Int
    PROVE  /\ SumFunctionOnSet(f, S) \in Int
           /\ S = {} => SumFunctionOnSet(f, S) = 0
           /\ \A x \in S : SumFunctionOnSet(f, S) = f[x] + SumFunctionOnSet(f, S \ {x})
<1>1. PICK g : IsSum(f, S, g)
  BY FoldExists
<1>2. \A T \in SUBSET S : SumFunctionOnSet(f, T) = g[T]
  <2> TAKE T \in SUBSET S
  <2>1. \A x \in T : f[x] = f[x]
    OBVIOUS
  <2> QED
    BY <1>1, <2>1, OneSolution
<1>3. S \in SUBSET S /\ \A x \in S : S \ {x} \in SUBSET S
  OBVIOUS
<1>4. \A T \in SUBSET S : /\ g[T] \in Int
                          /\ T = {} => g[T] = 0
                          /\ \A x \in T : g[T] = f[x] + g[T \ {x}]
  BY <1>1, FoldStep
<1> QED
  BY <1>2, <1>3, <1>4

\* Only the values on the set count.
LEMMA SumOfSame ==
    ASSUME NEW f, NEW e, NEW S, IsFiniteSet(S), \A x \in S : e[x] = f[x]
    PROVE  SumFunctionOnSet(e, S) = SumFunctionOnSet(f, S)
<1>1. PICK g : IsSum(f, S, g)
  BY FoldExists
<1>2. S \in SUBSET S /\ \A x \in S : f[x] = f[x]
  OBVIOUS
<1>3. SumFunctionOnSet(e, S) = g[S]
  BY <1>1, <1>2, OneSolution
<1>4. SumFunctionOnSet(f, S) = g[S]
  BY <1>1, <1>2, OneSolution
<1> QED
  BY <1>3, <1>4

\* The sum over two sets that have nothing in common.
LEMMA SumOfUnion ==
    ASSUME NEW f, NEW A, NEW B, IsFiniteSet(A), IsFiniteSet(B), A \intersect B = {},
           \A x \in A \union B : f[x] \in Int
    PROVE  SumFunctionOnSet(f, A \union B) = SumFunctionOnSet(f, A) + SumFunctionOnSet(f, B)
<1> DEFINE adds == {T \in SUBSET A :
                       SumFunctionOnSet(f, T \union B) = SumFunctionOnSet(f, T) + SumFunctionOnSet(f, B)}
<1>1. \A T \in SUBSET A : /\ IsFiniteSet(T) /\ IsFiniteSet(T \union B)
                          /\ \A x \in T \union B : f[x] \in Int
  <2> TAKE T \in SUBSET A
  <2>1. IsFiniteSet(T)
    BY FS_Subset
  <2>2. IsFiniteSet(T \union B)
    BY <2>1, FS_Union
  <2> QED
    BY <2>1, <2>2
<1>2. SumFunctionOnSet(f, B) \in Int
  BY SumStep
<1>3. ASSUME NEW T \in SUBSET A, \A x \in T : T \ {x} \in adds PROVE T \in adds
  <2>1. CASE T = {}
    <3>1. SumFunctionOnSet(f, T \union B) = SumFunctionOnSet(f, B) /\ SumFunctionOnSet(f, T) = 0
      <4>1. T \union B = B
        BY <2>1
      <4>2. IsFiniteSet(T) /\ \A x \in T : f[x] \in Int
        BY <1>1
      <4>3. SumFunctionOnSet(f, T) = 0
        BY <2>1, <4>2, SumStep
      <4> QED
        BY <4>1, <4>3
    <3>2. SumFunctionOnSet(f, T \union B) = SumFunctionOnSet(f, T) + SumFunctionOnSet(f, B)
      BY <1>2, <3>1
    <3> QED
      BY <3>2
  <2>2. CASE T # {}
    <3>1. PICK x \in T : TRUE
      BY <2>2
    <3>2. (T \union B) \ {x} = (T \ {x}) \union B
      OBVIOUS
    <3>3. SumFunctionOnSet(f, T \union B) = f[x] + SumFunctionOnSet(f, (T \ {x}) \union B)
      <4>1. x \in T \union B
        OBVIOUS
      <4>2. SumFunctionOnSet(f, T \union B) = f[x] + SumFunctionOnSet(f, (T \union B) \ {x})
        BY <1>1, <4>1, SumStep
      <4> QED
        BY <3>2, <4>2
    <3>4. SumFunctionOnSet(f, T) = f[x] + SumFunctionOnSet(f, T \ {x})
      BY <1>1, SumStep
    <3>5. SumFunctionOnSet(f, (T \ {x}) \union B)
            = SumFunctionOnSet(f, T \ {x}) + SumFunctionOnSet(f, B)
      BY <1>3
    <3>6. SumFunctionOnSet(f, T \ {x}) \in Int /\ f[x] \in Int
      <4>1. T \ {x} \in SUBSET A
        OBVIOUS
      <4>2. \A y \in T \ {x} : f[y] \in Int
        OBVIOUS
      <4>3. IsFiniteSet(T \ {x})
        BY <1>1, <4>1
      <4> QED
        BY <4>2, <4>3, SumStep
    <3>7. SumFunctionOnSet(f, T \union B) = SumFunctionOnSet(f, T) + SumFunctionOnSet(f, B)
      BY <1>2, <3>3, <3>4, <3>5, <3>6
    <3> QED
      BY <3>7
  <2> QED
    BY <2>1, <2>2
<1>4. A \in adds
  <2>1. A \in SUBSET A
    OBVIOUS
  <2> HIDE DEF adds
  <2> QED
    BY <1>3, <2>1, SetInduction
<1> QED
  BY <1>4

\* Each element of B has one name in P.
Names(b, P, B) ==
    /\ \A i \in P : b[i] \in B
    /\ \A x \in B : \E i \in P : b[i] = x
    /\ \A i, j \in P : b[i] = b[j] => i = j

\* A sum does not depend on how its elements are named.
LEMMA SumOverImage ==
    ASSUME NEW P, IsFiniteSet(P), NEW B, NEW b, Names(b, P, B),
           NEW f, NEW e, \A i \in P : f[b[i]] \in Int /\ e[i] = f[b[i]]
    PROVE  SumFunctionOnSet(e, P) = SumFunctionOnSet(f, B)
<1> DEFINE Image(T) == {b[i] : i \in T}
           same == {T \in SUBSET P : SumFunctionOnSet(e, T) = SumFunctionOnSet(f, Image(T))}
<1>1. \A T \in SUBSET P : IsFiniteSet(T) /\ IsFiniteSet(Image(T))
  <2> TAKE T \in SUBSET P
  <2>1. IsFiniteSet(T)
    BY FS_Subset
  <2>2. IsFiniteSet({b[i] : i \in T})
    BY <2>1, ImageIsNoLarger, Zenon
  <2> QED
    BY <2>1, <2>2
<1>2. ASSUME NEW T \in SUBSET P, \A i \in T : T \ {i} \in same PROVE T \in same
  <2>1. (\A i \in T : e[i] \in Int) /\ \A x \in Image(T) : f[x] \in Int
    OBVIOUS
  <2>2. CASE T = {}
    <3>1. Image(T) = {}
      BY <2>2
    <3>2. SumFunctionOnSet(e, T) = 0
      BY <1>1, <2>1, <2>2, SumStep
    <3>3. SumFunctionOnSet(f, Image(T)) = 0
      BY <1>1, <2>1, <3>1, SumStep
    <3> QED
      BY <3>2, <3>3
  <2>3. CASE T # {}
    <3>1. PICK i \in T : TRUE
      BY <2>3
    <3>2. Image(T) \ {b[i]} = Image(T \ {i}) /\ b[i] \in Image(T)
      BY DEF Names
    <3>3. SumFunctionOnSet(e, T) = e[i] + SumFunctionOnSet(e, T \ {i})
      <4>1. IsFiniteSet(T) /\ \A j \in T : e[j] \in Int
        BY <1>1, <2>1
      <4> QED
        BY <4>1, SumStep
    <3>4. SumFunctionOnSet(f, Image(T)) = f[b[i]] + SumFunctionOnSet(f, Image(T) \ {b[i]})
      <4>1. IsFiniteSet(Image(T)) /\ \A x \in Image(T) : f[x] \in Int
        BY <1>1, <2>1
      <4> HIDE DEF Image
      <4> QED
        BY <3>2, <4>1, SumStep
    <3>5. SumFunctionOnSet(e, T \ {i}) = SumFunctionOnSet(f, Image(T \ {i}))
      BY <1>2
    <3>6. e[i] = f[b[i]]
      OBVIOUS
    <3> HIDE DEF Image
    <3>7. SumFunctionOnSet(e, T) = SumFunctionOnSet(f, Image(T))
      BY <3>2, <3>3, <3>4, <3>5, <3>6
    <3> QED
      BY <3>7
  <2> QED
    BY <2>2, <2>3
<1>3. P \in same
  <2>1. P \in SUBSET P
    OBVIOUS
  <2> HIDE DEF same
  <2> QED
    BY <1>2, <2>1, SetInduction
<1>4. Image(P) = B
  BY DEF Names
<1> HIDE DEF Image
<1> QED
  BY <1>3, <1>4

\* The sums of the groups add up to the sum of all.
LEMMA SumOfGroups ==
    ASSUME NEW f, NEW S, IsFiniteSet(S), \A x \in S : f[x] \in Int, NEW groupOf,
           NEW G, IsFiniteSet(G), \A x \in S : groupOf[x] \in G,
           NEW members, \A g \in G : members[g] \in SUBSET S,
           \A g \in G, x \in S : x \in members[g] <=> groupOf[x] = g,
           NEW part, \A g \in G : part[g] = SumFunctionOnSet(f, members[g])
    PROVE  SumFunctionOnSet(part, G) = SumFunctionOnSet(f, S)
<1> DEFINE Of(H) == {x \in S : groupOf[x] \in H}
           adds == {H \in SUBSET G : SumFunctionOnSet(part, H) = SumFunctionOnSet(f, Of(H))}
<1>1. \A T \in SUBSET S : /\ IsFiniteSet(T) /\ (\A x \in T : f[x] \in Int)
                          /\ SumFunctionOnSet(f, T) \in Int
  <2> TAKE T \in SUBSET S
  <2>1. IsFiniteSet(T) /\ \A x \in T : f[x] \in Int
    BY FS_Subset
  <2> QED
    BY <2>1, SumStep
<1>2. \A H \in SUBSET G : IsFiniteSet(H) /\ \A g \in H : part[g] \in Int
  <2>1. \A g \in G : members[g] \in SUBSET S
    OBVIOUS
  <2> QED
    BY <1>1, <2>1, FS_Subset
<1>3. ASSUME NEW H \in SUBSET G, \A g \in H : H \ {g} \in adds PROVE H \in adds
  <2>1. CASE H = {}
    <3>1. Of(H) = {}
      BY <2>1
    <3>2. SumFunctionOnSet(part, H) = 0
      BY <1>2, <2>1, SumStep
    <3>3. SumFunctionOnSet(f, Of(H)) = 0
      <4>1. IsFiniteSet(Of(H)) /\ \A x \in Of(H) : f[x] \in Int
        BY <1>1, <3>1
      <4> QED
        BY <3>1, <4>1, SumStep
    <3> QED
      BY <3>2, <3>3
  <2>2. CASE H # {}
    <3>1. PICK g \in H : TRUE
      BY <2>2
    <3> DEFINE mine == members[g]
               others == Of(H \ {g})
    <3>2. /\ Of(H) = mine \union others /\ mine \intersect others = {}
          /\ mine \in SUBSET S /\ others \in SUBSET S
      OBVIOUS
    <3>3. SumFunctionOnSet(part, H) = part[g] + SumFunctionOnSet(part, H \ {g})
      BY <1>2, SumStep
    <3>4. SumFunctionOnSet(part, H \ {g}) = SumFunctionOnSet(f, others)
      BY <1>3
    <3>5. part[g] = SumFunctionOnSet(f, mine)
      OBVIOUS
    <3> HIDE DEF mine, others, Of
    <3>6. SumFunctionOnSet(f, mine \union others)
            = SumFunctionOnSet(f, mine) + SumFunctionOnSet(f, others)
      <4>1. IsFiniteSet(mine) /\ IsFiniteSet(others) /\ \A x \in mine \union others : f[x] \in Int
        BY <1>1, <3>2
      <4> QED
        BY <3>2, <4>1, SumOfUnion
    <3>7. SumFunctionOnSet(part, H) = SumFunctionOnSet(f, Of(H))
      BY <3>2, <3>3, <3>4, <3>5, <3>6
    <3> QED
      BY <3>7
  <2> QED
    BY <2>1, <2>2
<1>4. G \in adds
  <2>1. G \in SUBSET G
    OBVIOUS
  <2> HIDE DEF adds
  <2> QED
    BY <1>3, <2>1, SetInduction
<1>5. Of(G) = S
  OBVIOUS
<1> HIDE DEF Of
<1> QED
  BY <1>4, <1>5
-----------------------------------------------------------------------------
(* The largest. *)

IsTop(top, set, amount) ==
    top \subseteq set /\ \A x \in top, y \in set \ top : amount[x] >= amount[y]

\* There are largest elements in any number there can be.
LEMMA TopExists ==
    ASSUME NEW set, IsFiniteSet(set), NEW amount, \A x \in set : amount[x] \in Int
    PROVE  \A n \in 0 .. Cardinality(set) : \E top : IsTop(top, set, amount) /\ Cardinality(top) = n
<1> DEFINE done == {n \in Nat : n =< Cardinality(set) =>
                        \E top : IsTop(top, set, amount) /\ Cardinality(top) = n}
<1>1. Cardinality(set) \in Nat
  BY FS_CardinalityType
<1>2. 0 \in done
  <2>1. IsTop({}, set, amount) /\ Cardinality({}) = 0
    BY FS_EmptySet DEF IsTop
  <2> QED
    BY <2>1
<1>3. ASSUME NEW n \in done, n + 1 =< Cardinality(set)
      PROVE  \E top : IsTop(top, set, amount) /\ Cardinality(top) = n + 1
  <2>1. PICK top : IsTop(top, set, amount) /\ Cardinality(top) = n
    BY <1>1, <1>3
  <2> DEFINE rest == set \ top
             losses == {-amount[y] : y \in rest}
  <2>2. top \subseteq set /\ IsFiniteSet(top) /\ IsFiniteSet(rest)
    BY <2>1, FS_Subset DEF IsTop
  <2>3. rest # {}
    BY <1>1, <1>3, <2>1, <2>2
  <2>4. PICK z \in rest : \A y \in rest : amount[z] >= amount[y]
    <3> DEFINE loss == [y \in rest |-> -amount[y]]
    <3>1. IsFiniteSet({loss[y] : y \in rest})
      <4> HIDE DEF rest, loss
      <4> QED
        BY <2>2, ImageIsNoLarger, Zenon
    <3>2. losses = {loss[y] : y \in rest}
      OBVIOUS
    <3>3. losses \in SUBSET Int /\ losses # {}
      BY <2>3
    <3>4. Min(losses) \in losses /\ \A y \in losses : Min(losses) =< y
      <4> HIDE DEF losses
      <4> QED
        BY <3>1, <3>2, <3>3, Smallest
    <3>5. PICK z \in rest : Min(losses) = -amount[z]
      BY <3>4
    <3>6. \A y \in rest : -amount[z] =< -amount[y]
      BY <3>4, <3>5
    <3>7. \A y \in rest : amount[z] >= amount[y]
      BY <3>6
    <3> QED
      BY <3>7
  <2>5. IsTop(top \union {z}, set, amount)
    BY <2>1, <2>4 DEF IsTop
  <2>6. Cardinality(top \union {z}) = n + 1
    <3>1. z \notin top
      OBVIOUS
    <3> QED
      BY <2>1, <2>2, <3>1, FS_AddElement
  <2> QED
    BY <2>5, <2>6
<1>4. \A n \in Nat : n \in done
  <2>1. done \in SUBSET Nat
    OBVIOUS
  <2>2. \A n \in done : n + 1 \in done
    BY <1>3
  <2> HIDE DEF done
  <2> QED
    BY <1>2, <2>1, <2>2, Induction
<1> QED
  BY <1>1, <1>4

\* What is listed of a set: the largest elements, as many as asked for if there
\* are not fewer.
LEMMA TopFacts ==
    ASSUME NEW set, IsFiniteSet(set), NEW n \in Nat, NEW amount, \A x \in set : amount[x] \in Int
    PROVE  LET top == Top(n, set, amount)
           IN  /\ top \subseteq set /\ \A x \in top, y \in set \ top : amount[x] >= amount[y]
               /\ Cardinality(top) = Min({n, Cardinality(set)})
<1> DEFINE top == Top(n, set, amount)
<1>1. Cardinality(set) \in Nat
  BY FS_CardinalityType
<1>2. Min({n, Cardinality(set)}) = IF n =< Cardinality(set) THEN n ELSE Cardinality(set)
  BY <1>1, MinOfTwo
<1>3. CASE Cardinality(set) =< n
  <2>1. top = set
    BY <1>3 DEF Top
  <2>2. Min({n, Cardinality(set)}) = Cardinality(set)
    BY <1>1, <1>2, <1>3
  <2> QED
    BY <2>1, <2>2
<1>4. CASE ~(Cardinality(set) =< n)
  <2> DEFINE Good(t) == \A x \in t, y \in set \ t : amount[x] >= amount[y]
  <2>1. n \in 0 .. Cardinality(set)
    BY <1>1, <1>4
  <2>2. \E t \in kSubset(n, set) : Good(t)
    BY <2>1, TopExists DEF IsTop, kSubset
  <2>3. top = CHOOSE t \in kSubset(n, set) : Good(t)
    BY <1>4 DEF Top
  <2> HIDE DEF Good, top
  <2>4. top \in kSubset(n, set) /\ Good(top)
    BY <2>2, <2>3
  <2>5. top \subseteq set /\ Cardinality(top) = n
    BY <2>4 DEF kSubset
  <2>6. Min({n, Cardinality(set)}) = n
    BY <1>1, <1>2, <2>1
  <2> QED
    BY <2>4, <2>5, <2>6 DEF Good, top
<1> QED
  BY <1>3, <1>4

-----------------------------------------------------------------------------
(* What is made of a list in which nothing is repeated. *)

\* What Total has of a set of transactions: the sum of those with an amount.
LEMMA TotalFacts ==
    ASSUME NEW set \in SUBSET Splits
    PROVE  LET numbered == {s \in set : AmountOf[s] # NoAmount}
           IN  /\ IsFiniteSet(numbered) /\ \A s \in numbered : AmountOf[s] \in Int
               /\ Total(set) = SumFunctionOnSet(AmountOf, numbered) /\ Total(set) \in Int
<1> DEFINE numbered == {s \in set : AmountOf[s] # NoAmount}
<1>1. numbered \subseteq Splits /\ \A s \in numbered : AmountOf[s] \in Int
  BY LedgerReaderAssumption
<1>2. IsFiniteSet(numbered)
  BY <1>1, SplitsFacts, FS_Subset
<1>3. Total(set) = SumFunctionOnSet(AmountOf, numbered)
  BY DEF Total
<1> HIDE DEF numbered
<1>4. Total(set) \in Int
  BY <1>1, <1>2, <1>3, SumStep
<1> QED
  BY <1>1, <1>2, <1>3, <1>4 DEF numbered

\* Some places of it: as many as there are splits at them, and their sum.
LEMMA SumOfPlaces ==
    ASSUME NEW seq \in Seq(Splits), IsInjective(seq), NEW P \in SUBSET DOMAIN seq
    PROVE  LET I == {seq[i] : i \in P}
           IN  /\ I \in SUBSET Splits /\ IsFiniteSet(P) /\ IsFiniteSet(I)
               /\ Cardinality(I) = Cardinality(P)
               /\ SumOf(seq, P) = Total(I)
<1> DEFINE I == {seq[i] : i \in P}
           N == Numbered(seq, P)
           amounts == [i \in N |-> AmountOf[seq[i]]]
<1>1. \A i \in DOMAIN seq : seq[i] \in Splits
  <2>1. DOMAIN seq = 1 .. Len(seq) /\ seq \in [1 .. Len(seq) -> Splits]
    BY LenProperties
  <2> QED
    BY <2>1
<1>2. I \in SUBSET Splits
  BY <1>1
<1>3. IsFiniteSet(DOMAIN seq)
  <2>1. DOMAIN seq = 1 .. Len(seq) /\ Len(seq) \in Nat
    BY LenProperties
  <2> QED
    BY <2>1, IntervalSize
<1>4. IsFiniteSet(P) /\ IsFiniteSet(I) /\ Cardinality(I) = Cardinality(P)
  <2>1. IsFiniteSet(P)
    BY <1>3, FS_Subset
  <2>2. /\ Cardinality(P) \in Nat /\ IsFiniteSet(I) /\ Cardinality(I) \in Nat
        /\ Cardinality(I) =< Cardinality(P)
        /\ Cardinality(P) =< Cardinality(I) + (Len(seq) - Cardinality(ToSet(seq)))
    BY CountedPlaces
  <2>3. Cardinality(ToSet(seq)) = Len(seq) /\ Len(seq) \in Nat
    BY SetOfSeq
  <2> HIDE DEF I
  <2> QED
    BY <2>1, <2>2, <2>3
<1>5. N \in SUBSET P /\ \A i \in N : AmountOf[seq[i]] # NoAmount
  BY DEF Numbered
<1>6. IsFiniteSet(N)
  BY <1>4, <1>5, FS_Subset
<1>7. {seq[i] : i \in N} = {s \in I : AmountOf[s] # NoAmount}
  BY DEF Numbered
<1>8. \A i \in N : AmountOf[seq[i]] \in Int /\ amounts[i] = AmountOf[seq[i]]
  BY <1>1, <1>5, LedgerReaderAssumption
<1>9. \A i, j \in N : seq[i] = seq[j] => i = j
  BY <1>5 DEF IsInjective
<1>10. SumOf(seq, P) = SumFunctionOnSet(amounts, N)
  <2>1. DOMAIN amounts = N
    OBVIOUS
  <2>2. SumOf(seq, P) = SumFunction(amounts)
    BY DEF SumOf
  <2> HIDE DEF amounts, N
  <2> QED
    BY <2>1, <2>2 DEF SumFunction
<1> HIDE DEF amounts, N
<1>11. SumFunctionOnSet(amounts, N) = SumFunctionOnSet(AmountOf, {seq[i] : i \in N})
  <2> DEFINE B == {seq[i] : i \in N}
  <2>1. Names(seq, N, B)
    BY <1>9 DEF Names
  <2> HIDE DEF B
  <2>2. SumFunctionOnSet(amounts, N) = SumFunctionOnSet(AmountOf, B)
    BY <1>6, <1>8, <2>1, SumOverImage
  <2> QED
    BY <2>2 DEF B
<1>12. SumOf(seq, P) = Total(I)
  BY <1>7, <1>10, <1>11, Zenon DEF Total
<1> QED
  BY <1>2, <1>4, <1>12

\* The sums by group are those of the splits of the groups, and add up.
LEMMA SumsOfPlaces ==
    ASSUME NEW seq \in Seq(Splits), IsInjective(seq), NEW P \in SUBSET DOMAIN seq, NEW groupOf
    PROVE  LET I == {seq[i] : i \in P}
               sums == SumsBy(groupOf, seq, P)
           IN  /\ DOMAIN sums = {groupOf[s] : s \in I} /\ IsFiniteSet(DOMAIN sums)
               /\ \A g \in DOMAIN sums : /\ sums[g] = Total({s \in I : groupOf[s] = g})
                                         /\ sums[g] \in Int
               /\ SumFunction(sums) = Total(I)
<1> DEFINE I == {seq[i] : i \in P}
           G == {groupOf[seq[i]] : i \in P}
           sums == SumsBy(groupOf, seq, P)
           S == {s \in I : AmountOf[s] # NoAmount}
<1>1. I \in SUBSET Splits /\ IsFiniteSet(P) /\ IsFiniteSet(I)
  BY SumOfPlaces
<1>2. DOMAIN sums = G
  BY DEF SumsBy
<1>3. G = {groupOf[s] : s \in I}
  OBVIOUS
<1>4. IsFiniteSet(G)
  <2> HIDE DEF I, G
  <2>1. IsFiniteSet({groupOf[s] : s \in I})
    BY <1>1, ImageIsNoLarger, Zenon
  <2> QED
    BY <1>3, <2>1
<1>5. ASSUME NEW g \in G
      PROVE  sums[g] = Total({s \in I : groupOf[s] = g}) /\ sums[g] \in Int
  <2> DEFINE Q == {i \in P : groupOf[seq[i]] = g}
  <2>1. sums[g] = SumOf(seq, Q)
    BY DEF SumsBy
  <2>2. {seq[i] : i \in Q} = {s \in I : groupOf[s] = g}
    OBVIOUS
  <2>3. SumOf(seq, Q) = Total({seq[i] : i \in Q})
    <3>1. Q \in SUBSET DOMAIN seq
      OBVIOUS
    <3> HIDE DEF Q
    <3> QED
      BY <3>1, SumOfPlaces
  <2>4. {s \in I : groupOf[s] = g} \in SUBSET Splits
    BY <1>1
  <2>5. sums[g] = Total({s \in I : groupOf[s] = g})
    BY <2>1, <2>2, <2>3, Zenon
  <2>6. Total({s \in I : groupOf[s] = g}) \in Int
    BY <2>4, TotalFacts
  <2> QED
    BY <2>5, <2>6
<1>6. SumFunctionOnSet(sums, G) = SumFunctionOnSet(AmountOf, S)
  <2>1. IsFiniteSet(S) /\ \A s \in S : AmountOf[s] \in Int
    BY <1>1, TotalFacts
  <2>2. \A s \in S : groupOf[s] \in G
    BY <1>3
  <2>3. ASSUME NEW g \in G PROVE sums[g] = SumFunctionOnSet(AmountOf, {s \in S : groupOf[s] = g})
    <3>1. {s \in {s \in I : groupOf[s] = g} : AmountOf[s] # NoAmount} = {s \in S : groupOf[s] = g}
      OBVIOUS
    <3>2. sums[g] = Total({s \in I : groupOf[s] = g})
      BY <1>5
    <3> QED
      BY <3>1, <3>2, Zenon DEF Total
  <2> DEFINE members == [g \in G |-> {s \in S : groupOf[s] = g}]
  <2>4. /\ \A g \in G : members[g] = {s \in S : groupOf[s] = g}
        /\ \A g \in G : members[g] \in SUBSET S
        /\ \A g \in G, s \in S : s \in members[g] <=> groupOf[s] = g
    OBVIOUS
  <2>5. \A g \in G : sums[g] = SumFunctionOnSet(AmountOf, members[g])
    BY <2>3, <2>4, Zenon
  <2> HIDE DEF S, G, sums, members
  <2> QED
    BY <1>4, <2>1, <2>2, <2>4, <2>5, SumOfGroups
<1>7. SumFunction(sums) = SumFunctionOnSet(sums, G)
  <2> HIDE DEF sums, G
  <2> QED
    BY <1>2 DEF SumFunction
<1>8. Total(I) = SumFunctionOnSet(AmountOf, S)
  BY DEF Total
<1> HIDE DEF sums, G, I, S
<1> QED
  BY <1>2, <1>3, <1>4, <1>5, <1>6, <1>7, <1>8 DEF sums, I
-----------------------------------------------------------------------------
(* The reports of a ledger at rest. *)

\* Each list is in Firefly's order, and nothing is in it twice.
LEMMA AtRest ==
    ASSUME ReadInv, Complete, inserted + deleted = 0
    PROVE  /\ splits \in Seq(Splits) /\ IsInjective(splits) /\ ToSet(splits) = Visible(before, asked)
           /\ history \in Seq(Splits) /\ IsInjective(history)
           /\ digest => asked = SecondList /\ ToSet(history) = Visible(before, FirstList)
           /\ before \in SUBSET Splits
           /\ ToSet(Listing(before, asked)) = Visible(before, asked)
<1>1. /\ splits \in Seq(Splits) /\ history \in Seq(Splits) /\ before \in SUBSET Splits
      /\ inserted \in Nat /\ deleted \in Nat
      /\ digest => asked = SecondList /\ Second
      /\ splits = Listing(before, asked) /\ (Second => history = Listing(before, FirstList))
  BY CompleteFacts
<1>2. inserted = 0
  BY <1>1
<1>3. IsInjective(splits) /\ IsInjective(history)
  BY <1>2, RepeatsAreBooked
<1>4. /\ ToSet(Listing(before, asked)) = Visible(before, asked)
      /\ ToSet(Listing(before, FirstList)) = Visible(before, FirstList)
  BY <1>1, ListingFacts
<1> QED
  BY <1>1, <1>3, <1>4

\* The sum of an answer is that of the transactions in the ledger it names.
LEMMA AnswerIsExact ==
    ASSUME ReadInv, Complete, inserted + deleted = 0, NEW category, NEW merchant
    PROVE  Answer(splits, category, merchant, "sum").result
             = Total({s \in ToSet(Listing(before, asked)) : Matches(s, category, merchant)})
<1> DEFINE matched == {i \in DOMAIN splits :
                          Belongs(splits[i], asked) /\ Matches(splits[i], category, merchant)}
           named == {s \in ToSet(Listing(before, asked)) : Matches(s, category, merchant)}
<1>1. /\ splits \in Seq(Splits) /\ IsInjective(splits) /\ ToSet(splits) = Visible(before, asked)
      /\ ToSet(Listing(before, asked)) = ToSet(splits)
  BY AtRest
<1>2. \A s \in ToSet(splits) : Belongs(s, asked)
  BY <1>1 DEF Visible
<1>3. {splits[i] : i \in matched} = named
  BY <1>1, <1>2 DEF ToSet
<1>4. SumOf(splits, matched) = Total({splits[i] : i \in matched})
  <2>1. matched \in SUBSET DOMAIN splits
    OBVIOUS
  <2> HIDE DEF matched
  <2> QED
    BY <1>1, <2>1, SumOfPlaces
<1>5. Answer(splits, category, merchant, "sum").result = SumOf(splits, matched)
  BY DEF Answer
<1> QED
  BY <1>3, <1>4, <1>5, Zenon

\* The sums of a digest are those of the week, and its categories add up.
LEMMA DigestIsExact ==
    ASSUME ReadInv, Complete, inserted + deleted = 0, digest
    PROVE  LET told == Digest(history, splits)
           IN  /\ told.income = Total({s \in before \intersect Week : TypeOf[s] = "deposit"})
               /\ told.expense = Total({s \in before \intersect Week : TypeOf[s] = "withdrawal"})
               /\ told.expense = SumFunction(told.categories)
<1> DEFINE week == {i \in DOMAIN history : history[i] \in Week}
           I == {history[i] : i \in week}
           earned == {s \in before \intersect Week : TypeOf[s] = "deposit"}
           spent == {s \in before \intersect Week : TypeOf[s] = "withdrawal"}
           told == Digest(history, splits)
<1>1. /\ splits \in Seq(Splits) /\ IsInjective(splits) /\ ToSet(splits) = Visible(before, SecondList)
      /\ history \in Seq(Splits) /\ IsInjective(history) /\ ToSet(history) = Visible(before, FirstList)
  BY AtRest
<1>2. /\ told.income = SumOf(splits, DOMAIN splits) /\ told.expense = SumOf(history, week)
      /\ told.categories = SumsBy(CategoryOf, history, week)
  BY DEF Digest
<1>3. SumOf(splits, DOMAIN splits) = Total(earned)
  <2>1. {splits[i] : i \in DOMAIN splits} = earned
    <3>1. {splits[i] : i \in DOMAIN splits} = ToSet(splits)
      BY DEF ToSet
    <3>2. Visible(before, SecondList) = earned
      BY DEF Visible, Belongs, SecondList
    <3> QED
      BY <1>1, <3>1, <3>2
  <2>2. SumOf(splits, DOMAIN splits) = Total({splits[i] : i \in DOMAIN splits})
    BY <1>1, SumOfPlaces
  <2> QED
    BY <2>1, <2>2, Zenon
<1>4. I = spent
  <2>1. I = {s \in ToSet(history) : s \in Week}
    BY DEF ToSet
  <2>2. {s \in Visible(before, FirstList) : s \in Week} = spent
    BY DEF Visible, Belongs, FirstList
  <2> QED
    BY <1>1, <2>1, <2>2
<1>5. week \in SUBSET DOMAIN history
  OBVIOUS
<1> HIDE DEF week
<1>6. SumOf(history, week) = Total(I)
  BY <1>1, <1>5, SumOfPlaces
<1>7. SumFunction(SumsBy(CategoryOf, history, week)) = Total(I)
  BY <1>1, <1>5, SumsOfPlaces
<1> HIDE DEF I, earned, spent, told
<1>8. /\ told.income = Total(earned) /\ told.expense = Total(spent)
      /\ told.expense = SumFunction(told.categories)
  BY <1>2, <1>3, <1>4, <1>6, <1>7, Zenon
<1> QED
  BY <1>8 DEF earned, spent, told

\* What a summary tells of a ledger at rest, as QuietReportsAreExact has it.
SummaryIsTrue(told, by) ==
    LET there == ToSet(Listing(before, asked))
        groupOf == IF by = "category" THEN CategoryOf ELSE MerchantOf
        all == {groupOf[s] : s \in {s \in there : AmountOf[s] # NoAmount}}
        sum(g) == Total({s \in there : groupOf[s] = g})
    IN  /\ told.total = Total(there)
        /\ Cardinality(DOMAIN told.groups) = Min({MaxGroups, Cardinality(all)})
        /\ \A g \in DOMAIN told.groups :
              /\ told.groups[g] = sum(g)
              /\ \A h \in all \ DOMAIN told.groups : sum(g) >= sum(h)

\* The summary tells the total, and the largest groups with their sums.
LEMMA SummaryIsExact ==
    ASSUME ReadInv, Complete, inserted + deleted = 0, NEW by
    PROVE  SummaryIsTrue(Summary(splits, by), by)
<1> DEFINE told == Summary(splits, by)
           there == ToSet(Listing(before, asked))
           groupOf == IF by = "category" THEN CategoryOf ELSE MerchantOf
           all == {groupOf[s] : s \in {s \in there : AmountOf[s] # NoAmount}}
           sum(g) == Total({s \in there : groupOf[s] = g})
           N == Numbered(splits, DOMAIN splits)
           I == {splits[i] : i \in N}
           sums == SumsBy(groupOf, splits, N)
           top == Top(MaxGroups, DOMAIN sums, sums)
<1>1. /\ splits \in Seq(Splits) /\ IsInjective(splits) /\ there = ToSet(splits)
  BY AtRest
<1>2. I = {s \in there : AmountOf[s] # NoAmount}
  BY <1>1 DEF Numbered, ToSet
<1>3. told.total = SumOf(splits, N) /\ told.groups = [g \in top |-> sums[g]]
  BY DEF Summary
<1>4. N \in SUBSET DOMAIN splits
  BY DEF Numbered
<1> HIDE DEF N, told, groupOf
<1>5. SumOf(splits, N) = Total(I)
  BY <1>1, <1>4, SumOfPlaces
<1>6. Total(I) = Total(there)
  <2>1. {s \in I : AmountOf[s] # NoAmount} = {s \in there : AmountOf[s] # NoAmount}
    BY <1>2
  <2> HIDE DEF I, there
  <2> QED
    BY <2>1, Zenon DEF Total
<1>7. /\ DOMAIN sums = {groupOf[s] : s \in I} /\ IsFiniteSet(DOMAIN sums)
      /\ \A g \in DOMAIN sums : /\ sums[g] = Total({s \in I : groupOf[s] = g})
                                /\ sums[g] \in Int
  BY <1>1, <1>4, SumsOfPlaces
<1>8. DOMAIN sums = all
  <2> HIDE DEF sums, I, there
  <2> QED
    BY <1>2, <1>7, Zenon
<1>9. ASSUME NEW g \in DOMAIN sums PROVE sums[g] = sum(g)
  <2>1. {s \in {s \in I : groupOf[s] = g} : AmountOf[s] # NoAmount}
           = {s \in {s \in there : groupOf[s] = g} : AmountOf[s] # NoAmount}
    BY <1>2
  <2>2. sums[g] = Total({s \in I : groupOf[s] = g})
    BY <1>7
  <2> HIDE DEF I, there, sums
  <2> QED
    BY <2>1, <2>2, Zenon DEF Total
<1>10. MaxGroups \in Nat
  BY LedgerReaderAssumption
<1> HIDE DEF sums, all, there, sum
<1>11. /\ top \subseteq DOMAIN sums /\ \A x \in top, y \in DOMAIN sums \ top : sums[x] >= sums[y]
       /\ Cardinality(top) = Min({MaxGroups, Cardinality(DOMAIN sums)})
  BY <1>7, <1>10, TopFacts
<1> HIDE DEF top
<1>12. DOMAIN told.groups = top
  BY <1>3
<1>13. \A g \in top : told.groups[g] = sum(g) /\ \A h \in all \ top : sum(g) >= sum(h)
  BY <1>3, <1>8, <1>9, <1>11
<1>14. told.total = Total(there) /\ Cardinality(top) = Min({MaxGroups, Cardinality(all)})
  BY <1>3, <1>5, <1>6, <1>8, <1>11, Zenon
<1>15. /\ told.total = Total(there)
       /\ Cardinality(DOMAIN told.groups) = Min({MaxGroups, Cardinality(all)})
       /\ \A g \in DOMAIN told.groups :
             told.groups[g] = sum(g) /\ \A h \in all \ DOMAIN told.groups : sum(g) >= sum(h)
  BY <1>12, <1>13, <1>14, Zenon
<1> QED
  BY <1>15 DEF told, all, there, sum, groupOf, SummaryIsTrue

\* The search lists what it names, none of it smaller than what it leaves out.
LEMMA SearchIsExact ==
    ASSUME ReadInv, Complete, inserted + deleted = 0, NEW category, NEW merchant
    PROVE  LET told == Search(splits, category, merchant)
               found == {s \in ToSet(Listing(before, asked)) :
                            Matches(s, category, merchant) /\ AmountOf[s] # NoAmount}
           IN  /\ told.transactions \subseteq found
               /\ Cardinality(told.transactions) = Min({Limit, Cardinality(found)})
               /\ \A s \in told.transactions, t \in found \ told.transactions :
                     AmountOf[s] >= AmountOf[t]
<1> DEFINE told == Search(splits, category, merchant)
           found == {s \in ToSet(Listing(before, asked)) :
                        Matches(s, category, merchant) /\ AmountOf[s] # NoAmount}
           P == {i \in DOMAIN splits : /\ Matches(splits[i], category, merchant)
                                       /\ AmountOf[splits[i]] # NoAmount}
           amounts == [i \in P |-> AmountOf[splits[i]]]
           top == Top(Limit, P, amounts)
<1>1. /\ splits \in Seq(Splits) /\ IsInjective(splits) /\ ToSet(Listing(before, asked)) = ToSet(splits)
      /\ ToSet(splits) \in SUBSET Splits
  BY AtRest, SetOfSeq
<1>2. found = {splits[i] : i \in P} /\ P \in SUBSET DOMAIN splits
  BY <1>1 DEF ToSet
<1>3. told.transactions = {splits[i] : i \in top}
  BY DEF Search
<1>4. \A i \in P : amounts[i] = AmountOf[splits[i]] /\ amounts[i] \in Int
  BY <1>1, LedgerReaderAssumption DEF ToSet
<1>5. Limit \in Nat
  BY LedgerReaderAssumption
<1> HIDE DEF told, found, P, amounts
<1>6. IsFiniteSet(P) /\ Cardinality({splits[i] : i \in P}) = Cardinality(P)
  BY <1>1, <1>2, SumOfPlaces
<1>7. /\ top \subseteq P /\ \A x \in top, y \in P \ top : amounts[x] >= amounts[y]
      /\ Cardinality(top) = Min({Limit, Cardinality(P)})
  BY <1>4, <1>5, <1>6, TopFacts
<1> HIDE DEF top
<1>8. Cardinality({splits[i] : i \in top}) = Cardinality(top)
  <2>1. top \in SUBSET DOMAIN splits
    BY <1>2, <1>7
  <2> QED
    BY <1>1, <2>1, SumOfPlaces
<1>9. told.transactions \subseteq found
  BY <1>2, <1>3, <1>7
<1>10. Cardinality(told.transactions) = Min({Limit, Cardinality(found)})
  <2>1. Cardinality(told.transactions) = Cardinality(top) /\ Cardinality(found) = Cardinality(P)
    BY <1>2, <1>3, <1>6, <1>8, Zenon
  <2> QED
    BY <1>7, <2>1
<1>11. ASSUME NEW s \in told.transactions, NEW t \in found \ told.transactions
       PROVE  AmountOf[s] >= AmountOf[t]
  <2>1. PICK i \in top : splits[i] = s
    BY <1>3
  <2>2. PICK j \in P : splits[j] = t
    BY <1>2
  <2>3. j \notin top
    BY <1>3, <2>2
  <2>4. amounts[i] >= amounts[j]
    BY <1>7, <2>1, <2>2, <2>3
  <2> QED
    BY <1>4, <1>7, <2>1, <2>2, <2>4
<1> QED
  BY <1>9, <1>10, <1>11 DEF told, found

\* What is read of a ledger at rest and told of it makes the reports exact.
LEMMA ExactReports == ReadInv /\ ReportInv => QuietReportsAreExact
<1> SUFFICES ASSUME ReadInv, ReportInv, inserted + deleted = 0
             PROVE  QuietReportsAreExact
  BY DEF QuietReportsAreExact
<1>1. CASE pc # "reported"
  <2>1. report.kind = "none"
    BY <1>1 DEF ReadInv, TypeOK, NoReport
  <2> QED
    BY <2>1 DEF QuietReportsAreExact
<1>2. ASSUME pc = "reported" PROVE Complete /\ ReportMade
  BY <1>2 DEF Complete, ReportInv
<1>3. \A category, merchant, metric :
         LET told == Answer(splits, category, merchant, metric)
         IN  /\ told.kind = "answer" /\ told.category = category /\ told.merchant = merchant
             /\ told.metric = metric
  BY DEF Answer
<1>4. \A category, merchant :
         LET told == Search(splits, category, merchant)
         IN  told.kind = "search" /\ told.category = category /\ told.merchant = merchant
  BY DEF Search
<1>5. \A by : Summary(splits, by).kind = "summary" /\ Summary(splits, by).by = by
  BY DEF Summary
<1>6. Digest(history, splits).kind = "digest"
  BY DEF Digest
<1>7. CASE pc = "reported"
  <2>1. CASE report.kind = "answer"
    <3>1. PICK category, merchant, metric : report = Answer(splits, category, merchant, metric)
      BY <1>2, <1>6, <1>7, <2>1 DEF ReportMade
    <3>2. /\ report.category = category /\ report.merchant = merchant /\ report.metric = metric
      BY <1>3, <3>1
    <3>3. metric = "sum" =>
            report.result
              = Total({s \in ToSet(Listing(before, asked)) : Matches(s, category, merchant)})
      BY <1>2, <1>7, <3>1, AnswerIsExact
    <3> QED
      BY <2>1, <3>2, <3>3 DEF QuietReportsAreExact
  <2>2. CASE report.kind = "digest"
    <3>1. digest /\ report = Digest(history, splits)
      BY <1>2, <1>3, <1>7, <2>2 DEF ReportMade
    <3>2. /\ report.income = Total({s \in before \intersect Week : TypeOf[s] = "deposit"})
          /\ report.expense = Total({s \in before \intersect Week : TypeOf[s] = "withdrawal"})
          /\ report.expense = SumFunction(report.categories)
      BY <1>2, <1>7, <3>1, DigestIsExact
    <3> QED
      BY <2>2, <3>2 DEF QuietReportsAreExact
  <2>3. CASE report.kind = "summary"
    <3>1. PICK by : report = Summary(splits, by)
      BY <1>2, <1>3, <1>6, <1>7, <2>3 DEF ReportMade
    <3>2. report.by = by
      BY <1>5, <3>1
    <3>3. SummaryIsTrue(report, report.by)
      BY <1>2, <1>7, <3>1, <3>2, SummaryIsExact
    <3> QED
      BY <2>3, <3>3 DEF QuietReportsAreExact, SummaryIsTrue
  <2>4. CASE report.kind = "search"
    <3>1. PICK category, merchant : report = Search(splits, category, merchant)
      BY <1>2, <1>3, <1>6, <1>7, <2>4 DEF ReportMade
    <3>2. report.category = category /\ report.merchant = merchant
      BY <1>4, <3>1
    <3> QED
      BY <1>2, <1>7, <2>4, <3>1, <3>2, SearchIsExact DEF QuietReportsAreExact
  <2> QED
    BY <2>1, <2>2, <2>3, <2>4 DEF QuietReportsAreExact
<1> QED
  BY <1>1, <1>7

\* What the user is told of a ledger at rest is true: the answer's sum, the sums
\* of the digest, the groups of the summary and the transactions of the search.
THEOREM QuietReportsHold == Spec => []QuietReportsAreExact
  BY ExactReports, ReadInvHolds, PTL
=============================================================================
