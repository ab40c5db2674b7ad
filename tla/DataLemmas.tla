----------------------------- MODULE DataLemmas -----------------------------
(***************************************************************************)
(* What the operators on finite data that Aggregate, Report and PayloadMix *)
(* are built from return, for data of any size.                            *)
(*                                                                         *)
(* The induction theorems of the library take the induction hypothesis as  *)
(* an operator.  Here it is a set instead, the set of the numbers (or of   *)
(* the subsets) for which the hypothesis holds: an induction is then a     *)
(* first-order step, from the least number outside of that set.            *)
(***************************************************************************)
EXTENDS Integers, Sequences, FiniteSets, SequencesExt, FiniteSetTheorems,
        WellFoundedInduction, TLAPS

-----------------------------------------------------------------------------
(* Induction. *)

\* A set of numbers has a least one.
LEMMA LeastNat ==
    ASSUME NEW T \in SUBSET Nat, T # {}
    PROVE  \E m \in T : \A k \in T : m <= k
<1>1. PICK m \in T : \A k \in T : ~ (<<k, m>> \in OpToRel(<, Nat))
  BY NatLessThanWellFounded, WFMin
<1>2. \A k \in T : ~ (k < m)
  BY <1>1 DEF OpToRel
<1> QED
  BY <1>2

\* A set with zero and, with each number, the next one has every number.
LEMMA NatInduct ==
    ASSUME NEW S, 0 \in S, \A n \in S \cap Nat : n + 1 \in S
    PROVE  Nat \subseteq S
<1> SUFFICES ASSUME Nat \ S # {} PROVE FALSE
  OBVIOUS
<1>1. PICK m \in Nat \ S : \A k \in Nat \ S : m <= k
  BY LeastNat
<1> QED
  BY <1>1

\* The same up to a bound.
LEMMA NatInductUpTo ==
    ASSUME NEW N \in Nat, NEW S, 0 \in S, \A n \in S : n \in 0..(N - 1) => n + 1 \in S
    PROVE  0..N \subseteq S
<1> DEFINE T == {n \in Nat : n <= N => n \in S}
<1>1. 0 \in T
  OBVIOUS
<1>2. \A n \in T \cap Nat : n + 1 \in T
  OBVIOUS
<1> HIDE DEF T
<1>3. Nat \subseteq T
  BY <1>1, <1>2, NatInduct
<1> QED
  BY <1>3 DEF T

\* A collection of sets with the empty one and, with each subset of S, what
\* one more element makes of it has the finite set S.
LEMMA SetInduct ==
    ASSUME NEW S, IsFiniteSet(S), NEW P, {} \in P,
           \A T \in SUBSET S, x \in S : T \in P /\ x \notin T => T \cup {x} \in P
    PROVE  S \in P
<1> DEFINE N == {n \in Nat : \A T \in SUBSET S : Cardinality(T) = n => T \in P}
<1>1. 0 \in N
  <2> SUFFICES ASSUME NEW T \in SUBSET S, Cardinality(T) = 0 PROVE T \in P
    OBVIOUS
  <2>1. T = {}
    BY FS_EmptySet, FS_Subset
  <2> QED
    BY <2>1
<1>2. ASSUME NEW n \in N \cap Nat PROVE n + 1 \in N
  <2> SUFFICES ASSUME NEW T \in SUBSET S, Cardinality(T) = n + 1 PROVE T \in P
    OBVIOUS
  <2>0. IsFiniteSet(T) /\ n \in Nat
    BY FS_Subset
  <2>1. T # {}
    BY <2>0, FS_EmptySet
  <2> PICK x \in T : TRUE
    BY <2>1
  <2> HIDE DEF N
  <2>2. Cardinality(T \ {x}) = Cardinality(T) - 1
    BY <2>0, FS_RemoveElement
  <2>3. Cardinality(T \ {x}) = n
    BY <2>0, <2>2
  <2>4. T \ {x} \in P
    BY <2>3 DEF N
  <2>5. (T \ {x}) \cup {x} \in P /\ (T \ {x}) \cup {x} = T
    BY <2>4
  <2> QED
    BY <2>5
<1> HIDE DEF N
<1>3. Nat \subseteq N
  BY <1>1, <1>2, NatInduct
<1> QED
  BY <1>3, FS_CardinalityType DEF N

\* A finite set of numbers has a greatest one.
LEMMA GreatestNat ==
    ASSUME NEW T \in SUBSET Nat, T # {}, IsFiniteSet(T)
    PROVE  \E m \in T : \A k \in T : k <= m
<1> DEFINE P == {U \in SUBSET T : U = {} \/ \E m \in U : \A k \in U : k <= m}
<1>1. {} \in P
  OBVIOUS
<1>2. \A U \in SUBSET T, x \in T : U \in P /\ x \notin U => U \cup {x} \in P
  <2> SUFFICES ASSUME NEW U \in SUBSET T, NEW x \in T, U \in P
               PROVE  U \cup {x} \in P
    OBVIOUS
  <2> SUFFICES \E m \in U \cup {x} : \A k \in U \cup {x} : k <= m
    OBVIOUS
  <2>1. CASE U = {}
    BY <2>1
  <2>2. CASE U # {}
    <3>1. PICK m \in U : \A k \in U : k <= m
      BY <2>2
    <3>2. CASE x <= m
      BY <3>1, <3>2
    <3>3. CASE m <= x
      <4>1. \A k \in U \cup {x} : k <= x
        BY <3>1, <3>3
      <4> QED
        BY <4>1
    <3> QED
      BY <3>2, <3>3
  <2> QED
    BY <2>1, <2>2
<1> HIDE DEF P
<1>3. T \in P
  BY <1>1, <1>2, SetInduct
<1> QED
  BY <1>3 DEF P

-----------------------------------------------------------------------------
(* Sums over finite sets. *)

\* SumFunctionOnSet is defined by recursion over the subsets of its set.
SumStep(f, s, g) ==
    IF s = {} THEN 0 ELSE LET x == CHOOSE x \in s : TRUE IN f[x] + g[s \ {x}]

LEMMA SumUnfolds ==
    ASSUME NEW f, NEW S
    PROVE  SumFunctionOnSet(f, S) =
              (CHOOSE g : g = [s \in SUBSET S |-> SumStep(f, s, g)])[S]
BY DEF SumFunctionOnSet, FoldFunctionOnSet, MapThenFoldSet, SumStep

\* There is a function that this recursion defines.
LEMMA SumExists ==
    ASSUME NEW f, NEW S, IsFiniteSet(S)
    PROVE  \E g : g = [s \in SUBSET S |-> SumStep(f, s, g)]
<1> DEFINE Good(g, n) ==
              \A s \in SUBSET S : Cardinality(s) <= n => g[s] = SumStep(f, s, g)
           N == {n \in Nat : \E g : Good(g, n)}
<1>0. \A s \in SUBSET S : /\ IsFiniteSet(s) /\ Cardinality(s) \in Nat
                          /\ Cardinality(s) <= Cardinality(S)
                          /\ Cardinality(s) = 0 => s = {}
                          /\ \A x \in s : Cardinality(s \ {x}) = Cardinality(s) - 1
  BY FS_Subset, FS_CardinalityType, FS_EmptySet, FS_RemoveElement
<1>1. 0 \in N
  <2>1. Good([s \in SUBSET S |-> 0], 0)
    BY <1>0 DEF SumStep
  <2> QED
    BY <2>1
<1>2. ASSUME NEW n \in N \cap Nat PROVE n + 1 \in N
  <2>1. PICK g : Good(g, n)
    OBVIOUS
  <2> DEFINE h == [s \in SUBSET S |-> SumStep(f, s, g)]
  <2>2. ASSUME NEW s \in SUBSET S, Cardinality(s) <= n + 1
        PROVE  h[s] = SumStep(f, s, h)
    <3>1. CASE s = {}
      BY <3>1 DEF SumStep
    <3>2. CASE s # {}
      <4> DEFINE x == CHOOSE x \in s : TRUE
      <4>0. x \in s
        BY <3>2
      <4> HIDE DEF x, h, N
      <4>1. s \ {x} \in SUBSET S /\ Cardinality(s \ {x}) <= n
        BY <1>0, <2>2, <4>0
      <4> USE DEF h
      <4>2. g[s \ {x}] = h[s \ {x}]
        BY <2>1, <4>1
      <4> QED
        BY <3>2, <4>2 DEF SumStep, x
    <3> QED
      BY <3>1, <3>2
  <2>3. Good(h, n + 1)
    BY <2>2
  <2> HIDE DEF Good
  <2> QED
    BY <2>3
<1>3. \E g : Good(g, Cardinality(S))
  <2> HIDE DEF N
  <2>1. Nat \subseteq N
    BY <1>1, <1>2, NatInduct
  <2> QED
    BY <2>1, FS_CardinalityType DEF N
<1>4. PICK g : Good(g, Cardinality(S))
  BY <1>3
<1> DEFINE h == [s \in SUBSET S |-> g[s]]
<1>5. ASSUME NEW s \in SUBSET S PROVE h[s] = SumStep(f, s, h)
  <2>1. g[s] = SumStep(f, s, g)
    BY <1>0, <1>4
  <2>2. CASE s = {}
    BY <2>1, <2>2 DEF SumStep
  <2>3. CASE s # {}
    BY <2>1, <2>3 DEF SumStep
  <2> QED
    BY <2>2, <2>3
<1>6. h = [s \in SUBSET S |-> SumStep(f, s, h)]
  BY <1>5
<1> QED
  BY <1>6

\* The recursion on the subsets of S gives the sum over each of them.
LEMMA SumOfSubset ==
    ASSUME NEW f, NEW S, IsFiniteSet(S),
           NEW g, g = [s \in SUBSET S |-> SumStep(f, s, g)],
           NEW T \in SUBSET S
    PROVE  SumFunctionOnSet(f, T) = g[T]
<1> DEFINE h == CHOOSE h : h = [s \in SUBSET T |-> SumStep(f, s, h)]
<1>0. /\ IsFiniteSet(T)
      /\ \A s \in SUBSET T : /\ IsFiniteSet(s) /\ Cardinality(s) \in Nat
                             /\ Cardinality(s) = 0 => s = {}
                             /\ \A x \in s : Cardinality(s \ {x}) = Cardinality(s) - 1
  <2>1. IsFiniteSet(T)
    BY FS_Subset
  <2> QED
    BY <2>1, FS_Subset, FS_CardinalityType, FS_EmptySet, FS_RemoveElement
<1>1. h = [s \in SUBSET T |-> SumStep(f, s, h)]
  BY <1>0, SumExists
<1>2. SumFunctionOnSet(f, T) = h[T]
  BY SumUnfolds
<1> HIDE DEF h
<1> DEFINE N == {n \in Nat : \A s \in SUBSET T : Cardinality(s) = n => h[s] = g[s]}
<1>3. \A s \in SUBSET T : h[s] = SumStep(f, s, h) /\ g[s] = SumStep(f, s, g)
  <2> SUFFICES ASSUME NEW s \in SUBSET T
               PROVE  h[s] = SumStep(f, s, h) /\ g[s] = SumStep(f, s, g)
    OBVIOUS
  <2>1. h[s] = SumStep(f, s, h)
    BY <1>1
  <2>2. s \in SUBSET S
    OBVIOUS
  <2>3. g[s] = SumStep(f, s, g)
    BY <2>2
  <2> QED
    BY <2>1, <2>3
<1>4. 0 \in N
  BY <1>0, <1>3 DEF SumStep
<1>5. ASSUME NEW n \in N \cap Nat PROVE n + 1 \in N
  <2>0. n \in Nat /\ n + 1 \in Nat
    OBVIOUS
  <2> SUFFICES ASSUME NEW s \in SUBSET T, Cardinality(s) = n + 1 PROVE h[s] = g[s]
    BY <2>0
  <2>1. CASE s = {}
    BY <1>3, <2>1 DEF SumStep
  <2>2. CASE s # {}
    <3> DEFINE x == CHOOSE x \in s : TRUE
    <3>1. x \in s
      BY <2>2
    <3>2. h[s] = f[x] + h[s \ {x}] /\ g[s] = f[x] + g[s \ {x}]
      BY <1>3, <2>2 DEF SumStep
    <3> HIDE DEF x, N
    <3>3. n \in Nat /\ Cardinality(s \ {x}) = Cardinality(s) - 1
      BY <1>0, <3>1
    <3>4. Cardinality(s \ {x}) = n /\ s \ {x} \in SUBSET T
      BY <3>3
    <3>5. h[s \ {x}] = g[s \ {x}]
      BY <3>4 DEF N
    <3> QED
      BY <3>2, <3>5
  <2> QED
    BY <2>1, <2>2
<1> HIDE DEF N
<1>6. Nat \subseteq N
  BY <1>4, <1>5, NatInduct
<1>7. h[T] = g[T]
  BY <1>0, <1>6 DEF N
<1> QED
  BY <1>2, <1>7

\* The sum over no elements.
LEMMA SumEmpty == ASSUME NEW f PROVE SumFunctionOnSet(f, {}) = 0
<1> DEFINE S == {}
<1>0. IsFiniteSet(S) /\ {} \in SUBSET S
  BY FS_EmptySet
<1> HIDE DEF S
<1>1. PICK g : g = [s \in SUBSET S |-> SumStep(f, s, g)]
  BY <1>0, SumExists
<1>2. g[{}] = 0
  <2>1. g[{}] = SumStep(f, {}, g)
    BY <1>0, <1>1
  <2> QED
    BY <2>1 DEF SumStep
<1>3. SumFunctionOnSet(f, S) = g[S]
  BY <1>0, <1>1, SumOfSubset
<1> QED
  BY <1>2, <1>3 DEF S

\* The sum over a set is one of its elements and the sum over the others.
LEMMA SumPicksOne ==
    ASSUME NEW f, NEW S, IsFiniteSet(S), S # {}
    PROVE  \E x \in S : SumFunctionOnSet(f, S) = f[x] + SumFunctionOnSet(f, S \ {x})
<1>1. PICK g : g = [s \in SUBSET S |-> SumStep(f, s, g)]
  BY SumExists
<1> DEFINE x == CHOOSE x \in S : TRUE
<1>2. x \in S
  OBVIOUS
<1>3. g[S] = f[x] + g[S \ {x}]
  <2>1. g[S] = SumStep(f, S, g)
    BY <1>1
  <2> QED
    BY <2>1 DEF SumStep
<1> HIDE DEF x
<1>4. SumFunctionOnSet(f, S) = g[S]
  BY <1>1, SumOfSubset
<1>5. S \ {x} \in SUBSET S
  OBVIOUS
<1>6. SumFunctionOnSet(f, S \ {x}) = g[S \ {x}]
  BY <1>1, <1>5, SumOfSubset
<1> QED
  BY <1>2, <1>3, <1>4, <1>6

\* A sum of integers is an integer, and it does not matter which element is
\* taken first.
LEMMA SumRemove ==
    ASSUME NEW f, NEW S, IsFiniteSet(S), \A x \in S : f[x] \in Int
    PROVE  /\ SumFunctionOnSet(f, S) \in Int
           /\ \A x \in S : SumFunctionOnSet(f, S) = f[x] + SumFunctionOnSet(f, S \ {x})
<1> DEFINE Sum(s) == SumFunctionOnSet(f, s)
           Good(s) == /\ Sum(s) \in Int
                      /\ \A x \in s : Sum(s) = f[x] + Sum(s \ {x})
           N == {n \in Nat : \A s \in SUBSET S : Cardinality(s) <= n => Good(s)}
<1> HIDE DEF Sum
<1>0. \A s \in SUBSET S : /\ IsFiniteSet(s) /\ Cardinality(s) \in Nat
                          /\ Cardinality(s) = 0 => s = {}
                          /\ \A x \in s : Cardinality(s \ {x}) = Cardinality(s) - 1
  BY FS_Subset, FS_CardinalityType, FS_EmptySet, FS_RemoveElement
<1>1. Good({})
  BY SumEmpty DEF Sum
<1>2. 0 \in N
  <2> SUFFICES ASSUME NEW s \in SUBSET S, Cardinality(s) <= 0 PROVE Good(s)
    OBVIOUS
  <2>1. s = {}
    BY <1>0
  <2> QED
    BY <1>1, <2>1
<1>3. ASSUME NEW n \in N \cap Nat PROVE n + 1 \in N
  <2> SUFFICES ASSUME NEW s \in SUBSET S, Cardinality(s) <= n + 1, s # {} PROVE Good(s)
    BY <1>1
  <2>0. n \in Nat
    OBVIOUS
  <2> HIDE DEF N
  <2>1. PICK c \in s : Sum(s) = f[c] + Sum(s \ {c})
    BY <1>0, SumPicksOne DEF Sum
  <2>2. \A t \in SUBSET S : Cardinality(t) <= n => Good(t)
    BY DEF N
  <2>3. \A x \in s : s \ {x} \in SUBSET S /\ Cardinality(s \ {x}) <= n
    BY <1>0, <2>0
  <2>4. \A x \in s : Good(s \ {x})
    BY <2>2, <2>3
  <2>5. Sum(s) \in Int
    BY <2>1, <2>4
  <2>6. ASSUME NEW x \in s PROVE Sum(s) = f[x] + Sum(s \ {x})
    <3>1. CASE x = c
      BY <2>1, <3>1
    <3>2. CASE x # c
      <4> DEFINE r == Sum((s \ {c}) \ {x})
      <4>1. x \in s \ {c} /\ c \in s \ {x} /\ (s \ {c}) \ {x} = (s \ {x}) \ {c}
        BY <3>2
      <4>2. Sum(s \ {c}) = f[x] + r
        BY <2>4, <4>1
      <4>3. Sum(s \ {x}) = f[c] + r
        BY <2>4, <4>1
      <4>4. r \in Int
        <5>1. (s \ {c}) \ {x} \in SUBSET S
          OBVIOUS
        <5>2. Cardinality((s \ {c}) \ {x}) = Cardinality(s \ {c}) - 1
          BY <1>0, <2>3, <4>1
        <5>3. Cardinality((s \ {c}) \ {x}) <= n
          BY <1>0, <2>0, <2>3, <5>2
        <5> QED
          BY <2>2, <5>1, <5>3
      <4>5. f[x] \in Int /\ f[c] \in Int
        OBVIOUS
      <4> HIDE DEF r, Good
      <4> QED
        BY <2>1, <4>2, <4>3, <4>4, <4>5
    <3> QED
      BY <3>1, <3>2
  <2> QED
    BY <2>5, <2>6
<1> HIDE DEF N, Good
<1>4. Nat \subseteq N
  BY <1>2, <1>3, NatInduct
<1>5. Good(S)
  BY <1>0, <1>4 DEF N
<1> QED
  BY <1>5 DEF Good, Sum

\* One more element adds its value.
LEMMA SumAdd ==
    ASSUME NEW f, NEW S, IsFiniteSet(S), \A x \in S : f[x] \in Int,
           NEW y, y \notin S, f[y] \in Int
    PROVE  SumFunctionOnSet(f, S \cup {y}) = f[y] + SumFunctionOnSet(f, S)
<1> DEFINE T == S \cup {y}
<1>1. IsFiniteSet(T) /\ y \in T /\ T \ {y} = S /\ \A x \in T : f[x] \in Int
  BY FS_AddElement
<1> HIDE DEF T
<1>2. SumFunctionOnSet(f, T) = f[y] + SumFunctionOnSet(f, T \ {y})
  BY <1>1, SumRemove
<1> QED
  BY <1>1, <1>2 DEF T

\* Smaller values have the smaller sum.
LEMMA SumCompare ==
    ASSUME NEW f, NEW g, NEW S, IsFiniteSet(S),
           \A x \in S : f[x] \in Int /\ g[x] \in Int /\ f[x] <= g[x]
    PROVE  SumFunctionOnSet(f, S) <= SumFunctionOnSet(g, S)
<1> DEFINE P == {T \in SUBSET S : SumFunctionOnSet(f, T) <= SumFunctionOnSet(g, T)}
<1>1. {} \in P
  BY SumEmpty
<1>2. ASSUME NEW T \in SUBSET S, NEW x \in S, T \in P, x \notin T
      PROVE  T \cup {x} \in P
  <2>1. IsFiniteSet(T)
    BY FS_Subset
  <2>2. /\ SumFunctionOnSet(f, T \cup {x}) = f[x] + SumFunctionOnSet(f, T)
        /\ SumFunctionOnSet(g, T \cup {x}) = g[x] + SumFunctionOnSet(g, T)
    BY <1>2, <2>1, SumAdd
  <2>3. SumFunctionOnSet(f, T) \in Int /\ SumFunctionOnSet(g, T) \in Int
    BY <2>1, SumRemove
  <2>4. SumFunctionOnSet(f, T) <= SumFunctionOnSet(g, T)
    BY <1>2
  <2>5. SumFunctionOnSet(f, T \cup {x}) <= SumFunctionOnSet(g, T \cup {x})
    BY <2>2, <2>3, <2>4
  <2> QED
    BY <2>5
<1> HIDE DEF P
<1>3. S \in P
  BY <1>1, <1>2, SetInduct
<1> QED
  BY <1>3 DEF P

\* Only the values on the set matter.
LEMMA SumSame ==
    ASSUME NEW f, NEW g, NEW S, IsFiniteSet(S),
           \A x \in S : f[x] \in Int /\ g[x] = f[x]
    PROVE  SumFunctionOnSet(f, S) = SumFunctionOnSet(g, S)
<1>1. /\ SumFunctionOnSet(f, S) <= SumFunctionOnSet(g, S)
      /\ SumFunctionOnSet(g, S) <= SumFunctionOnSet(f, S)
  BY SumCompare
<1>2. SumFunctionOnSet(f, S) \in Int /\ SumFunctionOnSet(g, S) \in Int
  BY SumRemove
<1> QED
  BY <1>1, <1>2

\* The sum of natural numbers is one.
LEMMA SumNat ==
    ASSUME NEW f, NEW S, IsFiniteSet(S), \A x \in S : f[x] \in Nat
    PROVE  SumFunctionOnSet(f, S) \in Nat
<1> DEFINE P == {T \in SUBSET S : SumFunctionOnSet(f, T) \in Nat}
<1>1. {} \in P
  BY SumEmpty
<1>2. ASSUME NEW T \in SUBSET S, NEW x \in S, T \in P, x \notin T
      PROVE  T \cup {x} \in P
  <2>1. IsFiniteSet(T)
    BY FS_Subset
  <2>2. SumFunctionOnSet(f, T \cup {x}) = f[x] + SumFunctionOnSet(f, T)
    BY <1>2, <2>1, SumAdd
  <2>3. SumFunctionOnSet(f, T) \in Nat /\ f[x] \in Nat
    BY <1>2
  <2>4. SumFunctionOnSet(f, T \cup {x}) \in Nat
    BY <2>2, <2>3
  <2> QED
    BY <2>4
<1> HIDE DEF P
<1>3. S \in P
  BY <1>1, <1>2, SetInduct
<1> QED
  BY <1>3 DEF P

\* The sum over two disjoint sets.
LEMMA SumUnion ==
    ASSUME NEW f, NEW S, NEW U, IsFiniteSet(S), IsFiniteSet(U), S \cap U = {},
           \A x \in S \cup U : f[x] \in Int
    PROVE  SumFunctionOnSet(f, S \cup U) =
              SumFunctionOnSet(f, S) + SumFunctionOnSet(f, U)
<1> DEFINE Sum(T) == SumFunctionOnSet(f, T)
<1> HIDE DEF Sum
<1> DEFINE P == {T \in SUBSET U : Sum(S \cup T) = Sum(S) + Sum(T)}
<1>0. Sum(S) \in Int
  BY SumRemove DEF Sum
<1>1. {} \in P
  <2>1. Sum({}) = 0 /\ S \cup {} = S
    BY SumEmpty DEF Sum
  <2> QED
    BY <1>0, <2>1
<1>2. ASSUME NEW T \in SUBSET U, NEW x \in U, T \in P, x \notin T
      PROVE  T \cup {x} \in P
  <2>1. IsFiniteSet(T) /\ IsFiniteSet(S \cup T)
    <3>1. IsFiniteSet(T)
      BY FS_Subset
    <3> QED
      BY <3>1, FS_Union
  <2>2. x \notin S \cup T /\ f[x] \in Int
    BY <1>2
  <2>3. Sum((S \cup T) \cup {x}) = f[x] + Sum(S \cup T)
    BY <2>1, <2>2, SumAdd DEF Sum
  <2>4. Sum(T \cup {x}) = f[x] + Sum(T)
    BY <2>1, <2>2, SumAdd DEF Sum
  <2>5. Sum(T) \in Int
    BY <2>1, SumRemove DEF Sum
  <2>6. (S \cup T) \cup {x} = S \cup (T \cup {x})
    OBVIOUS
  <2>7. Sum(S \cup T) = Sum(S) + Sum(T)
    BY <1>2
  <2> HIDE DEF P
  <2>8. Sum(S \cup (T \cup {x})) = Sum(S) + Sum(T \cup {x})
    <3>1. Sum(S \cup (T \cup {x})) = f[x] + (Sum(S) + Sum(T))
      BY <2>3, <2>6, <2>7
    <3>2. Sum(S) + (f[x] + Sum(T)) = f[x] + (Sum(S) + Sum(T))
      BY <1>0, <2>2, <2>5
    <3> QED
      BY <2>4, <3>1, <3>2
  <2> QED
    BY <2>8 DEF P
<1> HIDE DEF P
<1>3. U \in P
  BY <1>1, <1>2, SetInduct
<1> QED
  BY <1>3 DEF P, Sum

\* A sum of values between a and b is between as many a and as many b.
LEMMA SumBetween ==
    ASSUME NEW f, NEW S, IsFiniteSet(S), NEW a \in Int, NEW b \in Int,
           \A x \in S : f[x] \in Int /\ a <= f[x] /\ f[x] <= b
    PROVE  /\ a * Cardinality(S) <= SumFunctionOnSet(f, S)
           /\ SumFunctionOnSet(f, S) <= b * Cardinality(S)
<1> DEFINE Sum(T) == SumFunctionOnSet(f, T)
<1> HIDE DEF Sum
<1> DEFINE P == {T \in SUBSET S : /\ a * Cardinality(T) <= Sum(T)
                                  /\ Sum(T) <= b * Cardinality(T)}
<1>1. {} \in P
  <2>1. Sum({}) = 0 /\ Cardinality({}) = 0
    BY SumEmpty, FS_EmptySet DEF Sum
  <2>2. a * Cardinality({}) = 0 /\ b * Cardinality({}) = 0
    BY <2>1
  <2> QED
    BY <2>1, <2>2
<1>2. ASSUME NEW T \in SUBSET S, NEW x \in S, T \in P, x \notin T
      PROVE  T \cup {x} \in P
  <2>1. IsFiniteSet(T) /\ Cardinality(T) \in Nat
    BY FS_Subset, FS_CardinalityType
  <2>2. Cardinality(T \cup {x}) = Cardinality(T) + 1
    BY <1>2, <2>1, FS_AddElement
  <2>3. Sum(T \cup {x}) = f[x] + Sum(T) /\ Sum(T) \in Int
    BY <1>2, <2>1, SumAdd, SumRemove DEF Sum
  <2> DEFINE n == Cardinality(T)
             p == a * n
             q == b * n
  <2>4. a * (n + 1) = p + a /\ b * (n + 1) = q + b /\ p \in Int /\ q \in Int
    <3>1. n \in Nat
      BY <2>1
    <3> HIDE DEF n
    <3> QED
      BY <3>1
  <2>5. p <= Sum(T) /\ Sum(T) <= q
    BY <1>2
  <2> HIDE DEF p, q
  <2>6. a * (n + 1) <= Sum(T \cup {x}) /\ Sum(T \cup {x}) <= b * (n + 1)
    BY <2>3, <2>4, <2>5
  <2> QED
    BY <2>2, <2>6
<1> HIDE DEF P
<1>3. S \in P
  BY <1>1, <1>2, SetInduct
<1> QED
  BY <1>3 DEF P, Sum

\* The sizes of the classes into which g sorts the elements of S add up to
\* the size of S.
LEMMA SumOfClasses ==
    ASSUME NEW S, IsFiniteSet(S), NEW K, IsFiniteSet(K), NEW g,
           \A x \in S : g[x] \in K
    PROVE  SumFunctionOnSet([k \in K |-> Cardinality({x \in S : g[x] = k})], K)
              = Cardinality(S)
<1> DEFINE Class(L) == {x \in S : g[x] \in L}
           c == [k \in K |-> Cardinality({x \in S : g[x] = k})]
           P == {L \in SUBSET K : SumFunctionOnSet(c, L) = Cardinality(Class(L))}
<1>0. \A k \in K : c[k] \in Int
  <2> SUFFICES ASSUME NEW k \in K PROVE Cardinality({x \in S : g[x] = k}) \in Nat
    OBVIOUS
  <2>1. {x \in S : g[x] = k} \in SUBSET S
    OBVIOUS
  <2> QED
    BY <2>1, FS_Subset, FS_CardinalityType
<1>1. {} \in P
  <2>1. Class({}) = {} /\ SumFunctionOnSet(c, {}) = 0
    BY SumEmpty
  <2> QED
    BY <2>1, FS_EmptySet
<1>2. ASSUME NEW L \in SUBSET K, NEW k \in K, L \in P, k \notin L
      PROVE  L \cup {k} \in P
  <2> DEFINE A == Class(L)
             B == {x \in S : g[x] = k}
  <2>1. IsFiniteSet(L) /\ \A x \in L : c[x] \in Int
    BY <1>0, FS_Subset
  <2>2. A \in SUBSET S /\ B \in SUBSET S /\ A \cap B = {} /\ Class(L \cup {k}) = A \cup B
    BY <1>2
  <2>3. c[k] = Cardinality(B)
    OBVIOUS
  <2>4. SumFunctionOnSet(c, L) = Cardinality(A)
    BY <1>2
  <2> HIDE DEF A, B, c
  <2>5. SumFunctionOnSet(c, L \cup {k}) = c[k] + SumFunctionOnSet(c, L)
    BY <1>0, <1>2, <2>1, SumAdd
  <2>6. IsFiniteSet(A) /\ IsFiniteSet(B) /\ Cardinality(A) \in Nat /\ Cardinality(B) \in Nat
    BY <2>2, FS_Subset, FS_CardinalityType
  <2>7. Cardinality(A \cup B) = Cardinality(A) + Cardinality(B)
    <3>1. Cardinality(A \cap B) = 0
      BY <2>2, FS_EmptySet
    <3>2. Cardinality(A \cup B) = Cardinality(A) + Cardinality(B) - Cardinality(A \cap B)
      BY <2>6, FS_Union
    <3> QED
      BY <2>6, <3>1, <3>2
  <2> HIDE DEF P
  <2>8. SumFunctionOnSet(c, L \cup {k}) = Cardinality(Class(L \cup {k}))
    <3>1. SumFunctionOnSet(c, L \cup {k}) = Cardinality(A) + Cardinality(B)
      BY <2>3, <2>4, <2>5, <2>6
    <3> HIDE DEF Class
    <3> QED
      BY <2>2, <2>7, <3>1
  <2> QED
    BY <2>8 DEF P, c
<1> HIDE DEF P, c
<1>3. K \in P
  BY <1>1, <1>2, SetInduct
<1>4. Class(K) = S
  OBVIOUS
<1> QED
  BY <1>3, <1>4 DEF P, c

\* A sum does not depend on the names of the places.
LEMMA SumRenamed ==
    ASSUME NEW f, NEW S, IsFiniteSet(S), \A x \in S : f[x] \in Int,
           NEW T, NEW h \in Bijection(T, S),
           NEW g, \A t \in T : g[t] = f[h[t]]
    PROVE  SumFunctionOnSet(g, T) = SumFunctionOnSet(f, S)
<1> DEFINE Pre(U) == {t \in T : h[t] \in U}
           P == {U \in SUBSET S : /\ IsFiniteSet(Pre(U))
                                  /\ SumFunctionOnSet(g, Pre(U)) = SumFunctionOnSet(f, U)}
<1>0. /\ \A t \in T : h[t] \in S
      /\ \A s, t \in T : h[s] = h[t] => s = t
      /\ \A x \in S : \E t \in T : h[t] = x
  BY DEF Bijection, Injection, Surjection, IsInjective
<1>1. {} \in P
  <2>1. Pre({}) = {}
    OBVIOUS
  <2> QED
    BY <2>1, FS_EmptySet, SumEmpty
<1>2. ASSUME NEW U \in SUBSET S, NEW x \in S, U \in P, x \notin U
      PROVE  U \cup {x} \in P
  <2>1. PICK t \in T : h[t] = x
    BY <1>0
  <2> DEFINE A == Pre(U)
  <2>2. Pre(U \cup {x}) = A \cup {t} /\ t \notin A
    BY <1>0, <1>2, <2>1
  <2>3. IsFiniteSet(A) /\ SumFunctionOnSet(g, A) = SumFunctionOnSet(f, U)
    BY <1>2
  <2>4. g[t] = f[x] /\ f[x] \in Int /\ \A s \in A : g[s] \in Int
    BY <1>0, <2>1
  <2>5. IsFiniteSet(U) /\ \A y \in U : f[y] \in Int
    BY FS_Subset
  <2> HIDE DEF A
  <2>6. SumFunctionOnSet(g, A \cup {t}) = g[t] + SumFunctionOnSet(g, A)
    BY <2>2, <2>3, <2>4, SumAdd
  <2>7. SumFunctionOnSet(f, U \cup {x}) = f[x] + SumFunctionOnSet(f, U)
    BY <1>2, <2>5, SumAdd
  <2>8. IsFiniteSet(A \cup {t})
    BY <2>3, FS_AddElement
  <2>9. /\ IsFiniteSet(Pre(U \cup {x}))
        /\ SumFunctionOnSet(g, Pre(U \cup {x})) = SumFunctionOnSet(f, U \cup {x})
    BY <2>2, <2>3, <2>4, <2>6, <2>7, <2>8
  <2> QED
    BY <2>9
<1> HIDE DEF P
<1>3. S \in P
  BY <1>1, <1>2, SetInduct
<1>4. Pre(S) = T
  BY <1>0
<1> QED
  BY <1>3, <1>4 DEF P
=============================================================================
