-------------------------- MODULE AggregateProofs --------------------------
(***************************************************************************)
(* Proofs about Aggregate, for every setting and any number of results.    *)
(*                                                                         *)
(* The invariant says only what the workers record: RecordedInv, that they *)
(* are results of doCall, and PacedInv, that a worker makes one call after *)
(* the other.  What the summary says of them is proved of aggregate for    *)
(* every sequence of results (IsRun): its lists are tables (IsTable) whose *)
(* rows partition the results, its samples are sorted, and it is the same  *)
(* for sequences that correspond (Alike).                                  *)
(***************************************************************************)
EXTENDS Aggregate, SequenceTheorems, DataLemmas

\* The sequence of S in the order of before has each element of S once, at
\* the place after those before it.
IsOrder(S, before) ==
    /\ \A a \in S : <<a, a>> \notin before
    /\ \A a, b, c \in S : <<a, b>> \in before /\ <<b, c>> \in before => <<a, c>> \in before
    /\ \A a, b \in S : a = b \/ <<a, b>> \in before \/ <<b, a>> \in before

\* Ranked lists S once, each element after those that come before it.
LEMMA RankedElements ==
    ASSUME NEW S, IsFiniteSet(S), NEW before, IsOrder(S, before)
    PROVE  /\ DOMAIN Ranked(S, before) = 1..Cardinality(S)
           /\ \A k \in 1..Cardinality(S) :
                 /\ Ranked(S, before)[k] \in S
                 /\ Cardinality({b \in S : <<b, Ranked(S, before)[k]>> \in before}) = k - 1
           /\ \A a \in S : \E k \in 1..Cardinality(S) : Ranked(S, before)[k] = a
           /\ \A j, k \in 1..Cardinality(S) :
                 j < k => <<Ranked(S, before)[j], Ranked(S, before)[k]>> \in before
<1> DEFINE n == Cardinality(S)
           Below(a) == {b \in S : <<b, a>> \in before}
           rank == [a \in S |-> Cardinality(Below(a)) + 1]
           r == Ranked(S, before)
<1>0. n \in Nat /\ IsFiniteSet(1..n) /\ Cardinality(1..n) = n
  <2>1. n \in Nat
    BY FS_CardinalityType
  <2> QED
    BY <2>1, FS_Interval
<1>1. \A a \in S : IsFiniteSet(Below(a)) /\ Cardinality(Below(a)) \in Nat
  <2> TAKE a \in S
  <2>1. Below(a) \in SUBSET S
    OBVIOUS
  <2> QED
    BY <2>1, FS_Subset, FS_CardinalityType
<1>2. \A a \in S : rank[a] \in 1..n
  <2> TAKE a \in S
  <2>1. Below(a) \in SUBSET (S \ {a})
    BY DEF IsOrder
  <2>2. IsFiniteSet(S \ {a}) /\ Cardinality(S \ {a}) = n - 1
    BY FS_RemoveElement
  <2>3. Cardinality(Below(a)) <= n - 1
    <3>1. Cardinality(Below(a)) <= Cardinality(S \ {a})
      BY <2>1, <2>2, FS_Subset
    <3> QED
      BY <2>2, <3>1
  <2>4. rank[a] = Cardinality(Below(a)) + 1
    OBVIOUS
  <2> HIDE DEF Below, n, rank
  <2> QED
    BY <1>0, <1>1, <2>3, <2>4
<1>3. ASSUME NEW a \in S, NEW b \in S, <<a, b>> \in before
      PROVE  rank[a] < rank[b]
  <2>1. Below(a) \cup {a} \in SUBSET Below(b) /\ a \notin Below(a)
    BY <1>3 DEF IsOrder
  <2>2. Cardinality(Below(a) \cup {a}) = Cardinality(Below(a)) + 1
    BY <1>1, <2>1, FS_AddElement
  <2>3. Cardinality(Below(a) \cup {a}) <= Cardinality(Below(b))
    BY <1>1, <2>1, FS_Subset
  <2> HIDE DEF Below
  <2> QED
    BY <1>1, <2>2, <2>3
<1>4. \A a, b \in S : rank[a] = rank[b] => a = b
  <2> SUFFICES ASSUME NEW a \in S, NEW b \in S, a # b PROVE rank[a] # rank[b]
    OBVIOUS
  <2>1. <<a, b>> \in before \/ <<b, a>> \in before
    BY DEF IsOrder
  <2>2. rank[a] \in Nat /\ rank[b] \in Nat
    BY <1>0, <1>2
  <2> HIDE DEF rank
  <2> QED
    BY <1>3, <2>1, <2>2
<1>5. \A k \in 1..n : \E a \in S : rank[a] = k
  <2>1. rank \in Injection(S, 1..n)
    <3>1. rank \in [S -> 1..n]
      BY <1>2
    <3> HIDE DEF rank
    <3> QED
      BY <1>4, <3>1 DEF Injection, IsInjective
  <2> HIDE DEF rank
  <2>2. rank \in Surjection(S, 1..n)
    BY <1>0, <2>1, FS_Injection
  <2> QED
    BY <2>2 DEF Surjection
<1>6. r = [k \in 1..n |-> CHOOSE a \in S : Cardinality(Below(a)) = k - 1]
  BY DEF Ranked
<1>7. \A k \in 1..n : r[k] \in S /\ Cardinality(Below(r[k])) = k - 1
  <2> TAKE k \in 1..n
  <2>1. PICK a \in S : rank[a] = k
    BY <1>5
  <2>2. Cardinality(Below(a)) = k - 1
    <3>1. rank[a] = Cardinality(Below(a)) + 1 /\ Cardinality(Below(a)) \in Nat
      BY <1>1
    <3> HIDE DEF Below, rank
    <3> QED
      BY <2>1, <3>1
  <2>3. r[k] = CHOOSE b \in S : Cardinality(Below(b)) = k - 1
    BY <1>6
  <2> HIDE DEF Below, r, rank
  <2> QED
    BY <2>2, <2>3
<1>8. \A a \in S : r[rank[a]] = a
  <2> TAKE a \in S
  <2>1. rank[a] \in 1..n
    BY <1>2
  <2>2. r[rank[a]] \in S /\ Cardinality(Below(r[rank[a]])) = rank[a] - 1
    BY <1>7, <2>1
  <2>3. rank[r[rank[a]]] = rank[a]
    <3>1. rank[r[rank[a]]] = Cardinality(Below(r[rank[a]])) + 1
      BY <2>2
    <3> HIDE DEF Below, rank, r
    <3> QED
      BY <1>0, <2>1, <2>2, <3>1
  <2> HIDE DEF r, rank
  <2> QED
    BY <1>4, <2>2, <2>3
<1>9. ASSUME NEW j \in 1..n, NEW k \in 1..n, j < k
      PROVE  <<r[j], r[k]>> \in before
  <2>1. r[j] \in S /\ r[k] \in S /\ rank[r[j]] = j /\ rank[r[k]] = k
    <3>1. /\ r[j] \in S /\ Cardinality(Below(r[j])) = j - 1
          /\ r[k] \in S /\ Cardinality(Below(r[k])) = k - 1
      BY <1>7
    <3>2. /\ rank[r[j]] = Cardinality(Below(r[j])) + 1
          /\ rank[r[k]] = Cardinality(Below(r[k])) + 1
      BY <3>1
    <3> HIDE DEF Below, rank, r
    <3> QED
      BY <1>0, <3>1, <3>2
  <2>2. r[j] # r[k] /\ <<r[k], r[j]>> \notin before
    <3> HIDE DEF rank, r, n
    <3> QED
      BY <1>0, <1>3, <1>9, <2>1
  <2> HIDE DEF r
  <2> QED
    BY <2>1, <2>2 DEF IsOrder
<1> QED
  BY <1>2, <1>6, <1>7, <1>8, <1>9

\* The orders that the summary sorts by.
LEMMA ByCountIsOrder ==
    ASSUME NEW S, NEW tie, \A a \in S : a.count \in Int /\ a[tie] \in Int,
           \A a, b \in S : a[tie] = b[tie] => a = b
    PROVE  IsOrder(S, ByCount(S, tie))
BY DEF IsOrder, ByCount


-----------------------------------------------------------------------------
(* The sorted sample. *)

\* v is the k-th smallest value of the sample f.
Under(f, v) == {i \in DOMAIN f : f[i] < v}
\* The places of a sample whose value is at most v, and whether v stands at
\* rank k of it.
UpTo(f, v) == {i \in DOMAIN f : f[i] <= v}
AtRank(f, k, v) ==
    /\ \E i \in DOMAIN f : f[i] = v
    /\ Cardinality(Under(f, v)) < k
    /\ k <= Cardinality(UpTo(f, v))

\* A finite sample of numbers.
IsSample(f) == IsFiniteSet(DOMAIN f) /\ \A i \in DOMAIN f : i \in Int /\ f[i] \in Int

\* Sorted has, at each place, the value of that rank.
LEMMA SortedRanks ==
    ASSUME NEW f, IsSample(f)
    PROVE  /\ Cardinality(DOMAIN f) \in Nat
           /\ DOMAIN Sorted(f) = 1..Cardinality(DOMAIN f)
           /\ Len(Sorted(f)) = Cardinality(DOMAIN f)
           /\ \A k \in 1..Cardinality(DOMAIN f) : AtRank(f, k, Sorted(f)[k])
<1> DEFINE I == DOMAIN f
           n == Cardinality(I)
           before == {p \in I \X I : \/ f[p[1]] < f[p[2]]
                                     \/ f[p[1]] = f[p[2]] /\ p[1] < p[2]}
           at == Ranked(I, before)
<1>1. IsFiniteSet(I) /\ \A i \in I : i \in Int /\ f[i] \in Int
  BY DEF IsSample
<1>2. n \in Nat
  BY <1>1, FS_CardinalityType
<1>3. IsOrder(I, before)
  <2> HIDE DEF I
  <2>1. \A a, b \in I : <<a, b>> \in before <=>
                            f[a] < f[b] \/ (f[a] = f[b] /\ a < b)
    OBVIOUS
  <2> HIDE DEF before
  <2>2. \A a \in I : <<a, a>> \notin before
    BY <1>1, <2>1
  <2>3. ASSUME NEW a \in I, NEW b \in I, NEW c \in I, <<a, b>> \in before, <<b, c>> \in before
        PROVE  <<a, c>> \in before
    <3>1. /\ f[a] \in Int /\ f[b] \in Int /\ f[c] \in Int /\ a \in Int /\ b \in Int /\ c \in Int
      BY <1>1
    <3>2. /\ f[a] < f[b] \/ (f[a] = f[b] /\ a < b)
          /\ f[b] < f[c] \/ (f[b] = f[c] /\ b < c)
      BY <2>1, <2>3
    <3>3. f[a] < f[c] \/ (f[a] = f[c] /\ a < c)
      BY <3>1, <3>2
    <3> QED
      BY <2>1, <3>3
  <2>4. ASSUME NEW a \in I, NEW b \in I, a # b
        PROVE  <<a, b>> \in before \/ <<b, a>> \in before
    <3>1. f[a] \in Int /\ f[b] \in Int /\ a \in Int /\ b \in Int
      BY <1>1
    <3>2. \/ f[a] < f[b] \/ (f[a] = f[b] /\ a < b)
          \/ f[b] < f[a] \/ (f[b] = f[a] /\ b < a)
      BY <2>4, <3>1
    <3> QED
      BY <2>1, <3>2
  <2> QED
    BY <2>2, <2>3, <2>4 DEF IsOrder
<1>4. Sorted(f) = [k \in DOMAIN at |-> f[at[k]]]
  BY DEF Sorted
<1>5. /\ DOMAIN at = 1..n
      /\ \A k \in 1..n : /\ at[k] \in I
                         /\ Cardinality({b \in I : <<b, at[k]>> \in before}) = k - 1
  <2> HIDE DEF I, before
  <2> QED
    BY <1>1, <1>3, RankedElements
<1>6. ASSUME NEW k \in 1..n PROVE AtRank(f, k, Sorted(f)[k])
  <2> DEFINE a == at[k]
             B == {b \in I : <<b, a>> \in before}
  <2>1. a \in I /\ Sorted(f)[k] = f[a] /\ Cardinality(B) = k - 1
    BY <1>4, <1>5
  <2>2. Under(f, f[a]) \in SUBSET B /\ B \cup {a} \in SUBSET UpTo(f, f[a])
        /\ a \notin B /\ B \in SUBSET I /\ UpTo(f, f[a]) \in SUBSET I
    <3>1. \A b \in I : <<b, a>> \in before <=>
                         f[b] < f[a] \/ (f[b] = f[a] /\ b < a)
      BY <2>1
    <3> HIDE DEF a, before, I
    <3>2. \A b \in I : /\ f[b] < f[a] => <<b, a>> \in before
                       /\ <<b, a>> \in before => f[b] <= f[a]
      BY <1>1, <2>1, <3>1
    <3>3. <<a, a>> \notin before /\ f[a] <= f[a]
      BY <1>1, <2>1, <3>1
    <3>4. Under(f, f[a]) = {b \in I : f[b] < f[a]} /\ UpTo(f, f[a]) = {b \in I : f[b] <= f[a]}
      BY DEF Under, UpTo, I
    <3>5. Under(f, f[a]) \in SUBSET B
      BY <3>2, <3>4
    <3>6. B \cup {a} \in SUBSET UpTo(f, f[a])
      BY <2>1, <3>2, <3>3, <3>4
    <3> QED
      BY <3>3, <3>4, <3>5, <3>6 DEF I
  <2> HIDE DEF B, a, at, I, before
  <2>3. IsFiniteSet(B) /\ IsFiniteSet(UpTo(f, f[a]))
    BY <1>1, <2>2, FS_Subset
  <2>4. Cardinality(Under(f, f[a])) <= Cardinality(B)
    BY <2>2, <2>3, FS_Subset
  <2>5. Cardinality(B \cup {a}) = k
    <3>1. Cardinality(B \cup {a}) = Cardinality(B) + 1
      BY <2>2, <2>3, FS_AddElement
    <3> QED
      BY <1>2, <2>1, <3>1
  <2>6. k <= Cardinality(UpTo(f, f[a]))
    BY <2>2, <2>3, <2>5, FS_Subset
  <2>7. Cardinality(Under(f, f[a])) \in Nat
    BY <2>2, <2>3, FS_Subset, FS_CardinalityType
  <2>8. Cardinality(Under(f, f[a])) < k
    <3> HIDE DEF n
    <3> QED
      BY <1>2, <2>1, <2>4, <2>7
  <2> QED
    BY <2>1, <2>6, <2>8 DEF AtRank, I
<1>7. DOMAIN Sorted(f) = 1..n
  BY <1>4, <1>5
<1>8. Len(Sorted(f)) = n
  <2>1. Sorted(f) = [k \in 1..n |-> Sorted(f)[k]]
    BY <1>4, <1>5
  <2>2. \A g : \A m \in Nat : g = [k \in 1..m |-> g[k]] => Len(g) = m
    OBVIOUS
  <2> HIDE DEF n
  <2> QED
    BY <1>2, <2>1, <2>2
<1> QED
  BY <1>2, <1>6, <1>7, <1>8

\* Ranks order the values, also those of two samples whose values are
\* distributed in the same way.
LEMMA RankOrder ==
    ASSUME NEW f, IsSample(f), NEW g, IsSample(g), NEW j \in Int, NEW k \in Int,
           j <= k, NEW v, NEW w, AtRank(f, j, v), AtRank(g, k, w),
           \A u \in Int : Cardinality(UpTo(g, u)) = Cardinality(UpTo(f, u))
    PROVE  v \in Int /\ w \in Int /\ v <= w
<1>1. v \in Int /\ w \in Int
  BY DEF AtRank, IsSample
<1> SUFFICES ASSUME w < v PROVE FALSE
  BY <1>1
<1>2. UpTo(f, w) \in SUBSET Under(f, v) /\ Under(f, v) \in SUBSET DOMAIN f
  BY <1>1 DEF UpTo, Under, IsSample
<1>3. IsFiniteSet(Under(f, v))
  BY <1>2, FS_Subset DEF IsSample
<1>4. Cardinality(UpTo(f, w)) <= Cardinality(Under(f, v))
  BY <1>2, <1>3, FS_Subset
<1>5. Cardinality(UpTo(f, w)) \in Nat /\ Cardinality(Under(f, v)) \in Nat
  BY <1>2, <1>3, FS_Subset, FS_CardinalityType
<1>6. Cardinality(UpTo(f, w)) >= k /\ Cardinality(Under(f, v)) < j
  BY <1>1 DEF AtRank
<1> QED
  BY <1>4, <1>5, <1>6

\* The nearest-rank percentile of a sorted sample.
LEMMA PercentileIsNearestRank ==
    ASSUME NEW f, IsSample(f), DOMAIN f # {}, NEW p \in 1..100
    PROVE  IsNearestRank(f, p, percentile(Sorted(f), p))
<1> DEFINE n == Cardinality(DOMAIN f)
           m == p * n
           rank == (m + 99) \div 100
<1>1. n \in Nat \ {0}
  BY FS_CardinalityType, FS_EmptySet DEF IsSample
<1>2. m \in Int /\ 0 < m /\ m <= 100 * n
  <2> HIDE DEF n
  <2>1. m \in Int /\ 0 < m
    BY <1>1
  <2>2. (100 - p) * n >= 0 /\ (100 - p) * n = 100 * n - m
    BY <1>1
  <2> QED
    BY <1>1, <2>1, <2>2
<1>3. /\ rank \in 1..n
      /\ 100 * rank >= m /\ 100 * (rank - 1) < m
  <2> HIDE DEF n, m
  <2> QED
    BY <1>1, <1>2
<1>4. percentile(Sorted(f), p) = Sorted(f)[rank]
  <2>1. Len(Sorted(f)) = n
    BY SortedRanks
  <2>2. ~ (rank < 1) /\ ~ (rank > n) /\ n # 0
    <3> HIDE DEF rank, n
    <3> QED
      BY <1>1, <1>3
  <2> QED
    BY <2>1, <2>2 DEF percentile
<1> DEFINE v == Sorted(f)[rank]
<1>5. AtRank(f, rank, v)
  BY <1>3, SortedRanks
<1>6. Cardinality(Under(f, v)) \in Nat /\ Cardinality(UpTo(f, v)) \in Nat
  <2>1. Under(f, v) \in SUBSET DOMAIN f /\ UpTo(f, v) \in SUBSET DOMAIN f
    BY DEF Under, UpTo
  <2> QED
    BY <2>1, FS_Subset, FS_CardinalityType DEF IsSample
<1>7. 100 * Cardinality(UpTo(f, v)) >= m /\ 100 * Cardinality(Under(f, v)) < m
  <2>1. rank <= Cardinality(UpTo(f, v)) /\ Cardinality(Under(f, v)) < rank
    BY <1>5 DEF AtRank
  <2> HIDE DEF m, n, rank, v
  <2> QED
    BY <1>1, <1>2, <1>3, <1>6, <2>1
<1> HIDE DEF v, rank
<1> QED
  BY <1>4, <1>5, <1>7 DEF v, IsNearestRank, AtRank, Under, UpTo

\* A whole quotient lies between the bounds of its average.
LEMMA QuotientBetween ==
    ASSUME NEW n \in Nat \ {0}, NEW a \in Int, NEW b \in Int, NEW x \in Int,
           a * n <= x, x <= b * n
    PROVE  a <= x \div n /\ x \div n <= b
<1> DEFINE q == x \div n
<1>1. q \in Int /\ q * n <= x /\ x < (q + 1) * n
  OBVIOUS
<1> HIDE DEF q
<1>2. a <= q
  <2> SUFFICES ASSUME q + 1 <= a PROVE FALSE
    BY <1>1
  <2>1. (a - (q + 1)) * n >= 0
    BY <1>1
  <2> QED
    BY <1>1, <2>1
<1>3. q <= b
  <2> SUFFICES ASSUME b + 1 <= q PROVE FALSE
    BY <1>1
  <2>1. (q - (b + 1)) * n >= 0
    BY <1>1
  <2>2. q * n >= b * n + n
    BY <1>1, <2>1
  <2> QED
    BY <1>1, <2>2
<1> QED
  BY <1>2, <1>3 DEF q

\* The block of the sorted sample.
LEMMA BlockOfSample ==
    ASSUME NEW f, IsSample(f)
    PROVE  /\ BlockRight(computeLatencyStats(Sorted(f)), f)
           /\ computeLatencyStats(Sorted(f)).count = Cardinality(DOMAIN f)
<1> DEFINE n == Cardinality(DOMAIN f)
           s == Sorted(f)
<1>1. n \in Nat /\ DOMAIN s = 1..n /\ Len(s) = n
  BY SortedRanks
<1>2. computeLatencyStats(s).count = n
  <2> HIDE DEF n, s
  <2>1. CASE s = << >>
    BY <1>1, <2>1 DEF computeLatencyStats
  <2>2. CASE s # << >>
    BY <1>1, <2>2 DEF computeLatencyStats
  <2> QED
    BY <2>1, <2>2
<1>3. ASSUME DOMAIN f # {} PROVE BlockRight(computeLatencyStats(s), f)
  <2>1. n # 0
    BY <1>3, FS_EmptySet DEF IsSample
  <2>2. s # << >>
    BY <1>1, <2>1
  <2> DEFINE c == computeLatencyStats(s)
  <2>3. /\ c.p50 = percentile(s, 50) /\ c.p90 = percentile(s, 90)
        /\ c.p99 = percentile(s, 99)
        /\ c.min = s[1] /\ c.max = s[n] /\ c.mean = SumFunctionOnSet(s, 1..n) \div n
    <3> HIDE DEF s, n
    <3> QED
      BY <1>1, <2>2 DEF computeLatencyStats, SumFunction
  <2>4. \A j, k \in 1..n : j <= k => s[j] \in Int /\ s[k] \in Int /\ s[j] <= s[k]
    <3> SUFFICES ASSUME NEW j \in 1..n, NEW k \in 1..n, j <= k
                 PROVE  s[j] \in Int /\ s[k] \in Int /\ s[j] <= s[k]
      OBVIOUS
    <3>1. AtRank(f, j, s[j]) /\ AtRank(f, k, s[k])
      BY SortedRanks
    <3> HIDE DEF n, s
    <3> QED
      BY <3>1, RankOrder
  <2>5. s[1] \in Int /\ s[n] \in Int /\ \A k \in 1..n : s[k] \in Int /\ s[1] <= s[k] /\ s[k] <= s[n]
    <3>1. 1 \in 1..n /\ n \in 1..n /\ \A k \in 1..n : 1 <= k /\ k <= n
      BY <1>1, <2>1
    <3> HIDE DEF n, s
    <3> QED
      BY <2>4, <3>1
  <2> HIDE DEF s, n
  <2>6. IsFiniteSet(1..n) /\ Cardinality(1..n) = n
    BY <1>1, FS_Interval
  <2> DEFINE x == SumFunctionOnSet(s, 1..n)
  <2>7. x \in Int
    BY <2>5, <2>6, SumRemove
  <2>8. s[1] * n <= x /\ x <= s[n] * n
    BY <2>5, <2>6, SumBetween
  <2> HIDE DEF x
  <2>9. s[1] <= x \div n /\ x \div n <= s[n]
    BY <1>1, <2>1, <2>5, <2>7, <2>8, QuotientBetween
  <2>10. c.min <= c.mean /\ c.mean <= c.max
    BY <2>3, <2>9 DEF x
  <2>11. /\ IsNearestRank(f, 50, c.p50) /\ IsNearestRank(f, 90, c.p90)
         /\ IsNearestRank(f, 99, c.p99)
    BY <1>3, <2>3, PercentileIsNearestRank DEF s
  <2> HIDE DEF c
  <2> QED
    BY <2>10, <2>11 DEF BlockRight, c
<1> QED
  BY <1>2, <1>3 DEF BlockRight

\* The values of a finite set are finite.
LEMMA FiniteImage ==
    ASSUME NEW S, IsFiniteSet(S), NEW f, NEW T, \A y \in T : \E x \in S : f[x] = y
    PROVE  IsFiniteSet(T)
<1> DEFINE g == [x \in S |-> f[x]]
           U == {f[x] : x \in S}
<1>1. g \in Surjection(S, U)
  BY DEF Surjection
<1>2. T \in SUBSET U
  OBVIOUS
<1> HIDE DEF g, U
<1> QED
  BY <1>1, <1>2, FS_Surjection, FS_Subset

-----------------------------------------------------------------------------
(* Tables: one row per class. *)

\* S has one row for each number of K, kept in the field tie.
IsTable(S, tie, K) ==
    /\ IsFiniteSet(K) /\ K \subseteq Int
    /\ \A a \in S : a.count \in Int /\ a[tie] \in K
    /\ \A k \in K : \E a \in S : a[tie] = k
    /\ \A a, b \in S : a[tie] = b[tie] => a = b

\* A table in the order of its counts has each of its rows once.
LEMMA TableOrder ==
    ASSUME NEW S, NEW tie, NEW K, IsTable(S, tie, K), NEW R, R = Ranked(S, ByCount(S, tie))
    PROVE  /\ IsFiniteSet(S) /\ Cardinality(S) \in Nat
           /\ R \in Seq(S) /\ Len(R) = Cardinality(S)
           /\ \A k \in 1..Len(R) : R[k] \in S
           /\ \A j, k \in 1..Len(R) : j < k => R[j].count >= R[k].count /\ R[j] # R[k]
           /\ [k \in 1..Len(R) |-> R[k][tie]] \in Bijection(1..Len(R), K)
<1> DEFINE n == Cardinality(S)
           h == [k \in 1..n |-> R[k][tie]]
<1>1. IsFiniteSet(S)
  <2> DEFINE f == [a \in S |-> a[tie]]
  <2>1. f \in Injection(S, K)
    BY DEF IsTable, Injection, IsInjective
  <2> HIDE DEF f
  <2> QED
    BY <2>1, FS_Injection DEF IsTable
<1>2. n \in Nat
  BY <1>1, FS_CardinalityType
<1>3. IsOrder(S, ByCount(S, tie))
  BY ByCountIsOrder DEF IsTable
<1>4. /\ DOMAIN R = 1..n
      /\ \A k \in 1..n : R[k] \in S
      /\ \A a \in S : \E k \in 1..n : R[k] = a
      /\ \A j, k \in 1..n : j < k => <<R[j], R[k]>> \in ByCount(S, tie)
  <2> DEFINE before == ByCount(S, tie)
             Q == Ranked(S, before)
  <2>1. R = Q
    OBVIOUS
  <2>3. IsOrder(S, before)
    BY <1>3
  <2> HIDE DEF before
  <2>2. DOMAIN Q = 1..n
    BY <1>1, <2>3, RankedElements
  <2>4. \A k \in 1..n : Q[k] \in S
    BY <1>1, <2>3, RankedElements
  <2>5. \A a \in S : \E k \in 1..n : Q[k] = a
    BY <1>1, <2>3, RankedElements
  <2>6. \A j, k \in 1..n : j < k => <<Q[j], Q[k]>> \in before
    BY <1>1, <2>3, RankedElements
  <2> HIDE DEF Q, n
  <2> QED
    BY <2>1, <2>2, <2>4, <2>5, <2>6 DEF before
<1>5. R = [k \in 1..n |-> R[k]]
  <2>1. R = [k \in 1..n |-> CHOOSE a \in S : Cardinality({b \in S : <<b, a>> \in ByCount(S, tie)}) = k - 1]
    BY DEF Ranked
  <2> QED
    BY <2>1
<1>6. Len(R) = n
  <2>1. \A g : \A m \in Nat : g = [k \in 1..m |-> g[k]] => Len(g) = m
    OBVIOUS
  <2> HIDE DEF n
  <2> QED
    BY <1>2, <1>5, <2>1
<1>7. \A j, k \in 1..n : j < k => R[j].count >= R[k].count /\ R[j] # R[k]
  <2> SUFFICES ASSUME NEW j \in 1..n, NEW k \in 1..n, j < k
               PROVE  R[j].count >= R[k].count /\ R[j] # R[k]
    OBVIOUS
  <2>1. R[j] \in S /\ R[k] \in S /\ <<R[j], R[k]>> \in ByCount(S, tie)
    BY <1>4
  <2>2. R[j] # R[k]
    BY <1>3, <2>1 DEF IsOrder
  <2>3. R[j].count \in Int /\ R[k].count \in Int
    BY <2>1 DEF IsTable
  <2>4. R[j].count > R[k].count \/ R[j].count = R[k].count
    BY <2>1 DEF ByCount
  <2> QED
    BY <2>2, <2>3, <2>4
<1>8. h \in Bijection(1..n, K)
  <2>1. h \in [1..n -> K]
    BY <1>4 DEF IsTable
  <2>2. ASSUME NEW j \in 1..n, NEW k \in 1..n, h[j] = h[k] PROVE j = k
    <3>1. R[j] = R[k]
      BY <1>4, <2>2 DEF IsTable
    <3> HIDE DEF n
    <3> QED
      BY <1>2, <1>7, <3>1
  <2>3. \A k \in K : \E j \in 1..n : h[j] = k
    <3> TAKE k \in K
    <3>1. PICK a \in S : a[tie] = k
      BY DEF IsTable
    <3>2. PICK j \in 1..n : R[j] = a
      BY <1>4
    <3> QED
      BY <3>1, <3>2
  <2> HIDE DEF h, n
  <2> QED
    BY <2>1, <2>2, <2>3 DEF Bijection, Injection, IsInjective, Surjection
<1>9. R \in Seq(S)
  <2> HIDE DEF n
  <2> QED
    BY <1>2, <1>4, <1>5
<1> HIDE DEF n
<1> QED
  BY <1>1, <1>2, <1>4, <1>6, <1>7, <1>8, <1>9 DEF n

\* The sizes of the rows' parts of E add up to E.
LEMMA TableCounts ==
    ASSUME NEW S, NEW tie, NEW K, IsTable(S, tie, K), NEW R, R = Ranked(S, ByCount(S, tie)),
           NEW E, IsFiniteSet(E), NEW g, \A x \in E : g[x] \in K,
           NEW c, \A k \in 1..Len(R) : c[k] = Cardinality({x \in E : g[x] = R[k][tie]})
    PROVE  SumFunctionOnSet(c, 1..Len(R)) = Cardinality(E)
<1> DEFINE n == Len(R)
           h == [k \in 1..n |-> R[k][tie]]
           size == [k \in K |-> Cardinality({x \in E : g[x] = k})]
<1>1. h \in Bijection(1..n, K) /\ IsFiniteSet(K)
  <2>1. h \in Bijection(1..n, K)
    BY TableOrder
  <2> QED
    BY <2>1 DEF IsTable
<1>2. \A k \in K : size[k] \in Int
  <2> SUFFICES ASSUME NEW k \in K PROVE Cardinality({x \in E : g[x] = k}) \in Nat
    OBVIOUS
  <2>1. {x \in E : g[x] = k} \in SUBSET E
    OBVIOUS
  <2> QED
    BY <2>1, FS_Subset, FS_CardinalityType
<1>3. \A k \in 1..n : c[k] = size[h[k]]
  <2> TAKE k \in 1..n
  <2>1. h[k] \in K /\ h[k] = R[k][tie]
    BY <1>1 DEF Bijection, Injection
  <2> QED
    BY <2>1
<1>4. SumFunctionOnSet(size, K) = Cardinality(E)
  BY <1>1, SumOfClasses
<1> HIDE DEF h, size, n
<1>5. SumFunctionOnSet(c, 1..n) = SumFunctionOnSet(size, K)
  BY <1>1, <1>2, <1>3, SumRenamed
<1> QED
  BY <1>4, <1>5 DEF n

-----------------------------------------------------------------------------
(* What the summary needs to know of the results. *)

\* Pod names, hostnames and peer addresses are told apart by their remainder.
IsRun(rs) ==
    /\ Len(rs) \in Nat
    /\ \A i \in 1..Len(rs) :
          /\ rs[i].err \in BOOLEAN
          /\ rs[i].code \in Nat /\ Truncated[rs[i].msg] \in Nat
          /\ rs[i].start \in Nat /\ rs[i].end \in Nat
          /\ rs[i].total \in Nat /\ rs[i].srv \in Nat /\ rs[i].up \in Int
          /\ rs[i].pod \in Nat /\ (rs[i].pod # 0 => rs[i].pod % 4 = 3)
          /\ rs[i].host \in Nat /\ (rs[i].host # 0 => rs[i].host % 4 = 2)
          /\ rs[i].peer \in Nat /\ (rs[i].peer # 0 => rs[i].peer % 4 = 1)

\* The places of the results are finite sets.
LEMMA Places ==
    ASSUME NEW rs, IsRun(rs)
    PROVE  /\ IsFiniteSet(1..Len(rs)) /\ Cardinality(1..Len(rs)) = Len(rs)
           /\ \A I \in SUBSET (1..Len(rs)) :
                 IsFiniteSet(I) /\ Cardinality(I) \in Nat /\ (Cardinality(I) = 0 <=> I = {})
           /\ Successes(rs) \in SUBSET (1..Len(rs))
           /\ \A key : Bucket(rs, key) \in SUBSET (1..Len(rs))
           /\ \A code : OfCode(rs, code) \in SUBSET (1..Len(rs))
           /\ \A code, m : OfMessage(rs, code, m) \in SUBSET (1..Len(rs))
<1> DEFINE n == Len(rs)
<1>1. n \in Nat
  BY DEF IsRun
<1>2. IsFiniteSet(1..n) /\ Cardinality(1..n) = n
  <2> HIDE DEF n
  <2>1. IsFiniteSet(1..n) /\ Cardinality(1..n) = IF 1 > n THEN 0 ELSE n - 1 + 1
    BY <1>1, FS_Interval
  <2> QED
    BY <1>1, <2>1
<1>3. ASSUME NEW I \in SUBSET (1..n)
      PROVE  IsFiniteSet(I) /\ Cardinality(I) \in Nat /\ (Cardinality(I) = 0 <=> I = {})
  <2>1. IsFiniteSet(I)
    BY <1>2, FS_Subset
  <2> QED
    BY <2>1, FS_CardinalityType, FS_EmptySet
<1>4. \A code : OfCode(rs, code) \in SUBSET (1..n)
  BY DEF OfCode
<1> QED
  BY <1>2, <1>3, <1>4 DEF Successes, Bucket, OfMessage

\* The key of a result, and that it tells where it was taken from.
LEMMA KeyAndSource ==
    ASSUME NEW rs, IsRun(rs)
    PROVE  /\ \A i \in 1..Len(rs) : backendKey(rs[i])[1] \in Nat
           /\ \A i, j \in 1..Len(rs) :
                 backendKey(rs[i])[1] = backendKey(rs[j])[1]
                    => backendKey(rs[i])[2] = backendKey(rs[j])[2]
<1>1. ASSUME NEW i \in 1..Len(rs)
      PROVE  \/ /\ backendKey(rs[i])[2] = "pod_name"
                /\ backendKey(rs[i])[1] \in Nat \ {0} /\ backendKey(rs[i])[1] % 4 = 3
             \/ /\ backendKey(rs[i])[2] = "hostname"
                /\ backendKey(rs[i])[1] \in Nat \ {0} /\ backendKey(rs[i])[1] % 4 = 2
             \/ /\ backendKey(rs[i])[2] = "peer"
                /\ backendKey(rs[i])[1] \in Nat \ {0} /\ backendKey(rs[i])[1] % 4 = 1
             \/ backendKey(rs[i])[2] = "unknown" /\ backendKey(rs[i])[1] = 0
  BY DEF IsRun, backendKey
<1>2. \A i \in 1..Len(rs) : backendKey(rs[i])[1] \in Nat
  BY <1>1
<1>3. ASSUME NEW i \in 1..Len(rs), NEW j \in 1..Len(rs),
             backendKey(rs[i])[1] = backendKey(rs[j])[1]
      PROVE  backendKey(rs[i])[2] = backendKey(rs[j])[2]
  BY <1>1, <1>3
<1> QED
  BY <1>2, <1>3

\* The rows of computeBackends, before they are ranked, are a table.
Rows(rs) == {backendRow(rs, key) : key \in Keys(rs)}

LEMMA RowsAreTable ==
    ASSUME NEW rs, IsRun(rs)
    PROVE  IsTable(Rows(rs), "key", Keys(rs))
<1>1. IsFiniteSet(Keys(rs))
  <2> DEFINE f == [i \in 1..Len(rs) |-> backendKey(rs[i])[1]]
  <2>1. \A y \in Keys(rs) : \E x \in 1..Len(rs) : f[x] = y
    BY DEF Keys
  <2> HIDE DEF f
  <2> QED
    BY <2>1, Places, FiniteImage
<1>2. Keys(rs) \subseteq Int
  BY KeyAndSource DEF Keys
<1>3. \A key : backendRow(rs, key).key = key /\ backendRow(rs, key).count \in Int
  BY Places DEF backendRow
<1> QED
  BY <1>1, <1>2, <1>3 DEF IsTable, Rows

\* So are the buckets of computeStatusCodes.
Codes(rs) == {rs[i].code : i \in 1..Len(rs) \ Successes(rs)}
CodeRow(rs, c) == [code |-> c, count |-> Cardinality(OfCode(rs, c)), top |-> topMessages(rs, c)]
CodeRows(rs) == {CodeRow(rs, c) : c \in Codes(rs)}

LEMMA CodesAreTable ==
    ASSUME NEW rs, IsRun(rs)
    PROVE  IsTable(CodeRows(rs), "code", Codes(rs))
<1>1. IsFiniteSet(Codes(rs))
  <2> DEFINE f == [i \in 1..Len(rs) |-> rs[i].code]
  <2>1. \A y \in Codes(rs) : \E x \in 1..Len(rs) : f[x] = y
    BY DEF Codes
  <2> HIDE DEF f
  <2> QED
    BY <2>1, Places, FiniteImage
<1>2. Codes(rs) \subseteq Int
  BY DEF Codes, IsRun
<1>3. \A c : CodeRow(rs, c).code = c /\ CodeRow(rs, c).count \in Int
  BY Places DEF CodeRow
<1> QED
  BY <1>1, <1>2, <1>3 DEF IsTable, CodeRows

\* And the messages of one code.
Texts(rs, c) == {Truncated[rs[i].msg] : i \in OfCode(rs, c)}

LEMMA MessagesAreTable ==
    ASSUME NEW rs, IsRun(rs), NEW c
    PROVE  IsTable(Messages(rs, c), "message", Texts(rs, c))
<1>1. IsFiniteSet(Texts(rs, c))
  <2> DEFINE f == [i \in 1..Len(rs) |-> Truncated[rs[i].msg]]
  <2>1. \A y \in Texts(rs, c) : \E x \in 1..Len(rs) : f[x] = y
    BY Places DEF Texts
  <2> HIDE DEF f
  <2> QED
    BY <2>1, Places, FiniteImage
<1>2. Texts(rs, c) \subseteq Int
  BY Places DEF Texts, IsRun
<1> DEFINE row(m) == [message |-> m, count |-> Cardinality(OfMessage(rs, c, m))]
<1>3. Messages(rs, c) = {row(m) : m \in Texts(rs, c)}
  BY DEF Messages, Texts
<1>4. \A m : row(m).message = m /\ row(m)["message"] = m /\ row(m).count \in Int
  BY Places
<1> HIDE DEF row
<1> QED
  BY <1>1, <1>2, <1>3, <1>4 DEF IsTable

-----------------------------------------------------------------------------
(* The summary's parts. *)

\* aggregate, field by field.
LEMMA SummaryParts ==
    ASSUME NEW rs, NEW span, NEW s, s = aggregate(rs, span)
    PROVE  /\ s.count = Len(rs)
           /\ s.errorCount = Cardinality(1..Len(rs) \ Successes(rs))
           /\ s.elapsed = span
           /\ s.throughput = throughput(Len(rs), span)
           /\ s.total = computeLatencyStats(Sorted(Total(rs, Successes(rs))))
           /\ s.server = computeLatencyStats(Sorted(Server(rs, Successes(rs))))
           /\ s.network = computeLatencyStats(Sorted(Network(rs, Successes(rs))))
           /\ s.upstream = computeLatencyStats(Sorted(Upstream(rs, Successes(rs))))
           /\ s.backends = Ranked(Rows(rs), ByCount(Rows(rs), "key"))
           /\ s.skew = computeBackendSkew(s.backends)
           /\ s.errors = Ranked(CodeRows(rs), ByCount(CodeRows(rs), "code"))
BY DEF aggregate, computeBackends, computeStatusCodes, Rows, CodeRows, CodeRow, Codes

\* The four samples of the latency blocks are finite samples.
LEMMA Samples ==
    ASSUME NEW rs, IsRun(rs), NEW I \in SUBSET (1..Len(rs))
    PROVE  /\ IsSample(Total(rs, I)) /\ DOMAIN Total(rs, I) = I
           /\ IsSample(Server(rs, I)) /\ DOMAIN Server(rs, I) = I
           /\ IsSample(Network(rs, I)) /\ DOMAIN Network(rs, I) = I
           /\ IsSample(Upstream(rs, I)) /\ DOMAIN Upstream(rs, I) \in SUBSET I
<1>1. IsFiniteSet(I) /\ \A J \in SUBSET I : IsFiniteSet(J)
  BY Places
<1>2. \A i \in I : i \in Int /\ rs[i].total \in Nat /\ rs[i].srv \in Nat /\ rs[i].up \in Int
  BY DEF IsRun
<1>3. IsSample(Total(rs, I)) /\ DOMAIN Total(rs, I) = I
  <2>1. DOMAIN Total(rs, I) = I
    BY DEF Total
  <2>2. \A i \in I : Total(rs, I)[i] \in Int
    BY <1>2 DEF Total
  <2> QED
    BY <1>1, <1>2, <2>1, <2>2 DEF IsSample
<1>4. IsSample(Server(rs, I)) /\ DOMAIN Server(rs, I) = I
  <2>1. DOMAIN Server(rs, I) = I
    BY DEF Server
  <2>2. \A i \in I : Server(rs, I)[i] \in Int
    BY <1>2 DEF Server
  <2> QED
    BY <1>1, <1>2, <2>1, <2>2 DEF IsSample
<1>5. IsSample(Network(rs, I)) /\ DOMAIN Network(rs, I) = I
  <2>1. DOMAIN Network(rs, I) = I
    BY DEF Network
  <2>2. \A i \in I : Network(rs, I)[i] \in Int
    BY <1>2 DEF Network
  <2> QED
    BY <1>1, <1>2, <2>1, <2>2 DEF IsSample
<1>6. IsSample(Upstream(rs, I)) /\ DOMAIN Upstream(rs, I) \in SUBSET I
  <2>1. DOMAIN Upstream(rs, I) \in SUBSET I
    BY DEF Upstream
  <2>2. \A i \in DOMAIN Upstream(rs, I) : i \in Int /\ Upstream(rs, I)[i] \in Int
    BY <1>2 DEF Upstream
  <2> QED
    BY <1>1, <2>1, <2>2 DEF IsSample
<1> QED
  BY <1>3, <1>4, <1>5, <1>6

\* The counts of rows are those of the buckets.
LEMMA RowCounts ==
    ASSUME NEW rs, IsRun(rs), NEW span, NEW s, s = aggregate(rs, span)
    PROVE  /\ s.count = s.errorCount + s.total.count
           /\ s.count = SumFunction(Counts(s.backends))
           /\ s.errorCount =
                 SumFunction([i \in 1..Len(s.backends) |-> s.backends[i].errorCount])
<1> DEFINE n == Len(rs)
           ok == Successes(rs)
           R == s.backends
           g == [i \in 1..n |-> backendKey(rs[i])[1]]
<1>1. /\ s.count = n /\ s.errorCount = Cardinality(1..n \ ok)
      /\ s.total = computeLatencyStats(Sorted(Total(rs, ok)))
      /\ R = Ranked(Rows(rs), ByCount(Rows(rs), "key"))
  BY SummaryParts
<1>2. /\ IsFiniteSet(1..n) /\ Cardinality(1..n) = n /\ n \in Nat
      /\ IsFiniteSet(1..n \ ok) /\ IsFiniteSet(ok) /\ ok \in SUBSET (1..n)
      /\ Cardinality(1..n \ ok) \in Nat /\ Cardinality(ok) \in Nat
  BY Places DEF IsRun
<1>3. s.count = s.errorCount + s.total.count
  <2>1. s.total.count = Cardinality(ok)
    BY <1>1, <1>2, Samples, BlockOfSample
  <2> DEFINE A == 1..n
             B == A \ ok
  <2>2. B \cup ok = A /\ B \cap ok = {}
    BY <1>2
  <2>3. Cardinality(B \cup ok) = Cardinality(B) + Cardinality(ok) - Cardinality(B \cap ok)
    BY <1>2, FS_Union
  <2>4. Cardinality({}) = 0
    BY FS_EmptySet
  <2>5. Cardinality(A) = Cardinality(B) + Cardinality(ok) - 0
    BY <2>2, <2>3, <2>4
  <2>6. n = Cardinality(A)
    BY <1>2
  <2> HIDE DEF ok, A, B, n
  <2> QED
    BY <1>1, <1>2, <2>1, <2>5, <2>6 DEF B, A
<1>4. IsTable(Rows(rs), "key", Keys(rs))
  BY RowsAreTable
<1>5. \A i \in 1..n : g[i] \in Keys(rs)
  BY DEF Keys
<1>6. \A k \in 1..Len(R) :
         /\ R[k].count = Cardinality({i \in 1..n : g[i] = R[k]["key"]})
         /\ R[k].errorCount = Cardinality({i \in 1..n \ ok : g[i] = R[k]["key"]})
  <2> SUFFICES ASSUME NEW k \in 1..Len(R)
               PROVE  /\ R[k].count = Cardinality({i \in 1..n : g[i] = R[k]["key"]})
                      /\ R[k].errorCount = Cardinality({i \in 1..n \ ok : g[i] = R[k]["key"]})
    OBVIOUS
  <2>1. R[k] \in Rows(rs)
    <3> HIDE DEF R
    <3> QED
      BY <1>1, <1>4, TableOrder
  <2>2. PICK key \in Keys(rs) : R[k] = backendRow(rs, key)
    BY <2>1 DEF Rows
  <2>3. /\ R[k]["key"] = key /\ R[k].count = Cardinality(Bucket(rs, key))
        /\ R[k].errorCount = Cardinality(Bucket(rs, key) \ ok)
    BY <2>2 DEF backendRow
  <2>4. /\ Bucket(rs, key) = {i \in 1..n : g[i] = key}
        /\ Bucket(rs, key) \ ok = {i \in 1..n \ ok : g[i] = key}
    BY DEF Bucket
  <2> QED
    BY <2>3, <2>4
<1> DEFINE c == Counts(R)
           e == [i \in 1..Len(R) |-> R[i].errorCount]
<1>7. /\ DOMAIN c = 1..Len(R)
      /\ \A k \in 1..Len(R) : c[k] = Cardinality({i \in 1..n : g[i] = R[k]["key"]})
  BY <1>6 DEF Counts
<1>8. /\ DOMAIN e = 1..Len(R)
      /\ \A k \in 1..Len(R) : e[k] = Cardinality({i \in 1..n \ ok : g[i] = R[k]["key"]})
  BY <1>6
<1> DEFINE A == 1..n
           F == A \ ok
<1>9. /\ IsFiniteSet(A) /\ \A i \in A : g[i] \in Keys(rs)
      /\ IsFiniteSet(F) /\ \A i \in F : g[i] \in Keys(rs)
      /\ \A k \in 1..Len(R) : c[k] = Cardinality({i \in A : g[i] = R[k]["key"]})
      /\ \A k \in 1..Len(R) : e[k] = Cardinality({i \in F : g[i] = R[k]["key"]})
      /\ R = Ranked(Rows(rs), ByCount(Rows(rs), "key"))
  BY <1>1, <1>2, <1>5, <1>7, <1>8
<1> HIDE DEF R, c, e, g, n, A, F
<1>10. /\ SumFunctionOnSet(c, 1..Len(R)) = Cardinality(A)
       /\ SumFunctionOnSet(e, 1..Len(R)) = Cardinality(F)
  <2>1. SumFunctionOnSet(c, 1..Len(R)) = Cardinality(A)
    BY <1>4, <1>9, TableCounts
  <2>2. SumFunctionOnSet(e, 1..Len(R)) = Cardinality(F)
    BY <1>4, <1>9, TableCounts
  <2> QED
    BY <2>1, <2>2
<1>11. SumFunction(c) = n /\ SumFunction(e) = Cardinality(1..n \ ok)
  BY <1>2, <1>7, <1>8, <1>10 DEF SumFunction, A, F
<1> QED
  BY <1>1, <1>3, <1>11 DEF R, c, e, n

\* The counts of codes and of their messages are those of the failures.
LEMMA CodeCounts ==
    ASSUME NEW rs, IsRun(rs), NEW span, NEW s, s = aggregate(rs, span)
    PROVE  s.errorCount = SumFunction(Counts(s.errors))
<1> DEFINE F == 1..Len(rs) \ Successes(rs)
           R == s.errors
           g == [i \in F |-> rs[i].code]
<1>1. s.errorCount = Cardinality(F) /\ R = Ranked(CodeRows(rs), ByCount(CodeRows(rs), "code"))
  BY SummaryParts
<1>2. IsFiniteSet(F)
  BY Places
<1>3. IsTable(CodeRows(rs), "code", Codes(rs))
  BY CodesAreTable
<1>4. \A i \in F : g[i] \in Codes(rs)
  BY DEF Codes
<1>5. \A k \in 1..Len(R) : R[k].count = Cardinality({i \in F : g[i] = R[k]["code"]})
  <2> SUFFICES ASSUME NEW k \in 1..Len(R)
               PROVE  R[k].count = Cardinality({i \in F : g[i] = R[k]["code"]})
    OBVIOUS
  <2>1. R[k] \in CodeRows(rs)
    <3> HIDE DEF R
    <3> QED
      BY <1>1, <1>3, TableOrder
  <2>2. PICK c \in Codes(rs) : R[k] = CodeRow(rs, c)
    BY <2>1 DEF CodeRows
  <2>3. R[k]["code"] = c /\ R[k].count = Cardinality(OfCode(rs, c))
    BY <2>2 DEF CodeRow
  <2>4. OfCode(rs, c) = {i \in F : g[i] = c}
    BY DEF OfCode, Successes, IsRun
  <2> QED
    BY <2>3, <2>4
<1> DEFINE c == Counts(R)
<1>6. /\ DOMAIN c = 1..Len(R)
      /\ \A k \in 1..Len(R) : c[k] = Cardinality({i \in F : g[i] = R[k]["code"]})
  BY <1>5 DEF Counts
<1> HIDE DEF R, c, g, F
<1>7. SumFunctionOnSet(c, 1..Len(R)) = Cardinality(F)
  BY <1>1, <1>2, <1>3, <1>4, <1>6, TableCounts
<1> QED
  BY <1>1, <1>6, <1>7 DEF SumFunction, R, c, F

\* Cut keeps the first topErrorMessages.
LEMMA CutIsPrefix ==
    ASSUME NEW S, NEW s \in Seq(S)
    PROVE  /\ Len(Cut(s)) \in Nat /\ Len(Cut(s)) <= topErrorMessages /\ Len(Cut(s)) <= Len(s)
           /\ Len(s) > 0 => Len(Cut(s)) > 0
           /\ DOMAIN Cut(s) = 1..Len(Cut(s))
           /\ \A j \in 1..Len(Cut(s)) : Cut(s)[j] = s[j]
<1> DEFINE m == IF Len(s) < topErrorMessages THEN Len(s) ELSE topErrorMessages
<1>1. m \in 0..Len(s) /\ m <= topErrorMessages /\ (Len(s) > 0 => m > 0) /\ m \in Nat
  BY LenProperties DEF topErrorMessages
<1>2. Cut(s) = SubSeq(s, 1, m)
  BY DEF Cut
<1> HIDE DEF m
<1>3. SubSeq(s, 1, m) = [j \in 1..m |-> s[j]]
  BY <1>1, LenProperties
<1>4. Cut(s) = [j \in 1..m |-> s[j]] /\ Len(Cut(s)) = m
  BY <1>1, <1>2, <1>3
<1> QED
  BY <1>1, <1>4, LenProperties

\* The list of a code: at most three, none left out that is more frequent.
LEMMA TopOfCode ==
    ASSUME NEW rs, IsRun(rs), NEW c, NEW top, top = topMessages(rs, c)
    PROVE  /\ Len(top) \in Nat /\ Len(top) <= topErrorMessages
           /\ c \in Codes(rs) => Len(top) > 0
           /\ SumFunction(Counts(top)) <= Cardinality(OfCode(rs, c))
           /\ \A m \in Texts(rs, c) :
                 \/ m \in {top[j].message : j \in 1..Len(top)}
                 \/ \A j \in 1..Len(top) : top[j].count >= Cardinality(OfMessage(rs, c, m))
<1> DEFINE stats == Messages(rs, c)
           Q == Ranked(stats, ByCount(stats, "message"))
           n == Len(Q)
           F == OfCode(rs, c)
           g == [i \in F |-> Truncated[rs[i].msg]]
           size == Counts(Q)
<1>1. IsTable(stats, "message", Texts(rs, c)) /\ top = Cut(Q)
  BY MessagesAreTable DEF topMessages
<1>2. /\ n \in Nat /\ Q \in Seq(stats)
      /\ \A k \in 1..n : Q[k] \in stats
      /\ \A j, k \in 1..n : j < k => Q[j].count >= Q[k].count
  <2>1. Q \in Seq(stats) /\ \A j, k \in 1..n : j < k => Q[j].count >= Q[k].count
    <3> HIDE DEF stats
    <3> QED
      BY <1>1, TableOrder
  <2> HIDE DEF Q, stats
  <2> QED
    BY <2>1, LenProperties, ElementOfSeq
<1>3. /\ Len(top) \in Nat /\ Len(top) <= topErrorMessages /\ Len(top) <= n
      /\ n > 0 => Len(top) > 0
      /\ DOMAIN top = 1..Len(top)
      /\ \A j \in 1..Len(top) : top[j] = Q[j]
  <2> HIDE DEF Q
  <2> QED
    BY <1>1, <1>2, CutIsPrefix
<1>4. \A a \in stats : /\ a.message \in Texts(rs, c)
                       /\ a.count = Cardinality(OfMessage(rs, c, a.message))
  BY DEF Messages, Texts
<1>5. \A m \in Texts(rs, c) : \E k \in 1..n : Q[k].message = m
  <2> DEFINE tie == "message"
             K == Texts(rs, c)
  <2>1. IsTable(stats, tie, K) /\ Q = Ranked(stats, ByCount(stats, tie))
    BY <1>1
  <2> HIDE DEF stats, Q, tie, K
  <2>2. \A m \in K : \E k \in 1..n : Q[k][tie] = m
    <3> DEFINE h == [k \in 1..n |-> Q[k][tie]]
    <3>1. h \in Bijection(1..n, K)
      BY <2>1, TableOrder
    <3> QED
      BY <3>1 DEF Bijection, Surjection
  <2> QED
    BY <2>2 DEF K, tie
<1>6. c \in Codes(rs) => Len(top) > 0
  <2> SUFFICES ASSUME c \in Codes(rs) PROVE n > 0
    BY <1>3
  <2>1. Texts(rs, c) # {}
    <3>1. PICK i \in 1..Len(rs) \ Successes(rs) : rs[i].code = c
      BY DEF Codes
    <3>2. i \in OfCode(rs, c)
      BY <3>1 DEF OfCode, Successes, IsRun
    <3> QED
      BY <3>2 DEF Texts
  <2> HIDE DEF Q, n
  <2> QED
    BY <1>2, <1>5, <2>1
<1>7. ASSUME NEW m \in Texts(rs, c), m \notin {top[j].message : j \in 1..Len(top)},
             NEW j \in 1..Len(top)
      PROVE  top[j].count >= Cardinality(OfMessage(rs, c, m))
  <2>1. PICK k \in 1..n : Q[k].message = m
    BY <1>5
  <2>2. Q[k].count = Cardinality(OfMessage(rs, c, m))
    BY <1>2, <1>4, <2>1
  <2> HIDE DEF Q, n, stats
  <2>3. k \notin 1..Len(top)
    BY <1>3, <1>7, <2>1
  <2>4. j < k /\ j \in 1..n
    BY <1>2, <1>3, <2>3
  <2> QED
    BY <1>2, <1>3, <2>2, <2>4
<1>8. SumFunction(Counts(top)) <= Cardinality(F)
  <2>1. IsFiniteSet(F) /\ Cardinality(F) \in Nat
    BY Places
  <2>2. \A k \in 1..n : size[k] = Cardinality({i \in F : g[i] = Q[k]["message"]})
    <3> TAKE k \in 1..n
    <3>1. Q[k].count = Cardinality(OfMessage(rs, c, Q[k].message))
      BY <1>2, <1>4
    <3>2. OfMessage(rs, c, Q[k].message) = {i \in F : g[i] = Q[k]["message"]}
      BY DEF OfMessage
    <3> QED
      BY <3>1, <3>2 DEF Counts
  <2>3. \A i \in F : g[i] \in Texts(rs, c)
    BY DEF Texts
  <2>4. \A k \in 1..n : size[k] \in Nat
    <3> TAKE k \in 1..n
    <3>1. OfMessage(rs, c, Q[k].message) \in SUBSET (1..Len(rs))
      BY Places
    <3>2. Cardinality(OfMessage(rs, c, Q[k].message)) \in Nat
      BY <3>1, Places
    <3> QED
      BY <1>2, <1>4, <3>2 DEF Counts
  <2> DEFINE t == Len(top)
             A == 1..t
             B == (t + 1)..n
             N == 1..n
  <2>5. A \cup B = N /\ A \cap B = {} /\ IsFiniteSet(A) /\ IsFiniteSet(B)
    <3> HIDE DEF n, t
    <3>1. t \in Nat /\ t <= n /\ n \in Nat
      BY <1>2, <1>3 DEF t
    <3>2. IsFiniteSet(A) /\ IsFiniteSet(B)
      BY <3>1, FS_Interval
    <3> QED
      BY <3>1, <3>2
  <2>6. SumFunctionOnSet(size, N) = Cardinality(F)
    <3>1. Q = Ranked(stats, ByCount(stats, "message"))
      OBVIOUS
    <3> HIDE DEF Q, size, F, g, stats, N
    <3>2. SumFunctionOnSet(size, 1..Len(Q)) = Cardinality(F)
      BY <1>1, <2>1, <2>2, <2>3, <3>1, TableCounts
    <3> QED
      BY <3>2 DEF N
  <2>7. \A k \in N : size[k] \in Nat /\ \A j \in A : j \in N
    BY <2>4, <2>5
  <2>8. SumFunction(Counts(top)) = SumFunctionOnSet(size, A)
    <3>1. DOMAIN Counts(top) = A
      BY DEF Counts
    <3>2. \A j \in A : Counts(top)[j] = size[j]
      BY <1>3, <2>7 DEF Counts
    <3> HIDE DEF A, size
    <3>3. SumFunctionOnSet(size, A) = SumFunctionOnSet(Counts(top), A)
      BY <2>5, <2>7, <3>2, SumSame
    <3> QED
      BY <3>1, <3>3 DEF SumFunction
  <2> HIDE DEF A, B, N, size, F
  <2>9. SumFunctionOnSet(size, N) = SumFunctionOnSet(size, A) + SumFunctionOnSet(size, B)
    BY <2>5, <2>7, SumUnion
  <2>10. 0 <= SumFunctionOnSet(size, B) /\ SumFunctionOnSet(size, A) \in Int
         /\ SumFunctionOnSet(size, B) \in Int
    <3>1. \A x \in A \cup B : size[x] \in Nat
      BY <2>5, <2>7
    <3>2. SumFunctionOnSet(size, A) \in Nat /\ SumFunctionOnSet(size, B) \in Nat
      BY <2>5, <3>1, SumNat
    <3> QED
      BY <3>2
  <2> QED
    BY <2>1, <2>6, <2>8, <2>9, <2>10 DEF F
<1> QED
  BY <1>3, <1>6, <1>7, <1>8

\* The rows of the histogram and of the backends.
LEMMA ErrorRows ==
    ASSUME NEW rs, IsRun(rs), NEW span, NEW s, s = aggregate(rs, span)
    PROVE  \A i \in 1..Len(s.errors) : \E c \in Codes(rs) : s.errors[i] = CodeRow(rs, c)
<1> DEFINE R == s.errors
<1>1. R = Ranked(CodeRows(rs), ByCount(CodeRows(rs), "code"))
  BY SummaryParts
<1>2. IsTable(CodeRows(rs), "code", Codes(rs))
  BY CodesAreTable
<1> HIDE DEF R
<1>3. \A i \in 1..Len(R) : R[i] \in CodeRows(rs)
  BY <1>1, <1>2, TableOrder
<1> QED
  BY <1>3 DEF CodeRows, R

\* Each row of the report is the row of a key.
LEMMA BackendRows ==
    ASSUME NEW rs, IsRun(rs), NEW span, NEW s, s = aggregate(rs, span)
    PROVE  /\ Len(s.backends) \in Nat
           /\ \A i \in 1..Len(s.backends) :
                 \E key \in Keys(rs) : s.backends[i] = backendRow(rs, key)
<1> DEFINE R == s.backends
<1>1. R = Ranked(Rows(rs), ByCount(Rows(rs), "key"))
  BY SummaryParts
<1>2. IsTable(Rows(rs), "key", Keys(rs))
  BY RowsAreTable
<1> HIDE DEF R
<1>3. \A i \in 1..Len(R) : R[i] \in Rows(rs)
  BY <1>1, <1>2, TableOrder
<1>4. Len(R) \in Nat
  BY <1>1, <1>2, TableOrder
<1> QED
  BY <1>3, <1>4 DEF Rows, R

-----------------------------------------------------------------------------
(* Concatenation. *)

\* The recursion of FlattenSeq.
FlattenStep(seqs, g, i) == IF i = 1 THEN seqs[i] ELSE g[i - 1] \o seqs[i]

\* The sequences are appended one after the other.
LEMMA FlattenRuns ==
    ASSUME NEW seqs, Len(seqs) \in Nat, Len(seqs) # 0
    PROVE  \E g : /\ FlattenSeq(seqs) = g[Len(seqs)]
                  /\ g[1] = seqs[1]
                  /\ \A i \in 2..Len(seqs) : g[i] = g[i - 1] \o seqs[i]
<1> DEFINE L == Len(seqs)
<1>1. FlattenSeq(seqs) = (CHOOSE f : f = [i \in 1..L |-> FlattenStep(seqs, f, i)])[L]
  BY DEF FlattenSeq, FlattenStep
<1> HIDE DEF L
<1>0. L \in Nat /\ L >= 1
  BY DEF L
<1> DEFINE N == {n \in Nat : \E g : \A i \in 1..L : i <= n => g[i] = FlattenStep(seqs, g, i)}
<1>2. 0 \in N
  <2>1. \A i \in 1..L : i <= 0 => seqs[i] = FlattenStep(seqs, seqs, i)
    BY <1>0
  <2> QED
    BY <2>1
<1>3. ASSUME NEW n \in N \cap Nat PROVE n + 1 \in N
  <2>0. n \in Nat /\ n + 1 \in Nat
    OBVIOUS
  <2>1. PICK g : \A i \in 1..L : i <= n => g[i] = FlattenStep(seqs, g, i)
    OBVIOUS
  <2> DEFINE h == [i \in 1..L |-> FlattenStep(seqs, g, i)]
  <2>2. ASSUME NEW i \in 1..L, i <= n + 1 PROVE h[i] = FlattenStep(seqs, h, i)
    <3>0. h[i] = FlattenStep(seqs, g, i)
      OBVIOUS
    <3>1. CASE i = 1
      BY <3>0, <3>1 DEF FlattenStep
    <3>2. CASE i # 1
      <4>1. i - 1 \in 1..L /\ i - 1 <= n
        BY <1>0, <2>0, <2>2, <3>2
      <4>2. h[i - 1] = g[i - 1]
        BY <2>1, <4>1
      <4> HIDE DEF h
      <4> QED
        BY <3>0, <3>2, <4>2 DEF FlattenStep
    <3> QED
      BY <3>1, <3>2
  <2> HIDE DEF h
  <2>3. \A i \in 1..L : i <= n + 1 => h[i] = FlattenStep(seqs, h, i)
    BY <2>2
  <2> QED
    BY <2>0, <2>3
<1> HIDE DEF N
<1>4. Nat \subseteq N
  BY <1>2, <1>3, NatInduct
<1>5. PICK g : \A i \in 1..L : i <= L => g[i] = FlattenStep(seqs, g, i)
  BY <1>0, <1>4 DEF N
<1> DEFINE h == [i \in 1..L |-> g[i]]
<1>6. h = [i \in 1..L |-> FlattenStep(seqs, h, i)]
  <2>1. ASSUME NEW i \in 1..L PROVE h[i] = FlattenStep(seqs, h, i)
    <3>0. h[i] = FlattenStep(seqs, g, i)
      BY <1>0, <1>5
    <3>1. CASE i = 1
      BY <3>0, <3>1 DEF FlattenStep
    <3>2. CASE i # 1
      <4>1. i - 1 \in 1..L
        BY <1>0, <3>2
      <4>2. h[i - 1] = g[i - 1]
        BY <4>1
      <4> HIDE DEF h
      <4> QED
        BY <3>0, <3>2, <4>2 DEF FlattenStep
    <3> QED
      BY <3>1, <3>2
  <2> QED
    BY <2>1
<1> DEFINE c == CHOOSE f : f = [i \in 1..L |-> FlattenStep(seqs, f, i)]
<1>7. c = [i \in 1..L |-> FlattenStep(seqs, c, i)]
  BY <1>6
<1>8. FlattenSeq(seqs) = c[L]
  BY <1>1
<1> HIDE DEF c
<1>9. c[1] = seqs[1] /\ \A i \in 2..L : c[i] = c[i - 1] \o seqs[i]
  <2>1. \A i \in 1..L : c[i] = FlattenStep(seqs, c, i)
    BY <1>7
  <2>2. c[1] = seqs[1]
    BY <1>0, <2>1 DEF FlattenStep
  <2>3. ASSUME NEW i \in 2..L PROVE c[i] = c[i - 1] \o seqs[i]
    <3>1. i \in 1..L /\ i # 1
      BY <1>0
    <3> QED
      BY <2>1, <3>1 DEF FlattenStep
  <2> QED
    BY <2>2, <2>3
<1> QED
  BY <1>8, <1>9 DEF L

\* A sequence of the same elements, each of one of the sequences.
LEMMA FlattenType ==
    ASSUME NEW S, NEW seqs \in Seq(Seq(S))
    PROVE  /\ FlattenSeq(seqs) \in Seq(S)
           /\ Len(FlattenSeq(seqs)) > 0 => \E i \in 1..Len(seqs) : Len(seqs[i]) > 0
<1>1. CASE Len(seqs) = 0
  <2>1. FlattenSeq(seqs) = seqs
    BY <1>1 DEF FlattenSeq
  <2>2. seqs = << >>
    BY <1>1, EmptySeq
  <2> QED
    BY <1>1, <2>1, <2>2
<1>2. CASE Len(seqs) # 0
  <2> DEFINE L == Len(seqs)
  <2>0. L \in Nat /\ L >= 1 /\ \A i \in 1..L : seqs[i] \in Seq(S) /\ Len(seqs[i]) \in Nat
    BY <1>2, LenProperties, ElementOfSeq
  <2>1. PICK g : /\ FlattenSeq(seqs) = g[L]
                 /\ g[1] = seqs[1]
                 /\ \A i \in 2..L : g[i] = g[i - 1] \o seqs[i]
    BY <1>2, <2>0, FlattenRuns
  <2> HIDE DEF L
  <2> DEFINE Good(n) == /\ g[n] \in Seq(S)
                        /\ Len(g[n]) > 0 => \E i \in 1..L : Len(seqs[i]) > 0
             T == {n \in 0..L : n = 0 \/ Good(n)}
  <2>2. 0 \in T
    BY <2>0
  <2>3. ASSUME NEW n \in T, n \in 0..(L - 1) PROVE n + 1 \in T
    <3>1. CASE n = 0
      <4>1. Good(1)
        BY <2>0, <2>1
      <4> HIDE DEF Good
      <4> QED
        BY <2>0, <3>1, <4>1
    <3>2. CASE n # 0
      <4>0. n + 1 \in 2..L /\ (n + 1) - 1 = n /\ n + 1 \in 1..L
        BY <2>0, <2>3, <3>2
      <4>1. g[n + 1] = g[n] \o seqs[n + 1]
        BY <2>1, <4>0
      <4>2. Good(n)
        BY <3>2
      <4>3. seqs[n + 1] \in Seq(S) /\ Len(seqs[n + 1]) \in Nat
        BY <2>0, <4>0
      <4>4. /\ g[n + 1] \in Seq(S) /\ Len(g[n]) \in Nat
            /\ Len(g[n + 1]) = Len(g[n]) + Len(seqs[n + 1])
        BY <4>1, <4>2, <4>3, ConcatProperties, LenProperties
      <4>5. Good(n + 1)
        <5>1. CASE Len(seqs[n + 1]) > 0
          BY <4>0, <4>4, <5>1
        <5>2. CASE Len(seqs[n + 1]) = 0
          BY <4>2, <4>4, <5>2
        <5> QED
          BY <4>3, <5>1, <5>2
      <4> HIDE DEF Good
      <4> QED
        BY <4>0, <4>5
    <3> QED
      BY <3>1, <3>2
  <2> HIDE DEF Good
  <2>4. 0..L \subseteq T
    <3> HIDE DEF T
    <3> QED
      BY <2>0, <2>2, <2>3, NatInductUpTo
  <2>5. Good(L)
    BY <2>0, <2>4
  <2> QED
    BY <2>1, <2>5 DEF Good, L
<1> QED
  BY <1>1, <1>2

-----------------------------------------------------------------------------
(* What the workers record. *)

\* What doCall can record, and what the workers' sequences hold.
Results == {ResultOf(r, t) : r \in setting.reply, t \in Nat}

RecordedInv ==
    /\ setting \in Setting
    /\ recorded \in [1..setting.workers -> Seq(Results)]

\* The fields that ResultOf computes; the names keep apart by their residues.
LEMMA ResultFields ==
    ASSUME setting \in Setting, NEW x \in Results
    PROVE  /\ x.err \in BOOLEAN
           /\ x.code \in Nat /\ Truncated[x.msg] \in Nat
           /\ x.start \in Nat /\ x.end \in Nat
           /\ x.total \in Nat /\ x.srv \in Nat /\ x.up \in Int
           /\ x.pod \in Nat /\ (x.pod # 0 => x.pod % 4 = 3)
           /\ x.host \in Nat /\ (x.host # 0 => x.host % 4 = 2)
           /\ x.peer \in Nat /\ (x.peer # 0 => x.peer % 4 = 1)
           /\ x.end = x.start + x.total
<1>1. PICK r \in setting.reply, t \in Nat : x = ResultOf(r, t)
  BY DEF Results
<1>2. /\ r.server \in Nat /\ r.ok \in BOOLEAN /\ r.total \in Nat /\ r.srv \in Nat
      /\ r.up \in Int /\ r.code \in Nat /\ r.msg \in DOMAIN Truncated
  BY SettingAssumption DEF Reply
<1>3. Truncated[r.msg] \in Nat
  BY <1>2, TruncatedAssumption
<1>4. /\ x.err = ~ r.ok /\ x.code = r.code /\ x.msg = r.msg
      /\ x.start = t /\ x.end = t + r.total /\ x.total = r.total
      /\ x.srv = r.srv /\ x.up = r.up
      /\ x.pod = IF r.ok THEN PodName(r.server) ELSE 0
      /\ x.host = IF r.ok THEN Hostname(r.server) ELSE 0
      /\ x.peer = IF r.resolved THEN PeerAddr(r.server) ELSE 0
  BY <1>1 DEF ResultOf
<1>5. /\ x.pod \in Nat /\ (x.pod # 0 => x.pod % 4 = 3)
      /\ x.host \in Nat /\ (x.host # 0 => x.host % 4 = 2)
      /\ x.peer \in Nat /\ (x.peer # 0 => x.peer % 4 = 1)
  BY <1>2, <1>4 DEF PodName, Hostname, PeerAddr, PodNamePlaceholder
<1> QED
  BY <1>2, <1>3, <1>4, <1>5

\* The workers' sequences, one after the other.
LEMMA ResultsTyped ==
    ASSUME RecordedInv
    PROVE  results \in Seq(Results) /\ recorded \in Seq(Seq(Results))
           /\ Len(recorded) = setting.workers
<1>1. setting.workers \in Nat
  BY SettingAssumption DEF RecordedInv
<1>2. recorded \in Seq(Seq(Results)) /\ Len(recorded) = setting.workers
  <2> DEFINE T == Seq(Results)
  <2>1. recorded \in [1..setting.workers -> T]
    BY DEF RecordedInv
  <2> HIDE DEF T
  <2>2. recorded \in Seq(T) /\ Len(recorded) = setting.workers
    BY <1>1, <2>1
  <2> QED
    BY <2>2 DEF T
<1> QED
  BY <1>2, FlattenType DEF results

\* What aggregate is given.
LEMMA ResultsAreRun ==
    ASSUME RecordedInv
    PROVE  IsRun(results) /\ \A i \in 1..Len(results) : results[i] \in Results
<1>1. results \in Seq(Results)
  BY ResultsTyped
<1>2. Len(results) \in Nat /\ \A i \in 1..Len(results) : results[i] \in Results
  BY <1>1, LenProperties, ElementOfSeq
<1>3. setting \in Setting
  BY DEF RecordedInv
<1> QED
  BY <1>2, <1>3, ResultFields DEF IsRun

\* Nothing is recorded at first, and Arrive records a result.
LEMMA InitRecorded == Init => RecordedInv
<1> SUFFICES ASSUME Init PROVE RecordedInv
  OBVIOUS
<1>1. << >> \in Seq(Results)
  OBVIOUS
<1> QED
  BY <1>1 DEF Init, RecordedInv

LEMMA NextRecorded == RecordedInv /\ [Next]_vars => RecordedInv'
<1> SUFFICES ASSUME RecordedInv, [Next]_vars PROVE RecordedInv'
  OBVIOUS
<1>0. ASSUME setting' = setting PROVE Results' = Results
  BY <1>0 DEF Results, ResultOf, PodName, Hostname, PeerAddr
<1>1. CASE Next
  <2>1. PICK w \in 1..setting.workers : Arrive(w)
    BY <1>1 DEF Next
  <2>2. PICK r \in setting.reply, gap \in setting.gaps :
           recorded' = [recorded EXCEPT ![w] = Append(@, ResultOf(r, FreeAt(w) + gap))]
    BY <2>1 DEF Arrive
  <2>3. setting' = setting /\ setting \in Setting /\ recorded \in [1..setting.workers -> Seq(Results)]
    BY <2>1 DEF Arrive, RecordedInv
  <2>4. FreeAt(w) \in Nat
    <3> DEFINE s == recorded[w]
    <3>1. s \in Seq(Results)
      BY <2>3
    <3>2. CASE s = << >>
      BY <3>2 DEF FreeAt
    <3>3. CASE s # << >>
      <4>1. Len(s) \in 1..Len(s)
        BY <3>1, <3>3, EmptySeq
      <4>2. s[Len(s)] \in Results
        BY <3>1, <4>1, ElementOfSeq
      <4>3. FreeAt(w) = s[Len(s)].end
        BY <3>3 DEF FreeAt, Last
      <4> QED
        BY <2>3, <4>2, <4>3, ResultFields
    <3> QED
      BY <3>2, <3>3
  <2>5. FreeAt(w) + gap \in Nat
    BY <2>3, <2>4, SettingAssumption
  <2>6. ResultOf(r, FreeAt(w) + gap) \in Results
    BY <2>5 DEF Results
  <2>7. recorded' \in [1..setting.workers -> Seq(Results)]
    <3>1. Append(recorded[w], ResultOf(r, FreeAt(w) + gap)) \in Seq(Results)
      BY <2>3, <2>6, AppendProperties
    <3> QED
      BY <2>2, <2>3, <3>1
  <2> QED
    BY <1>0, <2>3, <2>7 DEF RecordedInv
<1>2. CASE UNCHANGED vars
  <2>1. setting' = setting /\ recorded' = recorded
    BY <1>2 DEF vars
  <2> QED
    BY <1>0, <2>1 DEF RecordedInv
<1> QED
  BY <1>1, <1>2

\* The workers record nothing but results, in every run.
LEMMA Recorded == Spec => []RecordedInv
BY InitRecorded, NextRecorded, PTL DEF Spec

-----------------------------------------------------------------------------
(* The counts, the messages, the percentiles and the rows. *)

\* Summary without its LET.
LEMMA SummaryIsAggregate == Summary = aggregate(results, elapsed(results))
BY DEF Summary, SummaryOf

\* The rows and the codes partition the results, so their counts add up.
LEMMA CountsFromRun == RecordedInv => CountsAddUp
<1> SUFFICES ASSUME RecordedInv PROVE CountsAddUp
  OBVIOUS
<1> DEFINE rs == results
           span == elapsed(rs)
           s == Summary
<1>1. IsRun(rs) /\ s = aggregate(rs, span)
  BY ResultsAreRun, SummaryIsAggregate
<1> HIDE DEF rs, span, s
<1>2. /\ s.count = s.errorCount + s.total.count
      /\ s.count = SumFunction(Counts(s.backends))
      /\ s.errorCount =
            SumFunction([i \in 1..Len(s.backends) |-> s.backends[i].errorCount])
  BY <1>1, RowCounts
<1>3. s.errorCount = SumFunction(Counts(s.errors))
  BY <1>1, CodeCounts
<1>4. ASSUME NEW i \in 1..Len(s.errors)
      PROVE  SumFunction(Counts(s.errors[i].top)) <= s.errors[i].count
  <2>1. PICK c \in Codes(rs) : s.errors[i] = CodeRow(rs, c)
    BY <1>1, ErrorRows
  <2>2. s.errors[i].top = topMessages(rs, c) /\ s.errors[i].count = Cardinality(OfCode(rs, c))
    BY <2>1 DEF CodeRow
  <2> QED
    BY <1>1, <2>2, TopOfCode
<1> QED
  BY <1>2, <1>3, <1>4 DEF CountsAddUp, s

\* Every result is counted once in every breakdown (computeBackends,
\* computeStatusCodes), for all settings and any number of results.
THEOREM EveryCallCounted == Spec => []CountsAddUp
BY Recorded, CountsFromRun, PTL

\* A code's list is a prefix of its messages in the order of their counts.
LEMMA TopFromRun == RecordedInv => TopMessagesAreTop
<1> SUFFICES ASSUME RecordedInv PROVE TopMessagesAreTop
  OBVIOUS
<1> DEFINE rs == results
           span == elapsed(rs)
           s == Summary
<1>1. IsRun(rs) /\ s = aggregate(rs, span)
  BY ResultsAreRun, SummaryIsAggregate
<1>2. ASSUME NEW i \in 1..Len(s.errors)
      PROVE  LET b == s.errors[i]
                 listed == {b.top[j].message : j \in 1..Len(b.top)}
             IN  /\ Len(b.top) <= topErrorMessages
                 /\ \A m \in {Truncated[rs[k].msg] : k \in OfCode(rs, b.code)} \ listed :
                       \A j \in 1..Len(b.top) :
                          b.top[j].count >= Cardinality(OfMessage(rs, b.code, m))
  <2> HIDE DEF rs, span, s
  <2>1. PICK c \in Codes(rs) : s.errors[i] = CodeRow(rs, c)
    BY <1>1, ErrorRows
  <2> DEFINE b == s.errors[i]
             t == b.top
  <2>2. t = topMessages(rs, c) /\ b.code = c
    BY <2>1 DEF CodeRow
  <2> HIDE DEF b
  <2>3. /\ Len(t) <= topErrorMessages
        /\ \A m \in Texts(rs, c) :
              \/ m \in {t[j].message : j \in 1..Len(t)}
              \/ \A j \in 1..Len(t) : t[j].count >= Cardinality(OfMessage(rs, c, m))
    <3> HIDE DEF t
    <3> QED
      BY <1>1, <2>2, TopOfCode
  <2>4. /\ Len(b.top) <= topErrorMessages
        /\ \A m \in {Truncated[rs[k].msg] : k \in OfCode(rs, b.code)}
                      \ {b.top[j].message : j \in 1..Len(b.top)} :
              \A j \in 1..Len(b.top) :
                 b.top[j].count >= Cardinality(OfMessage(rs, b.code, m))
    BY <2>2, <2>3 DEF Texts
  <2> QED
    BY <2>4 DEF b
<1> QED
  BY <1>2 DEF TopMessagesAreTop

\* The cut of computeStatusCodes keeps the most frequent messages of a code.
THEOREM TopMessagesKept == Spec => []TopMessagesAreTop
BY Recorded, TopFromRun, PTL

\* Each block is that of one of the four samples.
LEMMA LatenciesFromRun == RecordedInv => LatenciesRight
<1> SUFFICES ASSUME RecordedInv PROVE LatenciesRight
  OBVIOUS
<1> DEFINE ok == Successes(results)
<1>1. IsRun(results)
  BY ResultsAreRun
<1>2. ok \in SUBSET (1..Len(results))
  BY <1>1, Places
<1>3. /\ IsSample(Total(results, ok)) /\ IsSample(Server(results, ok))
      /\ IsSample(Network(results, ok)) /\ IsSample(Upstream(results, ok))
  BY <1>1, <1>2, Samples
<1>4. /\ Summary.total = computeLatencyStats(Sorted(Total(results, ok)))
      /\ Summary.server = computeLatencyStats(Sorted(Server(results, ok)))
      /\ Summary.network = computeLatencyStats(Sorted(Network(results, ok)))
      /\ Summary.upstream = computeLatencyStats(Sorted(Upstream(results, ok)))
  BY SummaryIsAggregate, SummaryParts
<1> QED
  BY <1>3, <1>4, BlockOfSample DEF LatenciesRight

\* percentile takes the nearest rank of each of the four samples and the mean
\* lies between the extremes, whatever the sample.
THEOREM PercentilesAreNearestRank == Spec => []LatenciesRight
BY Recorded, LatenciesFromRun, PTL

\* The names that echo.New gives differ where at most one server lacks POD_NAME.
LEMMA ToldApartFromRun ==
    ASSUME \A s \in Setting : \A r, q \in s.reply :
              r.ok /\ q.ok /\ r.server # q.server =>
                 r.server \in s.named \cup s.blank \/ q.server \in s.named \cup s.blank
    PROVE  RecordedInv => BackendsToldApart
<1> SUFFICES ASSUME RecordedInv,
                    NEW i \in 1..Len(results), NEW j \in 1..Len(results),
                    ~ results[i].err, ~ results[j].err,
                    results[i].server # results[j].server
             PROVE  backendKey(results[i]) # backendKey(results[j])
  BY DEF BackendsToldApart
<1>1. results[i] \in Results /\ results[j] \in Results /\ setting \in Setting
  BY ResultsAreRun DEF RecordedInv
<1>2. PICK r \in setting.reply, t \in Nat : results[i] = ResultOf(r, t)
  BY <1>1 DEF Results
<1>3. PICK q \in setting.reply, u \in Nat : results[j] = ResultOf(q, u)
  BY <1>1 DEF Results
<1>4. /\ r.server \in Nat /\ r.ok \in BOOLEAN /\ q.server \in Nat /\ q.ok \in BOOLEAN
  BY <1>1, SettingAssumption DEF Reply
<1>5. r.ok /\ q.ok /\ r.server # q.server
  <2>1. /\ results[i].err = ~ r.ok /\ results[i].server = r.server
        /\ results[j].err = ~ q.ok /\ results[j].server = q.server
    BY <1>2, <1>3 DEF ResultOf
  <2> QED
    BY <1>4, <2>1
<1>6. /\ results[i].pod = PodName(r.server) /\ results[i].host = Hostname(r.server)
      /\ results[j].pod = PodName(q.server) /\ results[j].host = Hostname(q.server)
  BY <1>2, <1>3, <1>5 DEF ResultOf
<1>7. r.server \in setting.named \cup setting.blank \/ q.server \in setting.named \cup setting.blank
  BY <1>1, <1>5
<1>8. /\ backendKey(results[i])[1] = IF PodName(r.server) # 0 THEN PodName(r.server) ELSE Hostname(r.server)
      /\ backendKey(results[j])[1] = IF PodName(q.server) # 0 THEN PodName(q.server) ELSE Hostname(q.server)
  BY <1>4, <1>6 DEF backendKey, Hostname
<1>9. backendKey(results[i])[1] # backendKey(results[j])[1]
  <2> DEFINE a == r.server
             b == q.server
             k(x) == IF PodName(x) # 0 THEN PodName(x) ELSE Hostname(x)
  <2>1. a \in Nat /\ b \in Nat /\ a # b
    BY <1>4, <1>5
  <2>2. /\ k(a) \in {4 * a + 11, 4 * a + 10, 7} /\ (k(a) = 7 => a \notin setting.named \cup setting.blank)
        /\ k(b) \in {4 * b + 11, 4 * b + 10, 7} /\ (k(b) = 7 => b \notin setting.named \cup setting.blank)
    <3> HIDE DEF a, b
    <3> QED
      BY <2>1 DEF PodName, Hostname, PodNamePlaceholder
  <2>3. ~ (k(a) = 7 /\ k(b) = 7)
    BY <1>7, <2>2
  <2>4. k(a) # k(b)
    <3> HIDE DEF a, b, k
    <3> QED
      BY <2>1, <2>2, <2>3
  <2> QED
    BY <1>8, <2>4
<1> QED
  BY <1>9

\* Two servers that answer are two rows of computeBackends if at most one of
\* them lacks POD_NAME: the placeholder of echo.New is the same for all.
THEOREM AnsweringServersAreRows ==
    ASSUME \A s \in Setting : \A r, q \in s.reply :
              r.ok /\ q.ok /\ r.server # q.server =>
                 r.server \in s.named \cup s.blank \/ q.server \in s.named \cup s.blank
    PROVE  Spec => []BackendsToldApart
<1>1. RecordedInv => BackendsToldApart
  BY ToldApartFromRun
<1> QED
  BY <1>1, Recorded, PTL

\* Max and Min of a finite set of numbers.
LEMMA Extremes ==
    ASSUME NEW S \in SUBSET Nat, IsFiniteSet(S), S # {}
    PROVE  /\ Max(S) \in S /\ \A x \in S : x <= Max(S)
           /\ Min(S) \in S /\ \A x \in S : Min(S) <= x
<1>1. \E m \in S : \A k \in S : m >= k
  <2>1. PICK m \in S : \A k \in S : k <= m
    BY GreatestNat
  <2> QED
    BY <2>1
<1>2. \E m \in S : \A k \in S : m <= k
  BY LeastNat
<1>3. Max(S) \in S /\ \A k \in S : Max(S) >= k
  BY <1>1 DEF Max
<1>4. Min(S) \in S /\ \A k \in S : Min(S) <= k
  BY <1>2 DEF Min
<1> QED
  BY <1>3, <1>4

\* What a row says of its bucket.
LEMMA RowFacts ==
    ASSUME NEW rs, IsRun(rs), NEW key \in Keys(rs), NEW b, b = backendRow(rs, key)
    PROVE  /\ b.count \in Nat \ {0} /\ b.errorCount \in Nat
           /\ b.count > b.errorCount <=> Bucket(rs, key) \cap Successes(rs) # {}
           /\ Bucket(rs, key) \cap Successes(rs) = {} => b.p50 = 0 /\ b.p99 = 0
           /\ Bucket(rs, key) \cap Successes(rs) # {} =>
                 \E i \in Bucket(rs, key) \cap Successes(rs) : b.p99 = rs[i].total
<1> DEFINE mine == Bucket(rs, key)
           ok == mine \cap Successes(rs)
           bad == mine \ Successes(rs)
           f == Total(rs, ok)
<1>1. /\ b.count = Cardinality(mine) /\ b.errorCount = Cardinality(bad)
      /\ b.p50 = percentile(Sorted(f), 50) /\ b.p99 = percentile(Sorted(f), 99)
  BY DEF backendRow, rowSample
<1>2. /\ mine \in SUBSET (1..Len(rs)) /\ ok \in SUBSET (1..Len(rs)) /\ bad \in SUBSET (1..Len(rs))
      /\ mine # {}
  BY Places DEF Keys, Bucket
<1>3. IsSample(f) /\ DOMAIN f = ok
  BY <1>2, Samples
<1>4. /\ IsFiniteSet(mine) /\ IsFiniteSet(ok) /\ IsFiniteSet(bad)
      /\ Cardinality(mine) \in Nat \ {0} /\ Cardinality(bad) \in Nat
      /\ Cardinality(ok) \in Nat /\ (Cardinality(ok) = 0 <=> ok = {})
  BY <1>2, Places
<1>5. Cardinality(mine) = Cardinality(bad) + Cardinality(ok)
  <2>1. bad \cup ok = mine /\ bad \cap ok = {}
    OBVIOUS
  <2>2. Cardinality(bad \cup ok) = Cardinality(bad) + Cardinality(ok) - Cardinality(bad \cap ok)
    BY <1>4, FS_Union
  <2>3. Cardinality({}) = 0
    BY FS_EmptySet
  <2>4. Cardinality(mine) = Cardinality(bad) + Cardinality(ok) - 0
    BY <2>1, <2>2, <2>3
  <2> HIDE DEF mine, bad, ok
  <2> QED
    BY <1>4, <2>4
<1>6. ASSUME ok = {} PROVE b.p50 = 0 /\ b.p99 = 0
  <2>1. Cardinality(DOMAIN f) = 0
    BY <1>3, <1>6, FS_EmptySet
  <2>2. Len(Sorted(f)) = 0
    <3> HIDE DEF f
    <3> QED
      BY <1>3, <2>1, SortedRanks
  <2> HIDE DEF f
  <2> QED
    BY <1>1, <2>2 DEF percentile
<1>7. ASSUME ok # {} PROVE \E i \in ok : b.p99 = rs[i].total
  <2>1. IsNearestRank(f, 99, b.p99)
    <3> HIDE DEF f, ok
    <3> QED
      BY <1>1, <1>3, <1>7, PercentileIsNearestRank
  <2>2. PICK i \in DOMAIN f : f[i] = b.p99
    BY <2>1 DEF IsNearestRank
  <2> QED
    BY <1>3, <2>2 DEF Total
<1> HIDE DEF mine, ok, bad, f
<1>8. b.count > b.errorCount <=> ok # {}
  BY <1>1, <1>4, <1>5
<1> QED
  BY <1>1, <1>4, <1>6, <1>7, <1>8 DEF ok, mine

\* A row has a successful sample exactly when its p99 is not zero.
LEMMA SkewFromRun ==
    ASSUME \A s \in Setting : \A r \in s.reply : r.ok => r.total > 0
    PROVE  RecordedInv => SkewDefined
<1> SUFFICES ASSUME RecordedInv PROVE SkewDefined
  OBVIOUS
<1> DEFINE rs == results
           s == Summary
           R == s.backends
           n == Len(R)
           timed == {i \in 1..n : R[i].count > R[i].errorCount}
<1>1. IsRun(rs) /\ s = aggregate(rs, elapsed(rs)) /\ s.skew = computeBackendSkew(R)
  <2>1. IsRun(rs) /\ s = aggregate(rs, elapsed(rs))
    BY ResultsAreRun, SummaryIsAggregate
  <2>2. Summary.skew = computeBackendSkew(Summary.backends)
    BY SummaryIsAggregate DEF aggregate
  <2> QED
    BY <2>1, <2>2
<1>2. n \in Nat /\ \A i \in 1..n : \E key \in Keys(rs) : R[i] = backendRow(rs, key)
  <2> HIDE DEF s, rs
  <2> QED
    BY <1>1, BackendRows
<1>3. \A i \in Successes(rs) : rs[i].total \in Nat /\ rs[i].total > 0
  <2> SUFFICES ASSUME NEW i \in Successes(rs) PROVE rs[i].total \in Nat /\ rs[i].total > 0
    OBVIOUS
  <2>1. i \in 1..Len(rs) /\ ~ rs[i].err
    BY DEF Successes
  <2>2. rs[i] \in Results /\ setting \in Setting
    BY <2>1, ResultsAreRun DEF RecordedInv
  <2>3. PICK r \in setting.reply, t \in Nat : rs[i] = ResultOf(r, t)
    BY <2>2 DEF Results
  <2>4. rs[i].err = ~ r.ok /\ rs[i].total = r.total
    BY <2>3 DEF ResultOf
  <2>5. r.ok \in BOOLEAN /\ r.total \in Nat
    BY <2>2, SettingAssumption DEF Reply
  <2> QED
    BY <2>1, <2>2, <2>4, <2>5
<1>4. ASSUME NEW i \in 1..n
      PROVE  /\ R[i].count \in Nat \ {0} /\ R[i].p99 \in Nat
             /\ R[i].p99 # 0 <=> R[i].count > R[i].errorCount
  <2>1. PICK key \in Keys(rs) : R[i] = backendRow(rs, key)
    BY <1>2
  <2> DEFINE b == R[i]
             ok == Bucket(rs, key) \cap Successes(rs)
  <2> HIDE DEF b, rs
  <2>2. b = backendRow(rs, key)
    BY <2>1 DEF b
  <2>3. /\ b.count \in Nat \ {0} /\ b.errorCount \in Nat
        /\ b.count > b.errorCount <=> ok # {}
        /\ ok = {} => b.p99 = 0
        /\ ok # {} => \E j \in ok : b.p99 = rs[j].total
    BY <1>1, <2>2, RowFacts
  <2>4. ok # {} => b.p99 \in Nat \ {0}
    BY <1>3, <2>3
  <2> HIDE DEF ok
  <2> QED
    BY <2>3, <2>4 DEF b
<1> HIDE DEF rs, s, R, n
<1>5. IsFiniteSet(1..n)
  BY <1>2, FS_Interval
<1>6. /\ {i \in 1..n : R[i].p99 # 0} = timed
      /\ timed \in SUBSET (1..n) /\ IsFiniteSet(timed)
  <2>1. timed \in SUBSET (1..n)
    OBVIOUS
  <2>2. IsFiniteSet(timed)
    BY <1>5, <2>1, FS_Subset
  <2> QED
    BY <1>4, <2>1, <2>2
<1>11. /\ s.skew.count = IF n >= 2 THEN Ratio({R[i].count : i \in 1..n}) ELSE Zero
       /\ s.skew.p99 = IF Cardinality(timed) >= 2 THEN Ratio({R[i].p99 : i \in timed}) ELSE Zero
  <2> DEFINE nonzero == {i \in 1..Len(R) : R[i].p99 # 0}
  <2>1. /\ s.skew.count = IF Len(R) >= 2 THEN Ratio({R[i].count : i \in 1..Len(R)}) ELSE Zero
        /\ s.skew.p99 = IF Cardinality(nonzero) >= 2 THEN Ratio({R[i].p99 : i \in nonzero}) ELSE Zero
    BY <1>1 DEF computeBackendSkew
  <2>2. nonzero = timed
    BY <1>6 DEF n
  <2> HIDE DEF nonzero, timed
  <2> QED
    BY <2>1, <2>2 DEF n
<1>7. ASSUME n >= 2
      PROVE  s.skew.count # Zero /\ s.skew.count[2] > 0
  <2> DEFINE C == {R[i].count : i \in 1..n}
             f == [i \in 1..n |-> R[i].count]
  <2>1. s.skew.count = Ratio(C)
    BY <1>7, <1>11
  <2>2. C \in SUBSET Nat /\ C # {} /\ 0 \notin C
    BY <1>2, <1>4, <1>7
  <2>3. IsFiniteSet(C)
    <3>1. \A y \in C : \E x \in 1..n : f[x] = y
      OBVIOUS
    <3> HIDE DEF C, f
    <3> QED
      BY <1>5, <3>1, FiniteImage
  <2> HIDE DEF C
  <2>4. Max(C) \in Nat \ {0} /\ Min(C) \in Nat \ {0}
    BY <2>2, <2>3, Extremes
  <2> QED
    BY <2>1, <2>4 DEF Ratio, Zero
<1>8. ASSUME Cardinality(timed) >= 2
      PROVE  s.skew.p99 # Zero /\ s.skew.p99[2] > 0
  <2> DEFINE C == {R[i].p99 : i \in timed}
             f == [i \in timed |-> R[i].p99]
  <2>1. s.skew.p99 = Ratio(C)
    BY <1>8, <1>11
  <2>2. timed # {}
    BY <1>8, FS_EmptySet
  <2>3. C \in SUBSET Nat /\ C # {} /\ 0 \notin C
    BY <1>4, <1>6, <2>2
  <2>4. IsFiniteSet(C)
    <3>1. \A y \in C : \E x \in timed : f[x] = y
      OBVIOUS
    <3> HIDE DEF C, f, timed
    <3> QED
      BY <1>6, <3>1, FiniteImage
  <2> HIDE DEF C
  <2>5. Max(C) \in Nat \ {0} /\ Min(C) \in Nat \ {0}
    BY <2>3, <2>4, Extremes
  <2> QED
    BY <2>1, <2>5 DEF Ratio, Zero
<1>9. /\ ~ (n >= 2) => s.skew.count = Zero
      /\ ~ (Cardinality(timed) >= 2) => s.skew.p99 = Zero
  BY <1>11
<1> HIDE DEF timed
<1>10. /\ s.skew.count # Zero <=> n >= 2
       /\ s.skew.p99 # Zero <=> Cardinality(timed) >= 2
       /\ s.skew.count # Zero => s.skew.count[2] > 0
       /\ s.skew.p99 # Zero => s.skew.p99[2] > 0
  BY <1>7, <1>8, <1>9
<1> QED
  BY <1>10 DEF SkewDefined, timed, n, R, s

\* Provided that a call that succeeds takes time, as computeBackendSkew
\* supposes, its two ratios are of two rows and divide by more than zero.
THEOREM SkewOfTwoRows ==
    ASSUME \A s \in Setting : \A r \in s.reply : r.ok => r.total > 0
    PROVE  Spec => []SkewDefined
<1>1. RecordedInv => SkewDefined
  BY SkewFromRun
<1> QED
  BY <1>1, Recorded, PTL

-----------------------------------------------------------------------------
(* The summary of the same results in another order. *)

\* The places that h takes into T.
Pre(h, D, T) == {i \in D : h[i] \in T}

\* A bijection keeps the size of a set.
LEMMA PreBijection ==
    ASSUME NEW D, NEW E, NEW h \in Bijection(D, E), NEW T \in SUBSET E
    PROVE  [i \in Pre(h, D, T) |-> h[i]] \in Bijection(Pre(h, D, T), T)
<1> DEFINE A == Pre(h, D, T)
           b == [i \in A |-> h[i]]
<1>0. A \in SUBSET D /\ \A i \in A : h[i] \in T
  BY DEF Pre
<1>1. b \in [A -> T]
  BY <1>0
<1>2. \A i, j \in A : b[i] = b[j] => i = j
  BY <1>0 DEF Bijection, Injection, IsInjective
<1>3. \A t \in T : \E i \in A : b[i] = t
  <2> TAKE t \in T
  <2>1. PICK i \in D : h[i] = t
    BY DEF Bijection, Surjection
  <2> QED
    BY <2>1 DEF Pre
<1> HIDE DEF b, A
<1>4. b \in Bijection(A, T)
  BY <1>1, <1>2, <1>3 DEF Bijection, Injection, IsInjective, Surjection
<1> QED
  BY <1>4 DEF A, b

\* So what h takes into T has the size of T.
LEMMA PreSize ==
    ASSUME NEW D, IsFiniteSet(D), NEW E, NEW h, h \in Bijection(D, E), NEW T, T \in SUBSET E
    PROVE  Cardinality(Pre(h, D, T)) = Cardinality(T)
<1> DEFINE A == Pre(h, D, T)
           b == [i \in A |-> h[i]]
<1>1. b \in Bijection(A, T)
  BY PreBijection
<1>2. A \in SUBSET D
  BY DEF Pre
<1> HIDE DEF b, A
<1>3. ExistsBijection(A, T) /\ IsFiniteSet(A)
  BY <1>1, <1>2, FS_Subset DEF ExistsBijection
<1>4. Cardinality(A) = Cardinality(T)
  BY <1>3, FS_Bijection
<1> QED
  BY <1>4 DEF A

\* Samples with the same values are the same when sorted.
LEMMA SortedSame ==
    ASSUME NEW f, IsSample(f), NEW g, IsSample(g),
           NEW h \in Bijection(DOMAIN g, DOMAIN f), \A i \in DOMAIN g : g[i] = f[h[i]]
    PROVE  Sorted(g) = Sorted(f)
<1> DEFINE n == Cardinality(DOMAIN f)
<1>1. IsFiniteSet(DOMAIN g) /\ IsFiniteSet(DOMAIN f)
  BY DEF IsSample
<1>2. Cardinality(DOMAIN g) = n
  <2>1. ExistsBijection(DOMAIN g, DOMAIN f)
    BY DEF ExistsBijection
  <2> QED
    BY <1>1, <2>1, FS_Bijection
<1>3. \A u \in Int : Cardinality(UpTo(g, u)) = Cardinality(UpTo(f, u))
  <2> TAKE u \in Int
  <2>1. UpTo(f, u) \in SUBSET DOMAIN f
    BY DEF UpTo
  <2>2. UpTo(g, u) = Pre(h, DOMAIN g, UpTo(f, u))
    <3>1. \A i \in DOMAIN g : h[i] \in DOMAIN f
      BY DEF Bijection, Injection
    <3> QED
      BY <3>1 DEF UpTo, Pre
  <2> DEFINE D == DOMAIN g
             E == DOMAIN f
             T == UpTo(f, u)
  <2>3. IsFiniteSet(D) /\ h \in Bijection(D, E) /\ T \in SUBSET E
    BY <1>1, <2>1
  <2> HIDE DEF D, E, T
  <2>4. Cardinality(Pre(h, D, T)) = Cardinality(T)
    BY <2>3, PreSize
  <2> QED
    BY <2>2, <2>4 DEF D, T
<1>4. n \in Nat /\ DOMAIN Sorted(f) = 1..n /\ DOMAIN Sorted(g) = 1..n
      /\ \A k \in 1..n : AtRank(f, k, Sorted(f)[k]) /\ AtRank(g, k, Sorted(g)[k])
  BY <1>2, SortedRanks
<1>5. \A k \in 1..n : Sorted(g)[k] = Sorted(f)[k]
  <2> SUFFICES ASSUME NEW k \in 1..n PROVE Sorted(g)[k] = Sorted(f)[k]
    OBVIOUS
  <2> DEFINE v == Sorted(f)[k]
             w == Sorted(g)[k]
  <2>0. AtRank(f, k, v) /\ AtRank(g, k, w)
    BY <1>4
  <2> HIDE DEF n, v, w
  <2>1. v \in Int /\ w \in Int /\ v <= w
    BY <1>3, <2>0, RankOrder
  <2>2. w <= v
    BY <1>3, <2>0, RankOrder
  <2>3. v = w
    BY <2>1, <2>2
  <2> QED
    BY <2>3 DEF v, w
<1>6. /\ Sorted(f) = [k \in DOMAIN Sorted(f) |-> Sorted(f)[k]]
      /\ Sorted(g) = [k \in DOMAIN Sorted(g) |-> Sorted(g)[k]]
  BY DEF Sorted
<1> HIDE DEF n
<1> QED
  BY <1>4, <1>5, <1>6

\* The places of the results.
At(rs) == 1..Len(rs)

\* The results qs are the results rs in the order h, as far as the summary
\* looks at them: it does not time a failure.
Alike(qs, rs, h) ==
    /\ Len(qs) = Len(rs)
    /\ h \in Bijection(At(qs), At(rs))
    /\ \A i \in At(qs) :
          /\ qs[i].err = rs[h[i]].err /\ qs[i].code = rs[h[i]].code
          /\ qs[i].msg = rs[h[i]].msg
          /\ backendKey(qs[i]) = backendKey(rs[h[i]])
          /\ ~ rs[h[i]].err => /\ qs[i].total = rs[h[i]].total
                               /\ qs[i].srv = rs[h[i]].srv /\ qs[i].up = rs[h[i]].up

\* h takes every place of qs to one of rs, and reaches all.
LEMMA AlikePlaces ==
    ASSUME NEW rs, NEW qs, NEW h, Alike(qs, rs, h)
    PROVE  /\ \A i \in At(qs) : h[i] \in At(rs)
           /\ \A j \in At(rs) : \E i \in At(qs) : h[i] = j
BY DEF Alike, Bijection, Injection, Surjection

\* The successes correspond, and so do the failures,
LEMMA AlikeSuccesses ==
    ASSUME NEW rs, NEW qs, NEW h, Alike(qs, rs, h)
    PROVE  /\ Successes(qs) = Pre(h, At(qs), Successes(rs))
           /\ At(qs) \ Successes(qs) = Pre(h, At(qs), At(rs) \ Successes(rs))
<1> DEFINE D == At(qs)
<1>1. \A i \in D : h[i] \in At(rs)
  BY AlikePlaces
<1>2. Successes(qs) = Pre(h, D, Successes(rs))
  BY <1>1 DEF Successes, Pre, Alike, At
<1>3. D \ Successes(qs) = Pre(h, D, At(rs) \ Successes(rs))
  BY <1>1, <1>2 DEF Pre
<1> QED
  BY <1>2, <1>3

\* the buckets of a key,
LEMMA AlikeBucket ==
    ASSUME NEW rs, NEW qs, NEW h, Alike(qs, rs, h), NEW key
    PROVE  Bucket(qs, key) = Pre(h, At(qs), Bucket(rs, key))
<1>1. \A i \in At(qs) : h[i] \in At(rs)
  BY AlikePlaces
<1> QED
  BY <1>1 DEF Bucket, Pre, Alike, At

\* the failures with a code,
LEMMA AlikeCode ==
    ASSUME NEW rs, NEW qs, NEW h, Alike(qs, rs, h), NEW c
    PROVE  OfCode(qs, c) = Pre(h, At(qs), OfCode(rs, c))
<1>1. \A i \in At(qs) : h[i] \in At(rs)
  BY AlikePlaces
<1> QED
  BY <1>1 DEF OfCode, Pre, Alike, At

\* and those with a message.
LEMMA AlikeMessage ==
    ASSUME NEW rs, NEW qs, NEW h, Alike(qs, rs, h), NEW c, NEW m
    PROVE  OfMessage(qs, c, m) = Pre(h, At(qs), OfMessage(rs, c, m))
<1>1. OfCode(qs, c) = Pre(h, At(qs), OfCode(rs, c))
  BY AlikeCode
<1>2. \A i \in At(qs) : qs[i].msg = rs[h[i]].msg
  BY DEF Alike
<1> QED
  BY <1>1, <1>2 DEF OfMessage, Pre

\* The places of the results, and the sets of them.
LEMMA AtFacts ==
    ASSUME NEW rs, IsRun(rs)
    PROVE  /\ IsFiniteSet(At(rs))
           /\ Successes(rs) \in SUBSET At(rs)
           /\ \A key : Bucket(rs, key) \in SUBSET At(rs)
           /\ \A c : OfCode(rs, c) \in SUBSET At(rs)
           /\ \A c, m : OfMessage(rs, c, m) \in SUBSET At(rs)
BY Places DEF At

\* Samples of corresponding places are the same when sorted.
LEMMA AlikeSample ==
    ASSUME NEW rs, IsRun(rs), NEW qs, IsRun(qs), NEW h, Alike(qs, rs, h),
           NEW f, IsSample(f), NEW g, IsSample(g), DOMAIN f \in SUBSET At(rs),
           DOMAIN g = Pre(h, At(qs), DOMAIN f), \A i \in DOMAIN g : g[i] = f[h[i]]
    PROVE  Sorted(g) = Sorted(f)
<1> DEFINE D == At(qs)
           E == At(rs)
           I == DOMAIN f
           b == [i \in Pre(h, D, I) |-> h[i]]
<1>1. IsFiniteSet(D) /\ h \in Bijection(D, E) /\ I \in SUBSET E
  BY AtFacts DEF Alike
<1>2. b \in Bijection(Pre(h, D, I), I)
  <2> HIDE DEF D, E, I
  <2> QED
    BY <1>1, PreBijection
<1>3. b \in Bijection(DOMAIN g, DOMAIN f) /\ \A i \in DOMAIN g : g[i] = f[b[i]]
  BY <1>2
<1> HIDE DEF b
<1> QED
  BY <1>3, SortedSame

\* So the four samples of corresponding successes are the same when sorted.
LEMMA AlikeSamples ==
    ASSUME NEW rs, IsRun(rs), NEW qs, IsRun(qs), NEW h, Alike(qs, rs, h),
           NEW I \in SUBSET Successes(rs), NEW J, J = Pre(h, At(qs), I)
    PROVE  /\ Sorted(Total(qs, J)) = Sorted(Total(rs, I))
           /\ Sorted(Server(qs, J)) = Sorted(Server(rs, I))
           /\ Sorted(Network(qs, J)) = Sorted(Network(rs, I))
           /\ Sorted(Upstream(qs, J)) = Sorted(Upstream(rs, I))
<1>1. I \in SUBSET At(rs) /\ J \in SUBSET At(qs)
  BY AtFacts DEF Pre
<1>2. \A i \in J : /\ i \in At(qs) /\ h[i] \in I /\ ~ rs[h[i]].err
                   /\ qs[i].total = rs[h[i]].total
                   /\ qs[i].srv = rs[h[i]].srv /\ qs[i].up = rs[h[i]].up
  BY <1>1 DEF Pre, Successes, Alike, At
<1>3. /\ IsSample(Total(rs, I)) /\ IsSample(Server(rs, I))
      /\ IsSample(Network(rs, I)) /\ IsSample(Upstream(rs, I))
      /\ IsSample(Total(qs, J)) /\ IsSample(Server(qs, J))
      /\ IsSample(Network(qs, J)) /\ IsSample(Upstream(qs, J))
  <2>1. /\ IsSample(Total(rs, I)) /\ IsSample(Server(rs, I))
        /\ IsSample(Network(rs, I)) /\ IsSample(Upstream(rs, I))
    BY <1>1, Samples DEF At
  <2>2. /\ IsSample(Total(qs, J)) /\ IsSample(Server(qs, J))
        /\ IsSample(Network(qs, J)) /\ IsSample(Upstream(qs, J))
    BY <1>1, Samples DEF At
  <2> QED
    BY <2>1, <2>2
<1>4. Sorted(Total(qs, J)) = Sorted(Total(rs, I))
  <2> DEFINE f == Total(rs, I)
             g == Total(qs, J)
  <2>1. /\ DOMAIN f \in SUBSET At(rs) /\ DOMAIN g = Pre(h, At(qs), DOMAIN f)
        /\ \A i \in DOMAIN g : g[i] = f[h[i]]
    BY <1>1, <1>2 DEF Total
  <2>2. IsSample(f) /\ IsSample(g)
    BY <1>3
  <2> HIDE DEF f, g
  <2>3. Sorted(g) = Sorted(f)
    BY <2>1, <2>2, AlikeSample
  <2> QED
    BY <2>3 DEF f, g
<1>5. Sorted(Server(qs, J)) = Sorted(Server(rs, I))
  <2> DEFINE f == Server(rs, I)
             g == Server(qs, J)
  <2>1. /\ DOMAIN f \in SUBSET At(rs) /\ DOMAIN g = Pre(h, At(qs), DOMAIN f)
        /\ \A i \in DOMAIN g : g[i] = f[h[i]]
    BY <1>1, <1>2 DEF Server
  <2>2. IsSample(f) /\ IsSample(g)
    BY <1>3
  <2> HIDE DEF f, g
  <2>3. Sorted(g) = Sorted(f)
    BY <2>1, <2>2, AlikeSample
  <2> QED
    BY <2>3 DEF f, g
<1>6. Sorted(Network(qs, J)) = Sorted(Network(rs, I))
  <2> DEFINE f == Network(rs, I)
             g == Network(qs, J)
  <2>1. /\ DOMAIN f \in SUBSET At(rs) /\ DOMAIN g = Pre(h, At(qs), DOMAIN f)
        /\ \A i \in DOMAIN g : g[i] = f[h[i]]
    BY <1>1, <1>2 DEF Network
  <2>2. IsSample(f) /\ IsSample(g)
    BY <1>3
  <2> HIDE DEF f, g
  <2>3. Sorted(g) = Sorted(f)
    BY <2>1, <2>2, AlikeSample
  <2> QED
    BY <2>3 DEF f, g
<1>7. Sorted(Upstream(qs, J)) = Sorted(Upstream(rs, I))
  <2> DEFINE f == Upstream(rs, I)
             g == Upstream(qs, J)
  <2>1. /\ DOMAIN f \in SUBSET At(rs) /\ DOMAIN g = Pre(h, At(qs), DOMAIN f)
        /\ \A i \in DOMAIN g : g[i] = f[h[i]]
    BY <1>1, <1>2 DEF Upstream, Pre
  <2>2. IsSample(f) /\ IsSample(g)
    BY <1>3
  <2> HIDE DEF f, g
  <2>3. Sorted(g) = Sorted(f)
    BY <2>1, <2>2, AlikeSample
  <2> QED
    BY <2>3 DEF f, g
<1> QED
  BY <1>4, <1>5, <1>6, <1>7

\* Corresponding sets of places have the same size.
LEMMA AlikeSizes ==
    ASSUME NEW rs, IsRun(rs), NEW qs, NEW h, Alike(qs, rs, h), NEW T \in SUBSET At(rs)
    PROVE  Cardinality(Pre(h, At(qs), T)) = Cardinality(T)
<1> DEFINE D == At(qs)
           E == At(rs)
<1>1. IsFiniteSet(D) /\ h \in Bijection(D, E)
  <2>1. Len(qs) = Len(rs) /\ h \in Bijection(D, E)
    BY DEF Alike
  <2> QED
    BY <2>1, AtFacts DEF At
<1> HIDE DEF D, E
<1>2. Cardinality(Pre(h, D, T)) = Cardinality(T)
  BY <1>1, PreSize DEF E
<1> QED
  BY <1>2 DEF D

\* The row of a key is the same; its source too, as the key determines it.
LEMMA AlikeRow ==
    ASSUME NEW rs, IsRun(rs), NEW qs, IsRun(qs), NEW h, Alike(qs, rs, h), NEW key \in Keys(rs)
    PROVE  backendRow(qs, key) = backendRow(rs, key)
<1> DEFINE D == At(qs)
           M == Bucket(rs, key)
           W == Bucket(qs, key)
           O == M \cap Successes(rs)
           P == W \cap Successes(qs)
<1>1. /\ W = Pre(h, D, M) /\ M \in SUBSET At(rs) /\ W \in SUBSET D
      /\ P = Pre(h, D, O)
      /\ W \ Successes(qs) = Pre(h, D, M \ Successes(rs))
      /\ M # {} /\ W # {}
  <2>1. W = Pre(h, D, M) /\ Successes(qs) = Pre(h, D, Successes(rs))
    <3>1. W = Pre(h, D, M)
      BY AlikeBucket
    <3>2. Successes(qs) = Pre(h, D, Successes(rs))
      BY AlikeSuccesses
    <3> QED
      BY <3>1, <3>2
  <2>2. M \in SUBSET At(rs) /\ M # {}
    BY DEF Bucket, Keys, At
  <2>3. W # {}
    BY <2>1, <2>2, AlikePlaces DEF Pre
  <2> QED
    BY <2>1, <2>2, <2>3 DEF Pre
<1>2. /\ Cardinality(W) = Cardinality(M)
      /\ Cardinality(W \ Successes(qs)) = Cardinality(M \ Successes(rs))
  <2> DEFINE F == M \ Successes(rs)
  <2>1. M \in SUBSET At(rs) /\ F \in SUBSET At(rs)
    BY <1>1
  <2> HIDE DEF M, F
  <2>2. Cardinality(Pre(h, D, M)) = Cardinality(M)
    BY <2>1, AlikeSizes
  <2>3. Cardinality(Pre(h, D, F)) = Cardinality(F)
    BY <2>1, AlikeSizes
  <2> QED
    BY <1>1, <2>2, <2>3 DEF F
<1>3. rowSample(qs, W) = rowSample(rs, M)
  <2>1. O \in SUBSET Successes(rs)
    OBVIOUS
  <2>2. Sorted(Total(qs, P)) = Sorted(Total(rs, O))
    <3> HIDE DEF O, P
    <3> QED
      BY <1>1, <2>1, AlikeSamples
  <2> QED
    BY <2>2 DEF rowSample
<1>4. backendKey(qs[Min(W)])[2] = backendKey(rs[Min(M)])[2]
  <2>1. Min(M) \in M /\ Min(W) \in W
    <3>1. M \in SUBSET Nat /\ W \in SUBSET Nat /\ IsFiniteSet(M) /\ IsFiniteSet(W)
      <4>1. Len(rs) \in Nat /\ Len(qs) \in Nat
        BY DEF IsRun
      <4>2. IsFiniteSet(M) /\ IsFiniteSet(W)
        BY <1>1, Places DEF At
      <4> HIDE DEF M, W
      <4> QED
        BY <1>1, <4>1, <4>2 DEF At
    <3> HIDE DEF M, W
    <3> QED
      BY <1>1, <3>1, Extremes
  <2>2. h[Min(W)] \in M /\ Min(W) \in D
    BY <1>1, <2>1 DEF Pre
  <2>3. backendKey(qs[Min(W)]) = backendKey(rs[h[Min(W)]])
    BY <2>2 DEF Alike
  <2>4. /\ backendKey(rs[h[Min(W)]])[1] = key /\ h[Min(W)] \in At(rs)
        /\ backendKey(rs[Min(M)])[1] = key /\ Min(M) \in At(rs)
    BY <2>1, <2>2 DEF Bucket, At
  <2> QED
    BY <2>3, <2>4, KeyAndSource DEF At
<1>5. Len(qs) = Len(rs)
  BY DEF Alike
<1> HIDE DEF M, W
<1> QED
  BY <1>2, <1>3, <1>4, <1>5 DEF backendRow, M, W

\* The summary is the same for the same span.
LEMMA AlikeSummary ==
    ASSUME NEW rs, IsRun(rs), NEW qs, IsRun(qs), NEW h, Alike(qs, rs, h), NEW span
    PROVE  aggregate(qs, span) = aggregate(rs, span)
<1> DEFINE D == At(qs)
           E == At(rs)
           ok == Successes(rs)
           ko == Successes(qs)
<1>0. Len(qs) = Len(rs)
  BY DEF Alike
<1>1. /\ \A i \in D : h[i] \in E
      /\ \A j \in E : \E i \in D : h[i] = j
      /\ ko = Pre(h, D, ok) /\ D \ ko = Pre(h, D, E \ ok)
      /\ \A c : OfCode(qs, c) = Pre(h, D, OfCode(rs, c))
      /\ \A c, m : OfMessage(qs, c, m) = Pre(h, D, OfMessage(rs, c, m))
  <2>1. \A i \in D : h[i] \in E
    BY AlikePlaces
  <2>2. \A j \in E : \E i \in D : h[i] = j
    BY AlikePlaces
  <2>3. ko = Pre(h, D, ok) /\ D \ ko = Pre(h, D, E \ ok)
    BY AlikeSuccesses
  <2>4. \A c : OfCode(qs, c) = Pre(h, D, OfCode(rs, c))
    BY AlikeCode
  <2>5. \A c, m : OfMessage(qs, c, m) = Pre(h, D, OfMessage(rs, c, m))
    BY AlikeMessage
  <2> QED
    BY <2>1, <2>2, <2>3, <2>4, <2>5
<1>2. Keys(qs) = Keys(rs)
  <2>1. \A i \in D : backendKey(qs[i]) = backendKey(rs[h[i]])
    BY DEF Alike
  <2>2. Keys(qs) = {backendKey(qs[i])[1] : i \in D} /\ Keys(rs) = {backendKey(rs[j])[1] : j \in E}
    BY DEF Keys, At
  <2> HIDE DEF D, E
  <2>3. Keys(qs) \subseteq Keys(rs)
    BY <1>1, <2>1, <2>2
  <2>4. Keys(rs) \subseteq Keys(qs)
    BY <1>1, <2>1, <2>2
  <2> QED
    BY <2>3, <2>4
<1>3. Rows(qs) = Rows(rs)
  BY <1>2, AlikeRow DEF Rows
<1>4. Codes(qs) = Codes(rs)
  <2>1. \A i \in D : qs[i].code = rs[h[i]].code
    BY DEF Alike
  <2>2. \A i \in D \ ko : h[i] \in E \ ok
    BY <1>1 DEF Pre
  <2>3. \A j \in E \ ok : \E i \in D \ ko : h[i] = j
    <3> TAKE j \in E \ ok
    <3>1. PICK i \in D : h[i] = j
      BY <1>1
    <3> QED
      BY <1>1, <3>1 DEF Pre
  <2> HIDE DEF ok, ko
  <2> QED
    BY <2>1, <2>2, <2>3 DEF Codes, ok, ko, At
<1>5. \A c : Texts(qs, c) = Texts(rs, c)
  <2> TAKE c
  <2>1. \A i \in D : qs[i].msg = rs[h[i]].msg
    BY DEF Alike
  <2>2. OfCode(rs, c) \in SUBSET E /\ OfCode(qs, c) \in SUBSET D
    BY DEF OfCode, At
  <2> HIDE DEF D, E
  <2> QED
    BY <1>1, <2>1, <2>2 DEF Texts, Pre
<1>6. \A c, m : Cardinality(OfMessage(qs, c, m)) = Cardinality(OfMessage(rs, c, m))
  BY <1>1, AtFacts, AlikeSizes
<1>7. \A c : Cardinality(OfCode(qs, c)) = Cardinality(OfCode(rs, c))
  BY <1>1, AtFacts, AlikeSizes
<1>8. \A c : Messages(qs, c) = Messages(rs, c)
  BY <1>5, <1>6 DEF Messages, Texts
<1>9. \A c : CodeRow(qs, c) = CodeRow(rs, c)
  BY <1>7, <1>8 DEF CodeRow, topMessages
<1>10. CodeRows(qs) = CodeRows(rs)
  BY <1>4, <1>9 DEF CodeRows
<1>11. /\ computeBackends(qs) = computeBackends(rs)
       /\ computeStatusCodes(qs) = computeStatusCodes(rs)
  BY <1>3, <1>10 DEF computeBackends, computeStatusCodes, Rows, CodeRows, CodeRow, Codes
<1>12. /\ Sorted(Total(qs, ko)) = Sorted(Total(rs, ok))
       /\ Sorted(Server(qs, ko)) = Sorted(Server(rs, ok))
       /\ Sorted(Network(qs, ko)) = Sorted(Network(rs, ok))
       /\ Sorted(Upstream(qs, ko)) = Sorted(Upstream(rs, ok))
  <2>1. ok \in SUBSET ok
    OBVIOUS
  <2> HIDE DEF ok, ko
  <2> QED
    BY <1>1, <2>1, AlikeSamples DEF ok
<1>13. Cardinality(D \ ko) = Cardinality(E \ ok)
  <2> DEFINE F == E \ ok
  <2>1. F \in SUBSET E
    OBVIOUS
  <2> HIDE DEF F
  <2>2. Cardinality(Pre(h, D, F)) = Cardinality(F)
    BY <2>1, AlikeSizes
  <2> QED
    BY <1>1, <2>2 DEF F
<1> QED
  BY <1>0, <1>11, <1>12, <1>13 DEF aggregate, At

\* The span of a run is that of its calls in any order.
LEMMA AlikeSpan ==
    ASSUME NEW rs, NEW qs, rs = << >> <=> qs = << >>, NEW h, Alike(qs, rs, h),
           \A i \in At(qs) : qs[i].start = rs[h[i]].start /\ qs[i].end = rs[h[i]].end
    PROVE  elapsed(qs) = elapsed(rs)
<1> DEFINE D == At(qs)
           E == At(rs)
<1>2. (\A i \in D : h[i] \in E) /\ (\A j \in E : \E i \in D : h[i] = j)
  BY AlikePlaces
<1>3. {qs[i].end : i \in D} = {rs[j].end : j \in E}
  <2> HIDE DEF D
  <2>1. {qs[i].end : i \in D} \subseteq {rs[j].end : j \in E}
    BY <1>2 DEF D
  <2>2. {rs[j].end : j \in E} \subseteq {qs[i].end : i \in D}
    BY <1>2 DEF D
  <2> QED
    BY <2>1, <2>2
<1>4. {qs[i].start : i \in D} = {rs[j].start : j \in E}
  <2> HIDE DEF D
  <2>1. {qs[i].start : i \in D} \subseteq {rs[j].start : j \in E}
    BY <1>2 DEF D
  <2>2. {rs[j].start : j \in E} \subseteq {qs[i].start : i \in D}
    BY <1>2 DEF D
  <2> QED
    BY <2>1, <2>2
<1> QED
  BY <1>3, <1>4 DEF elapsed, At

\* Reversing is a bijection of the places.
LEMMA ReverseAlike ==
    ASSUME NEW X, NEW rs \in Seq(X), NEW qs, qs = Reverse(rs),
           NEW h, h = [i \in At(qs) |-> (Len(rs) - i) + 1]
    PROVE  /\ qs \in Seq(X) /\ Len(qs) = Len(rs)
           /\ \A i \in At(qs) : h[i] \in At(rs) /\ qs[i] = rs[h[i]]
           /\ h \in Bijection(At(qs), At(rs))
<1> DEFINE n == Len(rs)
<1>1. n \in Nat /\ \A i \in 1..n : rs[i] \in X
  BY LenProperties, ElementOfSeq
<1>2. qs = [i \in 1..n |-> rs[(n - i) + 1]]
  BY DEF Reverse
<1> HIDE DEF n
<1>3. \A i \in 1..n : (n - i) + 1 \in 1..n
  BY <1>1
<1>4. qs \in Seq(X) /\ Len(qs) = n
  BY <1>1, <1>2, <1>3
<1>5. At(qs) = 1..n /\ At(rs) = 1..n
  BY <1>4 DEF At, n
<1>6. h = [i \in 1..n |-> (n - i) + 1]
  BY <1>5 DEF n
<1>7. h \in [1..n -> 1..n]
  BY <1>3, <1>6
<1>8. \A i, j \in 1..n : h[i] = h[j] => i = j
  BY <1>1, <1>6
<1>9. \A j \in 1..n : \E i \in 1..n : h[i] = j
  <2> TAKE j \in 1..n
  <2> DEFINE i == (n - j) + 1
  <2>1. i \in 1..n /\ (n - i) + 1 = j
    BY <1>1, <1>3
  <2> HIDE DEF i
  <2> QED
    BY <1>6, <2>1
<1>10. h \in Bijection(At(qs), At(rs))
  <2> DEFINE A == 1..n
  <2>1. /\ h \in [A -> A] /\ At(qs) = A /\ At(rs) = A
        /\ \A i, j \in A : h[i] = h[j] => i = j
        /\ \A j \in A : \E i \in A : h[i] = j
    BY <1>5, <1>7, <1>8, <1>9
  <2> HIDE DEF A
  <2> QED
    BY <2>1 DEF Bijection, Injection, IsInjective, Surjection
<1>11. ASSUME NEW i \in 1..n PROVE h[i] \in 1..n /\ qs[i] = rs[h[i]]
  <2>1. h[i] = (n - i) + 1 /\ qs[i] = rs[(n - i) + 1]
    BY <1>2, <1>6
  <2> QED
    BY <1>3, <2>1
<1> QED
  BY <1>4, <1>5, <1>10, <1>11 DEF n

\* Results taken from a run are a run.
LEMMA SameResults ==
    ASSUME NEW rs, IsRun(rs), NEW qs, Len(qs) = Len(rs),
           \A i \in 1..Len(qs) : \E j \in 1..Len(rs) : qs[i] = rs[j]
    PROVE  IsRun(qs)
<1>1. ASSUME NEW i \in 1..Len(qs)
      PROVE  /\ qs[i].err \in BOOLEAN
             /\ qs[i].code \in Nat /\ Truncated[qs[i].msg] \in Nat
             /\ qs[i].start \in Nat /\ qs[i].end \in Nat
             /\ qs[i].total \in Nat /\ qs[i].srv \in Nat /\ qs[i].up \in Int
             /\ qs[i].pod \in Nat /\ (qs[i].pod # 0 => qs[i].pod % 4 = 3)
             /\ qs[i].host \in Nat /\ (qs[i].host # 0 => qs[i].host % 4 = 2)
             /\ qs[i].peer \in Nat /\ (qs[i].peer # 0 => qs[i].peer % 4 = 1)
  <2>1. PICK j \in 1..Len(rs) : qs[i] = rs[j]
    OBVIOUS
  <2> QED
    BY <2>1 DEF IsRun
<1>2. Len(qs) \in Nat
  BY DEF IsRun
<1> QED
  BY <1>1, <1>2 DEF IsRun

\* The results in another order are alike, and span the same time.
LEMMA SameSummary ==
    ASSUME RecordedInv, NEW rs, rs = results, NEW qs \in Seq(Results),
           Len(qs) = Len(rs), NEW h \in Bijection(At(qs), At(rs)),
           \A i \in At(qs) : h[i] \in At(rs) /\ qs[i] = rs[h[i]]
    PROVE  SummaryOf(qs) = Summary
<1>1. rs \in Seq(Results) /\ IsRun(rs)
  BY ResultsTyped, ResultsAreRun
<1>2. Alike(qs, rs, h)
  BY DEF Alike
<1>3. IsRun(qs)
  <2>1. \A i \in 1..Len(qs) : h[i] \in 1..Len(rs) /\ qs[i] = rs[h[i]]
    BY DEF At
  <2>2. ASSUME NEW i \in 1..Len(qs)
        PROVE  \E j \in 1..Len(rs) : qs[i] = rs[j]
    BY <2>1
  <2> QED
    BY <1>1, <2>2, SameResults
<1>4. elapsed(qs) = elapsed(rs)
  <2>1. rs = << >> <=> qs = << >>
    BY <1>1, EmptySeq
  <2> QED
    BY <1>2, <2>1, AlikeSpan
<1>5. aggregate(qs, elapsed(rs)) = aggregate(rs, elapsed(rs))
  BY <1>1, <1>2, <1>3, AlikeSummary
<1> QED
  BY <1>4, <1>5 DEF Summary, SummaryOf

\* Reversing the results is one way to reorder them.
LEMMA OrderFromRun == RecordedInv => OrderFree
<1> SUFFICES ASSUME RecordedInv PROVE OrderFree
  OBVIOUS
<1> DEFINE rs == results
           qs == Reverse(rs)
           h == [i \in At(qs) |-> (Len(rs) - i) + 1]
<1>1. rs \in Seq(Results)
  BY ResultsTyped
<1>2. rs = results /\ qs = Reverse(rs) /\ h = [i \in At(qs) |-> (Len(rs) - i) + 1]
  OBVIOUS
<1> HIDE DEF rs, qs, h
<1>3. /\ qs \in Seq(Results) /\ Len(qs) = Len(rs)
      /\ \A i \in At(qs) : h[i] \in At(rs) /\ qs[i] = rs[h[i]]
      /\ h \in Bijection(At(qs), At(rs))
  BY <1>1, <1>2, ReverseAlike
<1>4. SummaryOf(qs) = Summary
  BY <1>2, <1>3, SameSummary
<1> QED
  BY <1>2, <1>4 DEF OrderFree

\* The summary is the same for the results in every order.
AnyOrder ==
    \A h \in Bijection(At(results), At(results)) :
        SummaryOf([i \in At(results) |-> results[h[i]]]) = Summary

\* So is every other.
LEMMA AnyOrderFromRun == RecordedInv => AnyOrder
<1> SUFFICES ASSUME RecordedInv, NEW h \in Bijection(At(results), At(results))
             PROVE  SummaryOf([i \in At(results) |-> results[h[i]]]) = Summary
  BY DEF AnyOrder
<1> DEFINE rs == results
           n == Len(rs)
           qs == [i \in At(rs) |-> rs[h[i]]]
<1>1. rs \in Seq(Results) /\ n \in Nat /\ At(rs) = 1..n
  BY ResultsTyped, LenProperties DEF At
<1>2. \A j \in 1..n : rs[j] \in Results
  BY <1>1, ElementOfSeq
<1>3. \A i \in 1..n : h[i] \in 1..n
  BY <1>1 DEF Bijection, Injection
<1>4. rs = results /\ qs = [i \in 1..n |-> rs[h[i]]]
  BY <1>1
<1> HIDE DEF n, qs
<1>5. qs \in Seq(Results) /\ Len(qs) = n
  BY <1>1, <1>2, <1>3, <1>4
<1>6. At(qs) = At(rs)
  BY <1>1, <1>5 DEF At
<1>7. \A i \in At(qs) : h[i] \in At(rs) /\ qs[i] = rs[h[i]]
  BY <1>1, <1>3, <1>4, <1>6
<1>8. SummaryOf(qs) = Summary
  BY <1>4, <1>5, <1>6, <1>7, SameSummary DEF n
<1> QED
  BY <1>8 DEF qs

\* The summary does not depend on the order of the results that Config.run
\* concatenates: aggregate, for any results in any number and in any order, of
\* which the reverse is the one that the run checks.
THEOREM SummaryOfAnyOrder == Spec => [](AnyOrder /\ OrderFree)
BY Recorded, AnyOrderFromRun, OrderFromRun, PTL

-----------------------------------------------------------------------------

\* Longer failures leave the results alike.
LEMMA StretchedAlike ==
    ASSUME RecordedInv, NEW rs, rs = results, NEW qs, qs = Stretched(rs),
           NEW h, h = [i \in At(rs) |-> i]
    PROVE  Alike(qs, rs, h) /\ IsRun(qs) /\ IsRun(rs)
<1> DEFINE n == Len(rs)
<1>1. /\ n \in Nat /\ IsRun(rs) /\ rs \in Seq(Results) /\ setting \in Setting
      /\ \A i \in 1..n : rs[i] \in Results
  BY ResultsTyped, ResultsAreRun DEF IsRun, RecordedInv
<1>2. qs = [i \in 1..n |-> IF rs[i].err THEN [rs[i] EXCEPT !.total = @ + 1, !.end = @ + 1] ELSE rs[i]]
  BY DEF Stretched
<1>3. At(rs) = 1..n
  BY DEF At
<1> HIDE DEF n
<1>4. Len(qs) = n /\ At(qs) = 1..n
  <2>1. PICK g : qs = [i \in 1..n |-> g[i]]
    <3> DEFINE g == [i \in 1..n |->
                      IF rs[i].err THEN [rs[i] EXCEPT !.total = @ + 1, !.end = @ + 1] ELSE rs[i]]
    <3>1. qs = [i \in 1..n |-> g[i]]
      BY <1>2, Zenon
    <3> HIDE DEF g
    <3> QED
      BY <3>1
  <2> QED
    BY <1>1, <2>1 DEF At
<1>5. h \in Bijection(1..n, 1..n) /\ \A i \in 1..n : h[i] = i
  BY <1>3 DEF Bijection, Injection, IsInjective, Surjection
<1>6. ASSUME NEW i \in 1..n
      PROVE  /\ qs[i].err = rs[i].err /\ qs[i].code = rs[i].code /\ qs[i].msg = rs[i].msg
             /\ qs[i].start = rs[i].start /\ qs[i].end \in Nat
             /\ qs[i].srv = rs[i].srv /\ qs[i].up = rs[i].up
             /\ qs[i].pod = rs[i].pod /\ qs[i].host = rs[i].host /\ qs[i].peer = rs[i].peer
             /\ qs[i].total \in Nat /\ (~ rs[i].err => qs[i].total = rs[i].total)
  <2>1. qs[i] = IF rs[i].err THEN [rs[i] EXCEPT !.total = @ + 1, !.end = @ + 1] ELSE rs[i]
    BY <1>2
  <2>2. PICK r \in setting.reply, t \in Nat : rs[i] = ResultOf(r, t)
    BY <1>1 DEF Results
  <2>3. rs[i].total \in Nat /\ rs[i].end \in Nat
    BY <1>1, ResultFields
  <2>4. CASE ~ rs[i].err
    BY <2>1, <2>3, <2>4
  <2>5. CASE rs[i].err
    BY <2>1, <2>2, <2>3, <2>5 DEF ResultOf
  <2> QED
    BY <2>4, <2>5
<1>7. Alike(qs, rs, h)
  <2>1. \A i \in 1..n : backendKey(qs[i]) = backendKey(rs[i])
    BY <1>6 DEF backendKey
  <2>2. Len(qs) = Len(rs) /\ h \in Bijection(At(qs), At(rs))
    BY <1>3, <1>4, <1>5 DEF n
  <2> QED
    BY <1>4, <1>5, <1>6, <2>1, <2>2 DEF Alike
<1>8. IsRun(qs)
  <2>1. ASSUME NEW i \in 1..n
        PROVE  /\ qs[i].err \in BOOLEAN
               /\ qs[i].code \in Nat /\ Truncated[qs[i].msg] \in Nat
               /\ qs[i].start \in Nat /\ qs[i].end \in Nat
               /\ qs[i].total \in Nat /\ qs[i].srv \in Nat /\ qs[i].up \in Int
               /\ qs[i].pod \in Nat /\ (qs[i].pod # 0 => qs[i].pod % 4 = 3)
               /\ qs[i].host \in Nat /\ (qs[i].host # 0 => qs[i].host % 4 = 2)
               /\ qs[i].peer \in Nat /\ (qs[i].peer # 0 => qs[i].peer % 4 = 1)
    <3> DEFINE x == rs[i]
    <3>1. x \in Results
      BY <1>1
    <3> HIDE DEF x
    <3>2. /\ x.err \in BOOLEAN
          /\ x.code \in Nat /\ Truncated[x.msg] \in Nat
          /\ x.start \in Nat /\ x.end \in Nat
          /\ x.total \in Nat /\ x.srv \in Nat /\ x.up \in Int
          /\ x.pod \in Nat /\ (x.pod # 0 => x.pod % 4 = 3)
          /\ x.host \in Nat /\ (x.host # 0 => x.host % 4 = 2)
          /\ x.peer \in Nat /\ (x.peer # 0 => x.peer % 4 = 1)
      BY <1>1, <3>1, ResultFields
    <3>3. /\ qs[i].err = x.err /\ qs[i].code = x.code /\ qs[i].msg = x.msg
          /\ qs[i].start = x.start /\ qs[i].end \in Nat
          /\ qs[i].srv = x.srv /\ qs[i].up = x.up
          /\ qs[i].pod = x.pod /\ qs[i].host = x.host /\ qs[i].peer = x.peer
          /\ qs[i].total \in Nat
      BY <1>6 DEF x
    <3> QED
      BY <3>2, <3>3
  <2> QED
    BY <1>1, <1>4, <2>1 DEF IsRun
<1> QED
  BY <1>1, <1>7, <1>8

\* The span enters only the parts OfTheSpan of a summary.
LEMMA OtherParts ==
    ASSUME NEW rs, NEW span, NEW other,
           NEW part \in DOMAIN aggregate(rs, span) \ OfTheSpan
    PROVE  aggregate(rs, other)[part] = aggregate(rs, span)[part]
BY DEF aggregate, OfTheSpan

\* A row of failures has an empty sample, and longer ones change no part but
\* those.
LEMMA UntimedFromRun == RecordedInv => ErrorsUntimed
<1> SUFFICES ASSUME RecordedInv PROVE ErrorsUntimed
  OBVIOUS
<1> DEFINE rs == results
           qs == Stretched(rs)
           h == [i \in At(rs) |-> i]
<1>1. Alike(qs, rs, h) /\ IsRun(qs) /\ IsRun(rs)
  <2> HIDE DEF rs, qs, h
  <2>1. rs = results /\ qs = Stretched(rs) /\ h = [i \in At(rs) |-> i]
    BY DEF rs, qs, h
  <2> QED
    BY <2>1, StretchedAlike
<1> HIDE DEF rs, qs, h
<1>2. Summary = aggregate(rs, elapsed(rs)) /\ SummaryOf(Stretched(results)) = aggregate(qs, elapsed(qs))
  BY DEF Summary, SummaryOf, rs, qs
<1>3. aggregate(qs, elapsed(qs)) = aggregate(rs, elapsed(qs))
  BY <1>1, AlikeSummary
<1>4. \A part \in DOMAIN Summary \ OfTheSpan :
         SummaryOf(Stretched(results))[part] = Summary[part]
  BY <1>2, <1>3, OtherParts
<1>5. ASSUME NEW i \in 1..Len(Summary.backends)
      PROVE  LET b == Summary.backends[i]
             IN  b.count = b.errorCount => b.p50 = 0 /\ b.p99 = 0
  <2> DEFINE s == Summary
             span == elapsed(rs)
             b == s.backends[i]
  <2>1. IsRun(rs) /\ s = aggregate(rs, span)
    BY <1>1, SummaryIsAggregate DEF rs
  <2> HIDE DEF span, s
  <2>2. i \in 1..Len(s.backends)
    BY DEF s
  <2>3. PICK key \in Keys(rs) : b = backendRow(rs, key)
    BY <2>1, <2>2, BackendRows
  <2> HIDE DEF b
  <2>4. /\ b.count \in Nat \ {0} /\ b.errorCount \in Nat
        /\ b.count > b.errorCount <=> Bucket(rs, key) \cap Successes(rs) # {}
        /\ Bucket(rs, key) \cap Successes(rs) = {} => b.p50 = 0 /\ b.p99 = 0
    BY <2>1, <2>3, RowFacts
  <2>5. b.count = b.errorCount => b.p50 = 0 /\ b.p99 = 0
    BY <2>4
  <2> QED
    BY <2>5 DEF b, s
<1> QED
  BY <1>4, <1>5 DEF ErrorsUntimed

\* How long a failed call took enters no part of the summary but the elapsed time
\* and the throughput, and a row of errors has zero percentiles: backendRow and
\* aggregate, for any results.
THEOREM FailuresUntimed == Spec => []ErrorsUntimed
BY Recorded, UntimedFromRun, PTL

-----------------------------------------------------------------------------
(* The durations of the calls and the span of the run. *)

\* The sum of the durations of a sequence of calls.
Durations(s) == SumFunctionOnSet([i \in 1..Len(s) |-> s[i].total], 1..Len(s))

\* The durations sum to a natural number.
LEMMA DurationsNat ==
    ASSUME NEW R, \A x \in R : x.total \in Nat, NEW s \in Seq(R)
    PROVE  Durations(s) \in Nat
<1> DEFINE D == 1..Len(s)
           f == [i \in D |-> s[i].total]
<1>1. IsFiniteSet(D) /\ \A i \in D : f[i] \in Nat
  <2>1. Len(s) \in Nat
    BY LenProperties
  <2>2. IsFiniteSet(1..Len(s))
    BY <2>1, FS_Interval
  <2>3. \A i \in 1..Len(s) : s[i] \in R
    BY ElementOfSeq
  <2> QED
    BY <2>2, <2>3
<1> HIDE DEF D, f
<1>2. SumFunctionOnSet(f, D) \in Nat
  BY <1>1, SumNat
<1> QED
  BY <1>2 DEF D, f, Durations

\* The durations of two sequences add up when they are appended.
LEMMA DurationsAdd ==
    ASSUME NEW R, \A x \in R : x.total \in Nat, NEW s \in Seq(R), NEW t \in Seq(R)
    PROVE  Durations(s \o t) = Durations(s) + Durations(t)
<1> DEFINE a == Len(s)
           b == Len(t)
           u == s \o t
           A == 1..a
           B == (a + 1)..(a + b)
           C == 1..b
           f == [i \in 1..(a + b) |-> u[i].total]
           p == [i \in A |-> s[i].total]
           q == [i \in C |-> t[i].total]
           h == [i \in B |-> i - a]
<1>1. a \in Nat /\ b \in Nat /\ u \in Seq(R) /\ Len(u) = a + b
  BY ConcatProperties, LenProperties
<1>2. /\ \A i \in A : s[i] \in R /\ u[i] = s[i]
      /\ \A i \in B : t[i - a] \in R /\ u[i] = t[i - a]
      /\ \A i \in C : t[i] \in R
  <2>1. /\ \A i \in A : s[i] \in R
        /\ \A i \in C : t[i] \in R
    BY ElementOfSeq
  <2>2. \A i \in 1..(a + b) : u[i] = IF i <= a THEN s[i] ELSE t[i - a]
    BY ConcatProperties
  <2>3. /\ \A i \in A : i \in 1..(a + b) /\ i <= a
        /\ \A i \in B : i \in 1..(a + b) /\ ~ (i <= a) /\ i - a \in C
    BY <1>1
  <2> HIDE DEF a, b, u, A, B, C
  <2> QED
    BY <2>1, <2>2, <2>3
<1>3. A \cup B = 1..(a + b) /\ A \cap B = {} /\ IsFiniteSet(A) /\ IsFiniteSet(B) /\ IsFiniteSet(C)
  <2>1. A \cup B = 1..(a + b) /\ A \cap B = {}
    BY <1>1
  <2>2. IsFiniteSet(1..a) /\ IsFiniteSet((a + 1)..(a + b)) /\ IsFiniteSet(1..b)
    BY <1>1, FS_Interval
  <2> QED
    BY <2>1, <2>2
<1>4. /\ \A i \in A : p[i] \in Int /\ f[i] = p[i]
      /\ \A i \in C : q[i] \in Int
      /\ \A i \in B : f[i] = t[i - a].total
  <2> HIDE DEF a, b, u, A, B, C
  <2> QED
    BY <1>2, <1>3
<1>5. h \in Bijection(B, C)
  <2>1. h \in [B -> C] /\ \A i, j \in B : h[i] = h[j] => i = j
    BY <1>1
  <2>2. ASSUME NEW c \in C PROVE \E i \in B : h[i] = c
    <3>1. c + a \in B /\ (c + a) - a = c
      BY <1>1
    <3> QED
      BY <3>1
  <2> HIDE DEF B, C, h
  <2> QED
    BY <2>1, <2>2 DEF Bijection, Injection, IsInjective, Surjection
<1>6. \A i \in B : h[i] \in C /\ f[i] = q[h[i]]
  <2>1. \A i \in B : i - a \in C
    BY <1>1
  <2> HIDE DEF a, B, C, f
  <2> QED
    BY <1>4, <2>1
<1>7. Durations(u) = SumFunctionOnSet(f, A \cup B)
  BY <1>1, <1>3 DEF Durations
<1>8. Durations(s) = SumFunctionOnSet(p, A) /\ Durations(t) = SumFunctionOnSet(q, C)
  BY DEF Durations
<1> HIDE DEF a, b, u, A, B, C, f, p, q, h
<1>9. SumFunctionOnSet(p, A) = SumFunctionOnSet(f, A)
  BY <1>3, <1>4, SumSame
<1>10. SumFunctionOnSet(f, B) = SumFunctionOnSet(q, C)
  BY <1>3, <1>4, <1>5, <1>6, SumRenamed
<1>11. \A i \in A \cup B : f[i] \in Int
  BY <1>4, <1>6
<1>12. SumFunctionOnSet(f, A \cup B) = SumFunctionOnSet(f, A) + SumFunctionOnSet(f, B)
  BY <1>3, <1>11, SumUnion
<1> QED
  BY <1>7, <1>8, <1>9, <1>10, <1>12 DEF u

\* One call lasts as long as it does, and none no time.
LEMMA DurationsOfOne ==
    ASSUME NEW x, x.total \in Nat
    PROVE  Durations(<<x>>) = x.total /\ Durations(<< >>) = 0
<1> DEFINE f == [i \in 1..1 |-> <<x>>[i].total]
<1>1. Durations(<<x>>) = SumFunctionOnSet(f, 1..1) /\ f[1] = x.total
  BY DEF Durations
<1>2. 1..1 = {} \cup {1} /\ {} # {1}
  OBVIOUS
<1>3. Durations(<< >>) = 0
  <2>1. 1..Len(<< >>) = {}
    OBVIOUS
  <2> QED
    BY <2>1, SumEmpty DEF Durations
<1> HIDE DEF f
<1>4. SumFunctionOnSet(f, {} \cup {1}) = f[1] + SumFunctionOnSet(f, {})
  <2>1. IsFiniteSet({}) /\ 1 \notin {} /\ f[1] \in Int /\ \A y \in {} : f[y] \in Int
    BY <1>1, FS_EmptySet
  <2> QED
    BY <2>1, SumAdd
<1> QED
  BY <1>1, <1>2, <1>3, <1>4, SumEmpty

\* Every element of every sequence is in the concatenation.
LEMMA FlattenHolds ==
    ASSUME NEW S, NEW seqs \in Seq(Seq(S)), Len(seqs) # 0
    PROVE  \A m \in 1..Len(seqs) : \A k \in 1..Len(seqs[m]) :
              \E j \in 1..Len(FlattenSeq(seqs)) : FlattenSeq(seqs)[j] = seqs[m][k]
<1> DEFINE L == Len(seqs)
<1>0. L \in Nat /\ L >= 1 /\ \A i \in 1..L : seqs[i] \in Seq(S) /\ Len(seqs[i]) \in Nat
  BY LenProperties, ElementOfSeq
<1>1. PICK g : /\ FlattenSeq(seqs) = g[L]
               /\ g[1] = seqs[1]
               /\ \A i \in 2..L : g[i] = g[i - 1] \o seqs[i]
  BY <1>0, FlattenRuns
<1> HIDE DEF L
<1> DEFINE Has(n, m) == \A k \in 1..Len(seqs[m]) :
                           \E j \in 1..Len(g[n]) : g[n][j] = seqs[m][k]
           Good(n) == g[n] \in Seq(S) /\ \A m \in 1..n : Has(n, m)
           T == {n \in 0..L : n = 0 \/ Good(n)}
<1>2. 0 \in T
  BY <1>0
<1>3. ASSUME NEW n \in T, n \in 0..(L - 1) PROVE n + 1 \in T
  <2>1. CASE n = 0
    <3>1. Good(1)
      BY <1>0, <1>1
    <3> HIDE DEF Good
    <3> QED
      BY <1>0, <2>1, <3>1
  <2>2. CASE n # 0
    <3> DEFINE a == g[n]
               b == seqs[n + 1]
    <3>0. n + 1 \in 2..L /\ (n + 1) - 1 = n /\ n + 1 \in 1..L
      BY <1>0, <1>3, <2>2
    <3>1. g[n + 1] = a \o b
      BY <1>1, <3>0
    <3>2. Good(n)
      BY <2>2
    <3>3. a \in Seq(S) /\ b \in Seq(S) /\ Len(a) \in Nat /\ Len(b) \in Nat
      BY <1>0, <3>0, <3>2, LenProperties
    <3> HIDE DEF a, b
    <3>4. /\ g[n + 1] \in Seq(S) /\ Len(g[n + 1]) = Len(a) + Len(b)
          /\ \A i \in 1..(Len(a) + Len(b)) :
                g[n + 1][i] = IF i <= Len(a) THEN a[i] ELSE b[i - Len(a)]
      BY <3>1, <3>3, ConcatProperties
    <3>5. ASSUME NEW m \in 1..n PROVE Has(n + 1, m)
      <4> SUFFICES ASSUME NEW k \in 1..Len(seqs[m])
                   PROVE  \E j \in 1..Len(g[n + 1]) : g[n + 1][j] = seqs[m][k]
        OBVIOUS
      <4>1. PICK j \in 1..Len(a) : a[j] = seqs[m][k]
        BY <3>2 DEF a
      <4>2. j \in 1..Len(g[n + 1]) /\ g[n + 1][j] = a[j]
        BY <3>3, <3>4
      <4> QED
        BY <4>1, <4>2
    <3>6. Has(n + 1, n + 1)
      <4> SUFFICES ASSUME NEW k \in 1..Len(b)
                   PROVE  \E j \in 1..Len(g[n + 1]) : g[n + 1][j] = b[k]
        BY DEF b
      <4>1. Len(a) + k \in 1..Len(g[n + 1]) /\ ~ (Len(a) + k <= Len(a))
            /\ (Len(a) + k) - Len(a) = k
        BY <3>3, <3>4
      <4>2. g[n + 1][Len(a) + k] = b[k]
        BY <3>4, <4>1
      <4> QED
        BY <4>1, <4>2
    <3>7. Good(n + 1)
      <4> HIDE DEF Has
      <4>1. \A m \in 1..(n + 1) : m \in 1..n \/ m = n + 1
        BY <1>0, <1>3
      <4> QED
        BY <3>4, <3>5, <3>6, <4>1
    <3> HIDE DEF Good
    <3> QED
      BY <3>0, <3>7
  <2> QED
    BY <2>1, <2>2
<1> HIDE DEF Good
<1>4. 0..L \subseteq T
  <2> HIDE DEF T
  <2> QED
    BY <1>0, <1>2, <1>3, NatInductUpTo
<1>5. Good(L)
  BY <1>0, <1>4
<1> QED
  BY <1>1, <1>5 DEF Good, Has, L

\* Sequences that each last at most span together last at most so many times it.
LEMMA FlattenDurations ==
    ASSUME NEW R, \A x \in R : x.total \in Nat, NEW seqs \in Seq(Seq(R)), Len(seqs) # 0,
           NEW span \in Nat, \A i \in 1..Len(seqs) : Durations(seqs[i]) <= span
    PROVE  Durations(FlattenSeq(seqs)) <= Len(seqs) * span
<1> DEFINE L == Len(seqs)
<1>0. L \in Nat /\ L >= 1 /\ \A i \in 1..L : seqs[i] \in Seq(R)
  BY LenProperties, ElementOfSeq
<1>1. PICK g : /\ FlattenSeq(seqs) = g[L]
               /\ g[1] = seqs[1]
               /\ \A i \in 2..L : g[i] = g[i - 1] \o seqs[i]
  BY <1>0, FlattenRuns
<1>a. \A i \in 1..L : Durations(seqs[i]) <= span
  OBVIOUS
<1> HIDE DEF L
<1> DEFINE Good(n) == g[n] \in Seq(R) /\ Durations(g[n]) <= n * span
           T == {n \in 0..L : n = 0 \/ Good(n)}
<1>2. 0 \in T
  BY <1>0
<1>3. ASSUME NEW n \in T, n \in 0..(L - 1) PROVE n + 1 \in T
  <2>1. CASE n = 0
    <3>1. Good(1)
      BY <1>0, <1>1, <1>a
    <3> HIDE DEF Good
    <3> QED
      BY <1>0, <2>1, <3>1
  <2>2. CASE n # 0
    <3> DEFINE a == g[n]
               b == seqs[n + 1]
    <3>0. n + 1 \in 2..L /\ (n + 1) - 1 = n /\ n + 1 \in 1..L /\ n \in Nat
      BY <1>0, <1>3, <2>2
    <3>1. g[n + 1] = a \o b
      BY <1>1, <3>0
    <3>2. a \in Seq(R) /\ Durations(a) <= n * span
      BY <2>2
    <3>3. b \in Seq(R) /\ Durations(b) <= span
      BY <1>0, <1>a, <3>0
    <3> HIDE DEF a, b
    <3>4. Durations(a \o b) = Durations(a) + Durations(b)
      BY <3>2, <3>3, DurationsAdd
    <3>5. Durations(a) \in Nat /\ Durations(b) \in Nat /\ a \o b \in Seq(R)
      BY <3>2, <3>3, DurationsNat, ConcatProperties
    <3>6. Durations(a \o b) <= (n + 1) * span
      <4>1. \A x, y \in Nat : (x + 1) * y = x * y + y /\ x * y \in Nat
        OBVIOUS
      <4>2. (n + 1) * span = n * span + span /\ n * span \in Nat
        BY <3>0, <4>1
      <4> DEFINE u == n * span
                 v == (n + 1) * span
      <4>3. u \in Nat /\ v = u + span /\ Durations(a) <= u
        BY <3>2, <4>2
      <4> HIDE DEF u, v
      <4>4. Durations(a \o b) <= v
        BY <3>3, <3>4, <3>5, <4>3
      <4> QED
        BY <4>4 DEF v
    <3>7. Good(n + 1)
      BY <3>1, <3>5, <3>6
    <3> HIDE DEF Good
    <3> QED
      BY <3>0, <3>7
  <2> QED
    BY <2>1, <2>2
<1> HIDE DEF Good
<1>4. 0..L \subseteq T
  <2> HIDE DEF T
  <2> QED
    BY <1>0, <1>2, <1>3, NatInductUpTo
<1>5. Good(L)
  BY <1>0, <1>4
<1> QED
  BY <1>1, <1>5 DEF Good, L

\* The calls of a worker took no longer than from its first start to its last
\* end: it makes them one after the other.
Paced(s) == s # << >> => Durations(s) <= s[Len(s)].end - s[1].start

\* The inductive invariant of ElapsedSpans.
PacedInv == RecordedInv /\ \A w \in 1..setting.workers : Paced(recorded[w])

\* Durations are natural numbers.
LEMMA TotalsNat == ASSUME setting \in Setting PROVE \A x \in Results : x.total \in Nat
BY ResultFields

\* A call that starts after the last one ended keeps the pace.
LEMMA PacedStep ==
    ASSUME setting \in Setting, NEW s \in Seq(Results), Paced(s), NEW x \in Results,
           x.start >= IF s = << >> THEN 0 ELSE Last(s).end
    PROVE  Paced(Append(s, x))
<1> DEFINE t == Append(s, x)
           n == Len(s)
<1>1. /\ t = s \o <<x>> /\ <<x>> \in Seq(Results) /\ n \in Nat
      /\ t \in Seq(Results) /\ Len(t) = n + 1
      /\ \A i \in 1..n : t[i] = s[i]
      /\ t[n + 1] = x
  BY AppendIsConcat, AppendProperties, LenProperties
<1>2. /\ x.total \in Nat /\ x.start \in Nat /\ x.end = x.start + x.total
  BY ResultFields
<1>3. Durations(t) = Durations(s) + Durations(<<x>>)
  BY <1>1, TotalsNat, DurationsAdd
<1>4. Durations(<<x>>) = x.total /\ Durations(<< >>) = 0
  BY <1>2, DurationsOfOne
<1>5. CASE s = << >>
  <2>1. n = 0
    BY <1>5
  <2>2. Durations(t) = x.total /\ t[Len(t)] = x /\ t[1] = x
    BY <1>1, <1>2, <1>3, <1>4, <1>5, <2>1
  <2> HIDE DEF t
  <2> QED
    BY <1>2, <2>2 DEF Paced, t
<1>6. CASE s # << >>
  <2>1. n \in 1..n /\ 1 \in 1..n
    BY <1>1, <1>6, EmptySeq
  <2>2. s[n] \in Results /\ s[1] \in Results
    BY <2>1, ElementOfSeq
  <2>3. s[n].end \in Nat /\ s[1].start \in Nat
    BY <2>2, ResultFields
  <2>4. Durations(s) <= s[n].end - s[1].start /\ x.start >= s[n].end
    BY <1>6 DEF Paced, Last
  <2>5. t[Len(t)] = x /\ t[1] = s[1]
    BY <1>1, <2>1
  <2>6. Durations(s) \in Nat
    BY TotalsNat, DurationsNat
  <2> HIDE DEF t, n
  <2>7. Durations(t) <= x.end - s[1].start
    BY <1>2, <1>3, <1>4, <2>3, <2>4, <2>6
  <2> QED
    BY <2>5, <2>7 DEF Paced, t
<1> QED
  BY <1>5, <1>6

\* Nothing has been called at first.
LEMMA InitPaced == Init => PacedInv
<1> SUFFICES ASSUME Init PROVE PacedInv
  OBVIOUS
<1>1. \A w \in 1..setting.workers : recorded[w] = << >>
  BY DEF Init
<1> QED
  BY <1>1, InitRecorded DEF PacedInv, Paced

\* Arrive(w) starts when worker w is free, and leaves the others as they are.
LEMMA NextPaced == PacedInv /\ [Next]_vars => PacedInv'
<1> SUFFICES ASSUME PacedInv, [Next]_vars PROVE PacedInv'
  OBVIOUS
<1>0. RecordedInv /\ RecordedInv'
  BY NextRecorded DEF PacedInv
<1>1. ASSUME NEW w \in 1..setting.workers, Arrive(w) PROVE PacedInv'
  <2>1. PICK r \in setting.reply, gap \in setting.gaps :
           recorded' = [recorded EXCEPT ![w] = Append(@, ResultOf(r, FreeAt(w) + gap))]
    BY <1>1 DEF Arrive
  <2> DEFINE s == recorded[w]
             x == ResultOf(r, FreeAt(w) + gap)
  <2>2. /\ setting' = setting /\ setting \in Setting /\ gap \in Nat
        /\ recorded \in [1..setting.workers -> Seq(Results)] /\ s \in Seq(Results)
    BY <1>0, <1>1, SettingAssumption DEF Arrive, RecordedInv
  <2>3. FreeAt(w) \in Nat /\ FreeAt(w) = IF s = << >> THEN 0 ELSE Last(s).end
    <3>1. FreeAt(w) = IF s = << >> THEN 0 ELSE Last(s).end
      BY DEF FreeAt
    <3>2. CASE s # << >>
      <4>1. Len(s) \in 1..Len(s)
        BY <2>2, <3>2, EmptySeq
      <4>2. s[Len(s)] \in Results
        BY <2>2, <4>1, ElementOfSeq
      <4> QED
        BY <2>2, <3>1, <3>2, <4>2, ResultFields DEF Last
    <3> QED
      BY <3>1, <3>2
  <2>4. x \in Results /\ x.start = FreeAt(w) + gap
    <3>1. FreeAt(w) + gap \in Nat
      BY <2>2, <2>3
    <3> QED
      BY <3>1 DEF Results, ResultOf
  <2>5. Paced(s)
    BY DEF PacedInv
  <2>6. recorded'[w] = Append(s, x) /\ \A v \in 1..setting.workers : v # w => recorded'[v] = recorded[v]
    BY <2>1, <2>2
  <2> HIDE DEF s, x
  <2>7. x.start >= IF s = << >> THEN 0 ELSE Last(s).end
    BY <2>2, <2>3, <2>4
  <2>8. Paced(Append(s, x))
    BY <2>2, <2>4, <2>5, <2>7, PacedStep
  <2>9. \A v \in 1..setting.workers : Paced(recorded'[v])
    BY <2>6, <2>8 DEF PacedInv
  <2> QED
    BY <1>0, <2>2, <2>9 DEF PacedInv, Paced, Durations
<1>2. CASE UNCHANGED vars
  BY <1>0, <1>2 DEF PacedInv, Paced, Durations, vars
<1> QED
  BY <1>1, <1>2 DEF Next

\* Every worker makes one call after the other, in every run.
LEMMA PacedAlways == Spec => []PacedInv
BY InitPaced, NextPaced, PTL DEF Spec

\* Between the earliest start and the latest end.
LEMMA SpanOfRun ==
    ASSUME NEW rs, IsRun(rs), rs # << >>, Len(rs) > 0
    PROVE  /\ elapsed(rs) \in Int
           /\ \A i, j \in 1..Len(rs) : rs[i].end - rs[j].start <= elapsed(rs)
           /\ \E i, j \in 1..Len(rs) : elapsed(rs) = rs[i].end - rs[j].start
<1> DEFINE D == 1..Len(rs)
           ends == {rs[i].end : i \in D}
           starts == {rs[i].start : i \in D}
<1>1. /\ IsFiniteSet(D) /\ D # {}
      /\ \A i \in D : rs[i].end \in Nat /\ rs[i].start \in Nat
  <2>1. Len(rs) \in Nat
    BY DEF IsRun
  <2>2. IsFiniteSet(D) /\ 1 \in D
    BY <2>1, Places
  <2> QED
    BY <2>2 DEF IsRun
<1>2. elapsed(rs) = Max(ends) - Min(starts)
  BY DEF elapsed
<1> HIDE DEF D
<1>3. ends \in SUBSET Nat /\ ends # {} /\ starts \in SUBSET Nat /\ starts # {}
  BY <1>1
<1>4. IsFiniteSet(ends) /\ IsFiniteSet(starts)
  <2> DEFINE e == [i \in D |-> rs[i].end]
             b == [i \in D |-> rs[i].start]
  <2>1. (\A y \in ends : \E i \in D : e[i] = y) /\ (\A y \in starts : \E i \in D : b[i] = y)
    OBVIOUS
  <2> HIDE DEF e, b, ends, starts
  <2>2. IsFiniteSet(ends)
    BY <1>1, <2>1, FiniteImage
  <2>3. IsFiniteSet(starts)
    BY <1>1, <2>1, FiniteImage
  <2> QED
    BY <2>2, <2>3
<1>5. (\A i \in D : rs[i].end \in ends /\ rs[i].start \in starts)
  OBVIOUS
<1>6. /\ Max(ends) \in ends /\ (\A x \in ends : x <= Max(ends))
      /\ Min(starts) \in starts /\ (\A x \in starts : Min(starts) <= x)
  <2> HIDE DEF ends, starts
  <2> QED
    BY <1>3, <1>4, Extremes
<1>7. /\ \E i \in D : rs[i].end = Max(ends)
      /\ \E j \in D : rs[j].start = Min(starts)
  BY <1>6
<1> DEFINE last == Max(ends)
           first == Min(starts)
<1>8. last \in Nat /\ first \in Nat
  BY <1>3, <1>6
<1>9. \A i \in D : rs[i].end <= last /\ first <= rs[i].start
  BY <1>5, <1>6
<1> HIDE DEF ends, starts, last, first
<1>10. elapsed(rs) = last - first
  BY <1>2 DEF last, first
<1>11. (\E i \in D : rs[i].end = last) /\ (\E j \in D : rs[j].start = first)
  BY <1>7 DEF last, first
<1>12. \A i, j \in D : rs[i].end - rs[j].start <= elapsed(rs)
  BY <1>1, <1>8, <1>9, <1>10
<1> QED
  BY <1>8, <1>10, <1>11, <1>12 DEF D

\* Each worker's calls fit in the span, and the results are those of all workers.
LEMMA ElapsedFromPaced == PacedInv => ElapsedSpans
<1> SUFFICES ASSUME PacedInv PROVE ElapsedSpans
  OBVIOUS
<1> DEFINE rs == results
           span == elapsed(rs)
<1>0. RecordedInv /\ setting \in Setting /\ setting.workers \in Nat \ {0}
  BY SettingAssumption DEF PacedInv, RecordedInv
<1>1. Summary.elapsed = span
  BY SummaryIsAggregate DEF aggregate
<1>2. /\ rs \in Seq(Results) /\ IsRun(rs) /\ Len(rs) \in Nat
      /\ recorded \in Seq(Seq(Results)) /\ Len(recorded) = setting.workers
  BY <1>0, ResultsTyped, ResultsAreRun, LenProperties
<1>3. SumFunction(Total(rs, 1..Len(rs))) = Durations(rs)
  BY DEF SumFunction, Total, Durations
<1> HIDE DEF span
<1>4. CASE rs = << >>
  <2>1. Len(rs) = 0 /\ span = 0
    BY <1>4 DEF elapsed, span
  <2>2. Durations(rs) = 0
    <3>1. 0 \in Nat
      OBVIOUS
    <3>2. 1..Len(rs) = {}
      BY <2>1
    <3> QED
      BY <3>2, SumEmpty DEF Durations
  <2>3. setting.workers * span = 0
    BY <1>0, <2>1
  <2> QED
    BY <1>1, <1>3, <1>4, <2>2, <2>3 DEF ElapsedSpans
<1>5. CASE rs # << >>
  <2>0. Len(rs) > 0
    BY <1>2, <1>5, EmptySeq
  <2> HIDE DEF rs
  <2>1. /\ span \in Int
        /\ \A i, j \in 1..Len(rs) : rs[i].end - rs[j].start <= span
        /\ \E i, j \in 1..Len(rs) : span = rs[i].end - rs[j].start
    BY <1>2, <1>5, <2>0, SpanOfRun DEF span
  <2>2. span \in Nat
    <3>1. 1 \in 1..Len(rs)
      BY <1>2, <2>0
    <3>2. rs[1] \in Results
      BY <1>2, <3>1, ElementOfSeq
    <3>3. /\ rs[1].end \in Nat /\ rs[1].start \in Nat /\ rs[1].total \in Nat
          /\ rs[1].end = rs[1].start + rs[1].total
      BY <1>0, <3>2, ResultFields
    <3>4. rs[1].end - rs[1].start <= span
      BY <2>1, <3>1
    <3> QED
      BY <2>1, <3>3, <3>4
  <2>3. ASSUME NEW w \in 1..Len(recorded) PROVE Durations(recorded[w]) <= span
    <3> DEFINE s == recorded[w]
    <3>1. s \in Seq(Results) /\ Paced(s)
      BY <1>2, ElementOfSeq DEF PacedInv
    <3>2. CASE s = << >>
      <4>1. Durations(<< >>) = 0
        BY SumEmpty DEF Durations
      <4> QED
        BY <2>2, <3>2, <4>1
    <3>3. CASE s # << >>
      <4>1. Len(s) \in 1..Len(s) /\ 1 \in 1..Len(s)
        BY <3>1, <3>3, EmptySeq, LenProperties
      <4>2. \A k \in 1..Len(s) : \E j \in 1..Len(rs) : rs[j] = s[k]
        <5>1. Len(recorded) # 0
          BY <1>0, <1>2
        <5>2. \A m \in 1..Len(recorded) : \A k \in 1..Len(recorded[m]) :
                 \E j \in 1..Len(FlattenSeq(recorded)) : FlattenSeq(recorded)[j] = recorded[m][k]
          BY <1>2, <5>1, FlattenHolds
        <5> QED
          BY <5>2 DEF rs, results
      <4> HIDE DEF s
      <4>3. PICK i \in 1..Len(rs) : rs[i] = s[Len(s)]
        BY <4>1, <4>2
      <4>4. PICK j \in 1..Len(rs) : rs[j] = s[1]
        BY <4>1, <4>2
      <4>5. rs[i].end - rs[j].start <= span
        BY <2>1
      <4>6. rs[i].end \in Nat /\ rs[j].start \in Nat
        BY <1>2 DEF IsRun
      <4>7. Durations(s) \in Nat
        BY <1>0, <3>1, TotalsNat, DurationsNat
      <4>8. Durations(s) <= rs[i].end - rs[j].start
        BY <3>1, <3>3, <4>3, <4>4 DEF Paced
      <4>9. Durations(s) <= span
        BY <2>2, <4>5, <4>6, <4>7, <4>8
      <4> QED
        BY <4>9 DEF s
    <3> QED
      BY <3>2, <3>3
  <2>4. Durations(FlattenSeq(recorded)) <= Len(recorded) * span
    <3>1. /\ \A x \in Results : x.total \in Nat
          /\ recorded \in Seq(Seq(Results)) /\ Len(recorded) # 0
      BY <1>0, <1>2, TotalsNat
    <3> QED
      BY <2>2, <2>3, <3>1, FlattenDurations
  <2>5. Durations(rs) <= setting.workers * span
    BY <1>2, <2>4 DEF rs, results
  <2> QED
    BY <1>1, <1>3, <2>1, <2>5 DEF ElapsedSpans, rs
<1> QED
  BY <1>4, <1>5

\* The calls' durations add up to no more than concurrency times elapsed, and
\* elapsed (aggregator.go) is the time from a start to an end, for any number
\* of workers and calls.
THEOREM ElapsedSpansTheCalls == Spec => []ElapsedSpans
BY PacedAlways, ElapsedFromPaced, PTL
=============================================================================
