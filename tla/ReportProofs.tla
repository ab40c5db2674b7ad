---------------------------- MODULE ReportProofs ----------------------------
(***************************************************************************)
(* Proofs about Report, for every configuration, every setting and any     *)
(* number of results: from the facts of AggregateProofs about the summary  *)
(* that the two writers print.                                             *)
(***************************************************************************)
EXTENDS Report, AggregateProofs

-----------------------------------------------------------------------------
(* The summary that a report is written of. *)

\* A quotient that is the zero one or of two positive terms.
IsSkew(q) == q = Zero \/ \E a, b \in Nat \ {0} : q = <<a, b>>

\* The ratio of the largest to the smallest of some positive numbers.
LEMMA RatioOfPositive ==
    ASSUME NEW T, IsFiniteSet(T), T # {}, NEW f, \A i \in T : f[i] \in Nat \ {0},
           NEW C, C = {f[i] : i \in T}
    PROVE  IsSkew(Ratio(C))
<1>1. C \in SUBSET Nat /\ C # {} /\ 0 \notin C
  OBVIOUS
<1>2. IsFiniteSet(C)
  BY FiniteImage
<1>3. Max(C) \in Nat \ {0} /\ Min(C) \in Nat \ {0}
  BY <1>1, <1>2, Extremes
<1> QED
  BY <1>3 DEF Ratio, IsSkew

\* computeBackendSkew divides by no zero, as it leaves out rows with none.
LEMMA SkewTerms ==
    ASSUME NEW R, Len(R) \in Nat,
           \A i \in 1..Len(R) : R[i].count \in Nat \ {0} /\ R[i].p99 \in Nat
    PROVE  /\ IsSkew(computeBackendSkew(R).count)
           /\ IsSkew(computeBackendSkew(R).p99)
<1> DEFINE n == Len(R)
           timed == {i \in 1..n : R[i].p99 # 0}
           s == computeBackendSkew(R)
<1>1. /\ s.count = IF n >= 2 THEN Ratio({R[i].count : i \in 1..n}) ELSE Zero
      /\ s.p99 = IF Cardinality(timed) >= 2 THEN Ratio({R[i].p99 : i \in timed}) ELSE Zero
  BY DEF computeBackendSkew
<1>2. IsFiniteSet(1..n) /\ IsFiniteSet(timed) /\ timed \in SUBSET (1..n)
  <2>1. IsFiniteSet(1..n)
    BY FS_Interval
  <2>2. timed \in SUBSET (1..n)
    OBVIOUS
  <2> QED
    BY <2>1, <2>2, FS_Subset
<1>3. IsSkew(s.count)
  <2>1. CASE n >= 2
    <3> DEFINE T == 1..n
               f == [i \in T |-> R[i].count]
               C == {R[i].count : i \in T}
    <3>1. IsFiniteSet(T) /\ T # {} /\ (\A i \in T : f[i] \in Nat \ {0}) /\ C = {f[i] : i \in T}
      BY <1>2, <2>1
    <3>2. s.count = Ratio(C)
      BY <1>1, <2>1
    <3> HIDE DEF T, f, C, s
    <3>3. IsSkew(Ratio(C))
      BY <3>1, RatioOfPositive
    <3> QED
      BY <3>2, <3>3
  <2>2. CASE ~ (n >= 2)
    BY <1>1, <2>2 DEF IsSkew
  <2> QED
    BY <2>1, <2>2
<1>4. IsSkew(s.p99)
  <2>1. CASE Cardinality(timed) >= 2
    <3> DEFINE f == [i \in timed |-> R[i].p99]
               C == {R[i].p99 : i \in timed}
    <3>1. (\A i \in timed : f[i] \in Nat \ {0}) /\ C = {f[i] : i \in timed}
      BY <1>2
    <3>2. s.p99 = Ratio(C)
      BY <1>1, <2>1
    <3> HIDE DEF timed, f, C, s
    <3>3. timed # {}
      BY <2>1, FS_EmptySet
    <3>4. IsSkew(Ratio(C))
      BY <1>2, <3>1, <3>3, RatioOfPositive
    <3> QED
      BY <3>2, <3>4
  <2>2. CASE ~ (Cardinality(timed) >= 2)
    BY <1>1, <2>2 DEF IsSkew
  <2> QED
    BY <2>1, <2>2
<1> QED
  BY <1>3, <1>4

\* What the writers need to know of a row of computeBackends.
LEMMA RowTerms ==
    ASSUME NEW rs, IsRun(rs), NEW key \in Keys(rs), NEW b, b = backendRow(rs, key)
    PROVE  /\ b.count \in Nat \ {0} /\ b.p99 \in Nat /\ b.key \in Nat
           /\ b.percent = <<b.count, Len(rs)>> /\ Len(rs) \in Nat \ {0}
<1> DEFINE ok == Bucket(rs, key) \cap Successes(rs)
<1>1. /\ b.count \in Nat \ {0}
      /\ ok = {} => b.p99 = 0
      /\ ok # {} => \E i \in ok : b.p99 = rs[i].total
  BY RowFacts
<1>2. \A i \in ok : rs[i].total \in Nat
  BY DEF IsRun, Successes
<1> HIDE DEF ok
<1>3. b.p99 \in Nat
  BY <1>1, <1>2
<1>4. Len(rs) \in Nat \ {0} /\ key \in Nat
  BY DEF Keys, backendKey, IsRun
<1>5. b.key = key /\ b.percent = <<b.count, Len(rs)>>
  BY DEF backendRow
<1> QED
  BY <1>1, <1>3, <1>4, <1>5

-----------------------------------------------------------------------------
(* Every run ends in a report. *)

\* No number of a summary is a quotient by zero.
LEMMA FiniteSummary ==
    ASSUME NEW rs, IsRun(rs), NEW span, NEW s, s = aggregate(rs, span)
    PROVE  Finite(s)
<1> DEFINE R == s.backends
<1>1. Len(R) \in Nat /\ \A i \in 1..Len(R) : \E key \in Keys(rs) : R[i] = backendRow(rs, key)
  BY BackendRows
<1>2. s.throughput = throughput(Len(rs), span) /\ s.skew = computeBackendSkew(R)
  BY DEF aggregate
<1> HIDE DEF R
<1>3. ASSUME NEW i \in 1..Len(R)
      PROVE  R[i].count \in Nat \ {0} /\ R[i].p99 \in Nat /\ R[i].percent[2] # 0
  <2>1. PICK key \in Keys(rs) : R[i] = backendRow(rs, key)
    BY <1>1
  <2> DEFINE b == R[i]
  <2>2. b = backendRow(rs, key)
    BY <2>1
  <2> HIDE DEF b
  <2>3. b.count \in Nat \ {0} /\ b.p99 \in Nat
    BY <2>2, RowTerms
  <2>4. b.percent = <<b.count, Len(rs)>>
    BY <2>2, RowTerms
  <2>5. Len(rs) \in Nat \ {0}
    BY <2>2, RowTerms
  <2> QED
    BY <2>3, <2>4, <2>5 DEF b
<1>4. IsSkew(s.skew.count) /\ IsSkew(s.skew.p99)
  BY <1>1, <1>2, <1>3, SkewTerms
<1>5. s.skew.count[2] # 0 /\ s.skew.p99[2] # 0
  BY <1>4 DEF IsSkew, Zero
<1>6. s.throughput[2] # 0
  <2>1. CASE span > 0
    <3>1. s.throughput = <<Len(rs), span>>
      BY <1>2, <2>1 DEF throughput
    <3> QED
      BY <2>1, <3>1
  <2>2. CASE ~ (span > 0)
    BY <1>2, <2>2 DEF throughput, Zero
  <2> QED
    BY <2>1, <2>2
<1>7. \A i \in 1..Len(R) : R[i].percent[2] # 0
  BY <1>3
<1> QED
  BY <1>5, <1>6, <1>7 DEF Finite, Floats, R

LEMMA WritableFromRun == RecordedInv => Writable
<1> SUFFICES ASSUME RecordedInv, NEW c \in Config
             PROVE  Finite(Summary) /\ Run(c, results).text # << >>
  BY DEF Writable
<1> DEFINE rs == results
           span == elapsed(rs)
           s == Summary
<1>1. IsRun(rs) /\ s = aggregate(rs, span)
  BY ResultsAreRun, SummaryIsAggregate
<1>2. s = SummaryOf(rs)
  BY DEF Summary
<1> HIDE DEF rs, span, s
<1>3. Finite(s)
  BY <1>1, FiniteSummary
<1>4. Run(c, rs).text = IF c.format = "json" THEN writeJSONReport(c, s) ELSE writeReport(c, s)
  BY <1>2 DEF Run
<1>5. writeJSONReport(c, s) # << >>
  BY <1>3 DEF writeJSONReport
<1>6. writeReport(c, s) # << >>
  BY DEF writeReport
<1> QED
  BY <1>3, <1>4, <1>5, <1>6 DEF rs, s

\* Whatever the calls did, Config.Run has a report to write: writeJSONReport
\* is never refused an infinity or NaN by the encoder.
THEOREM EveryRunReports == Spec => []Writable
BY Recorded, WritableFromRun, PTL

-----------------------------------------------------------------------------
(* Both formats say the same. *)

\* A latency block reads n/a exactly when its sample is empty.
LEMMA StatsRead ==
    ASSUME NEW f, IsSample(f), NEW st, st = computeLatencyStats(Sorted(f))
    PROVE  /\ toJSONLatencyStats(st) = st
           /\ (IF latencyStatsBlock(st) = NA THEN computeLatencyStats(<< >>)
               ELSE latencyStatsBlock(st)[1]) = st
<1> DEFINE s == Sorted(f)
<1>1. st = IF s = << >>
           THEN [count |-> 0, min |-> 0, mean |-> 0, max |-> 0, p50 |-> 0, p90 |-> 0,
                 p99 |-> 0]
           ELSE [count |-> Len(s), min |-> s[1], max |-> s[Len(s)],
                 mean |-> SumFunction(s) \div Len(s),
                 p50 |-> percentile(s, 50), p90 |-> percentile(s, 90),
                 p99 |-> percentile(s, 99)]
  BY DEF computeLatencyStats
<1>2. s # << >> => Len(s) # 0
  <2> DEFINE n == Cardinality(DOMAIN f)
  <2>1. n \in Nat /\ DOMAIN s = 1..n /\ \A k \in 1..n : AtRank(f, k, s[k])
    BY SortedRanks
  <2>2. s = [k \in DOMAIN s |-> s[k]]
    BY DEF Sorted
  <2> HIDE DEF n, s
  <2>3. s \in Seq({s[k] : k \in 1..n})
    BY <2>1, <2>2
  <2> QED
    BY <2>3, EmptySeq
<1> HIDE DEF s
<1>3. CASE s = << >>
  <2>1. st = computeLatencyStats(<< >>) /\ st.count = 0
    BY <1>1, <1>3 DEF computeLatencyStats
  <2>2. toJSONLatencyStats(st) = st
    BY <1>1, <1>3 DEF toJSONLatencyStats
  <2> QED
    BY <2>1, <2>2 DEF latencyStatsBlock, NA
<1>4. CASE s # << >>
  <2>1. st.count # 0
    BY <1>1, <1>2, <1>4
  <2>2. toJSONLatencyStats(st) = st
    BY <1>1, <1>4 DEF toJSONLatencyStats
  <2>3. latencyStatsBlock(st) = <<st>> /\ <<st>> # NA
    BY <2>1 DEF latencyStatsBlock, NA
  <2> QED
    BY <2>2, <2>3
<1> QED
  BY <1>3, <1>4

\* A ratio reads n/a exactly when it is the zero one.
LEMMA QuotientRead ==
    ASSUME NEW q, IsSkew(q)
    PROVE  (IF formatRatio(q) = NA THEN Zero ELSE formatRatio(q)[1]) = q
<1>1. CASE q = Zero
  BY <1>1 DEF formatRatio, Zero, NA
<1>2. CASE \E a, b \in Nat \ {0} : q = <<a, b>>
  <2>1. q[1] # 0
    BY <1>2
  <2>2. formatRatio(q) = <<q>> /\ <<q>> # NA
    BY <2>1 DEF formatRatio, NA
  <2> QED
    BY <2>2
<1> QED
  BY <1>1, <1>2 DEF IsSkew

\* The rows and the buckets read back as they are: no key is that of the
\* spelling of the empty one, and no list of messages is empty.
LEMMA RowsRead ==
    ASSUME NEW rs, IsRun(rs), NEW span, NEW s, s = aggregate(rs, span)
    PROVE  /\ [i \in 1..Len(backendsBlock(s.backends)) |->
                  [backendsBlock(s.backends)[i] EXCEPT !.key = IF @ = Unknown THEN 0 ELSE @]]
                 = s.backends
           /\ statusCodeBlock(s.errors) = s.errors
<1> DEFINE R == s.backends
           B == backendsBlock(R)
           E == s.errors
           A == Rows(rs)
           Q == CodeRows(rs)
<1>1. /\ R = Ranked(A, ByCount(A, "key")) /\ IsTable(A, "key", Keys(rs))
      /\ E = Ranked(Q, ByCount(Q, "code")) /\ IsTable(Q, "code", Codes(rs))
  <2>1. R = Ranked(A, ByCount(A, "key"))
    BY SummaryParts
  <2>2. E = Ranked(Q, ByCount(Q, "code"))
    BY SummaryParts
  <2> QED
    BY <2>1, <2>2, RowsAreTable, CodesAreTable
<1>2. /\ \A i \in 1..Len(R) : \E key \in Keys(rs) : R[i] = backendRow(rs, key)
      /\ \A i \in 1..Len(E) : \E c \in Codes(rs) : E[i] = CodeRow(rs, c)
  BY BackendRows, ErrorRows
<1>3. B = [i \in 1..Len(R) |-> [R[i] EXCEPT !.key = IF @ = 0 THEN Unknown ELSE @]]
  BY DEF backendsBlock
<1> HIDE DEF R, E, A, Q, B
<1>4. R \in Seq(A) /\ E \in Seq(Q)
  <2>1. R \in Seq(A)
    BY <1>1, TableOrder
  <2>2. E \in Seq(Q)
    BY <1>1, TableOrder
  <2> QED
    BY <2>1, <2>2
<1>5. /\ Len(R) \in Nat /\ R = [i \in 1..Len(R) |-> R[i]]
      /\ Len(E) \in Nat /\ E = [i \in 1..Len(E) |-> E[i]]
  BY <1>4, LenProperties
<1>6. Len(B) = Len(R)
  BY <1>3, <1>5
<1>7. ASSUME NEW i \in 1..Len(R)
      PROVE  [B[i] EXCEPT !.key = IF @ = Unknown THEN 0 ELSE @] = R[i]
  <2>1. PICK key \in Keys(rs) : R[i] = backendRow(rs, key)
    BY <1>2
  <2> DEFINE b == R[i]
             k == IF key = 0 THEN Unknown ELSE key
  <2>2. b = backendRow(rs, key)
    BY <2>1
  <2>3. B[i] = [b EXCEPT !.key = IF @ = 0 THEN Unknown ELSE @]
    BY <1>3
  <2> HIDE DEF b
  <2>4. key \in Nat
    <3>1. b.key \in Nat
      BY <2>2, RowTerms
    <3> QED
      BY <2>2, <3>1 DEF backendRow
  <2>5. PICK src, m, e, pc, x, y :
           b = [key |-> key, source |-> src, count |-> m, errorCount |-> e,
                percent |-> pc, p50 |-> x, p99 |-> y]
    BY <2>2 DEF backendRow
  <2> DEFINE c == [b EXCEPT !.key = IF @ = 0 THEN Unknown ELSE @]
  <2>6. c = [key |-> k, source |-> src, count |-> m, errorCount |-> e,
             percent |-> pc, p50 |-> x, p99 |-> y]
    BY <2>5
  <2> HIDE DEF c
  <2>7. (IF c.key = Unknown THEN 0 ELSE c.key) = key
    BY <2>4, <2>6 DEF Unknown
  <2> HIDE DEF k
  <2>8. [c EXCEPT !.key = IF @ = Unknown THEN 0 ELSE @]
           = [key |-> IF c.key = Unknown THEN 0 ELSE c.key, source |-> src, count |-> m,
              errorCount |-> e, percent |-> pc, p50 |-> x, p99 |-> y]
    BY <2>6
  <2>9. B[i] = c /\ [c EXCEPT !.key = IF @ = Unknown THEN 0 ELSE @] = b
    BY <2>3, <2>5, <2>7, <2>8 DEF c
  <2> QED
    BY <2>9 DEF b
<1>8. ASSUME NEW i \in 1..Len(E)
      PROVE  [E[i] EXCEPT !.top = formatTopMessages(@)] = E[i]
  <2>1. PICK c \in Codes(rs) : E[i] = CodeRow(rs, c)
    BY <1>2
  <2> DEFINE t == topMessages(rs, c)
  <2>2. E[i] = [code |-> c, count |-> Cardinality(OfCode(rs, c)), top |-> t]
    BY <2>1 DEF CodeRow
  <2>3. t # << >>
    <3>1. Len(t) > 0
      <4> HIDE DEF t
      <4>1. t = topMessages(rs, c)
        BY DEF t
      <4> QED
        BY <4>1, TopOfCode
    <3> HIDE DEF t
    <3> QED
      BY <3>1
  <2> HIDE DEF t
  <2>4. formatTopMessages(t) = t
    BY <2>3 DEF formatTopMessages
  <2> QED
    BY <2>2, <2>4
<1>9. [i \in 1..Len(B) |-> [B[i] EXCEPT !.key = IF @ = Unknown THEN 0 ELSE @]] = R
  BY <1>5, <1>6, <1>7
<1>10. statusCodeBlock(E) = E
  BY <1>5, <1>8 DEF statusCodeBlock
<1> QED
  BY <1>9, <1>10 DEF B, R, E

\* The summary read back from the report for people.
LEMMA HumanReadsBack ==
    ASSUME NEW rs, IsRun(rs), NEW span, NEW s, s = aggregate(rs, span), NEW c,
           NEW h, h = writeReport(c, s)[1]
    PROVE  HumanReading(h) = s
<1> DEFINE Stats(block) == IF block = NA THEN computeLatencyStats(<< >>) ELSE block[1]
           Quotient(q) == IF q = NA THEN Zero ELSE q[1]
           ok == Successes(rs)
<1>1. h = [labels |-> labelsHeader(c.labels),
           count |-> s.count, errorCount |-> s.errorCount,
           elapsed |-> s.elapsed, throughput |-> s.throughput,
           total |-> latencyStatsBlock(s.total), server |-> latencyStatsBlock(s.server),
           network |-> latencyStatsBlock(s.network),
           upstream |-> latencyStatsBlock(s.upstream),
           backends |-> backendsBlock(s.backends), skew |-> backendSkewLine(s.skew),
           errors |-> statusCodeBlock(s.errors)]
  BY DEF writeReport
<1>2. HumanReading(h) =
        [count |-> h.count, errorCount |-> h.errorCount, elapsed |-> h.elapsed,
         throughput |-> h.throughput,
         total |-> Stats(h.total), server |-> Stats(h.server),
         network |-> Stats(h.network), upstream |-> Stats(h.upstream),
         backends |-> [i \in 1..Len(h.backends) |->
                          [h.backends[i] EXCEPT !.key = IF @ = Unknown THEN 0 ELSE @]],
         skew |-> [count |-> Quotient(h.skew.count), p99 |-> Quotient(h.skew.p99)],
         errors |-> h.errors]
  BY DEF HumanReading
<1>3. /\ Stats(h.total) = s.total /\ Stats(h.server) = s.server
      /\ Stats(h.network) = s.network /\ Stats(h.upstream) = s.upstream
  <2>1. /\ IsSample(Total(rs, ok)) /\ IsSample(Server(rs, ok))
        /\ IsSample(Network(rs, ok)) /\ IsSample(Upstream(rs, ok))
    BY Places, Samples
  <2>2. /\ s.total = computeLatencyStats(Sorted(Total(rs, ok)))
        /\ s.server = computeLatencyStats(Sorted(Server(rs, ok)))
        /\ s.network = computeLatencyStats(Sorted(Network(rs, ok)))
        /\ s.upstream = computeLatencyStats(Sorted(Upstream(rs, ok)))
    BY DEF aggregate
  <2>3. /\ h.total = latencyStatsBlock(s.total) /\ h.server = latencyStatsBlock(s.server)
        /\ h.network = latencyStatsBlock(s.network)
        /\ h.upstream = latencyStatsBlock(s.upstream)
    BY <1>1
  <2> HIDE DEF ok
  <2>4. Stats(h.total) = s.total
    BY <2>1, <2>2, <2>3, StatsRead
  <2>5. Stats(h.server) = s.server
    BY <2>1, <2>2, <2>3, StatsRead
  <2>6. Stats(h.network) = s.network
    BY <2>1, <2>2, <2>3, StatsRead
  <2>7. Stats(h.upstream) = s.upstream
    BY <2>1, <2>2, <2>3, StatsRead
  <2> QED
    BY <2>4, <2>5, <2>6, <2>7
<1>4. /\ [i \in 1..Len(h.backends) |->
             [h.backends[i] EXCEPT !.key = IF @ = Unknown THEN 0 ELSE @]] = s.backends
      /\ h.errors = s.errors
  <2>1. h.backends = backendsBlock(s.backends) /\ h.errors = statusCodeBlock(s.errors)
    BY <1>1
  <2> QED
    BY <2>1, RowsRead
<1>5. s.skew = computeBackendSkew(s.backends)
  BY DEF aggregate
<1>6. [count |-> Quotient(h.skew.count), p99 |-> Quotient(h.skew.p99)] = s.skew
  <2> DEFINE R == s.backends
             k == computeBackendSkew(R)
  <2>1. IsSkew(k.count) /\ IsSkew(k.p99)
    <3>1. Len(R) \in Nat /\ \A i \in 1..Len(R) : \E key \in Keys(rs) : R[i] = backendRow(rs, key)
      BY BackendRows
    <3> HIDE DEF R
    <3>2. ASSUME NEW i \in 1..Len(R)
          PROVE  R[i].count \in Nat \ {0} /\ R[i].p99 \in Nat
      <4>1. PICK key \in Keys(rs) : R[i] = backendRow(rs, key)
        BY <3>1
      <4> DEFINE b == R[i]
      <4>2. b = backendRow(rs, key)
        BY <4>1
      <4> HIDE DEF b
      <4>3. b.count \in Nat \ {0} /\ b.p99 \in Nat
        BY <4>2, RowTerms
      <4> QED
        BY <4>3 DEF b
    <3> QED
      BY <3>1, <3>2, SkewTerms
  <2>2. h.skew.count = formatRatio(k.count) /\ h.skew.p99 = formatRatio(k.p99)
    BY <1>1, <1>5 DEF backendSkewLine
  <2>3. k = [count |-> k.count, p99 |-> k.p99]
    BY DEF computeBackendSkew
  <2> HIDE DEF k
  <2>4. Quotient(h.skew.count) = k.count /\ Quotient(h.skew.p99) = k.p99
    BY <2>1, <2>2, QuotientRead
  <2> HIDE DEF Quotient
  <2> QED
    BY <1>5, <2>3, <2>4 DEF k
<1> HIDE DEF Stats, Quotient
<1>7. HumanReading(h) =
        [count |-> s.count, errorCount |-> s.errorCount, elapsed |-> s.elapsed,
         throughput |-> s.throughput, total |-> s.total, server |-> s.server,
         network |-> s.network, upstream |-> s.upstream, backends |-> s.backends,
         skew |-> s.skew, errors |-> s.errors]
  <2>1. /\ h.count = s.count /\ h.errorCount = s.errorCount /\ h.elapsed = s.elapsed
        /\ h.throughput = s.throughput
    BY <1>1
  <2> QED
    BY <1>2, <1>3, <1>4, <1>6, <2>1
<1>8. s = [count |-> s.count, errorCount |-> s.errorCount, elapsed |-> s.elapsed,
           throughput |-> s.throughput, total |-> s.total, server |-> s.server,
           network |-> s.network, upstream |-> s.upstream, backends |-> s.backends,
           skew |-> s.skew, errors |-> s.errors]
  BY DEF aggregate
<1> QED
  BY <1>7, <1>8

\* And from the JSON report.
LEMMA JSONReadsBack ==
    ASSUME NEW rs, IsRun(rs), NEW span, NEW s, s = aggregate(rs, span)
    PROVE  newJSONSummary(s) = s
<1> DEFINE ok == Successes(rs)
<1>1. /\ IsSample(Total(rs, ok)) /\ IsSample(Server(rs, ok))
      /\ IsSample(Network(rs, ok)) /\ IsSample(Upstream(rs, ok))
  BY Places, Samples
<1>2. /\ s.total = computeLatencyStats(Sorted(Total(rs, ok)))
      /\ s.server = computeLatencyStats(Sorted(Server(rs, ok)))
      /\ s.network = computeLatencyStats(Sorted(Network(rs, ok)))
      /\ s.upstream = computeLatencyStats(Sorted(Upstream(rs, ok)))
  BY DEF aggregate
<1> HIDE DEF ok
<1>3. toJSONLatencyStats(s.total) = s.total
  BY <1>1, <1>2, StatsRead
<1>4. toJSONLatencyStats(s.server) = s.server
  BY <1>1, <1>2, StatsRead
<1>5. toJSONLatencyStats(s.network) = s.network
  BY <1>1, <1>2, StatsRead
<1>6. toJSONLatencyStats(s.upstream) = s.upstream
  BY <1>1, <1>2, StatsRead
<1>7. s = [f \in DOMAIN s |-> s[f]]
  BY DEF aggregate
<1> QED
  BY <1>3, <1>4, <1>5, <1>6, <1>7 DEF newJSONSummary

LEMMA AgreeFromRun == RecordedInv => ReportsAgree
<1> SUFFICES ASSUME RecordedInv, NEW c \in Config
             PROVE  LET h == writeReport(c, Summary)[1]
                        j == newJSONReport(c, Summary)
                    IN  /\ HumanReading(h) = j.summary
                        /\ j.config.labels # << >>
                        /\ h.labels = NA <=> j.config.labels = <<{}>>
                        /\ h.labels # NA => h.labels = j.config.labels
  BY DEF ReportsAgree
<1> DEFINE rs == results
           span == elapsed(rs)
           s == Summary
           h == writeReport(c, s)[1]
           j == newJSONReport(c, s)
<1>1. IsRun(rs) /\ s = aggregate(rs, span)
  BY ResultsAreRun, SummaryIsAggregate
<1> HIDE DEF rs, span, s
<1>2. HumanReading(h) = s
  BY <1>1, HumanReadsBack
<1>3. j.summary = s
  <2>1. newJSONSummary(s) = s
    BY <1>1, JSONReadsBack
  <2> QED
    BY <2>1 DEF newJSONReport
<1>4. /\ h.labels = labelsHeader(c.labels)
      /\ j.config.labels = IF c.labels = << >> THEN <<{}>> ELSE c.labels
  BY DEF writeReport, newJSONReport, newJSONConfig
<1> HIDE DEF h, j
<1>5. c.labels = << >> \/ c.labels = <<c.labels[1]>>
  BY ConfigAssumption
<1>6. /\ j.config.labels # << >>
      /\ h.labels = NA <=> j.config.labels = <<{}>>
      /\ h.labels # NA => h.labels = j.config.labels
  <2>1. CASE c.labels = << >>
    BY <1>4, <2>1 DEF labelsHeader, NA
  <2>2. CASE c.labels = <<c.labels[1]>>
    <3> DEFINE S == c.labels[1]
    <3>1. c.labels = <<S>> /\ <<S>> # << >>
      BY <2>2
    <3> HIDE DEF S
    <3> QED
      BY <1>4, <3>1 DEF labelsHeader, NA
  <2> QED
    BY <1>5, <2>1, <2>2
<1> QED
  BY <1>2, <1>3, <1>6 DEF h, j, s

\* writeReport and writeJSONReport tell the same of every summary: n/a stands
\* for an empty sample or a missing ratio and for nothing else.
THEOREM FormatsAgree == Spec => []ReportsAgree
BY Recorded, AgreeFromRun, PTL
=============================================================================
