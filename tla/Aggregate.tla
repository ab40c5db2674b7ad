----------------------------- MODULE Aggregate -----------------------------
(***************************************************************************)
(* The summary of a bench run: pkg/bench/aggregator.go over the results    *)
(* that doCall builds from the replies of the echo servers.  Each worker   *)
(* records one call after the other; every property is a statement about   *)
(* the summary of what the workers have recorded so far.                   *)
(*                                                                         *)
(* Strings that are only compared are numbers, 0 the empty one: a server   *)
(* is a number, and so are its pod name, its hostname and its peer         *)
(* address, each kind in a residue class of its own.  Times and durations  *)
(* are whole units, and a quotient is the pair of its terms; the standard  *)
(* deviation is left out.  A sample or a bucket of results is the set of   *)
(* their places in the sequence.                                           *)
(***************************************************************************)
EXTENDS Integers, Sequences, FiniteSets, SequencesExt

CONSTANTS
    Truncated,      \* truncateMessage, as a function on the messages
    Setting         \* the runs to consider, a set of records:
                    \*   named   servers whose environment sets POD_NAME
                    \*   blank   servers whose POD_NAME is the empty string
                    \*   mesh    is a sidecar the peer of every call
                    \*   workers number of workers
                    \*   gaps    idle times that can precede a call
                    \*   reply   the replies that can arrive: records of
                    \*           SuccessReply, FailureReply and SetupFailure
                    \*   max     bound of the model: results in the run

VARIABLES
    setting,    \* the setting of this run
    recorded    \* worker.results of each worker

vars == <<setting, recorded>>

\* Topmost error messages kept per code.
topErrorMessages == 3

\* Config.run concatenates the workers' results, so they are not in the order
\* of time.
results == FlattenSeq(recorded)

-----------------------------------------------------------------------------
(* Replies, and the Result that doCall makes of one. *)

\* What gRPC tells its stats handler of a message; a codec shrinks it.
Sent == [dir |-> "out", length |-> 20, wire |-> 9]
Received == [dir |-> "in", length |-> 30, wire |-> 12]

\* Server s answers after total units, srv of them its own, and with the
\* Envoy header set to up unless up is negative.
SuccessReply(s, total, srv, up) ==
    [server |-> s, ok |-> TRUE, total |-> total, srv |-> srv, up |-> up,
     code |-> 0, msg |-> 0, resolved |-> TRUE, stats |-> <<Sent, Received>>]

\* The call to server s fails with a status once sent messages went out, more
\* than one if gRPC retried it.
FailureReply(s, code, msg, sent) ==
    [server |-> s, ok |-> FALSE, total |-> 1, srv |-> 0, up |-> -1, code |-> code,
     msg |-> msg, resolved |-> sent > 0, stats |-> [i \in 1..sent |-> Sent]]

\* NewSource or Acquire fails: Start and End are the same instant, and the
\* error is no status, so that its code is Unknown.
SetupFailure(msg) == [FailureReply(0, 2, msg, 0) EXCEPT !.total = 0]

Reply ==
    [server : Nat, ok : BOOLEAN, total : Nat, srv : Nat, up : Nat \cup {-1},
     code : Nat, msg : DOMAIN Truncated, resolved : BOOLEAN,
     stats : Seq({Sent, Received})]

ASSUME TruncatedAssumption == \A m \in DOMAIN Truncated : Truncated[m] \in Nat
ASSUME SettingAssumption ==
    \A s \in Setting :
        /\ s.mesh \in BOOLEAN /\ s.workers \in Nat \ {0} /\ s.max \in Nat
        /\ s.gaps \subseteq Nat /\ s.reply \subseteq Reply

\* The remainder by four tells a pod name (3), a hostname (2) and a peer (1).
\* The names that echo.New gives a server: without POD_NAME the pod name is a
\* placeholder, the same on every server.
PodNamePlaceholder == 7
PodName(s) ==
    IF s \in setting.named THEN 4 * s + 11
    ELSE IF s \in setting.blank THEN 0 ELSE PodNamePlaceholder
Hostname(s) == 4 * s + 10
PeerAddr(s) == IF setting.mesh THEN 5 ELSE 4 * s + 9

\* wireLengthStatsHandler.HandleRPC: each payload adds to the call's counters.
HandleRPC(e, bytes) ==
    [bytes EXCEPT ![e.dir].length = @ + e.length, ![e.dir].wire = @ + e.wire]

wireBytes == [dir \in {"out", "in"} |-> [length |-> 0, wire |-> 0]]

\* doCall keeps the server's names only when the call succeeded.
ResultOf(r, start) ==
    [server |-> r.server, err |-> ~ r.ok, code |-> r.code, msg |-> r.msg,
     start |-> start, end |-> start + r.total, total |-> r.total,
     bytes |-> FoldSeq(HandleRPC, wireBytes, r.stats), srv |-> r.srv, up |-> r.up,
     pod |-> IF r.ok THEN PodName(r.server) ELSE 0,
     host |-> IF r.ok THEN Hostname(r.server) ELSE 0,
     peer |-> IF r.resolved THEN PeerAddr(r.server) ELSE 0]

-----------------------------------------------------------------------------
(* Time. *)

\* Mutant: the results are taken to be in the order of time.
elapsed_InOrder(rs) ==
    IF rs = << >> THEN 0 ELSE rs[Len(rs)].end - rs[1].start

\* From the earliest start to the latest end.
elapsed(rs) ==
    IF rs = << >> THEN 0
    ELSE Max({rs[i].end : i \in 1..Len(rs)}) - Min({rs[i].start : i \in 1..Len(rs)})

\* The zero of a quotient.
Zero == <<0, 1>>

\* Mutant: it divides by the elapsed time whatever it is.
throughput_Undefined(count, span) == <<count, span>>

throughput(count, span) == IF span > 0 THEN <<count, span>> ELSE Zero

-----------------------------------------------------------------------------
(* Latencies. *)

\* The elements of S in the strict total order before, a set of pairs.
Ranked(S, before) ==
    [k \in 1..Cardinality(S) |->
        CHOOSE a \in S : Cardinality({b \in S : <<b, a>> \in before}) = k - 1]

\* A sample in ascending order.
Sorted(f) ==
    LET I == DOMAIN f
        before == {p \in I \X I : \/ f[p[1]] < f[p[2]]
                                  \/ f[p[1]] = f[p[2]] /\ p[1] < p[2]}
        at == Ranked(I, before)
    IN  [k \in DOMAIN at |-> f[at[k]]]

\* Mutant: the rank is rounded down.
percentile_Floor(s, p) ==
    LET n == Len(s)
        rank == (p * n) \div 100
    IN  IF n = 0 THEN 0 ELSE s[IF rank < 1 THEN 1 ELSE rank]

\* The nearest-rank percentile of a sorted sample, 0 for an empty one.
percentile(s, p) ==
    LET n == Len(s)
        rank == (p * n + 99) \div 100       \* Ceil(p / 100 * n)
    IN  IF n = 0 THEN 0 ELSE s[IF rank < 1 THEN 1 ELSE IF rank > n THEN n ELSE rank]

computeLatencyStats(s) ==
    IF s = << >>
    THEN [count |-> 0, min |-> 0, mean |-> 0, max |-> 0, p50 |-> 0, p90 |-> 0,
          p99 |-> 0]
    ELSE [count |-> Len(s), min |-> s[1], max |-> s[Len(s)],
          mean |-> SumFunction(s) \div Len(s),
          p50 |-> percentile(s, 50), p90 |-> percentile(s, 90),
          p99 |-> percentile(s, 99)]

Successes(rs) == {i \in 1..Len(rs) : ~ rs[i].err}

\* The four samples of the results at I; network never goes negative.
Total(rs, I) == [i \in I |-> rs[i].total]
Server(rs, I) == [i \in I |-> rs[i].srv]
Network(rs, I) ==
    [i \in I |-> IF rs[i].total < rs[i].srv THEN 0 ELSE rs[i].total - rs[i].srv]
Upstream(rs, I) == [i \in {j \in I : rs[j].up >= 0} |-> rs[i].up]

-----------------------------------------------------------------------------
(* Rows of the report. *)

\* Mutant: the peer address comes before the names.
backendKey_PeerFirst(r) ==
    IF r.peer # 0 THEN <<r.peer, "peer">>
    ELSE IF r.pod # 0 THEN <<r.pod, "pod_name">>
    ELSE IF r.host # 0 THEN <<r.host, "hostname">>
    ELSE <<0, "unknown">>

\* backendKey: the key and the step of the chain that gave it.
backendKey(r) ==
    IF r.pod # 0 THEN <<r.pod, "pod_name">>
    ELSE IF r.host # 0 THEN <<r.host, "hostname">>
    ELSE IF r.peer # 0 THEN <<r.peer, "peer">>
    ELSE <<0, "unknown">>

Bucket(rs, key) == {i \in 1..Len(rs) : backendKey(rs[i])[1] = key}

\* Mutant: the durations of failed calls enter the sample.
rowSample_AllDurations(rs, mine) == Sorted(Total(rs, mine))

\* The durations that a row takes its percentiles from.
rowSample(rs, mine) == Sorted(Total(rs, mine \cap Successes(rs)))

\* Mutant: errors are left out of the row's count.
backendRow_SuccessesOnly(rs, key) ==
    LET mine == Bucket(rs, key)
        ok == mine \cap Successes(rs)
    IN  [key |-> key, source |-> backendKey(rs[Min(mine)])[2],
         count |-> Cardinality(ok), errorCount |-> Cardinality(mine \ ok),
         percent |-> <<Cardinality(ok), Len(rs)>>,
         p50 |-> percentile(rowSample(rs, mine), 50),
         p99 |-> percentile(rowSample(rs, mine), 99)]

\* The bucket of one key, its source that of its first result: errors count,
\* only successes are timed.
backendRow(rs, key) ==
    LET mine == Bucket(rs, key)
    IN  [key |-> key, source |-> backendKey(rs[Min(mine)])[2],
         count |-> Cardinality(mine),
         errorCount |-> Cardinality(mine \ Successes(rs)),
         percent |-> <<Cardinality(mine), Len(rs)>>,
         p50 |-> percentile(rowSample(rs, mine), 50),
         p99 |-> percentile(rowSample(rs, mine), 99)]

Keys(rs) == {backendKey(rs[i])[1] : i \in 1..Len(rs)}

\* By count downwards, then by the field tie upwards.
ByCount(S, tie) ==
    {p \in S \X S : \/ p[1].count > p[2].count
                    \/ p[1].count = p[2].count /\ p[1][tie] < p[2][tie]}

\* Mutant: rows of equal count stay in the order of their first result.
computeBackends_Unbroken(rs) ==
    LET rows == {backendRow(rs, key) : key \in Keys(rs)}
    IN  Ranked(rows,
               {p \in rows \X rows :
                   \/ p[1].count > p[2].count
                   \/ p[1].count = p[2].count
                      /\ Min(Bucket(rs, p[1].key)) < Min(Bucket(rs, p[2].key))})

computeBackends(rs) ==
    LET rows == {backendRow(rs, key) : key \in Keys(rs)}
    IN  Ranked(rows, ByCount(rows, "key"))

\* The largest to the smallest.
Ratio(S) == <<Max(S), Min(S)>>

\* Mutant: rows without a successful sample take part in the p99 ratio.
computeBackendSkew_Broken(rows) ==
    [count |-> IF Len(rows) >= 2 THEN Ratio({rows[i].count : i \in 1..Len(rows)})
               ELSE Zero,
     p99 |-> IF Len(rows) >= 2 THEN Ratio({rows[i].p99 : i \in 1..Len(rows)})
             ELSE Zero]

\* Counts over all rows; p99 over those whose p99 is not zero, which stands
\* for having a successful sample.
computeBackendSkew(rows) ==
    LET timed == {i \in 1..Len(rows) : rows[i].p99 # 0}
    IN  [count |-> IF Len(rows) >= 2
                   THEN Ratio({rows[i].count : i \in 1..Len(rows)}) ELSE Zero,
         p99 |-> IF Cardinality(timed) >= 2
                 THEN Ratio({rows[i].p99 : i \in timed}) ELSE Zero]

\* The failures with a status code, and those with one message.
OfCode(rs, code) == {i \in 1..Len(rs) : rs[i].err /\ rs[i].code = code}
OfMessage(rs, code, message) ==
    {i \in OfCode(rs, code) : Truncated[rs[i].msg] = message}

\* The histogram of a code's messages, as truncated.
Messages(rs, code) ==
    {[message |-> m, count |-> Cardinality(OfMessage(rs, code, m))] :
        m \in {Truncated[rs[i].msg] : i \in OfCode(rs, code)}}

\* At most topErrorMessages of a sequence.
Cut(s) == SubSeq(s, 1, IF Len(s) < topErrorMessages THEN Len(s) ELSE topErrorMessages)

\* Mutant: the cut comes before the sort by count.
topMessages_CutFirst(rs, code) ==
    LET stats == Messages(rs, code)
    IN  Cut(Ranked(stats, {p \in stats \X stats : p[1].message < p[2].message}))

\* The most frequent messages of a code.
topMessages(rs, code) ==
    LET stats == Messages(rs, code)
    IN  Cut(Ranked(stats, ByCount(stats, "message")))

\* One bucket per status code among the errors.
computeStatusCodes(rs) ==
    LET out == {[code |-> c, count |-> Cardinality(OfCode(rs, c)),
                 top |-> topMessages(rs, c)] :
                   c \in {rs[i].code : i \in 1..Len(rs) \ Successes(rs)}}
    IN  Ranked(out, ByCount(out, "code"))

aggregate(rs, span) ==
    LET ok == Successes(rs)
        rows == computeBackends(rs)
    IN  [count |-> Len(rs), errorCount |-> Cardinality(1..Len(rs) \ ok),
         elapsed |-> span, throughput |-> throughput(Len(rs), span),
         total |-> computeLatencyStats(Sorted(Total(rs, ok))),
         server |-> computeLatencyStats(Sorted(Server(rs, ok))),
         network |-> computeLatencyStats(Sorted(Network(rs, ok))),
         upstream |-> computeLatencyStats(Sorted(Upstream(rs, ok))),
         backends |-> rows, skew |-> computeBackendSkew(rows),
         errors |-> computeStatusCodes(rs)]

-----------------------------------------------------------------------------

Init ==
    /\ setting \in Setting
    /\ recorded = [w \in 1..setting.workers |-> << >>]

\* When the last call of worker w ended.
FreeAt(w) == IF recorded[w] = << >> THEN 0 ELSE Last(recorded[w]).end

\* Worker w makes its next call, after an idle time.
Arrive(w) ==
    /\ Len(results) < setting.max
    /\ \E r \in setting.reply, gap \in setting.gaps :
          recorded' = [recorded EXCEPT ![w] = Append(@, ResultOf(r, FreeAt(w) + gap))]
    /\ UNCHANGED setting

Next == \E w \in 1..setting.workers : Arrive(w)

Spec == Init /\ [][Next]_vars

-----------------------------------------------------------------------------
(* Properties. *)

\* What Config.run returns for the results rs.
SummaryOf(rs) == aggregate(rs, elapsed(rs))
Summary == SummaryOf(results)

\* The counts of the rows s.
Counts(s) == [i \in 1..Len(s) |-> s[i].count]

\* Every result is in exactly one row and every failed one under exactly one
\* code, so that the three breakdowns of the report add up to its total.
CountsAddUp ==
    LET s == Summary
    IN  /\ s.count = s.errorCount + s.total.count
        /\ s.count = SumFunction(Counts(s.backends))
        /\ s.errorCount =
              SumFunction([i \in 1..Len(s.backends) |-> s.backends[i].errorCount])
        /\ s.errorCount = SumFunction(Counts(s.errors))
        /\ \A i \in 1..Len(s.errors) :
              SumFunction(Counts(s.errors[i].top)) <= s.errors[i].count

\* A worker makes one call at a time, so the calls' durations add up to no
\* more than concurrency times elapsed, and throughput times mean latency is
\* at most the concurrency; and elapsed is no longer than the calls explain.
ElapsedSpans ==
    LET span == Summary.elapsed
    IN  /\ SumFunction(Total(results, 1..Len(results))) <= setting.workers * span
        /\ results # << >> =>
              \E i, j \in 1..Len(results) : span = results[i].end - results[j].start

\* v is the p-th percentile of the sample f: the least value with at least p
\* per cent of the sample at or below it.
IsNearestRank(f, p, v) ==
    LET n == Cardinality(DOMAIN f)
    IN  /\ \E i \in DOMAIN f : f[i] = v
        /\ 100 * Cardinality({i \in DOMAIN f : f[i] <= v}) >= p * n
        /\ 100 * Cardinality({i \in DOMAIN f : f[i] < v}) < p * n

\* The latency block is that of the sample f.
BlockRight(stats, f) ==
    DOMAIN f # {} =>
        /\ IsNearestRank(f, 50, stats.p50)
        /\ IsNearestRank(f, 90, stats.p90)
        /\ IsNearestRank(f, 99, stats.p99)
        /\ stats.min <= stats.mean /\ stats.mean <= stats.max

\* The percentiles of every latency block are nearest-rank percentiles of its
\* sample, and the mean lies within it.
LatenciesRight ==
    LET s == Summary
        ok == Successes(results)
    IN  /\ BlockRight(s.total, Total(results, ok))
        /\ BlockRight(s.server, Server(results, ok))
        /\ BlockRight(s.network, Network(results, ok))
        /\ BlockRight(s.upstream, Upstream(results, ok))

\* The report is the same for the results in the reverse order, in which the
\* buckets' maps are filled, and ties met, the other way round.
OrderFree == Summary = SummaryOf(Reverse(results))

\* The same results if every failed call had taken longer, and ended later.
Stretched(rs) ==
    [i \in 1..Len(rs) |->
        IF rs[i].err THEN [rs[i] EXCEPT !.total = @ + 1, !.end = @ + 1] ELSE rs[i]]

\* What a summary says of the run as a whole, failed calls included
\* (config.go:256-271).
OfTheSpan == {"elapsed", "throughput"}

\* "Errors count toward the group's Count and ErrorCount but their durations
\* do not contribute to the p50/p99 sample; an all-errors group reports zero
\* percentiles" (aggregator.go:230-232).  Nor do they enter any other part of the
\* summary but the elapsed time and the throughput.
ErrorsUntimed ==
    LET s == Summary
        longer == SummaryOf(Stretched(results))
    IN  /\ \A i \in 1..Len(s.backends) :
              LET b == s.backends[i]
              IN  b.count = b.errorCount => b.p50 = 0 /\ b.p99 = 0
        /\ \A part \in DOMAIN s \ OfTheSpan : longer[part] = s[part]

\* A skew ratio is of two different rows and never divides by zero; the p99
\* ratio is there exactly when two rows have a successful sample.
SkewDefined ==
    LET s == Summary
        timed == {i \in 1..Len(s.backends) :
                    s.backends[i].count > s.backends[i].errorCount}
    IN  /\ s.skew.count # Zero <=> Len(s.backends) >= 2
        /\ s.skew.p99 # Zero <=> Cardinality(timed) >= 2
        /\ s.skew.count # Zero => s.skew.count[2] > 0
        /\ s.skew.p99 # Zero => s.skew.p99[2] > 0

\* No message left out of a code's list is more frequent than a listed one.
TopMessagesAreTop ==
    \A i \in 1..Len(Summary.errors) :
        LET b == Summary.errors[i]
            listed == {b.top[j].message : j \in 1..Len(b.top)}
        IN  /\ Len(b.top) <= topErrorMessages
            /\ \A m \in {Truncated[results[k].msg] : k \in OfCode(results, b.code)} \ listed :
                  \A j \in 1..Len(b.top) :
                     b.top[j].count >= Cardinality(OfMessage(results, b.code, m))

\* "Backends are grouped by kubernetes.pod_name from the response, falling
\* back to hostname and then the resolved peer address" (app.go:77-78): two
\* servers that both answer are two backends.
BackendsToldApart ==
    \A i, j \in 1..Len(results) :
        /\ ~ results[i].err /\ ~ results[j].err
        /\ results[i].server # results[j].server
        => backendKey(results[i]) # backendKey(results[j])

\* "For a mesh-on run the per-backend breakdown's source will read peer-addr"
\* (docs/bench-k8s.md:180-181): rows that have a success come from the peer.
MeshRowsByPeer ==
    setting.mesh => \A i \in 1..Len(Summary.backends) :
               LET b == Summary.backends[i]
               IN  b.count > b.errorCount => b.source = "peer"

\* "Either ratio is zero when fewer than two backends qualify" (summary.go:
\* 92-93): traffic to one server has no skew.
NoSkewOfOne ==
    (\A i, j \in 1..Len(results) : results[i].server = results[j].server) =>
        Summary.skew.count = Zero
=============================================================================
