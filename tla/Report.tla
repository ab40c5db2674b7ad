------------------------------- MODULE Report -------------------------------
(***************************************************************************)
(* The report of a bench run: Config.Run writes the summary of Aggregate   *)
(* in one of two formats, pkg/bench/report.go for people and               *)
(* pkg/bench/report_json.go for programs.  Only what is printed and where  *)
(* it is left out is modelled; wording, layout and rounding are not.       *)
(*                                                                         *)
(* A block that may read "n/a" is a sequence, empty for "n/a".  A map that *)
(* may be nil is a sequence too, empty for nil.                            *)
(***************************************************************************)
EXTENDS Aggregate

CONSTANT
    Config      \* the configurations to report for, a set of records:
                \*   format   OutputFormat
                \*   labels   << >> for a nil map, else <<the set of labels>>
                \*   payload  the shapes of the mix, by their numbers
                \*   out      where Output writes, "nil" for none

ASSUME ConfigAssumption ==
    \A c \in Config : c.labels = << >> \/ c.labels = <<c.labels[1]>>

NA == << >>

-----------------------------------------------------------------------------
(* report.go. *)

\* A nil map and an empty one have no line.
labelsHeader(labels) ==
    IF labels \in {<< >>, <<{}>>} THEN NA ELSE labels

\* Mutant: a sample whose percentiles are zero counts as none.
latencyStatsBlock_ByP99(stats) == IF stats.p99 = 0 THEN NA ELSE <<stats>>

latencyStatsBlock(stats) == IF stats.count = 0 THEN NA ELSE <<stats>>

\* The spelling of the empty key.
Unknown == -1

backendsBlock(rows) ==
    [i \in 1..Len(rows) |->
        [rows[i] EXCEPT !.key = IF @ = 0 THEN Unknown ELSE @]]

formatRatio(r) == IF r[1] = 0 THEN NA ELSE <<r>>

backendSkewLine(skew) ==
    [count |-> formatRatio(skew.count), p99 |-> formatRatio(skew.p99)]

formatTopMessages(top) == IF top = << >> THEN <<"(no message)">> ELSE top

statusCodeBlock(errors) ==
    [i \in 1..Len(errors) |->
        [errors[i] EXCEPT !.top = formatTopMessages(@)]]

writeReport(c, s) ==
    <<[labels |-> labelsHeader(c.labels),
       count |-> s.count, errorCount |-> s.errorCount,
       elapsed |-> s.elapsed, throughput |-> s.throughput,
       total |-> latencyStatsBlock(s.total), server |-> latencyStatsBlock(s.server),
       network |-> latencyStatsBlock(s.network),
       upstream |-> latencyStatsBlock(s.upstream),
       backends |-> backendsBlock(s.backends), skew |-> backendSkewLine(s.skew),
       errors |-> statusCodeBlock(s.errors)]>>

-----------------------------------------------------------------------------
(* report_json.go. *)

\* The shapes that have a flag spelling, and all that have a generated name.
FlagShape == 1..5
EnumShape == 0..5

\* jsonPayloadShape.MarshalJSON: String() of a shape outside the enum is its
\* number.
MarshalShape(p) ==
    <<IF p \in FlagShape THEN "flag" ELSE IF p \in EnumShape THEN "proto" ELSE "number", p>>

\* jsonPayloadShape.UnmarshalJSON: the shape, or << >> for an error.
UnmarshalShape(text) ==
    IF text[1] \in {"flag", "proto"} THEN <<text[2]>> ELSE << >>

newJSONConfig(c) ==
    [payload |-> [i \in 1..Len(c.payload) |-> MarshalShape(c.payload[i])],
     labels |-> IF c.labels = << >> THEN <<{}>> ELSE c.labels]

toJSONLatencyStats(l) ==
    [count |-> l.count, min |-> l.min, mean |-> l.mean, max |-> l.max,
     p50 |-> l.p50, p90 |-> l.p90, p99 |-> l.p99]

newJSONSummary(s) ==
    [s EXCEPT !.total = toJSONLatencyStats(@), !.server = toJSONLatencyStats(@),
              !.network = toJSONLatencyStats(@), !.upstream = toJSONLatencyStats(@)]

newJSONReport(c, s) ==
    [config |-> newJSONConfig(c), summary |-> newJSONSummary(s)]

\* The floating-point numbers of a summary.
Floats(s) ==
    {s.throughput, s.skew.count, s.skew.p99}
    \cup {s.backends[i].percent : i \in 1..Len(s.backends)}

Finite(s) == \A q \in Floats(s) : q[2] # 0

\* The encoder refuses infinities and NaN, and then writes nothing.
writeJSONReport(c, s) == IF Finite(s) THEN <<newJSONReport(c, s)>> ELSE << >>

-----------------------------------------------------------------------------
(* Config.Run. *)

output(c) == IF c.out = "nil" THEN "stdout" ELSE c.out

\* What a run with the results rs writes, and where.
Run(c, rs) ==
    [to |-> output(c),
     text |-> IF c.format = "json" THEN writeJSONReport(c, SummaryOf(rs))
              ELSE writeReport(c, SummaryOf(rs))]

-----------------------------------------------------------------------------
(* Properties. *)

\* The summary as a reader takes it from the report for people: "zero means
\* no valid samples, in which case the other fields are zero" (summary.go:
\* 11-13), "the report renders that as n/a" (summary.go:93-94).
HumanReading(h) ==
    LET Stats(block) == IF block = NA THEN computeLatencyStats(<< >>) ELSE block[1]
        Quotient(q) == IF q = NA THEN Zero ELSE q[1]
    IN  [count |-> h.count, errorCount |-> h.errorCount, elapsed |-> h.elapsed,
         throughput |-> h.throughput,
         total |-> Stats(h.total), server |-> Stats(h.server),
         network |-> Stats(h.network), upstream |-> Stats(h.upstream),
         backends |-> [i \in 1..Len(h.backends) |->
                          [h.backends[i] EXCEPT !.key = IF @ = Unknown THEN 0 ELSE @]],
         skew |-> [count |-> Quotient(h.skew.count), p99 |-> Quotient(h.skew.p99)],
         errors |-> h.errors]

\* Both formats tell the same story: what the report for people leaves out as
\* n/a is exactly what the JSON report states to be empty, measured zeros
\* being no n/a, and the labels are the same.
ReportsAgree ==
    \A c \in Config :
        LET h == writeReport(c, Summary)[1]
            j == newJSONReport(c, Summary)
        IN  /\ HumanReading(h) = j.summary
            /\ j.config.labels # << >>
            /\ h.labels = NA <=> j.config.labels = <<{}>>
            /\ h.labels # NA => h.labels = j.config.labels

\* A run whose calls all took no time, or that made none, still ends in a
\* report: no number in it is infinite or undefined, which the JSON encoder
\* would refuse.
Writable ==
    \A c \in Config : Finite(Summary) /\ Run(c, results).text # << >>

\* "UnmarshalJSON accepts both spellings so it can invert any string
\* MarshalJSON produces" (report_json.go:128-129).
ShapesReadBack ==
    \A c \in Config :
        LET text == Run(c, results).text
        IN  c.format = "json" /\ text # << >> =>
              \A i \in 1..Len(c.payload) :
                 UnmarshalShape(text[1].config.payload[i]) = <<c.payload[i]>>

\* The same results if the codec had shrunk nothing.
Unshrunk(rs) ==
    LET Plain(bytes) == [d \in DOMAIN bytes |->
                            [bytes[d] EXCEPT !.wire = bytes[d].length]]
    IN  [i \in 1..Len(rs) |-> [rs[i] EXCEPT !.bytes = Plain(@)]]

\* "The summary's compression-effectiveness rows report bytes-on-wire vs
\* uncompressed for each direction" (docs/bench-local.md:38-39): a report
\* tells a run whose messages were shrunk from one whose were not.
CompressionShown ==
    \A c \in Config :
        Unshrunk(results) # results => Run(c, results) # Run(c, Unshrunk(results))
=============================================================================
