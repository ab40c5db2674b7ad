# netdebug: models, checks and proofs

This directory holds TLA+ models of [ripta/netdebug](../src), a command with
four tools: a gRPC load generator (`bench`), an HTTP and gRPC echo server
(`echo`), a TCP listener and a TCP sender (`listen`, `send`), and a DNS query
(`dns`). TLC checks small instances, and TLAPS proves every safety property that
the passing runs check for every instance. `PROJECT.json` lists the runs, the
mutants that show each property can fail, the lines each definition models, the
hazards, the findings and the theorems.

    tlc -workers 2 -config BenchRun.cfg BenchRun
    tlapm BenchRunProofs.tla

## The system

| Component | State | Operations | Interacts with | What is hard |
|---|---|---|---|---|
| bench run (`pkg/bench/config.go`, `worker.go`, `conn.go`) | run context, connection pool, per worker a source, an acquired connection and a slice of results | `Validate`, `newConnPool`, spawn, `wg.Wait`, concatenate, `pool.Close`; per worker `NewSource`, `Acquire`, `Echo`, record or drop, `release`, `src.Close` | echo servers over gRPC; results go to the aggregator | goroutines without locks, a deadline seen at different moments by gRPC and by the worker, ownership of connections in three models, failure of any step |
| bench aggregation (`aggregator.go`, `result.go`, `summary.go`) | none; a function of the results | `aggregate` and its parts | results of the run, names sent by the echo servers | buckets in maps, ties, ranks, rows without a successful call |
| payload mix (`payload.go`) | the flag's mix, the run's selector | `Set`, `String`, `NewPayloadSelector`, `Pick`, `BuildEchoRequest` | command line, workers | integer boundaries, what `Validate` lets through |
| byte counts (`compression.go`) | four atomic counters per call | `HandleRPC` | grpc-go's stats callbacks | which goroutine calls, retries |
| bench reports (`report.go`, `report_json.go`) | none | `Config.Run`, `writeReport`, `writeJSONReport`, the shapes' marshaller | the summary, programs that read the JSON | what is missing against what is zero, numbers the encoder refuses, spellings that must be read back |
| echo server life (`pkg/echo/echo.go`) | TLS paths and directory, signal context, two goroutines, the `http.Server` | `Run`, `setupTLSAutogen`, `serve` | signals, net/http, clients | shutdown against start-up, streams that do not end, partial failure while keys are on disk |
| echo handlers (`echo.go`, `echo/v1/server.go`, `echo/result`, `echo/extensions`) | none | HTTP text and JSON, `Echo`, `Status`, `healthz`, verification of a token | the bench run, a key server | dispatch by path, mode and content type; which context a request runs under, and which its extension does |
| certificates (`cert_ca.go`) | none | generate a CA and a server certificate | `setupTLSAutogen` | either may fail half-way |
| TCP listener (`pkg/listen`) | published listener, watcher, a handler per connection | `Run`, `Addr`, `handle` | senders over TCP, readers of `Addr` | cancellation, descriptor exhaustion, deadline against a slow sender |
| TCP sender (`pkg/send`) | one connection | `Run` | the listener | it cannot be cancelled, and it learns nothing of the receiver |
| DNS query (`pkg/dns`) | none | `Run` | a DNS server | - |
| command line (`cmd`, `pkg/app`) | flag values | wiring | all | - |

What makes each part correct:

* **bench run.** A call runs on an open connection, which it shares with the calls
  its model says and no others; connections are closed once and none is left open; every attempt is in the report once, or was its
  worker's last; the report is complete when it is read; the run ends.
* **aggregation.** The breakdowns add up to the totals; the report is a
  function of the set of results and not of their order; percentiles are
  percentiles; the elapsed time spans the calls of all workers; a ratio exists
  exactly when two rows qualify; rows are backends.
* **reports.** Both formats say the same; every run ends in a report; what is
  written can be read back; what was measured is shown.
* **payload mix.** Printing and parsing are inverse; a shape is drawn in
  proportion to its weight; what `Validate` accepts can be drawn from; requests and
  responses have the sizes that the flags ask for.
* **echo server.** On every way out of `Run`, and not before, the private keys
  are cleaned up (`os.RemoveAll` may fail: that is logged, `Run` returns all the
  same, and the keys stay on disk); the certificates are there when they are read;
  after `Run` nothing is left running; a signal ends it, provided that the key
  server answers.
* **listener and sender.** A payload is logged whole or not at all; an address
  that is published listens; cancelling ends `Run` and nothing else does; handlers
  end, and the watcher does.

## The modules

### BenchRun, BenchReport

`BenchRun` is the core. `phase` is the control of `Config.run`, `pc[w]` that
of the goroutine of worker `w`, with one label per point where another
goroutine can matter: between the look at `ctx.Err()` and `Acquire`
(`acquire`), during `Echo` (`calling`), between its return and the second look
at the context (`answered`), and between `doCall` and `release` (`recorded`,
`dropped`). `conn` lists every connection the run has dialed with its state,
`src`, `held` and `pool` hold numbers in that list. The three connection
models are one field of the configuration; the actions follow the methods of
the pool and source types.

The run context has three states: `live`; `lapsed`, when the deadline has
passed and gRPC may already fail calls but `ctx.Err()` is still nil; `done`.
`Echo` may return a success, a failure, or a Canceled/DeadlineExceeded at any
time: the last can come from the context, from the server or from a proxy,
and `doCall` cannot tell them apart. On a closed connection only Canceled is
possible, as grpc-go does it. Four history variables hold what the properties speak
of and influence nothing: `attempts`, `drops` and `late` count, and `echoes`
records which call was issued on which connection.

`BenchReport` is the abstract specification: logs of numbered entries, workers
that stop, and one report with all logs. `BenchRun` implements it under the
mapping at its end: a worker has stopped once it has dropped a call or left
its loop, and the report appears when the last worker's results are appended.

### Aggregate, Report

`Aggregate` has `aggregator.go`, function by function under the same names, over
results built as `doCall` builds them. `setting` says which servers have a pod
name, an empty one or none, if a sidecar is in front, how many workers there
are, which pauses precede a call and which replies can arrive. `recorded` is the
`results` slice of each worker; the one action records the next call of a
worker, so that an invariant is a statement about every sequence of calls up to
the bound. `results` is the concatenation that `run` makes, which is not in
the order of time, and `elapsed` takes the earliest start and the latest end
from it. Byte counts are folded from the messages gRPC tells the stats
handler of, one more for each retry. Names are numbers in disjoint ranges;
durations are whole units; a quotient (throughput, percentage, skew) is the pair
of its terms. A sample is a function on the places of its results, and sorting
is by rank (`Ranked`: the k-th of a set is the one that has k - 1 before it), which
is what both the code's sorts of a slice and its sorts with a tie-break give;
where the code counts into maps the model has the sets of places that share a
key, a code or a message. Ranks are computed with integers: for 50, 90 and 99 the code's
floating-point `Ceil(p / 100 * n)` is the same number (compared for every n up
to two million).

`Report` extends it with `Config.Run` and the two writers. A block that may
read `n/a` is a sequence that is empty for `n/a`; `HumanReading` is how the
documentation says that such a block is to be read. A shape is written with
its flag spelling, its protocol name or, outside the enum, its number. The JSON
encoder refuses a quotient that divides by zero.

### PayloadMix

The `--payload` flag from its text to a drawn shape, and from there to the
request and the response. A text is the sequence of its tokens, a token its name
and what follows each colon. `Wrap` is the arithmetic of Go's int with a small
largest value, `IntMax`: for the sums of weights, and for the four bytes that a
dimension of an embedding takes, which `make` refuses when negative.
`NewPayloadSelector` is its loop, one `AddEntry` after the other, and
`SearchInts` the binary search of the library, because the array is not sorted
once a sum has wrapped.

### EchoServe

The echo command's `Configure`, then `Run`, `setupTLSAutogen` and `serve`, with
`run`, `stopper` and `server` the controls of `Run` and its two goroutines and
`wg` their `WaitGroup`. Each of the six steps of `setupTLSAutogen` after the
directory (`SetupSteps`: two certificates, four files) is an action of its own
and may fail. Of net/http the module has what `serve` depends on: `Shutdown`
marks the server, closes the listener, closes idle connections and waits for
active ones without limit; `ListenAndServe` looks at the mark on entry and
again when it registers its listener. Between the two the address is bound
(`Bind`), then the key pair is loaded (`Load`), then the listener is registered
(`Track`): a signal in that time finds a listener that `Shutdown` does not know,
and the second look closes it. `cleanup` removes the directory or fails to.

`Route` is the dispatch of a request: `healthz` and `favicon.ico` have handlers
of their own, the mode and the content type choose between the echo handler and
gRPC. A request that carries a token is `verifying` until the key server
answers; the extension asks it on a background context, so that neither the
signal nor the client's leaving (`gone`) ends that. Once a handler runs, what
gRPC serves ends with the signal or with its client, because `BaseContext` hands
the signal's context to every request; the other handlers never look at it. Once
`Shutdown` has begun a connection closes after its request instead of being
kept.

### Tcp, ListenServer, SendListen

`Tcp` is external: a listening socket with its backlog, and per client a
buffer of `Buffer` chunks. `ListenServer` extends it with `Run`, the watcher
and the handlers; `listener` is the field that `Addr` reads under the lock.
`SendListen` adds the clients and composes everything. A write to an end that
is gone is lost and may or may not fail. `l.Close()` is two steps, as in Go: it
marks the listener (`MarkClosed`), and every `Accept` fails from then on; the
descriptor goes with its last reference (`CloseSocket`), which an `Accept` under
way holds, and only then does `l.Close()` return. So `Run` may return while its
watcher is still closing. `Watch` is the select with both its cases; that the
second, `<-stopped`, is never ready first is part of `OnlyCancelEnds`, and that
watcher and socket are gone in the end is `WatcherEnds`.

`MCAggregate` and `MCPayloadMix` hold the constants of the runs. The modules
`BenchRunProofs`, `BenchReportProofs`, `PayloadMixProofs`, `AggregateProofs`,
`ReportProofs`, `EchoServeProofs` and `SendListenProofs` extend the modules they are
about with theorems. `DataLemmas` has what several of them need of finite data:
sums over a set, induction up to a number and over a finite set.

## The runs

| Run | Bounds | States | Shows |
|---|---|---|---|
| `bench_run` | 2 workers, 2 attempts each | 120,930 | which connection a call is made on, ownership of connections, accounting of calls, refinement of `BenchReport`, the run returns |
| `aggregate` | 4 mixed results of 9 kinds; 3 of them behind a sidecar; 5 failures of 6 kinds; 10 successes of 2 durations; 2 workers with 3 results and pauses | 20,564 | sums, independence of order, untimed errors, ratios, listed messages, percentiles, rows of named servers, elapsed time, both formats agree, every report can be written |
| `payload_mix` | texts of up to 3 tokens, `IntMax` 7, dimensions from -1 to 4 | 5,700 | round trip, proportions, sizes of requests and responses, panics only where an int overflows |
| `echo_serve` | 2 connections, 2 requests each | 197,082 | clean-up of keys, quiescence, shutdown, termination |
| `send_listen` | 2 clients, 2 chunks, 1 descriptor, buffer 1 | 295,562 | whole payloads, the published address, termination of `Run`, its watcher and the handlers, backlog |

Why these are enough to be worth running: two workers are what it takes for
one to close what another uses, for one to end early, and for the deadline to
fall between the two; the second attempt is what distinguishes a first call
from a repeated one, and a call after a drop from none. `Aggregate` picks one
of five settings at the start, each bounded for what it is about: four results
allow two tied rows of two, and five failures three listed messages, one left
out and one tie; ten is the first size at which p50, p90 and p99 have three ranks. Two workers with pauses are what it takes for the
last result of the list not to be the last in time. With `IntMax` 7, weights 0,
1, 3 and 7 give sums below, at and beyond the limit, and four times a dimension
of 1, 2 and 4 is an int, a negative one and zero. Two connections let one hang in
its verification while the other serves, and the second request tells a
connection that is kept from one that is not. One descriptor and two clients make `Accept` fail
while a connection waits; a buffer of one chunk makes a sender block.

`CHECK_DEADLOCK FALSE` is set where the system really stops: a summary at its
bound, a payload without further flags, a server that has returned. A bench run
is checked for deadlock; `Terminated` is its only end.

The runs that expect a violation each state what a document says:

* `bench_drop`: a call is dropped only at the end of the run. A backend's own
  Canceled or DeadlineExceeded is dropped too, and its worker stops.
* `aggregate_unnamed`: servers that answer are told apart. Without `POD_NAME`
  they all send the same placeholder, and the fallback to hostnames never runs.
* `aggregate_source`: behind a sidecar rows come from the peer address. They
  come from the pod name.
* `aggregate_split`: one server has no skew. Its failures make a second row.
* `report_bytes`: the report says how much compression saved. The counters are
  collected for every call and shown in neither format.
* `report_shapes`: every shape that is written can be read back. One outside
  the enum is written as a number, which the reader refuses.
* `payload_large`: a validated mix can be drawn from. Two large weights
  overflow, and the worker panics.

### Fairness

* `BenchRun`: goroutines that can run do (weak fairness of main and of each
  worker outside `Echo`); the timer of `WithTimeout` fires; gRPC ends a call
  once its context is done. Nothing is assumed of callers and backends.
* `EchoServe`: its goroutines run, and handlers other than `Watch` complete.
  They block on nothing but their client, which is assumed to send the body that
  it announced and to read its response: net/http reads what is left of the body
  when a handler ends, gRPC before one starts. Nothing is owed by the key server: `SignalEndsRun`
  has as its premise that no verification hangs forever, because one that does
  keeps `Shutdown`, and with it `Run`, waiting.
* `SendListen`: the server's goroutines run (`Run`, the watcher, which includes
  the kernel's part of `l.Close()`, and each handler with its read deadline), and a sender that has decided to close does. That a reader
  yields data or ends is not assumed.

## Proofs

`BenchRunProofs` and `BenchReportProofs` prove, for every number of workers and
every bound on attempts (`ConcurrencyAssumption`, `MaxCallsAssumption`):

* `TypeCorrect`: `Spec => []TypeOK`.
* `ConnectionsOwned`: `Spec => []ConnInv`. `CallsUseOpenConn` and
  `NothingLeaks` are not inductive: that a worker's connection is open says
  nothing of who else may close it. `ConnInv` adds which goroutines exist in
  which phase (`PhaseControl`), what the shared connection is in each phase
  (`SharedConn`), what each worker has in hand at each label (`InHand`), that
  open connections and owners correspond one to one (`OneOwner`), and that none
  is closed twice (`ClosedOnce`). Two lemmas carry the argument: an owner of
  nothing that dials (`OwnDialed`), and an owner that closes (`OwnClosed`).
* `CallsOnOpenConn` and `NoneLeaked` follow from `ConnInv`.
* `CallsAccounted` and `LateBounded` (`Accounted`, `OneLateAttempt`), by
  `CallInv`, which adds that a worker that has dropped is past its loop and that
  one which started late is not about to start again. It is proved for one
  worker (`WorkerCallInv`) and carried to the others by `WorkersApart`.
* `DropEndsWorker` and `SuccessesAreRecorded`: the action properties
  `DropIsLast` and `SuccessRecorded` from the same invariants.
* `DialsAsAsked` (`Dialing`): under per-worker there are no more connections
  than workers that have been through `NewSource` (`DialInv`), and under shared
  the pool's is the only one. Which calls are made on one connection is `EchoInv`:
  what has been issued, and where, is of an attempt that has been started
  (`EchoesIssued`); under per-worker it is on the connection of the worker's
  source (`EchoesByOwner`); under per-request each connection was dialed for one
  call (`EchoesAlone`).
* `RunKeepsPromise`: `Spec => ReportPromise`, the refinement of `BenchReport`.
  `ReportInv` says that the report so far lists exactly the results of the
  workers below `next`, in order (`Listed`; `CollectListed` is its one hard
  step), and that it is empty until main collects (`Gathering`). Then a worker's
  step is a `Log`, a `Stop` or a stutter (`WorkerRefines`, where `CallInv` gives
  the number of the entry), and the last `Collect` is `Publish`.

`PayloadMixProofs` proves every invariant of `PayloadMix`, for every set of shapes,
names, texts and sizes and every largest int:

* `FlagsSetMixes` (`MixOK`): flags set only mixes with each shape once and weights
  that are ints. `StringReadsBack` (`RoundTrip`): printing and parsing are inverse
  on those.
* `PicksAreOfTheMix`: `PickInv`, the inductive invariant. While a run goes on its
  mix is one that `Validate` accepts, the selector is the one that
  `NewPayloadSelector` makes of it, and the last request is of a shape of the
  mix. What follows is then about the functions. `ValidMixHasSelector`
  (`SelectorExists`, which no run checks by itself because `PanicsBeyondInt` fails
  without it): a positive weight appends a shape, whatever the sums do.
* `DrawnInProportion` (`Proportional`), under no other condition than its own that
  the weights add up to an int. Then no sum wraps, the array is strictly
  increasing and ends with the total (`SelectorExact`), the binary search returns
  the first index that is not below (`SearchFinds`), so the draws of one shape are
  the interval between two sums (`DrawsAsWeighted`).
* `RequestsHaveSizes` (`RequestSizes`), by cases over the shapes; its condition is that
  the bytes of an embedding fit an int.
* `PanicsOnlyBeyondInt` (`PanicsBeyondInt`): if the weights add up to an int and the
  bytes of an embedding are one, there is something to draw (`ValidMixDraws`) and
  every request can be made. Beyond that `Validate` still accepts both:
  `payload_large` is the counterexample for the weights, and a dimension whose bytes
  wrap gives a payload that is short, or a length that `make` refuses.

`AggregateProofs` proves every invariant of `Aggregate` that a passing run checks,
for every setting and any number of workers and results. The invariant of the
system is small: `RecordedInv`, that the workers record results of `doCall` and
nothing else, and `PacedInv`, that the calls of one worker took no longer than from its first
start to its last end. The work is in what `aggregate` makes of a
sequence of results, any sequence (`IsRun`):

* `RankedElements`: `Ranked` lists a set once, in the order it is given, if that is
  a strict total order (`IsOrder`). A list of the summary is an `IsTable`: one row
  for each of a finite set of classes. `TableOrder` and `TableCounts` say that
  the ranked table has every row once and that its counts sum to the size of
  what is classified; `RowsAreTable`, `CodesAreTable` and `MessagesAreTable` that
  the three lists are tables. Hence `EveryCallCounted` (`CountsAddUp`) and
  `TopMessagesKept` (`TopMessagesAreTop`).
* `SortedRanks`: the value at rank k of a sorted sample has at most k - 1 of it
  below and at least k at or below (`AtRank`). Hence `PercentilesAreNearestRank`
  (`LatenciesRight`) by the arithmetic of the rank; the mean by bounds of a sum.
* `RowFacts`: a row has a successful sample exactly when it counts more than its
  errors, and its p99 is then one of those durations. Hence `SkewOfTwoRows`
  (`SkewDefined`), provided that a successful call takes time. The code supposes
  so when it takes a p99 of zero for "no sample"; with a call of no duration
  the p99 ratio would leave out its row.
* `AnsweringServersAreRows` (`BackendsToldApart`), provided that of two servers that
  answer at most one lacks `POD_NAME`. Without that proviso it is false:
  `aggregate_unnamed` is the counterexample.
* `Alike(qs, rs, h)`: a bijection h of the places takes one sequence to the other,
  as far as the summary looks at them. Corresponding samples are the same when
  sorted, because a rank determines a value (`RankOrder`); corresponding buckets
  have the same size; so, for one elapsed time, the summary is the same
  (`AlikeSummary`). For results in another order, whose elapsed time is the same
  (`SameSummary`), this is `SummaryOfAnyOrder`: `AnyOrder` says so of every
  permutation, and `OrderFree`, which the run checks, of the reversal. With the
  identity and failures that took longer it is `FailuresUntimed` (`ErrorsUntimed`),
  for every part of the summary but `elapsed` and `throughput`: those count the
  end of a failed call as well (config.go:256-271).
* `ElapsedSpansTheCalls` (`ElapsedSpans`): by `PacedInv` the durations of each
  worker's calls add up to at most the span, all its calls are in the
  concatenation (`FlattenHolds`), and so the sum of all is at most workers times
  it (`FlattenDurations`).

`ReportProofs` proves `EveryRunReports` (`Writable`) and `FormatsAgree`
(`ReportsAgree`) for every configuration: an empty sample has a count of zero and
no other has (`StatsRead`), a ratio is `Zero` or of two positive terms
(`SkewTerms`), no key is that of the spelling of the empty one, and no code has
an empty list of messages (`RowsRead`).

`EchoServeProofs` proves every invariant of `EchoServe` for every set of
connections and every bound on requests (`MaxRequestsAssumption`):
`TypeCorrect`, `CleanUpRuns`, `CertsReadable`, `RunLeavesNothing`,
`ShutdownStopsListening` and `OnlySignalsEndServing`. The inductive invariant has
three parts besides the types: `Goroutines` relates the `WaitGroup` to the two
goroutines and to `Run`, `Closing` relates the mark of `Shutdown` to the
listener and the connections, and `Certificates` follows the directory and the
steps of its set-up along the control of `Run`.

`SendListenProofs` proves every invariant of `SendListen` for every set of
clients, descriptor limit, buffer and payload size: `PayloadsWhole`, `AddrIsLive`,
`RunStopsClean` and `RunEndsCancelled`, and the types on which they rest
(`TypeCorrect`, which no run checks). `LoggedWhole`
is not inductive. `Streams` adds that what a client wrote has been read or is
in the buffer as long as the server's end is open, and that only a client that
has finished closes; `Queue`, that a connection waits in the backlog once and
without a handler; `Listening`, how the socket, the published listener and the
watcher go along with the control of `Run`.

Induction over data. The library's induction theorems take an operator as a
parameter, which the installed provers cannot instantiate. `DataLemmas` states
what is needed for a set instead of an operator: a set of numbers that has 0 and is
closed under successor has them all (`NatInduct`, `NatInductUpTo`), and
a set of subsets that has the empty one and is closed under adding an element has
the finite set (`SetInduct`). The first of these rests on the least element of a
set of numbers, from the well-founded order on `Nat`. With them the folds behind
`SumFunction`, the recursion of `FlattenSeq` and the local functions of
`NewPayloadSelector` and `SearchInts` are unfolded (`SumUnfolds`, `FlattenRuns`,
`LoopRuns`, `SearchUnfolds`).

The theorems assume of the constants what the modules state under `ASSUME` and
TLC evaluates: that replies, sizes and texts are such records, that `IntMax` is
positive, that a worker exists, and that labels are nil or one set. Two theorems
have a hypothesis of their own, given above.

Only model-checked: liveness (`RunReturns`, `SignalEndsRun`, `CancelStopsRun`,
`WatcherEnds`, `HandlersEnd`, `BacklogDrains`), which needs fairness and ENABLED. The properties
of the runs that expect a violation are false.

## Not modelled

* Request headers, TLS credentials and the choice of a codec; the standard
  deviation; wording, layout and rounding of both reports.
* What a response says of the request and the process beyond names, server time
  and payload, and the `Status` method: formatting without state.
* The contents of certificates and their expiry, which belong to `crypto/x509`.
* DNS: one blocking exchange of a library, whose answer is printed.
* The command line but for the set-up of the JWT extension: wiring of flags to
  the fields of the components. Generated code.
* A second `Run` of the same echo or listen server: no caller makes one.
* Several requests at once on one HTTP/2 connection: `conn` has one at a time.
  `Shutdown` waits for a connection, so that several requests on one would
  delay it as several connections do.
* Clocks are abstracted to "the deadline may pass now", so no rate is stated:
  the immediate retry of a failing per-request dial and of a failing `Accept`
  are modelled as loops, not as a cost.

## Plan

1. *Core (done).* `BenchReport`, `BenchRun`, their runs and `BenchRunProofs`.
2. *Around the core (done).* `Aggregate`, `PayloadMix` with its proofs,
   `EchoServe`, `Tcp`/`ListenServer`/`SendListen`.
3. *Extensions of the model (done).* `Report`; several workers, elapsed time,
   throughput and byte counts in `Aggregate`; requests and responses in
   `PayloadMix`; modes, dispatch, the JWT extension and the steps of set-up in
   `EchoServe`.
4. *Proofs (done).* The refinement of `BenchReport`, and every invariant and
   action property of the passing runs.
5. *Next.* Which shapes the JSON report reads back, as the positive part of
   `ShapesReadBack`; safety parts of the liveness properties, such as what a
   cancelled run still has to do.
