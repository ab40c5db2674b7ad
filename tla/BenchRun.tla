------------------------------ MODULE BenchRun ------------------------------
(***************************************************************************)
(* One run of the gRPC load generator: Config.run in pkg/bench/config.go,  *)
(* the worker goroutines of worker.go and the connection pools of conn.go. *)
(*                                                                         *)
(* The main goroutine validates the configuration, creates the pool,       *)
(* starts one goroutine per worker, waits for all of them, concatenates    *)
(* their results and closes the pool.  A worker opens its source, then     *)
(* loops: look at the run context, acquire a connection, issue one Echo,   *)
(* record or drop its outcome, release.  The run context ends when the     *)
(* caller cancels it or when the Duration timer fires; a deadline may have *)
(* lapsed for gRPC before ctx.Err() reports it (comment of doCall).        *)
(*                                                                         *)
(* What a reply carries besides its verdict, the payload and the clock are *)
(* abstracted away; Aggregate.tla takes the results from here.             *)
(***************************************************************************)
EXTENDS Integers, Sequences

CONSTANTS
    Concurrency,    \* Config.Concurrency: the number of workers
    MaxCalls        \* bound of the model: attempts a worker may start

ASSUME ConcurrencyAssumption == Concurrency \in Nat \ {0}
ASSUME MaxCallsAssumption == MaxCalls \in Nat

Worker == 1..Concurrency

ConnModel == {"per-worker", "shared", "per-request"}

\* What Echo returns: a response, a failure, or an error with status
\* Canceled or DeadlineExceeded (isCancellation).  The last may be the run's
\* own context or a status that the server or a proxy sent.
Reply == {"ok", "fail", "cancelled"}

\* The results a worker appends: which attempt, and how it ended.
Outcome == {"ok", "fail", "acquire", "source"}
Entry == [by : Worker, call : Nat, out : Outcome]

\* An Echo issued: on which connection, by whom, and as which attempt.
Issued == [on : Nat, by : Worker, call : Nat]

NoConn == 0

VARIABLES
    config,     \* does Validate accept the configuration; its ConnModel
    phase,      \* control of the main goroutine
    ctx,        \* run context: "live", "lapsed" (not yet visible), "done"
    conn,       \* every connection dialed, by number: its state
    pool,       \* sharedPool.conn
    pc,         \* control of each worker
    src,        \* perWorkerSource.conn of each worker
    held,       \* connection the worker acquired and has not released
    reply,      \* what the worker's last Echo returned
    results,    \* worker.results
    report,     \* the results main has concatenated
    next,       \* the worker whose results main appends next
    attempts,   \* history: attempts each worker started
    drops,      \* history: attempts each worker dropped
    late,       \* history: attempts each worker started once ctx was done
    echoes      \* history: the calls issued, each with its connection

mainVars == <<config, phase, pool, report, next>>
workerVars == <<pc, src, held, reply, results, attempts, drops, late, echoes>>
vars == <<config, phase, ctx, conn, pool, pc, src, held, reply, results,
          report, next, attempts, drops, late, echoes>>

Phase == {"start", "pooled", "waiting", "collecting", "returned", "failed"}
Control == {"unborn", "spawned", "loop", "acquire", "calling", "answered",
            "recorded", "dropped", "closing", "done"}
ConnState == {"open", "closed", "closedAgain"}

Init ==
    /\ config \in [valid : BOOLEAN, model : ConnModel]
    /\ phase = "start"
    /\ ctx = "live"
    /\ conn = << >>
    /\ pool = NoConn
    /\ pc = [w \in Worker |-> "unborn"]
    /\ src = [w \in Worker |-> NoConn]
    /\ held = [w \in Worker |-> NoConn]
    /\ reply = [w \in Worker |-> "ok"]
    /\ results = [w \in Worker |-> << >>]
    /\ report = << >>
    /\ next = 1
    /\ attempts = [w \in Worker |-> 0]
    /\ drops = [w \in Worker |-> 0]
    /\ late = [w \in Worker |-> 0]
    /\ echoes = {}

-----------------------------------------------------------------------------
(* Connections.  Dialing creates the next connection; closing one that is  *)
(* already closed is ErrClientConnClosing.                                 *)

Dialed == Append(conn, "open")

Close(c) ==
    [conn EXCEPT ![c] = IF @ = "open" THEN "closed" ELSE "closedAgain"]

\* Mutant: a shared source closes the pool's connection under its siblings.
SourceClosed_ClosesShared(w) ==
    IF config.model = "shared" THEN Close(pool)
    ELSE IF src[w] = NoConn THEN conn ELSE Close(src[w])

\* ConnSource.Close of worker w: only a per-worker source owns a connection.
SourceClosed(w) == IF src[w] = NoConn THEN conn ELSE Close(src[w])

\* Mutant: the release of a per-request connection is forgotten.
Released_Never(w) == conn

\* The ReleaseFunc: a no-op except for a per-request source.
Released(w) ==
    IF config.model = "per-request" THEN Close(held[w]) ELSE conn

\* pool.Close: only the shared pool owns a connection.
PoolClosed == IF pool = NoConn THEN conn ELSE Close(pool)

-----------------------------------------------------------------------------
(* The run context. *)

\* The caller cancels its context, at any time.
Cancel ==
    /\ ctx # "done"
    /\ ctx' = "done"
    /\ UNCHANGED <<mainVars, workerVars, conn>>

\* Duration elapses on the wire: gRPC may fail calls, ctx.Err() is still nil.
DeadlineLapses ==
    /\ ctx = "live"
    /\ phase \in {"waiting", "collecting"}
    /\ ctx' = "lapsed"
    /\ UNCHANGED <<mainVars, workerVars, conn>>

\* The timer of context.WithTimeout fires: ctx.Err() is non-nil from now on.
DeadlineObserved ==
    /\ ctx = "lapsed"
    /\ ctx' = "done"
    /\ UNCHANGED <<mainVars, workerVars, conn>>

-----------------------------------------------------------------------------
(* The main goroutine: Config.run. *)

\* Validate refuses the configuration.
Reject ==
    /\ phase = "start"
    /\ ~ config.valid
    /\ phase' = "failed"
    /\ UNCHANGED <<config, pool, report, next, ctx, conn, workerVars>>

\* newConnPool: the shared pool dials at once, the others later.
OpenPool ==
    /\ phase = "start"
    /\ config.valid
    /\ phase' = "pooled"
    /\ IF config.model = "shared"
       THEN conn' = Dialed /\ pool' = Len(conn) + 1
       ELSE UNCHANGED <<conn, pool>>
    /\ UNCHANGED <<config, report, next, ctx, workerVars>>

\* newConnPool returns the dial error of the shared pool.
OpenPoolFails ==
    /\ phase = "start"
    /\ config.valid
    /\ config.model = "shared"
    /\ phase' = "failed"
    /\ UNCHANGED <<config, pool, report, next, ctx, conn, workerVars>>

\* Mutant: the results are collected from index 0 on.
Spawn_FromZero ==
    /\ phase = "pooled"
    /\ phase' = "waiting"
    /\ pc' = [w \in Worker |-> "spawned"]
    /\ next' = 0
    /\ UNCHANGED <<config, pool, report, ctx, conn, src, held, reply,
                   results, attempts, drops, late, echoes>>

\* WithTimeout, then one goroutine per worker; main goes on to wg.Wait.
Spawn ==
    /\ phase = "pooled"
    /\ phase' = "waiting"
    /\ pc' = [w \in Worker |-> "spawned"]
    /\ UNCHANGED <<config, pool, report, next, ctx, conn, src, held, reply,
                   results, attempts, drops, late, echoes>>

\* Mutant: main waits for one wg.Done instead of all of them.
Join_First ==
    /\ phase = "waiting"
    /\ \E w \in Worker : pc[w] = "done"
    /\ phase' = "collecting"
    /\ UNCHANGED <<config, pool, report, next, ctx, conn, workerVars>>

\* wg.Wait returns: every worker has called wg.Done.
Join ==
    /\ phase = "waiting"
    /\ \A w \in Worker : pc[w] = "done"
    /\ phase' = "collecting"
    /\ UNCHANGED <<config, pool, report, next, ctx, conn, workerVars>>

\* results = append(results, w.results...), one worker after the other.
Collect ==
    /\ phase = "collecting"
    /\ next <= Concurrency
    /\ report' = report \o results[next]
    /\ next' = next + 1
    /\ UNCHANGED <<config, phase, pool, ctx, conn, workerVars>>

\* aggregate, then the deferred calls: cancel(), and after it pool.Close().
Return ==
    /\ phase = "collecting"
    /\ next > Concurrency
    /\ phase' = "returned"
    /\ ctx' = "done"
    /\ conn' = PoolClosed
    /\ UNCHANGED <<config, pool, report, next, workerVars>>

-----------------------------------------------------------------------------
(* A worker goroutine: worker.run and worker.doCall. *)

Goto(w, label) == pc' = [pc EXCEPT ![w] = label]

\* Starting an attempt; the history variables notice one begun after ctx.
Attempt(w) ==
    /\ attempts' = [attempts EXCEPT ![w] = @ + 1]
    /\ late' = IF ctx = "done" THEN [late EXCEPT ![w] = @ + 1] ELSE late

\* w.results = append(w.results, ...), for attempt number k.
Append1(w, k, out) ==
    results' = [results EXCEPT
                  ![w] = Append(@, [by |-> w, call |-> k, out |-> out])]

\* pool.NewSource(): a per-worker source dials, the others hold nothing.
OpenSource(w) ==
    /\ pc[w] = "spawned"
    /\ Goto(w, "loop")
    /\ IF config.model = "per-worker"
       THEN conn' = Dialed /\ src' = [src EXCEPT ![w] = Len(conn) + 1]
       ELSE UNCHANGED <<conn, src>>
    /\ UNCHANGED <<mainVars, ctx, held, reply, results, attempts, drops, late, echoes>>

\* Mutant: the early return skips wg.Done.
OpenSourceFails_NoDone(w) ==
    /\ pc[w] = "spawned"
    /\ config.model = "per-worker"
    /\ Goto(w, "unborn")
    /\ Append1(w, 1, "source")
    /\ attempts' = [attempts EXCEPT ![w] = 1]
    /\ UNCHANGED <<mainVars, ctx, conn, src, held, reply, drops, late, echoes>>

\* The dial of a per-worker source fails: one result, and no src.Close.
OpenSourceFails(w) ==
    /\ pc[w] = "spawned"
    /\ config.model = "per-worker"
    /\ Goto(w, "done")
    /\ Append1(w, 1, "source")
    /\ attempts' = [attempts EXCEPT ![w] = 1]
    /\ UNCHANGED <<mainVars, ctx, conn, src, held, reply, drops, late, echoes>>

\* Mutant: the loop does not look at the context.
EnterLoop_Blind(w) ==
    /\ pc[w] = "loop"
    /\ attempts[w] < MaxCalls
    /\ Goto(w, "acquire")
    /\ UNCHANGED <<mainVars, ctx, conn, src, held, reply, results, attempts,
                   drops, late, echoes>>

\* for ctx.Err() == nil: the context is read here, the call comes later.
EnterLoop(w) ==
    /\ pc[w] = "loop"
    /\ ctx # "done"
    /\ attempts[w] < MaxCalls
    /\ Goto(w, "acquire")
    /\ UNCHANGED <<mainVars, ctx, conn, src, held, reply, results, attempts,
                   drops, late, echoes>>

\* ctx.Err() is non-nil: run returns, src.Close is deferred.
LeaveLoop(w) ==
    /\ pc[w] = "loop"
    /\ ctx = "done"
    /\ Goto(w, "closing")
    /\ UNCHANGED <<mainVars, ctx, conn, src, held, reply, results, attempts,
                   drops, late, echoes>>

\* What the attempt that worker w starts now is issued on.
EchoOn(w, c) == echoes' = echoes \cup {[on |-> c, by |-> w, call |-> attempts[w] + 1]}

\* Mutant: a per-request source keeps the connection it has dialed.
Acquire_Reuses(w) ==
    /\ pc[w] = "acquire"
    /\ Goto(w, "calling")
    /\ Attempt(w)
    /\ \/ /\ src[w] # NoConn \/ config.model = "shared"
          /\ held' = [held EXCEPT ![w] = IF config.model = "shared" THEN pool ELSE src[w]]
          /\ UNCHANGED <<conn, src>>
       \/ /\ src[w] = NoConn /\ config.model = "per-request"
          /\ held' = [held EXCEPT ![w] = Len(conn) + 1]
          /\ src' = [src EXCEPT ![w] = Len(conn) + 1]
          /\ conn' = Dialed
    /\ EchoOn(w, held'[w])
    /\ UNCHANGED <<mainVars, ctx, reply, results, drops>>

\* src.Acquire gives a connection and doCall issues client.Echo on it.
Acquire(w) ==
    /\ pc[w] = "acquire"
    /\ Goto(w, "calling")
    /\ Attempt(w)
    /\ \/ /\ config.model = "per-worker"
          /\ held' = [held EXCEPT ![w] = src[w]]
          /\ conn' = conn
       \/ /\ config.model = "shared"
          /\ held' = [held EXCEPT ![w] = pool]
          /\ conn' = conn
       \/ /\ config.model = "per-request"
          /\ held' = [held EXCEPT ![w] = Len(conn) + 1]
          /\ conn' = Dialed
    /\ EchoOn(w, held'[w])
    /\ UNCHANGED <<mainVars, ctx, src, reply, results, drops>>

\* Acquire fails while ctx.Err() is nil: a result, and around again.
AcquireFails(w) ==
    /\ pc[w] = "acquire"
    /\ config.model = "per-request"
    /\ ctx # "done"
    /\ Goto(w, "loop")
    /\ Attempt(w)
    /\ Append1(w, attempts[w] + 1, "acquire")
    /\ UNCHANGED <<mainVars, ctx, conn, src, held, reply, drops, echoes>>

\* Acquire fails once ctx.Err() is non-nil: return without a result.
AcquireAbandoned(w) ==
    /\ pc[w] = "acquire"
    /\ config.model = "per-request"
    /\ ctx = "done"
    /\ Goto(w, "closing")
    /\ UNCHANGED <<mainVars, ctx, conn, src, held, reply, results, attempts,
                   drops, late, echoes>>

\* Echo returns.  On a closed connection grpc-go answers ErrClientConnClosing,
\* whose code is Canceled; otherwise the backend and the network decide.
Answer(w) ==
    /\ pc[w] = "calling"
    /\ Goto(w, "answered")
    /\ \E r \in IF conn[held[w]] = "open" THEN Reply ELSE {"cancelled"} :
          reply' = [reply EXCEPT ![w] = r]
    /\ UNCHANGED <<mainVars, ctx, conn, src, held, results, attempts, drops,
                   late, echoes>>

\* Mutant: any reply that finds the context done is dropped, a success too.
IsDropped_Successes(w) == ctx = "done" \/ reply[w] = "cancelled"

\* err != nil && (ctx.Err() != nil || isCancellation(err)), with the context
\* read after Echo has returned.
IsDropped(w) ==
    /\ reply[w] # "ok"
    /\ ctx = "done" \/ reply[w] = "cancelled"

\* doCall records the outcome and returns false.
Record(w) ==
    /\ pc[w] = "answered"
    /\ ~ IsDropped(w)
    /\ Goto(w, "recorded")
    /\ Append1(w, attempts[w], reply[w])
    /\ UNCHANGED <<mainVars, ctx, conn, src, held, reply, attempts, drops,
                   late, echoes>>

\* Mutant: a call is recorded and then dropped as well.
Drop_AlsoRecords(w) ==
    /\ pc[w] = "answered"
    /\ IsDropped(w)
    /\ Goto(w, "dropped")
    /\ Append1(w, attempts[w], "fail")
    /\ drops' = [drops EXCEPT ![w] = @ + 1]
    /\ UNCHANGED <<mainVars, ctx, conn, src, held, reply, attempts, late, echoes>>

\* doCall returns true: no result, and the worker will stop.
Drop(w) ==
    /\ pc[w] = "answered"
    /\ IsDropped(w)
    /\ Goto(w, "dropped")
    /\ drops' = [drops EXCEPT ![w] = @ + 1]
    /\ UNCHANGED <<mainVars, ctx, conn, src, held, reply, results, attempts,
                   late, echoes>>

\* Mutant: run ignores what doCall returned and loops again.
Release_Loops(w) ==
    /\ pc[w] \in {"recorded", "dropped"}
    /\ Goto(w, "loop")
    /\ conn' = Released(w)
    /\ held' = [held EXCEPT ![w] = NoConn]
    /\ UNCHANGED <<mainVars, ctx, src, reply, results, attempts, drops, late, echoes>>

\* release(), then return if the call was dropped, else around the loop.
Release(w) ==
    /\ pc[w] \in {"recorded", "dropped"}
    /\ Goto(w, IF pc[w] = "dropped" THEN "closing" ELSE "loop")
    /\ conn' = Released(w)
    /\ held' = [held EXCEPT ![w] = NoConn]
    /\ UNCHANGED <<mainVars, ctx, src, reply, results, attempts, drops, late, echoes>>

\* The deferred src.Close(), and then wg.Done().
CloseSource(w) ==
    /\ pc[w] = "closing"
    /\ Goto(w, "done")
    /\ conn' = SourceClosed(w)
    /\ src' = [src EXCEPT ![w] = NoConn]
    /\ UNCHANGED <<mainVars, ctx, held, reply, results, attempts, drops, late, echoes>>

-----------------------------------------------------------------------------

Main == Reject \/ OpenPool \/ OpenPoolFails \/ Spawn \/ Join \/ Collect \/ Return

WorkerStep(w) ==
    \/ OpenSource(w) \/ OpenSourceFails(w)
    \/ EnterLoop(w) \/ LeaveLoop(w)
    \/ Acquire(w) \/ AcquireFails(w) \/ AcquireAbandoned(w)
    \/ Answer(w)
    \/ Record(w) \/ Drop(w)
    \/ Release(w) \/ CloseSource(w)

\* The run is over: the process goes on to the report.
Terminated == phase \in {"returned", "failed"} /\ UNCHANGED vars

Next ==
    \/ Cancel \/ DeadlineLapses \/ DeadlineObserved
    \/ Main
    \/ \E w \in Worker : WorkerStep(w)
    \/ Terminated

Spec == Init /\ [][Next]_vars

\* Statements of a worker that never block: the Go scheduler runs them.
Local(w) == pc[w] # "calling" /\ WorkerStep(w)

\* gRPC ends an RPC once its context is done; before that nothing is owed.
AnswerAfterDone(w) == ctx = "done" /\ Answer(w)

\* The scheduler runs goroutines that can run, the timer of WithTimeout
\* fires, and gRPC honours the context of a call.  Nothing says the caller
\* cancels or that a backend ever answers.
Fairness ==
    /\ WF_vars(Main)
    /\ WF_vars(DeadlineLapses)
    /\ WF_vars(DeadlineObserved)
    /\ \A w \in Worker : WF_vars(Local(w)) /\ WF_vars(AnswerAfterDone(w))

FairSpec == Spec /\ Fairness
-----------------------------------------------------------------------------
(* Properties. *)

\* The types of the variables.
TypeOK ==
    /\ config \in [valid : BOOLEAN, model : ConnModel]
    /\ phase \in Phase
    /\ ctx \in {"live", "lapsed", "done"}
    /\ conn \in Seq(ConnState)
    /\ pool \in 0..Len(conn)
    /\ pc \in [Worker -> Control]
    /\ src \in [Worker -> 0..Len(conn)]
    /\ held \in [Worker -> 0..Len(conn)]
    /\ reply \in [Worker -> Reply]
    /\ results \in [Worker -> Seq(Entry)]
    /\ report \in Seq(Entry)
    /\ next \in 1..(Concurrency + 1)
    /\ attempts \in [Worker -> Nat]
    /\ drops \in [Worker -> Nat]
    /\ late \in [Worker -> Nat]
    /\ echoes \subseteq Issued

\* While an Echo is in flight or being classified its connection is open:
\* neither a sibling's Close nor pool.Close comes before the release.  On a
\* closed one Echo fails with Canceled, which doCall takes for the end of the
\* run and drops without a trace.
CallsUseOpenConn ==
    \A w \in Worker : pc[w] \in {"calling", "answered", "recorded", "dropped"} =>
        conn[held[w]] = "open"

\* No connection is closed twice: a part of ConnInv.
ClosedOnce == \A c \in 1..Len(conn) : conn[c] # "closedAgain"

\* When run has returned every connection it dialed has been closed exactly
\* once, whichever of release, src.Close and pool.Close its model closes it
\* with and whichever way its worker stopped.
NothingLeaks ==
    phase \in {"returned", "failed"} =>
        \A c \in 1..Len(conn) : conn[c] = "closed"

\* The connection that worker w must close, if any: the per-worker one from
\* NewSource to src.Close, the per-request one from Acquire to release.
Owned(w) == IF config.model = "per-request" THEN held[w] ELSE src[w]

InCall == {"calling", "answered", "recorded", "dropped"}
Sourced == {"loop", "acquire", "closing"} \cup InCall

\* Which goroutines exist in which phase of main.
PhaseControl ==
    /\ phase \in {"start", "pooled", "failed"} =>
          /\ \A w \in Worker : pc[w] = "unborn"
          /\ config.model # "shared" => conn = << >>
    /\ phase = "waiting" => \A w \in Worker : pc[w] # "unborn"
    /\ phase \in {"collecting", "returned"} => \A w \in Worker : pc[w] = "done"

\* The shared pool's connection: dialed by main, closed by main, and no one
\* else dials.
SharedConn ==
    /\ config.model # "shared" \/ phase \in {"start", "failed"} => pool = NoConn
    /\ config.model = "shared" =>
          CASE phase \in {"start", "failed"} -> conn = << >>
            [] phase = "returned" -> conn = <<"closed">> /\ pool = 1
            [] OTHER -> conn = <<"open">> /\ pool = 1

\* What each worker has in hand, by its control and by the model.
HandOf(w) ==
    /\ src[w] # NoConn <=> config.model = "per-worker" /\ pc[w] \in Sourced
    /\ held[w] # NoConn <=> pc[w] \in InCall
    /\ config.model = "per-worker" /\ pc[w] \in InCall => held[w] = src[w]
    /\ config.model = "shared" /\ pc[w] \in InCall => held[w] = pool

InHand == \A w \in Worker : HandOf(w)

\* Every open connection has one owner, and an owner's connection is open:
\* the workers' ones when not shared, the pool's one otherwise.
OneOwner ==
    config.model # "shared" =>
        /\ \A w \in Worker : Owned(w) # NoConn => conn[Owned(w)] = "open"
        /\ \A v, w \in Worker : v # w /\ Owned(v) # NoConn => Owned(v) # Owned(w)
        /\ \A c \in 1..Len(conn) :
              conn[c] = "open" => \E w \in Worker : Owned(w) = c

\* The inductive invariant behind the connection properties above.
ConnInv ==
    /\ PhaseControl
    /\ SharedConn
    /\ InHand
    /\ OneOwner
    /\ ClosedOnce

\* "shared multiplexes one ClientConn across all workers", "per-worker reuses
\* one ClientConn per worker", and "per-request forces a fresh handshake per
\* RPC" (conn.go:13-16): the run dials one connection; or one per worker, on
\* which all calls of that worker and no others are made; or one per call,
\* which no other call is made on and which is not dialed for nothing.
Dialing ==
    /\ config.model = "shared" => Len(conn) <= 1
    /\ config.model = "per-worker" =>
          /\ Len(conn) <= Concurrency
          /\ \A e, f \in echoes : e.on = f.on <=> e.by = f.by
    /\ config.model = "per-request" =>
          /\ \A e, f \in echoes : e.on = f.on => e = f
          /\ \A c \in 1..Len(conn) : \E e \in echoes : e.on = c

\* Each attempt ends in exactly one result of its worker or in the worker's
\* only drop, the one in flight excepted; and no attempt is skipped or listed
\* twice on the way.
Pending(w) == IF pc[w] \in {"calling", "answered"} THEN 1 ELSE 0

AccountOf(w) ==
    /\ attempts[w] = Len(results[w]) + drops[w] + Pending(w)
    /\ drops[w] <= 1
    /\ \A k \in 1..Len(results[w]) :
          results[w][k].by = w /\ results[w][k].call = k

Accounted == \A w \in Worker : AccountOf(w)

\* Once the run context has ended a worker starts at most one more attempt,
\* the one whose look at ctx.Err() came before the end.
OneLateAttempt == \A w \in Worker : late[w] <= 1

\* The inductive invariant behind the two above, one worker at a time.
CallInvOf(w) ==
    /\ AccountOf(w)
    /\ pc[w] \in {"unborn", "spawned"} => attempts[w] = 0
    /\ drops[w] > 0 => pc[w] \in {"dropped", "closing", "done"}
    /\ late[w] > 0 =>
          late[w] = 1 /\ ctx = "done" /\ pc[w] \notin {"unborn", "spawned", "acquire"}

CallInv == \A w \in Worker : CallInvOf(w)

\* A call that succeeded is recorded even when the run ended under it: doCall
\* looks at the context only for calls that failed.
SuccessRecorded ==
    [][\A w \in Worker :
         pc[w] = "answered" /\ reply[w] = "ok" /\ pc'[w] # "answered" =>
            Len(results'[w]) = Len(results[w]) + 1]_vars

\* A worker whose call was dropped issues and dials nothing afterwards, which
\* is why doCall tells its caller (worker.go:78-79).
DropIsLast ==
    [][\A w \in Worker : drops[w] > 0 =>
         attempts'[w] = attempts[w] /\ results'[w] = results[w]]_vars

\* "the call always returns once that elapses" (config.go:152).
RunReturns == <>(phase \in {"returned", "failed"})

\* "dropped as a run-timeout cancellation" (worker.go:77): a call is dropped
\* only when the run was cancelled or its deadline has passed.  A Canceled or
\* DeadlineExceeded that the backend or a proxy answers breaks this.
DropOnlyAtRunEnd ==
    [][\A w \in Worker : drops'[w] > drops[w] => ctx # "live"]_vars

-----------------------------------------------------------------------------
(* The run implements BenchReport: a worker has stopped for the reader of   *)
(* the report once it has dropped a call or left its loop, and the report   *)
(* appears when the last worker's results are in.                           *)

AbsStage ==
    CASE phase \in {"start", "pooled"} -> "idle"
      [] phase = "failed" -> "failed"
      [] phase = "waiting" \/ (phase = "collecting" /\ next <= Concurrency) -> "running"
      [] OTHER -> "published"

AbsStopped == {w \in Worker : pc[w] \in {"dropped", "closing", "done"}}

AbsReport == IF AbsStage = "published" THEN report ELSE << >>

Promise == INSTANCE BenchReport
    WITH stage <- AbsStage, log <- results, stopped <- AbsStopped,
         report <- AbsReport

\* Every behaviour of the run is one of BenchReport.
ReportPromise == Promise!Spec
=============================================================================
