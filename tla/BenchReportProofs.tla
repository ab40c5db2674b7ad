------------------------- MODULE BenchReportProofs -------------------------
(***************************************************************************)
(* Theorems about BenchRun that rest on those of BenchRunProofs: what the  *)
(* connection models mean in numbers, and that a run implements            *)
(* BenchReport, for every number of workers and every bound on the calls.  *)
(***************************************************************************)
EXTENDS BenchRunProofs, FiniteSetTheorems

USE ConcurrencyAssumption, MaxCallsAssumption

-----------------------------------------------------------------------------
(* How many connections are dialed. *)

\* The workers that have been through NewSource.
Opened == {w \in Worker : pc[w] \notin {"unborn", "spawned"}}

\* Only a worker that opens its source dials, under per-worker.
DialInv == config.model = "per-worker" => Len(conn) <= Cardinality(Opened)

\* There are no more such workers than workers.
LEMMA OpenedFinite ==
    IsFiniteSet(Opened) /\ Cardinality(Opened) \in Nat /\ Cardinality(Opened) <= Concurrency
<1>1. IsFiniteSet(Worker) /\ Cardinality(Worker) = Concurrency
  BY FS_Interval DEF Worker
<1>2. Opened \in SUBSET Worker
  BY DEF Opened
<1> QED
  BY <1>1, <1>2, FS_Subset, FS_CardinalityType

\* Steps that dial nothing under per-worker and move nobody past NewSource.
LEMMA NoDialStep ==
    ASSUME DialInv, UNCHANGED config, Opened' = Opened,
           config.model = "per-worker" => Len(conn') = Len(conn)
    PROVE  DialInv'
BY DEF DialInv

\* A worker's step keeps the bound.
LEMMA WorkerDialInv ==
    ASSUME TypeOK, ConnInv, DialInv, NEW w \in Worker, WorkerStep(w)
    PROVE  DialInv'
<1> USE DEF Goto, mainVars
<1>1. CASE OpenSource(w) \/ OpenSourceFails(w)
  <2>1. w \notin Opened /\ Opened' = Opened \cup {w}
    BY <1>1 DEF OpenSource, OpenSourceFails, Opened, TypeOK
  <2>2. Cardinality(Opened') = Cardinality(Opened) + 1
    BY <2>1, OpenedFinite, FS_AddElement
  <2>3. config' = config /\ Len(conn') \in {Len(conn), Len(conn) + 1} /\ Len(conn) \in Nat
    BY <1>1, DialedFacts DEF OpenSource, OpenSourceFails, TypeOK
  <2> QED
    BY <2>2, <2>3, OpenedFinite DEF DialInv
<1>2. CASE ~ (OpenSource(w) \/ OpenSourceFails(w))
  <2>1. /\ config' = config
        /\ pc[w] \notin {"unborn", "spawned"} /\ pc'[w] \notin {"unborn", "spawned"}
        /\ \A v \in Worker : v # w => pc'[v] = pc[v]
    BY <1>2 DEF WorkerStep, EnterLoop, LeaveLoop, Acquire, AcquireFails,
       AcquireAbandoned, Answer, Record, Drop, Release, CloseSource, TypeOK
  <2>2. Opened' = Opened
    BY <2>1 DEF Opened
  <2>3. ASSUME config.model = "per-worker" PROVE Len(conn') = Len(conn)
    <3>1. CASE CloseSource(w)
      BY <3>1, CloseTyped DEF CloseSource, SourceClosed, TypeOK
    <3>2. CASE ~ CloseSource(w)
      BY <1>2, <2>3, <3>2 DEF WorkerStep, EnterLoop, LeaveLoop, Acquire, AcquireFails,
         AcquireAbandoned, Answer, Record, Drop, Release, Released
    <3> QED
      BY <3>1, <3>2
  <2> QED
    BY <2>1, <2>2, <2>3, NoDialStep
<1> QED
  BY <1>1, <1>2

\* Every step keeps the bound.
LEMMA NextDialInv == TypeOK /\ ConnInv /\ DialInv /\ [Next]_vars => DialInv'
<1> SUFFICES ASSUME TypeOK, ConnInv, DialInv, [Next]_vars PROVE DialInv'
  OBVIOUS
<1> USE DEF mainVars, workerVars
<1>1. CASE \E w \in Worker : WorkerStep(w)
  BY <1>1, WorkerDialInv
<1>2. CASE Spawn
  <2>1. Opened' = Opened
    BY <1>2 DEF Spawn, Opened, ConnInv, PhaseControl
  <2> QED
    BY <1>2, <2>1, NoDialStep DEF Spawn
<1>3. CASE OpenPool
  BY <1>3, NoDialStep DEF OpenPool, Opened
<1>4. CASE Return
  <2>1. Len(conn') = Len(conn)
    BY <1>4, CloseTyped DEF Return, PoolClosed, TypeOK
  <2> QED
    BY <1>4, <2>1, NoDialStep DEF Return, Opened
<1>5. CASE \/ Cancel \/ DeadlineLapses \/ DeadlineObserved \/ Reject
           \/ OpenPoolFails \/ Join \/ Collect \/ UNCHANGED vars
  BY <1>5, NoDialStep DEF Cancel, DeadlineLapses, DeadlineObserved, Reject,
     OpenPoolFails, Join, Collect, vars, Opened
<1> QED
  BY <1>1, <1>2, <1>3, <1>4, <1>5 DEF Next, Main, Terminated

\* What the calls issued so far say of the connections: each is an attempt of
\* its worker and was made on a connection dialed before; under per-worker a
\* connection has the calls of one worker, the owner's if it is still open;
\* under per-request it has exactly one call.
EchoesIssued ==
    \A e \in echoes : e.on \in 1..Len(conn) /\ e.call \in 1..attempts[e.by]

EchoesByOwner ==
    config.model = "per-worker" =>
        /\ \A e, f \in echoes : e.on = f.on <=> e.by = f.by
        /\ \A e \in echoes : \A w \in Worker :
              src[w] # NoConn => (e.on = src[w] <=> e.by = w)

EchoesAlone ==
    config.model = "per-request" =>
        /\ \A e, f \in echoes : e.on = f.on => e = f
        /\ \A c \in 1..Len(conn) : \E e \in echoes : e.on = c

EchoInv == EchoesIssued /\ EchoesByOwner /\ EchoesAlone

\* Steps that issue no call.
LEMMA NoEchoStep ==
    ASSUME TypeOK, EchoInv, UNCHANGED <<config, echoes>>,
           Len(conn') \in Nat, Len(conn') >= Len(conn),
           config.model = "per-request" => Len(conn') = Len(conn),
           \A w \in Worker : attempts'[w] \in Nat /\ attempts'[w] >= attempts[w],
           \A w \in Worker : src'[w] \in {src[w], NoConn}
    PROVE  EchoInv'
<1>1. \A e \in echoes : e \in Issued
  BY DEF TypeOK
<1>2. EchoesIssued'
  <2> SUFFICES ASSUME NEW e \in echoes
               PROVE  e.on \in 1..Len(conn') /\ e.call \in 1..attempts'[e.by]
    BY DEF EchoesIssued
  <2>1. e.by \in Worker /\ e.call \in Nat /\ e.on \in Nat
    BY <1>1 DEF Issued
  <2>2. Len(conn) \in Nat /\ attempts[e.by] \in Nat
    BY <2>1 DEF TypeOK
  <2> QED
    BY <2>1, <2>2 DEF EchoInv, EchoesIssued
<1>3. EchoesByOwner'
  BY DEF EchoInv, EchoesByOwner
<1>4. EchoesAlone'
  BY DEF EchoInv, EchoesAlone
<1> QED
  BY <1>2, <1>3, <1>4 DEF EchoInv

\* A worker that has just dialed has no calls, and its connection is new.
LEMMA OpenSourceEchoInv ==
    ASSUME TypeOK, CallInv, EchoInv, NEW w \in Worker, OpenSource(w),
           config.model = "per-worker"
    PROVE  EchoInv'
<1>1. /\ conn' = Dialed /\ src' = [src EXCEPT ![w] = Len(conn) + 1]
      /\ UNCHANGED <<config, echoes, attempts>>
  BY DEF OpenSource, mainVars
<1>2. Len(conn') = Len(conn) + 1 /\ Len(conn) \in Nat
  BY <1>1, DialedFacts DEF TypeOK
<1>3. attempts[w] = 0
  BY DEF OpenSource, CallInv, CallInvOf
<1>4. \A e \in echoes : e.by \in Worker /\ e.by # w /\ e.on # Len(conn) + 1
  <2>1. \A e \in echoes : e \in Issued
    BY DEF TypeOK
  <2> QED
    BY <1>2, <1>3, <2>1 DEF EchoInv, EchoesIssued, Issued
<1>5. EchoesIssued'
  BY <1>1, <1>2 DEF EchoInv, EchoesIssued
<1>6. \A v \in Worker : src'[v] = IF v = w THEN Len(conn) + 1 ELSE src[v]
  BY <1>1 DEF TypeOK
<1>7. EchoesByOwner'
  BY <1>1, <1>4, <1>6 DEF EchoInv, EchoesByOwner
<1>8. EchoesAlone'
  BY <1>1 DEF EchoesAlone
<1> QED
  BY <1>5, <1>7, <1>8 DEF EchoInv

\* A call is issued: on the worker's own connection, on the pool's one, or on
\* one dialed for it.
LEMMA AcquireEchoInv ==
    ASSUME TypeOK, ConnInv, EchoInv, NEW w \in Worker, Acquire(w)
    PROVE  EchoInv'
<1> DEFINE new == [on |-> held'[w], by |-> w, call |-> attempts[w] + 1]
<1>1. /\ pc[w] = "acquire" /\ UNCHANGED <<config, src, pool>>
      /\ attempts' = [attempts EXCEPT ![w] = @ + 1]
      /\ echoes' = echoes \cup {new}
  BY DEF Acquire, Attempt, EchoOn, mainVars
<1>2. /\ held \in [Worker -> 0..Len(conn)] /\ conn \in Seq(ConnState) /\ Len(conn) \in Nat
      /\ config.model \in ConnModel /\ attempts \in [Worker -> Nat]
      /\ src \in [Worker -> 0..Len(conn)]
      /\ \A e \in echoes : e.by \in Worker /\ e.call \in Nat /\ e.on \in Nat
  BY DEF TypeOK, Issued
<1>3. \/ config.model = "per-worker" /\ held'[w] = src[w] /\ conn' = conn
      \/ config.model = "shared" /\ held'[w] = pool /\ conn' = conn
      \/ config.model = "per-request" /\ held'[w] = Len(conn) + 1 /\ conn' = Dialed
  BY <1>2 DEF Acquire
<1>4. new.on \in 1..Len(conn') /\ Len(conn') \in Nat /\ Len(conn') >= Len(conn)
  <2>1. CASE config.model = "per-worker"
    <3>1. src[w] # NoConn
      BY <1>1, <2>1 DEF ConnInv, InHand, HandOf, Sourced
    <3> QED
      BY <1>2, <1>3, <2>1, <3>1 DEF NoConn
  <2>2. CASE config.model = "shared"
    <3>1. phase = "waiting"
      BY <1>1, WorkersWork
    <3>2. conn = <<"open">> /\ pool = 1
      BY <2>2, <3>1 DEF ConnInv, SharedConn
    <3>3. Len(<<"open">>) = 1
      OBVIOUS
    <3>4. conn' = conn /\ held'[w] = pool
      BY <1>3, <2>2
    <3>5. Len(conn) = 1 /\ Len(conn') = 1 /\ new.on = 1
      BY <3>2, <3>3, <3>4
    <3> QED
      BY <3>5
  <2>3. CASE config.model = "per-request"
    BY <1>2, <1>3, <2>3, DialedFacts
  <2> QED
    BY <1>2, <2>1, <2>2, <2>3 DEF ConnModel
<1> HIDE DEF new
<1>5. new.by = w /\ new.call = attempts[w] + 1 /\ new.on = held'[w]
  BY DEF new
<1>6. EchoesIssued'
  <2> SUFFICES ASSUME NEW e \in echoes'
               PROVE  e.on \in 1..Len(conn') /\ e.call \in 1..attempts'[e.by]
    BY DEF EchoesIssued
  <2>1. CASE e = new
    BY <1>1, <1>2, <1>4, <1>5, <2>1
  <2>2. CASE e \in echoes
    <3>1. e.on \in 1..Len(conn) /\ e.call \in 1..attempts[e.by] /\ e.by \in Worker
      BY <1>2, <2>2 DEF EchoInv, EchoesIssued
    <3> QED
      BY <1>1, <1>2, <1>4, <3>1
  <2> QED
    BY <1>1, <2>1, <2>2
<1>7. EchoesByOwner'
  <2> SUFFICES ASSUME config.model = "per-worker" PROVE EchoesByOwner'
    BY <1>1 DEF EchoesByOwner
  <2>1. new.on = src[w] /\ src[w] # NoConn
    BY <1>1, <1>3, <1>5 DEF ConnInv, InHand, HandOf, Sourced
  <2>2. \A v \in Worker : src[v] # NoConn => (new.on = src[v] <=> v = w)
    BY <2>1 DEF ConnInv, OneOwner, Owned
  <2>3. \A e \in echoes : e.on = new.on <=> e.by = w
    BY <2>1 DEF EchoInv, EchoesByOwner
  <2>4. /\ \A e, f \in echoes : e.on = f.on <=> e.by = f.by
        /\ \A e \in echoes : \A v \in Worker :
              src[v] # NoConn => (e.on = src[v] <=> e.by = v)
    BY DEF EchoInv, EchoesByOwner
  <2>5. \A e, f \in echoes' : e.on = f.on <=> e.by = f.by
    BY <1>1, <1>5, <2>3, <2>4
  <2>6. \A e \in echoes' : \A v \in Worker :
           src'[v] # NoConn => (e.on = src'[v] <=> e.by = v)
    BY <1>1, <1>5, <2>2, <2>4
  <2> QED
    BY <2>5, <2>6 DEF EchoesByOwner
<1>8. EchoesAlone'
  <2> SUFFICES ASSUME config.model = "per-request" PROVE EchoesAlone'
    BY <1>1 DEF EchoesAlone
  <2>1. new.on = Len(conn) + 1 /\ Len(conn') = Len(conn) + 1
    BY <1>2, <1>3, <1>5, DialedFacts
  <2>2. \A e \in echoes : e.on \in 1..Len(conn)
    BY DEF EchoInv, EchoesIssued
  <2>3. \A e, f \in echoes' : e.on = f.on => e = f
    BY <1>1, <1>2, <2>1, <2>2 DEF EchoInv, EchoesAlone
  <2>4. \A c \in 1..Len(conn') : \E e \in echoes' : e.on = c
    <3> SUFFICES ASSUME NEW c \in 1..Len(conn') PROVE \E e \in echoes' : e.on = c
      OBVIOUS
    <3>1. CASE c = Len(conn) + 1
      BY <1>1, <2>1, <3>1
    <3>2. CASE c \in 1..Len(conn)
      BY <1>1, <3>2 DEF EchoInv, EchoesAlone
    <3> QED
      BY <1>2, <2>1, <3>1, <3>2
  <2> QED
    BY <2>3, <2>4 DEF EchoesAlone
<1> QED
  BY <1>6, <1>7, <1>8 DEF EchoInv

\* A worker's step keeps what is known of the calls.
LEMMA WorkerEchoInv ==
    ASSUME TypeOK, ConnInv, CallInv, EchoInv, NEW w \in Worker, WorkerStep(w)
    PROVE  EchoInv'
<1>1. CASE Acquire(w)
  BY <1>1, AcquireEchoInv
<1>2. CASE OpenSource(w) /\ config.model = "per-worker"
  BY <1>2, OpenSourceEchoInv
<1>3. CASE ~ Acquire(w) /\ ~ (OpenSource(w) /\ config.model = "per-worker")
  <2>1. UNCHANGED <<config, echoes>>
    BY <1>3 DEF WorkerStep, OpenSource, OpenSourceFails, EnterLoop, LeaveLoop,
       AcquireFails, AcquireAbandoned, Answer, Record, Drop, Release, CloseSource, mainVars
  <2>2. Len(conn') = Len(conn) /\ Len(conn) \in Nat
    <3>1. \/ conn' = conn
          \/ \E c \in 0..Len(conn) : conn' = Close(c)
      BY <1>3 DEF WorkerStep, OpenSource, OpenSourceFails, EnterLoop, LeaveLoop,
         AcquireFails, AcquireAbandoned, Answer, Record, Drop, Release, Released,
         CloseSource, SourceClosed, TypeOK
    <3> QED
      BY <3>1, CloseTyped DEF TypeOK
  <2>3. \A v \in Worker : attempts'[v] \in Nat /\ attempts'[v] >= attempts[v]
    <3>1. attempts \in [Worker -> Nat] /\ (pc[w] = "spawned" => attempts[w] = 0)
      BY DEF TypeOK, CallInv, CallInvOf
    <3>2. \/ attempts' = attempts
          \/ attempts' = [attempts EXCEPT ![w] = @ + 1]
          \/ pc[w] = "spawned" /\ attempts' = [attempts EXCEPT ![w] = 1]
      BY <1>3 DEF WorkerStep, OpenSource, OpenSourceFails, EnterLoop, LeaveLoop,
         AcquireFails, AcquireAbandoned, Answer, Record, Drop, Release, CloseSource, Attempt
    <3> QED
      BY <3>1, <3>2
  <2>4. \A v \in Worker : src'[v] \in {src[v], NoConn}
    <3>1. src' = src \/ src' = [src EXCEPT ![w] = NoConn]
      BY <1>3 DEF WorkerStep, OpenSource, OpenSourceFails, EnterLoop, LeaveLoop,
         AcquireFails, AcquireAbandoned, Answer, Record, Drop, Release, CloseSource
    <3> QED
      BY <3>1 DEF TypeOK
  <2> QED
    BY <2>1, <2>2, <2>3, <2>4, NoEchoStep
<1> QED
  BY <1>1, <1>2, <1>3

\* Every step keeps what is known of the calls.
LEMMA NextEchoInv ==
    TypeOK /\ ConnInv /\ CallInv /\ EchoInv /\ [Next]_vars => EchoInv'
<1> SUFFICES ASSUME TypeOK, ConnInv, CallInv, EchoInv, [Next]_vars PROVE EchoInv'
  OBVIOUS
<1>1. CASE \E w \in Worker : WorkerStep(w)
  BY <1>1, WorkerEchoInv
<1>2. CASE ~ \E w \in Worker : WorkerStep(w)
  <2>1. UNCHANGED <<config, echoes, attempts, src>>
    BY <1>2 DEF Next, Main, Terminated, Cancel, DeadlineLapses, DeadlineObserved, Reject,
       OpenPool, OpenPoolFails, Spawn, Join, Collect, Return, mainVars, workerVars, vars
  <2>2. /\ Len(conn') \in Nat /\ Len(conn') >= Len(conn)
        /\ config.model = "per-request" => Len(conn') = Len(conn)
    <3>1. \/ conn' = conn
          \/ conn' = Close(pool)
          \/ config.model = "shared" /\ conn' = Dialed
      BY <1>2 DEF Next, Main, Terminated, Cancel, DeadlineLapses, DeadlineObserved, Reject,
         OpenPool, OpenPoolFails, Spawn, Join, Collect, Return, PoolClosed,
         mainVars, workerVars, vars
    <3>2. Len(conn) \in Nat /\ pool \in 0..Len(conn)
      BY DEF TypeOK
    <3>3. CASE conn' = Close(pool)
      BY <3>2, <3>3, CloseTyped DEF TypeOK
    <3>4. CASE config.model = "shared" /\ conn' = Dialed
      BY <3>2, <3>4, DialedFacts DEF TypeOK
    <3> QED
      BY <3>1, <3>2, <3>3, <3>4
  <2>3. \A w \in Worker : attempts[w] \in Nat
    BY DEF TypeOK
  <2> QED
    BY <2>1, <2>2, <2>3, NoEchoStep
<1> QED
  BY <1>1, <1>2

\* What the bound and the calls give at any moment.
LEMMA DialingMeans == ASSUME TypeOK, ConnInv, DialInv, EchoInv PROVE Dialing
<1>1. ASSUME config.model = "shared" PROVE Len(conn) <= 1
  <2>1. conn \in {<< >>, <<"open">>, <<"closed">>}
    BY <1>1 DEF ConnInv, SharedConn
  <2>2. Len(<< >>) = 0 /\ Len(<<"open">>) = 1 /\ Len(<<"closed">>) = 1
    OBVIOUS
  <2>3. Len(conn) = 0 \/ Len(conn) = 1
    BY <2>1, <2>2, Zenon
  <2>4. CASE Len(conn) = 0
    BY <2>4
  <2>5. CASE Len(conn) = 1
    BY <2>5
  <2> QED
    BY <2>3, <2>4, <2>5
<1>2. config.model = "per-worker" => Len(conn) <= Concurrency
  BY OpenedFinite DEF DialInv, TypeOK
<1> QED
  BY <1>1, <1>2 DEF EchoInv, EchoesByOwner, EchoesAlone, Dialing

\* The models mean what they say: one connection for the run; one per worker,
\* which all its calls and no others are made on; or one per call.
THEOREM DialsAsAsked == Spec => []Dialing
<1>1. Init => DialInv
  BY OpenedFinite DEF Init, DialInv
<1>2. Init => EchoInv
  BY DEF Init, EchoInv, EchoesIssued, EchoesByOwner, EchoesAlone
<1>3. TypeOK /\ ConnInv /\ DialInv /\ [Next]_vars => DialInv'
  BY NextDialInv
<1>4. TypeOK /\ ConnInv /\ CallInv /\ EchoInv /\ [Next]_vars => EchoInv'
  BY NextEchoInv
<1>5. TypeOK /\ ConnInv /\ DialInv /\ EchoInv => Dialing
  BY DialingMeans
<1> QED
  BY <1>1, <1>2, <1>3, <1>4, <1>5, TypeCorrect, ConnectionsOwned, CallsInvariant,
     PTL DEF Spec

-----------------------------------------------------------------------------
(* The report. *)

\* The report so far holds the results of the workers below next and no
\* others, each entry at its place in its worker's results, in order; and it
\* grows only while main collects.
Listed ==
    /\ \A i \in 1..Len(report) :
          /\ report[i].by < next
          /\ report[i].call \in 1..Len(results[report[i].by])
          /\ report[i] = results[report[i].by][report[i].call]
    /\ \A w \in Worker : w < next =>
          \A k \in 1..Len(results[w]) : \E i \in 1..Len(report) : report[i] = results[w][k]
    /\ \A i, j \in 1..Len(report) :
          i < j => \/ report[i].by < report[j].by
                   \/ report[i].by = report[j].by /\ report[i].call < report[j].call

Gathering ==
    /\ phase \notin {"collecting", "returned"} => next = 1 /\ report = << >>
    /\ phase = "returned" => next = Concurrency + 1

ReportInv == Listed /\ Gathering

\* An empty report lists what there is below the first worker: nothing.
LEMMA NothingListed == report = << >> /\ next = 1 => Listed
BY DEF Listed, Worker

\* What main appends when it collects from worker next.
LEMMA CollectListed ==
    ASSUME TypeOK, Accounted, Listed, next \in Worker,
           report' = report \o results[next], next' = next + 1, results' = results
    PROVE  Listed'
<1> DEFINE more == results[next]
           n == Len(report)
<1>0. next \in Nat /\ \A w \in Worker : w \in Nat
  BY DEF Worker
<1>1. report \in Seq(Entry) /\ more \in Seq(Entry) /\ n \in Nat /\ Len(more) \in Nat
  BY DEF TypeOK
<1>2. /\ Len(report') = n + Len(more)
      /\ \A i \in 1..n : report'[i] = report[i]
      /\ \A k \in 1..Len(more) : report'[n + k] = more[k]
  BY <1>1, ConcatProperties
<1>3. \A k \in 1..Len(more) : more[k].by = next /\ more[k].call = k
  BY DEF Accounted, AccountOf
<1>4. ASSUME NEW i \in 1..Len(report')
      PROVE  \/ i \in 1..n /\ report'[i] = report[i]
             \/ /\ i > n /\ i - n \in 1..Len(more)
                /\ report'[i] = more[i - n]
                /\ report'[i].by = next /\ report'[i].call = i - n
  <2>1. CASE i <= n
    BY <1>1, <1>2, <2>1
  <2>2. CASE i > n
    <3>1. i - n \in 1..Len(more) /\ i = n + (i - n)
      BY <1>1, <1>2, <2>2
    <3> QED
      BY <1>2, <1>3, <2>2, <3>1
  <2> QED
    BY <1>1, <1>2, <2>1, <2>2
<1>5. \A i \in 1..n : report[i] \in Entry
  BY <1>1
<1> HIDE DEF more, n
<1>6. ASSUME NEW i \in 1..Len(report')
      PROVE  /\ report'[i].by < next'
             /\ report'[i].call \in 1..Len(results'[report'[i].by])
             /\ report'[i] = results'[report'[i].by][report'[i].call]
  <2>1. CASE i \in 1..n /\ report'[i] = report[i]
    <3>1. report[i].by < next /\ report[i].by \in Nat
      BY <1>0, <1>5, <2>1 DEF Listed, n, Entry
    <3>2. report'[i].by < next'
      BY <1>0, <2>1, <3>1
    <3> QED
      BY <2>1, <3>2 DEF Listed, n
  <2>2. CASE i - n \in 1..Len(more) /\ report'[i] = more[i - n]
             /\ report'[i].by = next /\ report'[i].call = i - n
    BY <1>0, <1>1, <2>2 DEF more
  <2> QED
    BY <1>4, <2>1, <2>2
<1>7. ASSUME NEW w \in Worker, w < next', NEW k \in 1..Len(results'[w])
      PROVE  \E i \in 1..Len(report') : report'[i] = results'[w][k]
  <2>1. CASE w < next
    BY <1>1, <1>2, <2>1 DEF Listed, n
  <2>2. CASE w = next
    <3>1. n + k \in 1..Len(report') /\ report'[n + k] = more[k]
      BY <1>1, <1>2, <1>7, <2>2 DEF more
    <3> QED
      BY <2>2, <3>1 DEF more
  <2> QED
    BY <1>0, <1>7, <2>1, <2>2
<1>8. ASSUME NEW i \in 1..Len(report'), NEW j \in 1..Len(report'), i < j
      PROVE  \/ report'[i].by < report'[j].by
             \/ report'[i].by = report'[j].by /\ report'[i].call < report'[j].call
  <2>1. CASE j \in 1..n /\ report'[j] = report[j]
    <3>1. i \in 1..n
      BY <1>1, <1>2, <1>8, <2>1
    <3>2. report'[i] = report[i]
      BY <1>2, <3>1
    <3> QED
      BY <1>8, <2>1, <3>1, <3>2 DEF Listed, n
  <2>2. CASE j > n /\ report'[j].by = next /\ report'[j].call = j - n
    <3>1. CASE i \in 1..n /\ report'[i] = report[i]
      BY <1>1, <2>2, <3>1 DEF Listed, n
    <3>2. CASE report'[i].by = next /\ report'[i].call = i - n
      BY <1>1, <1>8, <2>2, <3>2
    <3> QED
      BY <1>4, <3>1, <3>2
  <2> QED
    BY <1>4, <2>1, <2>2
<1> QED
  BY <1>6, <1>7, <1>8 DEF Listed

\* Every step keeps the report right.
LEMMA NextReportInv ==
    TypeOK /\ ConnInv /\ CallInv /\ ReportInv /\ [Next]_vars => ReportInv'
<1> SUFFICES ASSUME TypeOK, ConnInv, CallInv, ReportInv, [Next]_vars PROVE ReportInv'
  OBVIOUS
<1> USE DEF mainVars, workerVars
<1>1. CASE \E w \in Worker : WorkerStep(w)
  <2>1. PICK w \in Worker : WorkerStep(w)
    BY <1>1
  <2>2. pc[w] \notin {"unborn", "done"} /\ UNCHANGED <<phase, next, report>>
    BY <2>1 DEF WorkerStep, OpenSource, OpenSourceFails, EnterLoop, LeaveLoop,
       Acquire, AcquireFails, AcquireAbandoned, Answer, Record, Drop, Release,
       CloseSource
  <2>3. phase = "waiting"
    BY <2>2, WorkersWork
  <2>4. Gathering' /\ report' = << >> /\ next' = 1
    BY <2>2, <2>3 DEF ReportInv, Gathering
  <2>5. Listed'
    BY <2>4 DEF Listed, Worker
  <2> QED
    BY <2>4, <2>5 DEF ReportInv
<1>2. CASE Collect
  <2>1. next \in Worker /\ Accounted
    <3>1. next \in Worker
      BY <1>2 DEF Collect, TypeOK, Worker
    <3> QED
      BY <3>1, AccountsMean
  <2>2. Listed'
    BY <1>2, <2>1, CollectListed DEF Collect, ReportInv
  <2> QED
    BY <1>2, <2>2 DEF Collect, ReportInv, Gathering
<1>3. CASE Return
  <2>1. /\ phase = "collecting" /\ phase' = "returned" /\ ~ (next <= Concurrency)
        /\ UNCHANGED <<next, report, results>> /\ next \in 1..(Concurrency + 1)
    BY <1>3 DEF Return, TypeOK
  <2>2. Gathering'
    BY <2>1 DEF Gathering
  <2>3. Listed'
    BY <2>1 DEF ReportInv, Listed
  <2> QED
    BY <2>2, <2>3 DEF ReportInv
<1>4. CASE \/ Cancel \/ DeadlineLapses \/ DeadlineObserved \/ Reject \/ OpenPool
           \/ OpenPoolFails \/ Spawn \/ Join \/ UNCHANGED vars
  <2>1. /\ UNCHANGED <<next, report, results>>
        /\ phase' # phase =>
              phase' # "returned" /\ phase \notin {"collecting", "returned"}
    BY <1>4 DEF Cancel, DeadlineLapses, DeadlineObserved, Reject, OpenPool,
       OpenPoolFails, Spawn, Join, vars
  <2> QED
    BY <2>1 DEF ReportInv, Gathering, Listed
<1> QED
  BY <1>1, <1>2, <1>3, <1>4 DEF Next, Main, Terminated

-----------------------------------------------------------------------------
(* The run implements BenchReport. *)

\* A run begins as BenchReport does.
LEMMA InitRefines == Init => Promise!Init
BY DEF Init, Promise!Init, AbsStage, AbsStopped, AbsReport

\* A worker that steps leaves the stage and the report alone, and what its
\* new label says of its having stopped is all that changes of that.
LEMMA WorkerMaps ==
    ASSUME TypeOK, ConnInv, NEW w \in Worker, WorkerStep(w)
    PROVE  /\ AbsStage = "running" /\ AbsStage' = "running" /\ AbsReport' = AbsReport
           /\ w \in AbsStopped <=> pc[w] \in {"dropped", "closing"}
           /\ AbsStopped' = IF pc'[w] \in {"dropped", "closing", "done"}
                            THEN AbsStopped \cup {w} ELSE AbsStopped \ {w}
<1>1. /\ pc[w] \notin {"unborn", "done"} /\ UNCHANGED <<phase, next, report>>
      /\ \A v \in Worker : v # w => pc'[v] = pc[v]
  BY WorkersApart DEF WorkerStep, OpenSource, OpenSourceFails, EnterLoop,
     LeaveLoop, Acquire, AcquireFails, AcquireAbandoned, Answer, Record, Drop,
     Release, CloseSource, mainVars
<1>2. phase = "waiting"
  BY <1>1, WorkersWork
<1>3. AbsStage = "running" /\ AbsStage' = "running" /\ AbsReport' = AbsReport
  BY <1>1, <1>2 DEF AbsStage, AbsReport
<1>4. AbsStopped' = IF pc'[w] \in {"dropped", "closing", "done"}
                    THEN AbsStopped \cup {w} ELSE AbsStopped \ {w}
  BY <1>1 DEF AbsStopped
<1> QED
  BY <1>1, <1>3, <1>4 DEF AbsStopped

\* A worker that appends a result logs its next entry.
LEMMA LogMaps ==
    ASSUME TypeOK, ConnInv, NEW w \in Worker, WorkerStep(w), NEW out \in Outcome,
           Append1(w, Len(results[w]) + 1, out),
           pc[w] \notin {"dropped", "closing"}
    PROVE  Promise!Log(w)
<1>1. /\ AbsStage = "running" /\ UNCHANGED <<AbsStage, AbsReport>>
      /\ w \notin AbsStopped /\ AbsStopped' \in {AbsStopped, AbsStopped \cup {w}}
  <2>1. AbsStopped \ {w} = AbsStopped \/ w \in AbsStopped
    OBVIOUS
  <2> QED
    BY <2>1, WorkerMaps
<1>2. results' = [results EXCEPT
         ![w] = Append(@, [by |-> w, call |-> Len(@) + 1, out |-> out])]
  BY DEF Append1
<1> QED
  BY <1>1, <1>2 DEF Promise!Log

\* A step of a worker is a Log, a Stop or a stutter.
LEMMA WorkerRefines ==
    ASSUME TypeOK, ConnInv, CallInv, NEW w \in Worker, WorkerStep(w)
    PROVE  Promise!Log(w) \/ Promise!Stop(w) \/ UNCHANGED Promise!absVars
<1>0. /\ pc \in [Worker -> Control] /\ AccountOf(w)
      /\ Len(results[w]) \in Nat /\ attempts[w] \in Nat /\ drops[w] \in Nat
      /\ drops[w] > 0 => pc[w] \in {"dropped", "closing", "done"}
      /\ pc[w] \in {"unborn", "spawned"} => attempts[w] = 0
  BY DEF TypeOK, CallInv, CallInvOf
<1> USE DEF Goto
<1>1. CASE OpenSourceFails(w)
  <2>1. Append1(w, Len(results[w]) + 1, "source") /\ "source" \in Outcome
    BY <1>0, <1>1 DEF OpenSourceFails, AccountOf, Pending, Outcome
  <2> QED
    BY <1>1, <2>1, LogMaps DEF OpenSourceFails
<1>2. CASE AcquireFails(w)
  <2>1. Append1(w, Len(results[w]) + 1, "acquire") /\ "acquire" \in Outcome
    BY <1>0, <1>2 DEF AcquireFails, AccountOf, Pending, Outcome
  <2> QED
    BY <1>2, <2>1, LogMaps DEF AcquireFails
<1>3. CASE Record(w)
  <2>1. attempts[w] = Len(results[w]) + 1
    BY <1>0, <1>3 DEF Record, AccountOf, Pending
  <2>2. reply[w] \in Outcome
    BY <1>3 DEF Record, IsDropped, TypeOK, Reply, Outcome
  <2> QED
    BY <1>3, <2>1, <2>2, LogMaps DEF Record
<1>4. CASE Drop(w) \/ LeaveLoop(w) \/ AcquireAbandoned(w)
  <2>1. /\ pc[w] \notin {"dropped", "closing"} /\ pc'[w] \in {"dropped", "closing"}
        /\ results' = results
    BY <1>0, <1>4 DEF Drop, LeaveLoop, AcquireAbandoned
  <2> QED
    BY <2>1, WorkerMaps DEF Promise!Stop
<1>5. CASE OpenSource(w) \/ EnterLoop(w) \/ Acquire(w) \/ Answer(w) \/ Release(w)
           \/ CloseSource(w)
  <2>1. /\ results' = results
        /\ pc[w] \in {"dropped", "closing"} <=> pc'[w] \in {"dropped", "closing", "done"}
    BY <1>0, <1>5 DEF OpenSource, EnterLoop, Acquire, Answer, Release, CloseSource
  <2>2. AbsStopped' = AbsStopped
    <3>1. w \in AbsStopped => AbsStopped \cup {w} = AbsStopped
      OBVIOUS
    <3>2. w \notin AbsStopped => AbsStopped \ {w} = AbsStopped
      OBVIOUS
    <3> QED
      BY <2>1, <3>1, <3>2, WorkerMaps
  <2> QED
    BY <2>1, <2>2, WorkerMaps DEF Promise!absVars
<1> QED
  BY <1>1, <1>2, <1>3, <1>4, <1>5 DEF WorkerStep

\* A full list of the results is a report of the logs.
LEMMA ListedIsReport ==
    ASSUME TypeOK', Listed', next' = Concurrency + 1, results' = results
    PROVE  Promise!IsReport(report')
<1>1. ASSUME NEW i \in 1..Len(report') PROVE report'[i].by \in Worker
  <2>1. report'[i] \in Entry
    BY DEF TypeOK
  <2> QED
    BY <2>1 DEF Entry
<1>2. \A i \in 1..Len(report') : \E w \in Worker :
         \E k \in 1..Len(results[w]) : report'[i] = results[w][k]
  BY <1>1 DEF Listed
<1>3. \A w \in Worker : w < next'
  BY DEF Worker
<1> QED
  BY <1>2, <1>3 DEF Listed, Promise!IsReport

\* Every step of the run is one of BenchReport or changes nothing in it.
LEMMA NextRefines ==
    TypeOK /\ ConnInv /\ CallInv /\ ReportInv /\ TypeOK' /\ ReportInv' /\ [Next]_vars =>
        [Promise!Next]_Promise!absVars
<1> SUFFICES ASSUME TypeOK, ConnInv, CallInv, ReportInv, TypeOK', ReportInv', [Next]_vars
             PROVE  Promise!Next \/ UNCHANGED Promise!absVars
  OBVIOUS
<1> USE DEF mainVars, workerVars
<1>1. CASE \E w \in Worker : WorkerStep(w)
  BY <1>1, WorkerRefines DEF Promise!Next
<1>2. CASE Reject \/ OpenPoolFails
  <2>1. Promise!Refuse
    BY <1>2 DEF Reject, OpenPoolFails, Promise!Refuse, AbsStage, AbsStopped, AbsReport
  <2> QED
    BY <2>1 DEF Promise!Next
<1>3. CASE Spawn
  <2>1. AbsStopped = {} /\ AbsStopped' = {}
    BY <1>3 DEF Spawn, AbsStopped, ConnInv, PhaseControl
  <2>2. Promise!Begin
    BY <1>3, <2>1 DEF Spawn, Promise!Begin, AbsStage, AbsReport
  <2> QED
    BY <2>2 DEF Promise!Next
<1>4. CASE Collect
  <2>1. /\ phase = "collecting" /\ phase' = phase /\ next' = next + 1 /\ next \in Worker
        /\ UNCHANGED <<pc, results>>
    BY <1>4 DEF Collect, TypeOK, Worker
  <2>2. AbsStage = "running" /\ AbsReport = << >> /\ UNCHANGED AbsStopped
    BY <2>1 DEF AbsStage, AbsReport, AbsStopped, Worker
  <2>3. CASE next < Concurrency
    <3>1. AbsStage' = "running" /\ AbsReport' = << >>
      BY <2>1, <2>3 DEF AbsStage, AbsReport, Worker
    <3> QED
      BY <2>1, <2>2, <3>1 DEF Promise!absVars
  <2>4. CASE next = Concurrency
    <3>1. AbsStage' = "published" /\ AbsReport' = report'
      BY <2>1, <2>4 DEF AbsStage, AbsReport, Worker
    <3>2. AbsStopped = Worker
      BY <2>1 DEF AbsStopped, ConnInv, PhaseControl
    <3>3. Promise!IsReport(AbsReport')
      BY <2>1, <2>4, <3>1, ListedIsReport DEF ReportInv
    <3>4. Promise!Publish
      BY <2>1, <2>2, <3>1, <3>2, <3>3 DEF Promise!Publish
    <3> QED
      BY <3>4 DEF Promise!Next
  <2> QED
    BY <2>1, <2>3, <2>4 DEF Worker
<1>5. CASE Join
  BY <1>5 DEF Join, ReportInv, Gathering, AbsStage, AbsStopped, AbsReport, Promise!absVars
<1>6. CASE Return
  BY <1>6 DEF Return, TypeOK, AbsStage, AbsStopped, AbsReport, Promise!absVars
<1>7. CASE Cancel \/ DeadlineLapses \/ DeadlineObserved \/ OpenPool \/ UNCHANGED vars
  BY <1>7 DEF Cancel, DeadlineLapses, DeadlineObserved, OpenPool, vars, AbsStage,
     AbsStopped, AbsReport, Promise!absVars
<1> QED
  BY <1>1, <1>2, <1>3, <1>4, <1>5, <1>6, <1>7 DEF Next, Main, Terminated

\* Whoever reads the report of a run gets what BenchReport promises: the logs
\* of all workers, whole and in order, once every worker has stopped.
THEOREM RunKeepsPromise == Spec => ReportPromise
<1>1. Init => ReportInv
  BY DEF Init, ReportInv, Gathering, Listed, Worker
<1>2. TypeOK /\ ConnInv /\ CallInv /\ ReportInv /\ [Next]_vars => ReportInv'
  BY NextReportInv
<1> QED
  BY <1>1, <1>2, InitRefines, NextRefines, TypeCorrect, ConnectionsOwned,
     CallsInvariant, PTL DEF Spec, ReportPromise, Promise!Spec
=============================================================================
