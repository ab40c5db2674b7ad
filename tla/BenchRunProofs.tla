--------------------------- MODULE BenchRunProofs ---------------------------
(***************************************************************************)
(* Theorems about BenchRun, for every number of workers and every bound on *)
(* the calls: type correctness, the ownership of connections, and the     *)
(* accounting of calls.                                                    *)
(***************************************************************************)
EXTENDS BenchRun, SequenceTheorems, TLAPS

USE ConcurrencyAssumption, MaxCallsAssumption

-----------------------------------------------------------------------------
(* Lemmas about the sequence of connections. *)

\* Dialing adds an open connection and leaves the others alone.
LEMMA DialedFacts ==
    ASSUME conn \in Seq(ConnState)
    PROVE  /\ Dialed \in Seq(ConnState)
           /\ Len(Dialed) = Len(conn) + 1
           /\ Len(conn) \in Nat
           /\ Dialed[Len(conn) + 1] = "open"
           /\ \A c \in 1..Len(conn) : Dialed[c] = conn[c]
BY DEF Dialed, ConnState

\* Closing a connection leaves the others alone and the number of them.
LEMMA CloseFacts ==
    ASSUME conn \in Seq(ConnState), NEW c \in 1..Len(conn)
    PROVE  /\ Close(c) \in Seq(ConnState)
           /\ Len(Close(c)) = Len(conn)
           /\ Len(conn) \in Nat
           /\ Close(c)[c] = IF conn[c] = "open" THEN "closed" ELSE "closedAgain"
           /\ \A d \in 1..Len(conn) : d # c => Close(c)[d] = conn[d]
<1>1. (IF conn[c] = "open" THEN "closed" ELSE "closedAgain") \in ConnState
  BY DEF ConnState
<1> QED
  BY <1>1, ExceptSeq DEF Close

\* There is no connection number 0 to close.
LEMMA CloseNone ==
    ASSUME conn \in Seq(ConnState)
    PROVE  Close(NoConn) = conn
<1>1. DOMAIN conn = 1..Len(conn) /\ conn = [c \in 1..Len(conn) |-> conn[c]]
  OBVIOUS
<1>2. NoConn \notin DOMAIN conn
  BY <1>1 DEF NoConn
<1> QED
  BY <1>1, <1>2 DEF Close

\* Whatever is closed, the sequence keeps its type and its length.
LEMMA CloseTyped ==
    ASSUME conn \in Seq(ConnState), NEW c \in 0..Len(conn)
    PROVE  Close(c) \in Seq(ConnState) /\ Len(Close(c)) = Len(conn)
<1>1. CASE c = NoConn
  BY <1>1, CloseNone
<1>2. CASE c # NoConn
  BY <1>2, CloseFacts DEF NoConn
<1> QED
  BY <1>1, <1>2

\* Giving worker w a number keeps a function into a longer range typed.
LEMMA WidenFun ==
    ASSUME NEW m \in Nat, NEW n \in Nat, m <= n, NEW f \in [Worker -> 0..m],
           NEW w \in Worker, NEW c \in 0..n
    PROVE  [f EXCEPT ![w] = c] \in [Worker -> 0..n] /\ f \in [Worker -> 0..n]
<1>1. \A v \in Worker : f[v] \in 0..n
  OBVIOUS
<1> QED
  BY <1>1

-----------------------------------------------------------------------------
(* Type correctness. *)

\* The variables of a run that begins have their types.
LEMMA InitTypeOK == Init => TypeOK
BY DEF Init, TypeOK, Phase, Control, Reply, NoConn

\* Every step keeps the types.
LEMMA NextTypeOK == TypeOK /\ [Next]_vars => TypeOK'
<1> SUFFICES ASSUME TypeOK, [Next]_vars PROVE TypeOK'
  OBVIOUS
<1> USE DEF TypeOK, mainVars, workerVars, Phase, Control
<1>1. CASE Cancel
  BY <1>1 DEF Cancel
<1>2. CASE DeadlineLapses
  BY <1>2 DEF DeadlineLapses
<1>3. CASE DeadlineObserved
  BY <1>3 DEF DeadlineObserved
<1>4. CASE Reject
  BY <1>4 DEF Reject
<1>5. CASE OpenPool
  BY <1>5, DialedFacts DEF OpenPool
<1>6. CASE OpenPoolFails
  BY <1>6 DEF OpenPoolFails
<1>7. CASE Spawn
  BY <1>7 DEF Spawn
<1>8. CASE Join
  BY <1>8 DEF Join
<1>9. CASE Collect
  <2>1. next \in Worker /\ next + 1 \in 1..(Concurrency + 1)
    BY <1>9 DEF Collect, Worker
  <2>2. report \o results[next] \in Seq(Entry)
    BY <2>1, ConcatProperties
  <2> QED
    BY <1>9, <2>1, <2>2 DEF Collect
<1>10. CASE Return
  BY <1>10, CloseFacts DEF Return, PoolClosed, NoConn
<1>11. CASE UNCHANGED vars
  BY <1>11 DEF vars
<1>12. ASSUME NEW w \in Worker, WorkerStep(w) PROVE TypeOK'
  <2> USE DEF Goto
  <2>1. CASE OpenSource(w)
    <3>1. /\ conn' \in Seq(ConnState) /\ Len(conn') \in Nat
          /\ Len(conn) \in Nat /\ Len(conn') >= Len(conn)
          /\ src' \in [Worker -> 0..Len(conn')]
      <4>1. CASE config.model = "per-worker"
        <5>1. conn' = Dialed /\ src' = [src EXCEPT ![w] = Len(conn) + 1]
          BY <2>1, <4>1 DEF OpenSource
        <5> QED
          BY <5>1, DialedFacts, WidenFun
      <4>2. CASE config.model # "per-worker"
        BY <2>1, <4>2 DEF OpenSource
      <4> QED
        BY <4>1, <4>2
    <3>2. pool \in 0..Len(conn') /\ held \in [Worker -> 0..Len(conn')]
      BY <3>1
    <3> QED
      BY <2>1, <3>1, <3>2 DEF OpenSource
  <2>2. CASE OpenSourceFails(w)
    <3>1. results' \in [Worker -> Seq(Entry)]
      BY <2>2 DEF OpenSourceFails, Append1, Entry, Outcome
    <3>2. pc' \in [Worker -> Control] /\ attempts' \in [Worker -> Nat]
      BY <2>2 DEF OpenSourceFails
    <3>3. UNCHANGED <<mainVars, ctx, conn, src, held, reply, drops, late, echoes>>
      BY <2>2 DEF OpenSourceFails
    <3> QED
      BY <3>1, <3>2, <3>3
  <2>3. CASE EnterLoop(w)
    BY <2>3 DEF EnterLoop
  <2>4. CASE LeaveLoop(w)
    BY <2>4 DEF LeaveLoop
  <2>5. CASE Acquire(w)
    <3>1. /\ conn' \in Seq(ConnState) /\ Len(conn') \in Nat
          /\ Len(conn) \in Nat /\ Len(conn') >= Len(conn)
          /\ held' \in [Worker -> 0..Len(conn')]
      <4>1. CASE config.model = "per-request"
        <5>1. conn' = Dialed /\ held' = [held EXCEPT ![w] = Len(conn) + 1]
          BY <2>5, <4>1 DEF Acquire
        <5> QED
          BY <5>1, DialedFacts, WidenFun
      <4>2. CASE config.model # "per-request"
        <5>1. conn' = conn /\ \E c \in 0..Len(conn) : held' = [held EXCEPT ![w] = c]
          BY <2>5, <4>2 DEF Acquire
        <5> QED
          BY <5>1
      <4> QED
        BY <4>1, <4>2
    <3>2. pool \in 0..Len(conn') /\ src \in [Worker -> 0..Len(conn')]
      BY <3>1
    <3>3. attempts' \in [Worker -> Nat] /\ late' \in [Worker -> Nat]
      BY <2>5 DEF Acquire, Attempt
    <3>4. held'[w] \in Nat /\ attempts[w] + 1 \in Nat
      BY <3>1
    <3>5. echoes' \subseteq Issued
      BY <2>5, <3>4 DEF Acquire, EchoOn, Issued
    <3>6. pc' \in [Worker -> Control]
      BY <2>5 DEF Acquire
    <3>7. UNCHANGED <<mainVars, ctx, src, reply, results, drops>>
      BY <2>5 DEF Acquire
    <3> QED
      BY <3>1, <3>2, <3>3, <3>5, <3>6, <3>7
  <2>6. CASE AcquireFails(w)
    <3>1. results' \in [Worker -> Seq(Entry)]
      BY <2>6 DEF AcquireFails, Append1, Entry, Outcome
    <3>2. pc' \in [Worker -> Control]
      BY <2>6 DEF AcquireFails
    <3>3. attempts' \in [Worker -> Nat] /\ late' \in [Worker -> Nat]
      BY <2>6 DEF AcquireFails, Attempt
    <3>4. UNCHANGED <<mainVars, ctx, conn, src, held, reply, drops, echoes>>
      BY <2>6 DEF AcquireFails
    <3> QED
      BY <3>1, <3>2, <3>3, <3>4
  <2>7. CASE AcquireAbandoned(w)
    BY <2>7 DEF AcquireAbandoned
  <2>8. CASE Answer(w)
    BY <2>8 DEF Answer, Reply
  <2>9. CASE Record(w)
    BY <2>9 DEF Record, Append1, Entry, Outcome, Reply, IsDropped
  <2>10. CASE Drop(w)
    BY <2>10 DEF Drop
  <2>11. CASE Release(w)
    <3>1. conn' \in Seq(ConnState) /\ Len(conn') = Len(conn)
      BY <2>11, CloseTyped DEF Release, Released
    <3> QED
      BY <2>11, <3>1 DEF Release, NoConn
  <2>12. CASE CloseSource(w)
    BY <2>12, CloseFacts DEF CloseSource, SourceClosed, NoConn
  <2> QED
    BY <1>12, <2>1, <2>2, <2>3, <2>4, <2>5, <2>6, <2>7, <2>8, <2>9, <2>10,
       <2>11, <2>12 DEF WorkerStep
<1> QED
  BY <1>1, <1>2, <1>3, <1>4, <1>5, <1>6, <1>7, <1>8, <1>9, <1>10, <1>11,
     <1>12 DEF Next, Main, Terminated

\* The variables keep their types.
THEOREM TypeCorrect == Spec => []TypeOK
BY InitTypeOK, NextTypeOK, PTL DEF Spec

-----------------------------------------------------------------------------
(* Ownership of connections. *)

\* A run begins without goroutines and without connections.
LEMMA InitConnInv == Init => ConnInv
BY DEF Init, ConnInv, PhaseControl, SharedConn, InHand, HandOf, OneOwner, ClosedOnce,
       Owned, InCall, Sourced, NoConn, ConnModel

\* Steps that touch no connection and nobody's hands.
LEMMA QuietStep ==
    ASSUME TypeOK, ConnInv,
           UNCHANGED <<config, phase, pool, conn, src, held>>,
           NEW w \in Worker, NEW label \in Control, Goto(w, label),
           phase = "waiting", label # "unborn",
           pc[w] \in InCall <=> label \in InCall,
           pc[w] \in Sourced <=> label \in Sourced
    PROVE  ConnInv'
<1>1. PhaseControl'
  BY DEF TypeOK, ConnInv, PhaseControl, Goto
<1>2. SharedConn' /\ ClosedOnce'
  BY DEF ConnInv, SharedConn, ClosedOnce
<1>3. InHand'
  BY DEF TypeOK, ConnInv, InHand, HandOf, Goto, InCall, Sourced
<1>4. OneOwner'
  BY DEF ConnInv, OneOwner, Owned
<1> QED
  BY <1>1, <1>2, <1>3, <1>4 DEF ConnInv

\* A worker takes steps only while main waits for it.
LEMMA WorkersWork ==
    ASSUME TypeOK, ConnInv, NEW w \in Worker, pc[w] \notin {"unborn", "done"}
    PROVE  phase = "waiting"
BY DEF TypeOK, Phase, ConnInv, PhaseControl

\* A worker that owned nothing dials: the new connection is its own.
LEMMA OwnDialed ==
    ASSUME TypeOK, OneOwner, ClosedOnce, NEW w \in Worker,
           config' = config, config.model # "shared", conn' = Dialed,
           Owned(w) = NoConn,
           \A v \in Worker : Owned(v)' = IF v = w THEN Len(conn) + 1 ELSE Owned(v)
    PROVE  OneOwner' /\ ClosedOnce'
<1>1. /\ Len(conn) \in Nat /\ Len(conn') = Len(conn) + 1
      /\ conn'[Len(conn) + 1] = "open"
      /\ \A c \in 1..Len(conn) : conn'[c] = conn[c]
  BY DialedFacts DEF TypeOK
<1>2. \A v \in Worker : Owned(v) \in 0..Len(conn)
  BY DEF TypeOK, Owned
<1>3. ClosedOnce'
  BY <1>1 DEF ClosedOnce
<1>4. ASSUME NEW v \in Worker, Owned(v)' # NoConn PROVE conn'[Owned(v)'] = "open"
  BY <1>1, <1>2, <1>4 DEF OneOwner, NoConn
<1>5. ASSUME NEW u \in Worker, NEW v \in Worker, u # v, Owned(u)' # NoConn
      PROVE  Owned(u)' # Owned(v)'
  BY <1>1, <1>2, <1>5 DEF OneOwner, NoConn
<1>6. ASSUME NEW c \in 1..Len(conn'), conn'[c] = "open"
      PROVE  \E v \in Worker : Owned(v)' = c
  <2>1. CASE c = Len(conn) + 1
    BY <2>1
  <2>2. CASE c # Len(conn) + 1
    <3>1. c \in 1..Len(conn) /\ conn[c] = "open"
      BY <1>1, <1>6, <2>2
    <3>2. PICK v \in Worker : Owned(v) = c
      BY <3>1 DEF OneOwner
    <3>3. v # w
      BY <3>1, <3>2 DEF NoConn
    <3> QED
      BY <3>2, <3>3
  <2> QED
    BY <2>1, <2>2
<1> QED
  BY <1>3, <1>4, <1>5, <1>6 DEF OneOwner

\* A worker closes the connection it owns, and owns nothing then.
LEMMA OwnClosed ==
    ASSUME TypeOK, OneOwner, ClosedOnce, NEW w \in Worker,
           config' = config, config.model # "shared", Owned(w) # NoConn,
           conn' = Close(Owned(w)),
           \A v \in Worker : Owned(v)' = IF v = w THEN NoConn ELSE Owned(v)
    PROVE  OneOwner' /\ ClosedOnce'
<1>1. \A v \in Worker : Owned(v) \in 0..Len(conn)
  BY DEF TypeOK, Owned
<1>2. Owned(w) \in 1..Len(conn) /\ conn[Owned(w)] = "open"
  BY <1>1 DEF OneOwner, NoConn
<1>3. /\ Len(conn') = Len(conn)
      /\ \A c \in 1..Len(conn) :
            conn'[c] = IF c = Owned(w) THEN "closed" ELSE conn[c]
  BY <1>2, CloseFacts DEF TypeOK
<1>4. ClosedOnce'
  BY <1>3 DEF ClosedOnce
<1>5. ASSUME NEW v \in Worker, Owned(v)' # NoConn PROVE conn'[Owned(v)'] = "open"
  <2>1. v # w /\ Owned(v)' = Owned(v) /\ Owned(v) # Owned(w)
    BY <1>5 DEF OneOwner
  <2>2. Owned(v) \in 1..Len(conn)
    BY <1>1, <1>5, <2>1 DEF NoConn
  <2> QED
    BY <1>3, <1>5, <2>1, <2>2 DEF OneOwner
<1>6. ASSUME NEW u \in Worker, NEW v \in Worker, u # v, Owned(u)' # NoConn
      PROVE  Owned(u)' # Owned(v)'
  BY <1>6 DEF OneOwner
<1>7. ASSUME NEW c \in 1..Len(conn'), conn'[c] = "open"
      PROVE  \E v \in Worker : Owned(v)' = c
  <2>1. c \in 1..Len(conn) /\ c # Owned(w) /\ conn[c] = "open"
    BY <1>3, <1>7
  <2>2. PICK v \in Worker : Owned(v) = c
    BY <2>1 DEF OneOwner
  <2> QED
    BY <2>1, <2>2
<1> QED
  BY <1>4, <1>5, <1>6, <1>7 DEF OneOwner

\* One worker step preserves the ownership of connections.
LEMMA WorkerConnInv ==
    ASSUME TypeOK, ConnInv, NEW w \in Worker, WorkerStep(w)
    PROVE  ConnInv'
<1>0. phase = "waiting"
  <2>1. pc[w] \notin {"unborn", "done"}
    BY DEF WorkerStep, OpenSource, OpenSourceFails, EnterLoop, LeaveLoop,
           Acquire, AcquireFails, AcquireAbandoned, Answer, Record, Drop,
           Release, CloseSource
  <2> QED
    BY <2>1, WorkersWork
<1> USE DEF TypeOK, mainVars, NoConn
<1>1. CASE OpenSource(w)
  <2>1. PhaseControl'
    BY <1>0, <1>1 DEF OpenSource, Goto, PhaseControl, ConnInv
  <2>2. SharedConn'
    BY <1>0, <1>1 DEF OpenSource, SharedConn, ConnInv
  <2>3. InHand'
    <3> SUFFICES ASSUME NEW v \in Worker PROVE HandOf(v)'
      BY DEF InHand
    <3>1. HandOf(v) /\ HandOf(w) /\ Len(conn) \in Nat
      BY DEF ConnInv, InHand
    <3>2. CASE config.model = "per-worker"
      <4>1. src' = [src EXCEPT ![w] = Len(conn) + 1] /\ held' = held
        BY <1>1, <3>2 DEF OpenSource
      <4>2. src'[w] # 0
        BY <3>1, <4>1
      <4> QED
        BY <1>1, <3>1, <3>2, <4>1, <4>2
           DEF OpenSource, Goto, HandOf, InCall, Sourced
    <3>3. CASE config.model # "per-worker"
      BY <1>1, <3>1, <3>3 DEF OpenSource, Goto, HandOf, InCall, Sourced
    <3> QED
      BY <3>2, <3>3
  <2>4. OneOwner' /\ ClosedOnce'
    <3>1. CASE config.model = "per-worker"
      <4>1. conn' = Dialed /\ src' = [src EXCEPT ![w] = Len(conn) + 1]
        BY <1>1, <3>1 DEF OpenSource
      <4>2. src[w] = 0
        BY <1>1, <3>1 DEF OpenSource, ConnInv, InHand, HandOf, Sourced, InCall
      <4>3. config' = config /\ config.model # "per-request"
        BY <1>1, <3>1 DEF OpenSource
      <4>4. OneOwner /\ ClosedOnce
        BY DEF ConnInv
      <4> QED
        BY <3>1, <4>1, <4>2, <4>3, <4>4, OwnDialed DEF Owned
    <3>2. CASE config.model # "per-worker"
      BY <1>1, <3>2 DEF OpenSource, OneOwner, ClosedOnce, Owned, ConnInv
    <3> QED
      BY <3>1, <3>2
  <2> QED
    BY <2>1, <2>2, <2>3, <2>4 DEF ConnInv
<1>2. CASE OpenSourceFails(w)
  BY <1>0, <1>2, QuietStep DEF OpenSourceFails, Control, InCall, Sourced
<1>3. CASE EnterLoop(w)
  BY <1>0, <1>3, QuietStep DEF EnterLoop, Control, InCall, Sourced
<1>4. CASE LeaveLoop(w)
  BY <1>0, <1>4, QuietStep DEF LeaveLoop, Control, InCall, Sourced
<1>5. CASE Acquire(w)
  <2>1. PhaseControl'
    BY <1>0, <1>5 DEF Acquire, Goto, PhaseControl, ConnInv
  <2>2. SharedConn'
    BY <1>0, <1>5 DEF Acquire, SharedConn, ConnInv
  <2>3. InHand'
    <3> SUFFICES ASSUME NEW v \in Worker PROVE HandOf(v)'
      BY DEF InHand
    <3>0. HandOf(v) /\ HandOf(w) /\ Len(conn) \in Nat
      BY DEF ConnInv, InHand
    <3>1. CASE config.model = "per-worker"
      <4>1. held' = [held EXCEPT ![w] = src[w]] /\ src' = src /\ src[w] # 0
        BY <1>5, <3>0, <3>1 DEF Acquire, HandOf, Sourced
      <4> QED
        BY <1>5, <3>0, <3>1, <4>1 DEF Acquire, Goto, HandOf, InCall, Sourced
    <3>2. CASE config.model = "shared"
      <4>1. held' = [held EXCEPT ![w] = pool] /\ src' = src /\ pool # 0
        BY <1>0, <1>5, <3>2 DEF Acquire, SharedConn, ConnInv
      <4> QED
        BY <1>5, <3>0, <3>2, <4>1 DEF Acquire, Goto, HandOf, InCall, Sourced
    <3>3. CASE config.model = "per-request"
      <4>1. held' = [held EXCEPT ![w] = Len(conn) + 1] /\ src' = src
        BY <1>5, <3>3 DEF Acquire
      <4>2. held'[w] # 0
        BY <3>0, <4>1
      <4> QED
        BY <1>5, <3>0, <3>3, <4>1, <4>2 DEF Acquire, Goto, HandOf, InCall, Sourced
    <3> QED
      BY <3>1, <3>2, <3>3 DEF ConnModel
  <2>4. OneOwner' /\ ClosedOnce'
    <3>1. CASE config.model = "per-request"
      <4>1. conn' = Dialed /\ held' = [held EXCEPT ![w] = Len(conn) + 1]
        BY <1>5, <3>1 DEF Acquire
      <4>2. held[w] = 0
        BY <1>5, <3>1 DEF Acquire, ConnInv, InHand, HandOf, InCall
      <4>3. config' = config
        BY <1>5 DEF Acquire
      <4>4. OneOwner /\ ClosedOnce
        BY DEF ConnInv
      <4> QED
        BY <3>1, <4>1, <4>2, <4>3, <4>4, OwnDialed DEF Owned
    <3>2. CASE config.model # "per-request"
      BY <1>5, <3>2 DEF Acquire, OneOwner, ClosedOnce, Owned, ConnInv
    <3> QED
      BY <3>1, <3>2
  <2> QED
    BY <2>1, <2>2, <2>3, <2>4 DEF ConnInv
<1>6. CASE AcquireFails(w)
  BY <1>0, <1>6, QuietStep DEF AcquireFails, Control, InCall, Sourced
<1>7. CASE AcquireAbandoned(w)
  BY <1>0, <1>7, QuietStep DEF AcquireAbandoned, Control, InCall, Sourced
<1>8. CASE Answer(w)
  BY <1>0, <1>8, QuietStep DEF Answer, Control, InCall, Sourced
<1>9. CASE Record(w)
  BY <1>0, <1>9, QuietStep DEF Record, Control, InCall, Sourced
<1>10. CASE Drop(w)
  BY <1>0, <1>10, QuietStep DEF Drop, Control, InCall, Sourced
<1>11. CASE Release(w)
  <2>1. PhaseControl'
    BY <1>0, <1>11 DEF Release, Goto, PhaseControl, ConnInv
  <2>2. SharedConn'
    BY <1>0, <1>11 DEF Release, Released, SharedConn, ConnInv
  <2>3. InHand'
    BY <1>11 DEF Release, Goto, InHand, HandOf, ConnInv, InCall, Sourced
  <2>4. OneOwner' /\ ClosedOnce'
    <3>1. CASE config.model = "per-request"
      <4>1. held[w] \in 1..Len(conn) /\ conn[held[w]] = "open"
        BY <1>11, <3>1 DEF Release, ConnInv, InHand, HandOf, InCall, OneOwner, Owned
      <4>2. /\ conn' = Close(held[w]) /\ held' = [held EXCEPT ![w] = 0]
            /\ config' = config
        BY <1>11, <3>1 DEF Release, Released
      <4>3. OneOwner /\ ClosedOnce
        BY DEF ConnInv
      <4> QED
        BY <3>1, <4>1, <4>2, <4>3, OwnClosed DEF Owned
    <3>2. CASE config.model # "per-request"
      BY <1>11, <3>2 DEF Release, Released, OneOwner, ClosedOnce, Owned, ConnInv
    <3> QED
      BY <3>1, <3>2
  <2> QED
    BY <2>1, <2>2, <2>3, <2>4 DEF ConnInv
<1>12. CASE CloseSource(w)
  <2>1. PhaseControl'
    BY <1>0, <1>12 DEF CloseSource, Goto, PhaseControl, ConnInv
  <2>2. SharedConn'
    BY <1>0, <1>12 DEF CloseSource, SourceClosed, SharedConn, InHand, HandOf, ConnInv
  <2>3. InHand'
    BY <1>12 DEF CloseSource, Goto, InHand, HandOf, ConnInv, InCall, Sourced
  <2>4. OneOwner' /\ ClosedOnce'
    <3>1. CASE config.model = "per-worker"
      <4>1. src[w] \in 1..Len(conn) /\ conn[src[w]] = "open"
        BY <1>12, <3>1
           DEF CloseSource, ConnInv, InHand, HandOf, Sourced, InCall, OneOwner, Owned
      <4>2. /\ conn' = Close(src[w]) /\ src' = [src EXCEPT ![w] = 0]
            /\ config' = config
        BY <1>12, <3>1, <4>1 DEF CloseSource, SourceClosed
      <4>3. OneOwner /\ ClosedOnce
        BY DEF ConnInv
      <4>4. Owned(w) = src[w] /\ config.model # "shared"
        BY <3>1 DEF Owned
      <4>5. \A v \in Worker : Owned(v)' = IF v = w THEN 0 ELSE Owned(v)
        BY <3>1, <4>2 DEF Owned
      <4> QED
        <5> HIDE DEF TypeOK
        <5>1. conn' = Close(Owned(w)) /\ config' = config
          BY <4>2, <4>4
        <5>2. Owned(w) # 0
          BY <4>1, <4>4
        <5> QED
          BY <4>3, <4>4, <4>5, <5>1, <5>2, OwnClosed
    <3>2. CASE config.model # "per-worker"
      BY <1>12, <3>2
         DEF CloseSource, SourceClosed, InHand, HandOf, OneOwner, ClosedOnce, Owned, ConnInv
    <3> QED
      BY <3>1, <3>2
  <2> QED
    BY <2>1, <2>2, <2>3, <2>4 DEF ConnInv
<1> QED
  BY <1>1, <1>2, <1>3, <1>4, <1>5, <1>6, <1>7, <1>8, <1>9, <1>10, <1>11,
     <1>12 DEF WorkerStep

\* Every step preserves the ownership of connections.
LEMMA NextConnInv == TypeOK /\ ConnInv /\ [Next]_vars => ConnInv'
<1> SUFFICES ASSUME TypeOK, ConnInv, [Next]_vars PROVE ConnInv'
  OBVIOUS
<1> USE DEF ConnInv, PhaseControl, SharedConn, InHand, HandOf, OneOwner,
            ClosedOnce, Owned, mainVars, workerVars, NoConn
<1>1. CASE Cancel
  BY <1>1 DEF Cancel
<1>2. CASE DeadlineLapses
  BY <1>2 DEF DeadlineLapses
<1>3. CASE DeadlineObserved
  BY <1>3 DEF DeadlineObserved
<1>4. CASE Reject
  BY <1>4 DEF Reject
<1>5. CASE OpenPool
  <2>1. CASE config.model = "shared"
    <3>1. conn' = <<"open">> /\ pool' = 1
      BY <1>5, <2>1 DEF OpenPool, Dialed
    <3>2. phase' = "pooled" /\ config' = config /\ pc' = pc /\ held' = held /\ src' = src
      BY <1>5 DEF OpenPool
    <3>3. \A w \in Worker : pc[w] = "unborn"
      BY <1>5 DEF OpenPool
    <3> QED
      BY <2>1, <3>1, <3>2, <3>3 DEF InCall
  <2>2. CASE config.model # "shared"
    BY <1>5, <2>2 DEF OpenPool
  <2> QED
    BY <2>1, <2>2
<1>6. CASE OpenPoolFails
  BY <1>6 DEF OpenPoolFails
<1>7. CASE Spawn
  BY <1>7 DEF Spawn, InCall, Sourced, TypeOK
<1>8. CASE Join
  BY <1>8 DEF Join
<1>9. CASE Collect
  BY <1>9 DEF Collect
<1>10. CASE Return
  <2>1. CASE config.model = "shared"
    <3>1. conn = <<"open">> /\ pool = 1
      BY <1>10, <2>1 DEF Return
    <3>2. conn' = <<"closed">>
      BY <1>10, <3>1 DEF Return, PoolClosed, Close
    <3> QED
      BY <1>10, <2>1, <3>1, <3>2 DEF Return, InCall
  <2>2. CASE config.model # "shared"
    BY <1>10, <2>2 DEF Return, PoolClosed
  <2> QED
    BY <2>1, <2>2
<1>11. CASE UNCHANGED vars
  BY <1>11 DEF vars
<1>12. ASSUME NEW w \in Worker, WorkerStep(w) PROVE ConnInv'
  BY <1>12, WorkerConnInv
<1> QED
  BY <1>1, <1>2, <1>3, <1>4, <1>5, <1>6, <1>7, <1>8, <1>9, <1>10, <1>11,
     <1>12 DEF Next, Main, Terminated

\* Every connection has one owner, is closed by it and by no one else.
THEOREM ConnectionsOwned == Spec => []ConnInv
<1>1. TypeOK /\ ConnInv /\ [Next]_vars => TypeOK' /\ ConnInv'
  BY NextTypeOK, NextConnInv
<1> QED
  BY InitTypeOK, InitConnInv, <1>1, PTL DEF Spec

\* What ownership gives at any moment.
LEMMA OwnershipMeans ==
    ASSUME TypeOK, ConnInv PROVE CallsUseOpenConn /\ NothingLeaks
<1>1. CallsUseOpenConn
  <2> SUFFICES ASSUME NEW w \in Worker, pc[w] \in InCall PROVE conn[held[w]] = "open"
    BY DEF CallsUseOpenConn, InCall
  <2>1. HandOf(w) /\ held[w] # NoConn
    BY DEF ConnInv, InHand, HandOf
  <2>2. CASE config.model = "shared"
    <3>1. phase = "waiting"
      BY WorkersWork DEF InCall
    <3> QED
      BY <2>1, <2>2, <3>1 DEF ConnInv, SharedConn, HandOf
  <2>3. CASE config.model # "shared"
    BY <2>1, <2>3 DEF ConnInv, OneOwner, HandOf, Owned, TypeOK, ConnModel
  <2> QED
    BY <2>2, <2>3
<1>2. NothingLeaks
  <2> SUFFICES ASSUME phase \in {"returned", "failed"}, NEW c \in 1..Len(conn)
               PROVE  conn[c] = "closed"
    BY DEF NothingLeaks
  <2>1. CASE config.model = "shared"
    BY <2>1 DEF ConnInv, SharedConn
  <2>2. CASE config.model # "shared"
    <3>1. conn[c] \in {"open", "closed"}
      BY DEF ConnInv, ClosedOnce, TypeOK, ConnState
    <3>2. conn[c] # "open"
      BY <2>2 DEF ConnInv, PhaseControl, OneOwner, InHand, HandOf, Owned, InCall,
                  Sourced, NoConn
    <3> QED
      BY <3>1, <3>2
  <2> QED
    BY <2>1, <2>2
<1> QED
  BY <1>1, <1>2

\* Every call is made and classified on an open connection, whoever else is
\* closing connections meanwhile.
THEOREM CallsOnOpenConn == Spec => []CallsUseOpenConn
BY OwnershipMeans, TypeCorrect, ConnectionsOwned, PTL

\* When run returns, each connection it dialed has been closed exactly once.
THEOREM NoneLeaked == Spec => []NothingLeaks
BY OwnershipMeans, TypeCorrect, ConnectionsOwned, PTL
-----------------------------------------------------------------------------
(* Accounting of calls. *)

\* A run begins without attempts.
LEMMA InitCallInv == Init => CallInv
BY DEF Init, CallInv, CallInvOf, AccountOf, Pending

\* What CallInvOf(v) reads.
LEMMA OthersKeep ==
    ASSUME NEW v \in Worker, CallInvOf(v), pc'[v] = pc[v],
           attempts'[v] = attempts[v], results'[v] = results[v],
           drops'[v] = drops[v], late'[v] = late[v], ctx = "done" => ctx' = "done"
    PROVE  CallInvOf(v)'
BY DEF CallInvOf, AccountOf, Pending

\* Appending the result of attempt Len + 1.
LEMMA AppendedFacts ==
    ASSUME TypeOK, NEW w \in Worker, NEW out \in Outcome, AccountOf(w),
           Append1(w, Len(results[w]) + 1, out)
    PROVE  /\ Len(results'[w]) = Len(results[w]) + 1
           /\ \A k \in 1..Len(results'[w]) :
                 results'[w][k].by = w /\ results'[w][k].call = k
<1> DEFINE e == [by |-> w, call |-> Len(results[w]) + 1, out |-> out]
<1>1. results[w] \in Seq(Entry) /\ Len(results[w]) \in Nat
  BY DEF TypeOK
<1>2. results'[w] = Append(results[w], e)
  BY DEF Append1, TypeOK
<1>3. e \in Entry /\ e.by = w /\ e.call = Len(results[w]) + 1
  BY <1>1 DEF Entry
<1> QED
  BY <1>1, <1>2, <1>3, AppendProperties DEF AccountOf

\* One worker step keeps the accounts of that worker.
LEMMA WorkerCallInv ==
    ASSUME TypeOK, NEW w \in Worker, CallInvOf(w), WorkerStep(w)
    PROVE  CallInvOf(w)'
<1>0. /\ Len(results[w]) \in Nat /\ attempts[w] \in Nat /\ drops[w] \in Nat
      /\ late[w] \in Nat /\ pc \in [Worker -> Control]
      /\ attempts \in [Worker -> Nat] /\ drops \in [Worker -> Nat]
      /\ late \in [Worker -> Nat] /\ AccountOf(w)
  BY DEF TypeOK, CallInvOf
<1> USE <1>0 DEF CallInvOf, Goto, mainVars, Control
<1>1. CASE OpenSource(w)
  BY <1>1 DEF OpenSource, AccountOf, Pending
<1>2. CASE OpenSourceFails(w)
  <2>1. Len(results[w]) = 0 /\ drops[w] = 0 /\ Pending(w) = 0
    BY <1>2 DEF OpenSourceFails, AccountOf, Pending
  <2>2. Append1(w, Len(results[w]) + 1, "source") /\ "source" \in Outcome
    BY <1>2, <2>1 DEF OpenSourceFails, Outcome
  <2>3. AccountOf(w)'
    <3>1. /\ attempts'[w] = 1 /\ drops' = drops /\ pc'[w] = "done"
      BY <1>2 DEF OpenSourceFails
    <3>2. Pending(w)' = 0
      BY <3>1 DEF Pending
    <3>3. /\ Len(results'[w]) = Len(results[w]) + 1
          /\ \A k \in 1..Len(results'[w]) :
                results'[w][k].by = w /\ results'[w][k].call = k
      BY <2>2, AppendedFacts
    <3> QED
      BY <2>1, <3>1, <3>2, <3>3 DEF AccountOf
  <2> QED
    BY <1>2, <2>1, <2>3 DEF OpenSourceFails
<1>3. CASE EnterLoop(w)
  BY <1>3 DEF EnterLoop, AccountOf, Pending
<1>4. CASE LeaveLoop(w)
  BY <1>4 DEF LeaveLoop, AccountOf, Pending
<1>5. CASE Acquire(w)
  <2>1. /\ attempts'[w] = attempts[w] + 1 /\ drops' = drops /\ results' = results
        /\ pc[w] = "acquire" /\ pc'[w] = "calling" /\ ctx' = ctx
        /\ late'[w] = IF ctx = "done" THEN late[w] + 1 ELSE late[w]
    BY <1>5 DEF Acquire, Attempt
  <2>2. Pending(w) = 0 /\ Pending(w)' = 1
    BY <2>1 DEF Pending
  <2>3. AccountOf(w)'
    BY <2>1, <2>2 DEF AccountOf
  <2> QED
    BY <2>1, <2>3
<1>6. CASE AcquireFails(w)
  <2>1. attempts[w] = Len(results[w]) /\ drops[w] = 0 /\ Pending(w) = 0
    BY <1>6 DEF AcquireFails, AccountOf, Pending
  <2>2. Append1(w, Len(results[w]) + 1, "acquire") /\ "acquire" \in Outcome
    BY <1>6, <2>1 DEF AcquireFails, Outcome
  <2>3. AccountOf(w)'
    <3>1. attempts'[w] = attempts[w] + 1 /\ drops' = drops /\ pc'[w] = "loop"
      BY <1>6 DEF AcquireFails, Attempt
    <3>2. Pending(w)' = 0
      BY <3>1 DEF Pending
    <3> QED
      BY <2>1, <2>2, <3>1, <3>2, AppendedFacts DEF AccountOf
  <2> QED
    BY <1>6, <2>1, <2>3 DEF AcquireFails, Attempt
<1>7. CASE AcquireAbandoned(w)
  BY <1>7 DEF AcquireAbandoned, AccountOf, Pending
<1>8. CASE Answer(w)
  BY <1>8 DEF Answer, AccountOf, Pending
<1>9. CASE Record(w)
  <2>1. attempts[w] = Len(results[w]) + 1 /\ drops[w] = 0
    BY <1>9 DEF Record, AccountOf, Pending
  <2>2. reply[w] \in Outcome
    BY <1>9 DEF Record, IsDropped, TypeOK, Reply, Outcome
  <2>3. Append1(w, Len(results[w]) + 1, reply[w])
    BY <1>9, <2>1 DEF Record
  <2>4. AccountOf(w)'
    <3>1. attempts' = attempts /\ drops' = drops /\ pc'[w] = "recorded"
      BY <1>9 DEF Record
    <3>2. Pending(w)' = 0
      BY <3>1 DEF Pending
    <3>3. /\ Len(results'[w]) = attempts[w]
          /\ \A k \in 1..Len(results'[w]) :
                results'[w][k].by = w /\ results'[w][k].call = k
      BY <2>1, <2>2, <2>3, AppendedFacts
    <3> QED
      BY <2>1, <3>1, <3>2, <3>3 DEF AccountOf
  <2> QED
    BY <1>9, <2>1, <2>4 DEF Record
<1>10. CASE Drop(w)
  BY <1>10 DEF Drop, AccountOf, Pending
<1>11. CASE Release(w)
  BY <1>11 DEF Release, AccountOf, Pending
<1>12. CASE CloseSource(w)
  BY <1>12 DEF CloseSource, AccountOf, Pending
<1> QED
  BY <1>1, <1>2, <1>3, <1>4, <1>5, <1>6, <1>7, <1>8, <1>9, <1>10, <1>11,
     <1>12 DEF WorkerStep

\* A step of one worker leaves the accounts of the others alone.
LEMMA WorkersApart ==
    ASSUME TypeOK, NEW w \in Worker, NEW v \in Worker, v # w, WorkerStep(w)
    PROVE  /\ pc'[v] = pc[v] /\ attempts'[v] = attempts[v]
           /\ results'[v] = results[v] /\ drops'[v] = drops[v]
           /\ late'[v] = late[v] /\ ctx' = ctx
BY DEF WorkerStep, OpenSource, OpenSourceFails, EnterLoop, LeaveLoop, Acquire,
       AcquireFails, AcquireAbandoned, Answer, Record, Drop, Release,
       CloseSource, Goto, Attempt, Append1, TypeOK

\* Every step keeps the accounts of every worker.
LEMMA NextCallInv == TypeOK /\ ConnInv /\ CallInv /\ [Next]_vars => CallInv'
<1> SUFFICES ASSUME TypeOK, ConnInv, CallInv, [Next]_vars, NEW v \in Worker
             PROVE  CallInvOf(v)'
  BY DEF CallInv
<1>0. CallInvOf(v)
  BY DEF CallInv
<1>1. CASE Cancel \/ DeadlineLapses \/ DeadlineObserved
  BY <1>0, <1>1, OthersKeep
     DEF Cancel, DeadlineLapses, DeadlineObserved, workerVars
<1>2. CASE Reject \/ OpenPool \/ OpenPoolFails \/ Join \/ Collect \/ Return
  BY <1>0, <1>2, OthersKeep
     DEF Reject, OpenPool, OpenPoolFails, Join, Collect, Return, workerVars
<1>3. CASE Spawn
  <2>1. pc[v] = "unborn" /\ pc'[v] = "spawned"
    BY <1>3 DEF Spawn, ConnInv, PhaseControl
  <2> QED
    BY <1>0, <1>3, <2>1 DEF Spawn, CallInvOf, AccountOf, Pending
<1>4. CASE UNCHANGED vars
  BY <1>0, <1>4, OthersKeep DEF vars
<1>5. ASSUME NEW w \in Worker, WorkerStep(w) PROVE CallInvOf(v)'
  <2>1. CASE v = w
    BY <1>0, <1>5, <2>1, WorkerCallInv
  <2>2. CASE v # w
    BY <1>0, <1>5, <2>2, OthersKeep, WorkersApart
  <2> QED
    BY <2>1, <2>2
<1> QED
  BY <1>1, <1>2, <1>3, <1>4, <1>5 DEF Next, Main, Terminated

\* The accounts of every worker are right in every reachable state.
LEMMA CallsInvariant == Spec => []CallInv
<1>1. TypeOK /\ ConnInv /\ CallInv /\ [Next]_vars => TypeOK' /\ ConnInv' /\ CallInv'
  BY NextTypeOK, NextConnInv, NextCallInv
<1> QED
  BY InitTypeOK, InitConnInv, InitCallInv, <1>1, PTL DEF Spec

\* What the accounts mean at any moment.
LEMMA AccountsMean == ASSUME TypeOK, CallInv PROVE Accounted /\ OneLateAttempt
<1> SUFFICES ASSUME NEW w \in Worker PROVE AccountOf(w) /\ late[w] <= 1
  BY DEF Accounted, OneLateAttempt
<1>1. late[w] \in Nat /\ CallInvOf(w)
  BY DEF TypeOK, CallInv
<1> QED
  BY <1>1 DEF CallInvOf

\* Each attempt is recorded once or is the only drop of its worker.
THEOREM CallsAccounted == Spec => []Accounted
BY AccountsMean, TypeCorrect, CallsInvariant, PTL

\* A worker starts at most one attempt once the run context has ended.
THEOREM LateBounded == Spec => []OneLateAttempt
BY AccountsMean, TypeCorrect, CallsInvariant, PTL

\* A worker that has dropped a call never starts or records another.
THEOREM DropEndsWorker == Spec => DropIsLast
<1>1. ASSUME TypeOK, CallInv, Next, NEW w \in Worker, drops[w] > 0
      PROVE  attempts'[w] = attempts[w] /\ results'[w] = results[w]
  <2>1. pc[w] \in {"dropped", "closing", "done"}
    BY <1>1 DEF CallInv, CallInvOf
  <2>2. CASE \E v \in Worker : WorkerStep(v)
    <3>1. PICK v \in Worker : WorkerStep(v)
      BY <2>2
    <3>2. CASE v = w
      <4>1. Release(w) \/ CloseSource(w)
        BY <2>1, <3>1, <3>2 DEF WorkerStep, OpenSource, OpenSourceFails,
           EnterLoop, LeaveLoop, Acquire, AcquireFails, AcquireAbandoned,
           Answer, Record, Drop
      <4> QED
        BY <4>1 DEF Release, CloseSource
    <3>3. CASE v # w
      BY <1>1, <3>1, <3>3, WorkersApart
    <3> QED
      BY <3>2, <3>3
  <2>3. CASE ~ \E v \in Worker : WorkerStep(v)
    BY <1>1, <2>3 DEF Next, Main, Cancel, DeadlineLapses, DeadlineObserved,
       Reject, OpenPool, OpenPoolFails, Spawn, Join, Collect, Return,
       Terminated, workerVars, vars
  <2> QED
    BY <2>2, <2>3
<1>2. TypeOK /\ CallInv /\ [Next]_vars =>
        [\A w \in Worker : drops[w] > 0 =>
           attempts'[w] = attempts[w] /\ results'[w] = results[w]]_vars
  BY <1>1
<1> QED
  BY TypeCorrect, CallsInvariant, <1>2, PTL DEF Spec, DropIsLast

\* A call that succeeded is recorded, also when the run context has ended.
THEOREM SuccessesAreRecorded == Spec => SuccessRecorded
<1>1. ASSUME TypeOK, ConnInv, Next, NEW w \in Worker, pc[w] = "answered",
             reply[w] = "ok", pc'[w] # "answered"
      PROVE  Len(results'[w]) = Len(results[w]) + 1
  <2>1. CASE \E v \in Worker : WorkerStep(v)
    <3>1. PICK v \in Worker : WorkerStep(v)
      BY <2>1
    <3>2. v = w
      BY <1>1, <3>1, WorkersApart
    <3>3. Record(w)
      BY <1>1, <3>1, <3>2 DEF WorkerStep, OpenSource, OpenSourceFails,
         EnterLoop, LeaveLoop, Acquire, AcquireFails, AcquireAbandoned,
         Answer, Drop, IsDropped, Release, CloseSource
    <3>4. /\ results[w] \in Seq(Entry) /\ results \in [Worker -> Seq(Entry)]
          /\ [by |-> w, call |-> attempts[w], out |-> reply[w]] \in Entry
      BY <1>1 DEF TypeOK, Entry, Outcome
    <3>5. results'[w] =
            Append(results[w], [by |-> w, call |-> attempts[w], out |-> reply[w]])
      BY <3>3, <3>4 DEF Record, Append1
    <3> QED
      BY <3>4, <3>5, AppendProperties
  <2>2. CASE ~ \E v \in Worker : WorkerStep(v)
    BY <1>1, <2>2 DEF Next, Main, Cancel, DeadlineLapses, DeadlineObserved,
       Reject, OpenPool, OpenPoolFails, Spawn, Join, Collect, Return,
       Terminated, workerVars, vars, ConnInv, PhaseControl
  <2> QED
    BY <2>1, <2>2
<1>2. TypeOK /\ ConnInv /\ [Next]_vars =>
        [\A w \in Worker :
           pc[w] = "answered" /\ reply[w] = "ok" /\ pc'[w] # "answered" =>
              Len(results'[w]) = Len(results[w]) + 1]_vars
  BY <1>1
<1> QED
  BY TypeCorrect, ConnectionsOwned, <1>2, PTL DEF Spec, SuccessRecorded
=============================================================================
