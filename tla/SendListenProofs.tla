-------------------------- MODULE SendListenProofs --------------------------
(***************************************************************************)
(* Theorems about SendListen, for every set of clients, every buffer,      *)
(* every limit of descriptors and every length of a payload: payloads are  *)
(* logged whole, and a listener is published while it accepts, until the   *)
(* context is cancelled and no error of Accept sooner.                     *)
(***************************************************************************)
EXTENDS SendListen, TLAPS

USE BufferAssumption, FdLimitAssumption, MaxChunksAssumption

-----------------------------------------------------------------------------
(* The inductive invariant. *)

\* What is published and which goroutine exists, along the control of Run; who
\* has the socket: Run until it starts the watcher, then the watcher; and that
\* Run leaves only after the watcher has seen the cancellation.
Listening ==
    /\ listener <=> run \in {"looping", "accepting", "leaving"}
    /\ watcher = "unborn" <=> run \in {"binding", "bound", "failed"}
    /\ socket = "none" <=> run \in {"binding", "failed"}
    /\ socket = "open" <=> run = "bound" \/ watcher = "waiting"
    /\ socket = "closing" => watcher = "closing"
    /\ watcher \in {"closing", "exited"} => cancelled
    /\ run \in {"leaving", "returned"} => watcher \in {"closing", "exited"}
    /\ socket \in {"none", "closed"} => backlog = << >>

\* A connection waits once, open and without a handler.
Queue ==
    /\ \A i, j \in 1..Len(backlog) : i # j => backlog[i] # backlog[j]
    /\ \A i \in 1..Len(backlog) :
          /\ link[backlog[i]].up = "open"
          /\ handler[backlog[i]] = "none"
          /\ client[backlog[i]] # "idle"

Finished == {"ok", "failed", "killed"}

\* A client's bytes: while the server's end is open what was written has been
\* read or is still in the buffer, and only a client that has finished closes.
Stream(c) ==
    /\ client[c] = "idle" =>
          link[c] = Down /\ got[c] = 0 /\ written[c] = 0 /\ handler[c] = "none"
    /\ handler[c] \in {"started", "copying"} => link[c].up = "open"
    /\ link[c].up = "open" => written[c] = got[c] + link[c].unread
    /\ link[c].fin => client[c] \in Finished
    /\ logged[c] # NotLogged => logged[c] = written[c] /\ client[c] \in Finished

Streams == \A c \in Client : Stream(c)

IInv == TypeOK /\ Listening /\ Queue /\ Streams

-----------------------------------------------------------------------------
(* Types. *)

LinkState == [up : {"none", "open", "gone"}, unread : 0..Buffer, fin : BOOLEAN]

\* Both programs start in the invariant.
LEMMA InitInvariant == Init => IInv
<1> SUFFICES ASSUME Init PROVE IInv
  OBVIOUS
<1> USE DEF Init, TcpInit, ListenInit
<1>1. TypeOK
  <2>1. Down \in LinkState
    BY DEF Down, LinkState
  <2>2. TcpTypeOK
    BY <2>1 DEF TcpTypeOK, LinkState
  <2>3. /\ handler \in [Client -> {"none", "started", "copying", "closing", "done"}]
        /\ got \in [Client -> Nat]
        /\ logged \in [Client -> Nat \cup {NotLogged}]
    BY DEF NotLogged
  <2>4. ListenTypeOK
    <3>1. cancelled \in BOOLEAN /\ listener \in BOOLEAN
      OBVIOUS
    <3>2. /\ run = "binding" /\ watcher = "unborn"
      OBVIOUS
    <3> HIDE DEF Init, ListenInit
    <3> QED
      BY <2>3, <3>1, <3>2 DEF ListenTypeOK
  <2>5. /\ client \in [Client -> {"idle", "copying", "failing", "succeeding", "failed", "ok",
                                  "killed"}]
        /\ written \in [Client -> 0..MaxChunks]
    OBVIOUS
  <2> QED
    BY <2>2, <2>4, <2>5 DEF TypeOK
<1>2. Listening /\ Queue
  BY DEF Listening, Queue
<1>3. Streams
  BY DEF Streams, Stream, Down, NotLogged
<1> QED
  BY <1>1, <1>2, <1>3 DEF IInv

\* The steps of the server keep the types.
LEMMA ServerTypes ==
    ASSUME TypeOK, ListenNext, UNCHANGED clientVars
    PROVE  TypeOK'
<1> USE DEF TypeOK, TcpTypeOK, ListenTypeOK, LinkState, tcpVars, clientVars, HandlerFrame,
    HandlerGoto
<1>1. CASE Cancel
  BY <1>1 DEF Cancel
<1>2. CASE Bind
  BY <1>2 DEF Bind, OpenSocket
<1>3. CASE BindFails
  BY <1>3 DEF BindFails
<1>4. CASE Publish
  BY <1>4 DEF Publish
<1>5. CASE WatcherStep
  <2>1. CASE Watch
    BY <2>1 DEF Watch, MarkClosed
  <2>2. CASE Drop
    <3>1. link' \in [Client -> LinkState]
      BY <2>2 DEF Drop, CloseSocket
    <3>2. /\ socket' = "closed" /\ backlog' = << >>
          /\ UNCHANGED <<cancelled, run, listener, watcher, handler, got, logged>>
      BY <2>2 DEF Drop, CloseSocket
    <3> QED
      BY <3>1, <3>2
  <2>3. CASE WatchReturns
    BY <2>3 DEF WatchReturns
  <2> QED
    BY <1>5, <2>1, <2>2, <2>3 DEF WatcherStep
<1>6. CASE EnterAccept \/ Accept
  <2>1. CASE EnterAccept
    BY <2>1 DEF EnterAccept
  <2>2. CASE Accept
    <3>1. handler' \in [Client -> {"none", "started", "copying", "closing", "done"}]
      BY <2>2 DEF Accept
    <3>2. backlog' \in Seq(Client) /\ run' = "looping"
      BY <2>2 DEF Accept
    <3>3. UNCHANGED <<socket, link, cancelled, listener, watcher, got, logged>>
      BY <2>2 DEF Accept
    <3> QED
      BY <3>1, <3>2, <3>3
  <2> QED
    BY <1>6, <2>1, <2>2
<1>7. CASE AcceptFails
  BY <1>7 DEF AcceptFails
<1>8. CASE AcceptClosed
  BY <1>8 DEF AcceptClosed
<1>9. CASE Unpublish
  BY <1>9 DEF Unpublish
<1>10. ASSUME NEW c \in Client, HandlerStep(c) PROVE TypeOK'
  <2>1. CASE SetDeadline(c)
    BY <1>10, <2>1 DEF SetDeadline
  <2>2. CASE SetDeadlineFails(c)
    BY <1>10, <2>2 DEF SetDeadlineFails
  <2>3. CASE CopyChunk(c)
    <3>1. link[c].unread \in 0..Buffer /\ link[c].unread > 0
      BY <2>3 DEF CopyChunk, Read
    <3>2. link[c].unread - 1 \in 0..Buffer
      BY <3>1
    <3>3. link' \in [Client -> LinkState]
      BY <2>3, <3>2 DEF CopyChunk, Read
    <3>4. got' \in [Client -> Nat]
      BY <2>3 DEF CopyChunk
    <3> QED
      BY <2>3, <3>3, <3>4 DEF CopyChunk, Read
  <2>4. CASE CopyDone(c)
    BY <1>10, <2>4 DEF CopyDone
  <2>5. CASE DeadlineStrikes(c)
    BY <1>10, <2>5 DEF DeadlineStrikes
  <2>6. CASE CloseConn(c)
    BY <1>10, <2>6 DEF CloseConn, CloseRead
  <2> QED
    BY <1>10, <2>1, <2>2, <2>3, <2>4, <2>5, <2>6 DEF HandlerStep
<1> QED
  BY <1>1, <1>2, <1>3, <1>4, <1>5, <1>6, <1>7, <1>8, <1>9, <1>10 DEF ListenNext, RunStep

\* The steps of a client keep the types.
LEMMA ClientTypes ==
    ASSUME TypeOK, NEW c \in Client, ClientStep(c)
    PROVE  TypeOK'
<1> USE DEF TypeOK, TcpTypeOK, ListenTypeOK, LinkState, tcpVars, listenVars, ClientGoto
<1>1. CASE Dial(c)
  <2>1. backlog' \in Seq(Client)
    BY <1>1 DEF Dial, Connect
  <2>2. link' \in [Client -> LinkState]
    BY <1>1 DEF Dial, Connect
  <2> QED
    BY <1>1, <2>1, <2>2 DEF Dial, Connect
<1>2. CASE DialFails(c)
  BY <1>2 DEF DialFails
<1>3. CASE WriteChunk(c)
  <2>1. link' \in [Client -> LinkState]
    <3>1. CASE link[c].up = "open"
      <4>1. link[c].unread + 1 \in 0..Buffer
        BY <1>3, <3>1 DEF WriteChunk, Write
      <4>2. link' = [link EXCEPT ![c].unread = @ + 1]
        BY <1>3, <3>1 DEF WriteChunk, Write
      <4> QED
        BY <4>1, <4>2
    <3>2. CASE link[c].up # "open"
      BY <1>3, <3>2 DEF WriteChunk, Write
    <3> QED
      BY <3>1, <3>2
  <2>2. written' \in [Client -> 0..MaxChunks]
    BY <1>3 DEF WriteChunk
  <2> QED
    BY <1>3, <2>1, <2>2 DEF WriteChunk, Write
<1>4. CASE WriteFails(c)
  BY <1>4 DEF WriteFails
<1>5. CASE ReaderFails(c)
  BY <1>5 DEF ReaderFails
<1>6. CASE ReaderEOF(c)
  BY <1>6 DEF ReaderEOF
<1>7. CASE Hangup(c)
  BY <1>7 DEF Hangup, CloseWrite
<1>8. CASE Killed(c)
  BY <1>8 DEF Killed, CloseWrite
<1> QED
  BY <1>1, <1>2, <1>3, <1>4, <1>5, <1>6, <1>7, <1>8 DEF ClientStep
-----------------------------------------------------------------------------
(* The listener. *)

\* The steps of the server keep its own part of the invariant.
LEMMA ServerListening ==
    ASSUME TypeOK, Listening, ListenNext
    PROVE  Listening'
<1> USE DEF TypeOK, TcpTypeOK, ListenTypeOK, Listening, tcpVars, HandlerFrame
<1>1. CASE Cancel
  BY <1>1 DEF Cancel
<1>2. CASE Bind
  BY <1>2 DEF Bind, OpenSocket
<1>3. CASE BindFails
  BY <1>3 DEF BindFails
<1>4. CASE Publish
  BY <1>4 DEF Publish
<1>5. CASE Watch
  BY <1>5 DEF Watch, Ready, MarkClosed
<1>6. CASE Drop \/ WatchReturns
  BY <1>6 DEF Drop, CloseSocket, WatchReturns
<1>7. CASE AcceptFails
  BY <1>7 DEF AcceptFails
<1>8. CASE AcceptClosed
  BY <1>8 DEF AcceptClosed
<1>9. CASE Unpublish
  BY <1>9 DEF Unpublish
<1>10. CASE EnterAccept \/ Accept
  BY <1>10 DEF EnterAccept, Accept
<1>11. ASSUME NEW c \in Client, HandlerStep(c) PROVE Listening'
  BY <1>11 DEF HandlerStep, SetDeadline, SetDeadlineFails, CopyChunk, Read, CopyDone,
    DeadlineStrikes, CloseConn, CloseRead
<1> QED
  BY <1>1, <1>2, <1>3, <1>4, <1>5, <1>6, <1>7, <1>8, <1>9, <1>10, <1>11
  DEF ListenNext, RunStep, WatcherStep

\* A client changes nothing of it but the backlog of a socket that is not closed.
LEMMA ClientListening ==
    ASSUME Listening, NEW c \in Client, ClientStep(c)
    PROVE  Listening'
BY DEF Listening, ClientStep, Dial, Connect, DialFails, WriteChunk, Write, WriteFails,
    ReaderFails, ReaderEOF, Hangup, Killed, CloseWrite, tcpVars, listenVars

-----------------------------------------------------------------------------
(* The backlog and the streams. *)

\* Accepting takes the first connection, which waits no longer.
LEMMA AcceptStep ==
    ASSUME TypeOK, Queue, Streams, Accept, UNCHANGED clientVars
    PROVE  Queue' /\ Streams'
<1> DEFINE first == Head(backlog)
<1>1. /\ first \in Client /\ first = backlog[1] /\ Len(backlog) \in Nat \ {0}
      /\ backlog' \in Seq(Client) /\ Len(backlog') = Len(backlog) - 1
      /\ \A i \in 1..Len(backlog') : backlog'[i] = backlog[i + 1]
  BY DEF Accept, TypeOK, TcpTypeOK
<1>2. handler' = [handler EXCEPT ![first] = "started"]
  BY DEF Accept
<1>3. link[first].up = "open" /\ client[first] # "idle"
  BY <1>1 DEF Queue
<1>4. Queue'
  BY <1>1, <1>2 DEF Queue, Accept, clientVars, TypeOK, ListenTypeOK
<1>5. Streams'
  BY <1>1, <1>2, <1>3 DEF Streams, Stream, Accept, clientVars, TypeOK, ListenTypeOK
<1> QED
  BY <1>4, <1>5

\* Closing the socket resets what waits, and touches no handler's connection.
LEMMA DropStep ==
    ASSUME TypeOK, Queue, Streams, Drop, UNCHANGED clientVars
    PROVE  Queue' /\ Streams'
<1>1. backlog' = << >> /\ UNCHANGED <<handler, got, logged, client, written>>
  BY DEF Drop, CloseSocket, clientVars
<1>2. \A c \in Client : ~ Waiting(c) => link'[c] = link[c]
  BY DEF Drop, CloseSocket, TypeOK, TcpTypeOK
<1>3. \A c \in Client : Waiting(c) =>
        link'[c].up = "gone" /\ link'[c].fin = link[c].fin
  BY DEF Drop, CloseSocket, TypeOK, TcpTypeOK
<1>4. \A c \in Client : Waiting(c) => handler[c] = "none" /\ client[c] # "idle"
  BY DEF Queue, Waiting
<1>5. Queue'
  BY <1>1 DEF Queue
<1>6. Streams'
  BY <1>1, <1>2, <1>3, <1>4 DEF Streams, Stream
<1> QED
  BY <1>5, <1>6

\* The other steps of Run and of its watcher leave connections alone.
LEMMA RunKeepsConnections ==
    ASSUME Queue, Streams, UNCHANGED clientVars,
           \/ Cancel \/ Bind \/ BindFails \/ Publish \/ Watch \/ WatchReturns
           \/ EnterAccept \/ AcceptFails \/ AcceptClosed \/ Unpublish
    PROVE  Queue' /\ Streams'
<1>1. UNCHANGED <<backlog, link, handler, got, logged, client, written>>
  BY DEF Cancel, Bind, OpenSocket, BindFails, Publish, Watch, MarkClosed, WatchReturns,
    EnterAccept, AcceptFails, AcceptClosed, Unpublish, tcpVars, clientVars
<1> QED
  BY <1>1 DEF Queue, Streams, Stream

\* A handler works on a connection that was accepted, not on one that waits.
LEMMA HandlerSteps ==
    ASSUME TypeOK, Queue, Streams, NEW c \in Client, HandlerStep(c), UNCHANGED clientVars
    PROVE  Queue' /\ Streams'
<1> USE DEF TypeOK, TcpTypeOK, ListenTypeOK, HandlerGoto, tcpVars, clientVars
<1>1. /\ handler[c] # "none" /\ UNCHANGED <<backlog, client, written>>
      /\ \A d \in Client \ {c} : /\ handler'[d] = handler[d] /\ link'[d] = link[d]
                                 /\ got'[d] = got[d] /\ logged'[d] = logged[d]
  BY DEF HandlerStep, SetDeadline, SetDeadlineFails, CopyChunk, Read, CopyDone,
    DeadlineStrikes, CloseConn, CloseRead
<1>2. Queue'
  <2>1. \A i \in 1..Len(backlog) : backlog[i] \in Client \ {c}
    BY <1>1 DEF Queue
  <2>2. \A i \in 1..Len(backlog) : /\ link'[backlog[i]] = link[backlog[i]]
                                   /\ handler'[backlog[i]] = handler[backlog[i]]
    BY <1>1, <2>1
  <2> HIDE DEF TypeOK, TcpTypeOK, ListenTypeOK
  <2> QED
    BY <1>1, <2>2 DEF Queue
<1>3. \A d \in Client \ {c} : Stream(d)'
  BY <1>1 DEF Streams, Stream
<1>4. Stream(c)'
  <2>1. Stream(c)
    BY DEF Streams
  <2>2. CASE SetDeadline(c)
    BY <2>1, <2>2 DEF SetDeadline, Stream
  <2>3. CASE SetDeadlineFails(c)
    BY <2>1, <2>3 DEF SetDeadlineFails, Stream
  <2>4. CASE CopyChunk(c)
    BY <2>1, <2>4 DEF CopyChunk, Read, Stream
  <2>5. CASE CopyDone(c)
    BY <2>1, <2>5 DEF CopyDone, AtEOF, Stream
  <2>6. CASE DeadlineStrikes(c)
    BY <2>1, <2>6 DEF DeadlineStrikes, Stream
  <2>7. CASE CloseConn(c)
    BY <2>1, <2>7 DEF CloseConn, CloseRead, Stream
  <2> QED
    BY <2>2, <2>3, <2>4, <2>5, <2>6, <2>7 DEF HandlerStep
<1> QED
  BY <1>2, <1>3, <1>4 DEF Streams

\* A client that dials was nowhere before, and its connection is the last to
\* wait.
LEMMA DialStep ==
    ASSUME TypeOK, Queue, Streams, NEW c \in Client, Dial(c)
    PROVE  Queue' /\ Streams'
<1> USE DEF TypeOK, TcpTypeOK, ListenTypeOK, listenVars
<1>1. /\ Len(backlog) \in Nat /\ Len(backlog') = Len(backlog) + 1
      /\ backlog'[Len(backlog) + 1] = c
      /\ \A i \in 1..Len(backlog) : backlog'[i] = backlog[i] /\ backlog[i] \in Client
  BY DEF Dial, Connect
<1>2. /\ client' = [client EXCEPT ![c] = "copying"]
      /\ link' = [link EXCEPT ![c].up = "open"]
      /\ UNCHANGED <<handler, got, logged, written>>
  BY DEF Dial, Connect, ClientGoto
<1>3. client[c] = "idle" /\ handler[c] = "none" /\ Stream(c)
  BY DEF Dial, Streams, Stream
<1>4. \A i \in 1..Len(backlog) : backlog[i] # c
  BY <1>3 DEF Queue
<1>5. Queue'
  <2>1. \A d \in Client : link[d].up = "open" => link'[d].up = "open"
    BY <1>2
  <2>2. \A d \in Client : client[d] # "idle" => client'[d] # "idle"
    BY <1>2
  <2>3. link'[c].up = "open" /\ handler'[c] = "none" /\ client'[c] # "idle"
    BY <1>2, <1>3
  <2> HIDE DEF TypeOK, TcpTypeOK, ListenTypeOK
  <2>4. \A i \in 1..Len(backlog') :
           i \in 1..Len(backlog) \/ i = Len(backlog) + 1
    BY <1>1
  <2>5. \A i, j \in 1..Len(backlog') : i # j => backlog'[i] # backlog'[j]
    BY <1>1, <1>4, <2>4 DEF Queue
  <2>6. \A i \in 1..Len(backlog') :
           /\ link'[backlog'[i]].up = "open"
           /\ handler'[backlog'[i]] = "none"
           /\ client'[backlog'[i]] # "idle"
    BY <1>1, <1>2, <2>1, <2>2, <2>3, <2>4 DEF Queue
  <2> QED
    BY <2>5, <2>6 DEF Queue
<1>6. Stream(c)'
  BY <1>2, <1>3 DEF Stream, Down, Finished
<1>7. \A d \in Client \ {c} : Stream(d)'
  BY <1>2 DEF Streams, Stream
<1> QED
  BY <1>5, <1>6, <1>7 DEF Streams

\* The other steps of a client, whatever the server has made of its
\* connection.
LEMMA ClientSteps ==
    ASSUME TypeOK, Queue, Streams, NEW c \in Client, ClientStep(c)
    PROVE  Queue' /\ Streams'
<1> USE DEF TypeOK, TcpTypeOK, ListenTypeOK, ClientGoto, tcpVars, listenVars
<1>1. CASE Dial(c)
  BY <1>1, DialStep
<1>2. CASE ~ Dial(c)
  <2>1. /\ UNCHANGED <<backlog, handler, got, logged>>
        /\ \A d \in Client \ {c} : /\ client'[d] = client[d] /\ link'[d] = link[d]
                                   /\ written'[d] = written[d]
        /\ link'[c].up = link[c].up /\ client'[c] # "idle"
    BY <1>2 DEF ClientStep, DialFails, WriteChunk, Write, WriteFails, ReaderFails, ReaderEOF,
      Hangup, Killed, CloseWrite
  <2>2. Queue'
    <3>1. \A i \in 1..Len(backlog) : backlog[i] \in Client
      OBVIOUS
    <3>2. \A d \in Client : /\ link'[d].up = link[d].up
                            /\ client[d] # "idle" => client'[d] # "idle"
      BY <2>1
    <3> QED
      BY <2>1, <3>1, <3>2 DEF Queue
  <2>3. \A d \in Client \ {c} : Stream(d)'
    BY <2>1 DEF Streams, Stream
  <2>4. Stream(c)'
    <3>1. Stream(c)
      BY DEF Streams
    <3>2. CASE DialFails(c)
      BY <3>1, <3>2 DEF DialFails, Stream, Down, Finished
    <3>3. CASE WriteChunk(c)
      <4>1. /\ client[c] = "copying" /\ UNCHANGED <<client, handler, got, logged>>
            /\ written'[c] = written[c] + 1
            /\ link'[c].up = link[c].up /\ link'[c].fin = link[c].fin
            /\ link[c].up = "open" => link'[c].unread = link[c].unread + 1
        BY <3>3 DEF WriteChunk, Write
      <4>2. written[c] \in Nat /\ got[c] \in Nat /\ link[c].unread \in Nat
        OBVIOUS
      <4> QED
        BY <3>1, <4>1, <4>2 DEF Stream, Finished
    <3>4. CASE WriteFails(c) \/ ReaderFails(c) \/ ReaderEOF(c)
      BY <3>1, <3>4 DEF WriteFails, ReaderFails, ReaderEOF, Stream, Finished
    <3>5. CASE Hangup(c)
      BY <3>1, <3>5 DEF Hangup, CloseWrite, Stream, Finished
    <3>6. CASE Killed(c)
      BY <3>1, <3>6 DEF Killed, CloseWrite, Stream, Finished
    <3> QED
      BY <1>2, <3>2, <3>3, <3>4, <3>5, <3>6 DEF ClientStep
  <2> QED
    BY <2>2, <2>3, <2>4 DEF Streams
<1> QED
  BY <1>1, <1>2

\* Spec => []IInv: the invariant that the theorems below rest on.
LEMMA Invariant == Spec => []IInv
<1>1. IInv /\ [Next]_vars => IInv'
  <2> SUFFICES ASSUME IInv, [Next]_vars PROVE IInv'
    OBVIOUS
  <2>1. CASE ListenNext /\ UNCHANGED clientVars
    <3>1. TypeOK' /\ Listening'
      BY <2>1, ServerTypes, ServerListening DEF IInv
    <3>2. Queue' /\ Streams'
      BY <2>1, AcceptStep, DropStep, RunKeepsConnections, HandlerSteps
      DEF IInv, ListenNext, RunStep, WatcherStep
    <3> QED
      BY <3>1, <3>2 DEF IInv
  <2>2. ASSUME NEW c \in Client, ClientStep(c) PROVE IInv'
    BY <2>2, ClientTypes, ClientListening, ClientSteps DEF IInv
  <2>3. CASE UNCHANGED vars
    BY <2>3 DEF vars, tcpVars, listenVars, clientVars, IInv, TypeOK, TcpTypeOK, ListenTypeOK,
      Listening, Queue, Streams, Stream
  <2> QED
    BY <2>1, <2>2, <2>3 DEF Next
<1> QED
  BY <1>1, InitInvariant, PTL DEF Spec

-----------------------------------------------------------------------------
(* The theorems. *)

\* The variables of both programs and of TCP keep their types; no buffer
\* overflows.
THEOREM TypeCorrect == Spec => []TypeOK
<1>1. IInv => TypeOK
  BY DEF IInv
<1> QED
  BY <1>1, Invariant, PTL

\* What handle logs is everything that its client wrote before it closed,
\* whatever the deadline, the cancellation and the other connections did.
THEOREM PayloadsWhole == Spec => []LoggedWhole
<1>1. IInv => LoggedWhole
  BY DEF IInv, Streams, Stream, Finished, LoggedWhole
<1> QED
  BY <1>1, Invariant, PTL

\* An address that Addr gives while Run's context is live is one that listens.
THEOREM AddrIsLive == Spec => []AddrListens
<1>1. IInv => AddrListens
  BY DEF IInv, TypeOK, ListenTypeOK, Listening, AddrListens
<1> QED
  BY <1>1, Invariant, PTL

\* Once Run has returned nothing is published and nothing will be accepted.
THEOREM RunStopsClean == Spec => []StoppedClean
<1>1. IInv => StoppedClean
  BY DEF IInv, Listening, StoppedClean
<1> QED
  BY <1>1, Invariant, PTL

\* Run never leaves of itself: its context was cancelled, and its watcher is
\* past its select because of that.
THEOREM RunEndsCancelled == Spec => []OnlyCancelEnds
<1>1. IInv => OnlyCancelEnds
  BY DEF IInv, Listening, OnlyCancelEnds
<1> QED
  BY <1>1, Invariant, PTL
=============================================================================
