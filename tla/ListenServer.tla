---------------------------- MODULE ListenServer ----------------------------
(***************************************************************************)
(* pkg/listen: Server.Run binds a listener, publishes it for Addr, and     *)
(* accepts until a watcher goroutine closes the listener because the       *)
(* context was cancelled.  Each accepted connection gets a handler         *)
(* goroutine that reads to the end of the stream under an absolute         *)
(* deadline and logs the payload, or logs an error and discards it.  Run   *)
(* waits neither for its watcher nor for its handlers.                     *)
(*                                                                         *)
(* l.Close() is two steps: it marks the listener, after which every new    *)
(* Accept fails, and the last reference to the descriptor is dropped once  *)
(* no Accept is under way; only then does l.Close() return.                *)
(***************************************************************************)
EXTENDS Tcp, FiniteSets

CONSTANT
    FdLimit     \* connections the process can have open at once

ASSUME FdLimitAssumption == FdLimit \in Nat \ {0}

NotLogged == -1

VARIABLES
    cancelled,  \* has the caller cancelled Run's context
    run,        \* control of Run
    listener,   \* Server.listener: is it set, under listenerMu
    watcher,    \* control of the watcher goroutine
    handler,    \* control of each connection's handler
    got,        \* chunks in each handler's buffer
    logged      \* chunks of the payload a handler has logged

listenVars == <<cancelled, run, listener, watcher, handler, got, logged>>

ListenInit ==
    /\ cancelled = FALSE
    /\ run = "binding"
    /\ listener = FALSE
    /\ watcher = "unborn"
    /\ handler = [c \in Client |-> "none"]
    /\ got = [c \in Client |-> 0]
    /\ logged = [c \in Client |-> NotLogged]

ListenTypeOK ==
    /\ cancelled \in BOOLEAN
    /\ run \in {"binding", "bound", "looping", "accepting", "leaving", "returned", "failed"}
    /\ listener \in BOOLEAN
    /\ watcher \in {"unborn", "waiting", "closing", "exited"}
    /\ handler \in [Client -> {"none", "started", "copying", "closing", "done"}]
    /\ got \in [Client -> Nat]
    /\ logged \in [Client -> Nat \cup {NotLogged}]

\* The caller cancels Run's context.
Cancel ==
    /\ ~ cancelled
    /\ cancelled' = TRUE
    /\ UNCHANGED <<tcpVars, run, listener, watcher, handler, got, logged>>

-----------------------------------------------------------------------------
(* Run. *)

Bind ==
    /\ run = "binding"
    /\ run' = "bound"
    /\ OpenSocket
    /\ UNCHANGED <<cancelled, listener, watcher, handler, got, logged>>

BindFails ==
    /\ run = "binding"
    /\ run' = "failed"
    /\ UNCHANGED <<tcpVars, cancelled, listener, watcher, handler, got, logged>>

\* s.listener = l, and the watcher is started.
Publish ==
    /\ run = "bound"
    /\ run' = "looping"
    /\ listener' = TRUE
    /\ watcher' = "waiting"
    /\ UNCHANGED <<tcpVars, cancelled, handler, got, logged>>

\* Mutant: the watcher leaves without closing the listener.
Watch_NoClose ==
    /\ watcher = "waiting"
    /\ cancelled
    /\ watcher' = "exited"
    /\ UNCHANGED <<tcpVars, cancelled, run, listener, handler, got, logged>>

\* Mutant: the watcher closes the listener without waiting for the context.
Watch_Early ==
    /\ watcher = "waiting"
    /\ watcher' = "closing"
    /\ MarkClosed
    /\ UNCHANGED <<cancelled, run, listener, handler, got, logged>>

\* The cases of the watcher's select that can go on.
Ready == (IF cancelled THEN {"ctx.Done()"} ELSE {})
            \cup (IF run \in {"leaving", "returned"} THEN {"stopped"} ELSE {})

\* The watcher's select: it begins to close the listener, or leaves it alone.
Watch ==
    /\ watcher = "waiting"
    /\ \E case \in Ready :
          IF case = "ctx.Done()"
          THEN watcher' = "closing" /\ MarkClosed
          ELSE watcher' = "exited" /\ UNCHANGED tcpVars
    /\ UNCHANGED <<cancelled, run, listener, handler, got, logged>>

\* The last reference to the listener's descriptor is dropped, by l.Close() or
\* by the Accept that was under way.
Drop ==
    /\ run # "accepting"
    /\ CloseSocket
    /\ UNCHANGED <<cancelled, run, listener, watcher, handler, got, logged>>

\* l.Close() returns, and with it the watcher.  Run does not wait for that.
WatchReturns ==
    /\ watcher = "closing"
    /\ socket = "closed"
    /\ watcher' = "exited"
    /\ UNCHANGED <<tcpVars, cancelled, run, listener, handler, got, logged>>

\* Run calls Accept, which holds the listener's descriptor until it returns.
EnterAccept ==
    /\ run = "looping"
    /\ socket = "open"
    /\ run' = "accepting"
    /\ UNCHANGED <<tcpVars, cancelled, listener, watcher, handler, got, logged>>

\* Descriptors in use: accepted connections not yet closed.
InUse == Cardinality({c \in Client : handler[c] \in {"started", "copying", "closing"}})

\* Accept returns a connection, and its handler is started; the Accept under
\* way when the listener is marked may still do so.
Accept ==
    /\ run = "accepting"
    /\ backlog # << >>
    /\ InUse < FdLimit
    /\ run' = "looping"
    /\ handler' = [handler EXCEPT ![Head(backlog)] = "started"]
    /\ backlog' = Tail(backlog)
    /\ UNCHANGED <<socket, link, cancelled, listener, watcher, got, logged>>

\* Accept fails for want of a descriptor: Run logs it and loops at once.
AcceptFails ==
    /\ run = "accepting"
    /\ backlog # << >>
    /\ InUse >= FdLimit
    /\ run' = "looping"
    /\ UNCHANGED <<tcpVars, cancelled, listener, watcher, handler, got, logged>>

\* Mutant: any Accept error ends Run.
AcceptClosed_AnyError ==
    /\ \/ run \in {"looping", "accepting"} /\ socket # "open"
       \/ run = "accepting" /\ backlog # << >> /\ InUse >= FdLimit
    /\ run' = "leaving"
    /\ UNCHANGED <<tcpVars, cancelled, listener, watcher, handler, got, logged>>

\* Accept fails with net.ErrClosed, on entry or woken up in it, as soon as the
\* listener is marked: Run returns nil, and close(stopped) is the first of its
\* deferred calls.
AcceptClosed ==
    /\ run \in {"looping", "accepting"}
    /\ socket # "open"
    /\ run' = "leaving"
    /\ UNCHANGED <<tcpVars, cancelled, listener, watcher, handler, got, logged>>

\* Mutant: the listener stays published.
Unpublish_Forgotten ==
    /\ run = "leaving"
    /\ run' = "returned"
    /\ UNCHANGED <<tcpVars, cancelled, listener, watcher, handler, got, logged>>

\* The other deferred call: s.listener = nil.
Unpublish ==
    /\ run = "leaving"
    /\ run' = "returned"
    /\ listener' = FALSE
    /\ UNCHANGED <<tcpVars, cancelled, watcher, handler, got, logged>>

-----------------------------------------------------------------------------
(* handle. *)

HandlerGoto(c, label) == handler' = [handler EXCEPT ![c] = label]

\* Only handler c moves, and the rest of the server stays.
HandlerFrame == UNCHANGED <<cancelled, run, listener, watcher>>

\* SetDeadline: from here on the handler's reads end within ten seconds.
SetDeadline(c) ==
    /\ handler[c] = "started"
    /\ HandlerGoto(c, "copying")
    /\ HandlerFrame
    /\ UNCHANGED <<tcpVars, got, logged>>

\* SetDeadline fails: return, nothing is logged.
SetDeadlineFails(c) ==
    /\ handler[c] = "started"
    /\ HandlerGoto(c, "closing")
    /\ HandlerFrame
    /\ UNCHANGED <<tcpVars, got, logged>>

\* io.Copy moves a chunk.
CopyChunk(c) ==
    /\ handler[c] = "copying"
    /\ Read(c)
    /\ got' = [got EXCEPT ![c] = @ + 1]
    /\ HandlerFrame
    /\ UNCHANGED <<handler, logged>>

\* io.Copy returns at the end of the stream: the payload is logged.
CopyDone(c) ==
    /\ handler[c] = "copying"
    /\ AtEOF(c)
    /\ HandlerGoto(c, "closing")
    /\ logged' = [logged EXCEPT ![c] = got[c]]
    /\ HandlerFrame
    /\ UNCHANGED <<tcpVars, got>>

\* Mutant: what has been read when the deadline strikes is logged as payload.
DeadlineStrikes_Logs(c) ==
    /\ handler[c] = "copying"
    /\ HandlerGoto(c, "closing")
    /\ logged' = [logged EXCEPT ![c] = got[c]]
    /\ HandlerFrame
    /\ UNCHANGED <<tcpVars, got>>

\* Mutant: the deadline is pushed back while the client keeps the stream open.
DeadlineStrikes_Idle(c) ==
    /\ handler[c] = "copying"
    /\ link[c].fin
    /\ HandlerGoto(c, "closing")
    /\ HandlerFrame
    /\ UNCHANGED <<tcpVars, got, logged>>

\* The ten seconds are over: io.Copy fails and the buffer is discarded.
DeadlineStrikes(c) ==
    /\ handler[c] = "copying"
    /\ HandlerGoto(c, "closing")
    /\ HandlerFrame
    /\ UNCHANGED <<tcpVars, got, logged>>

\* Mutant: the handler returns without closing its connection.
CloseConn_Never(c) == FALSE

\* The deferred c.Close().
CloseConn(c) ==
    /\ handler[c] = "closing"
    /\ HandlerGoto(c, "done")
    /\ CloseRead(c)
    /\ HandlerFrame
    /\ UNCHANGED <<got, logged>>

-----------------------------------------------------------------------------

RunStep ==
    \/ Bind \/ BindFails \/ Publish
    \/ EnterAccept \/ Accept \/ AcceptClosed \/ Unpublish

WatcherStep == Watch \/ Drop \/ WatchReturns

HandlerStep(c) ==
    \/ SetDeadline(c) \/ SetDeadlineFails(c)
    \/ CopyChunk(c) \/ CopyDone(c) \/ DeadlineStrikes(c)
    \/ CloseConn(c)

ListenNext ==
    \/ Cancel \/ RunStep \/ AcceptFails \/ WatcherStep
    \/ \E c \in Client : HandlerStep(c)

=============================================================================
