----------------------------- MODULE SendListen -----------------------------
(***************************************************************************)
(* pkg/send against pkg/listen: clients that dial, copy their reader to    *)
(* the connection and close it, and the server of ListenServer.tla.  The   *)
(* client ignores its context: only the end of its reader, a failure or    *)
(* the end of its process stops it.                                        *)
(***************************************************************************)
EXTENDS ListenServer

CONSTANT
    MaxChunks   \* bound of the model: chunks a client's reader can yield

ASSUME MaxChunksAssumption == MaxChunks \in Nat

VARIABLES
    client,     \* control of each client
    written     \* chunks each client has written, as far as it knows

clientVars == <<client, written>>
vars == <<tcpVars, listenVars, clientVars>>

Init ==
    /\ TcpInit
    /\ ListenInit
    /\ client = [c \in Client |-> "idle"]
    /\ written = [c \in Client |-> 0]

ClientGoto(c, label) == client' = [client EXCEPT ![c] = label]

\* net.Dial succeeds.
Dial(c) ==
    /\ client[c] = "idle"
    /\ Connect(c)
    /\ ClientGoto(c, "copying")
    /\ UNCHANGED <<written, listenVars>>

\* net.Dial fails: Run returns the error.
DialFails(c) ==
    /\ client[c] = "idle"
    /\ ClientGoto(c, "failed")
    /\ UNCHANGED <<written, tcpVars, listenVars>>

\* io.Copy writes what its reader has yielded.
WriteChunk(c) ==
    /\ client[c] = "copying"
    /\ written[c] < MaxChunks
    /\ Write(c)
    /\ written' = [written EXCEPT ![c] = @ + 1]
    /\ UNCHANGED <<client, listenVars>>

\* A write meets the reset of an end that is gone.
WriteFails(c) ==
    /\ client[c] = "copying"
    /\ link[c].up = "gone"
    /\ ClientGoto(c, "failing")
    /\ UNCHANGED <<written, tcpVars, listenVars>>

\* The reader fails: Run will return an error, and close first.
ReaderFails(c) ==
    /\ client[c] = "copying"
    /\ ClientGoto(c, "failing")
    /\ UNCHANGED <<written, tcpVars, listenVars>>

\* The reader is at its end: Run will return nil.
ReaderEOF(c) ==
    /\ client[c] = "copying"
    /\ ClientGoto(c, "succeeding")
    /\ UNCHANGED <<written, tcpVars, listenVars>>

\* The deferred conn.Close(), and Run returns.
Hangup(c) ==
    /\ client[c] \in {"failing", "succeeding"}
    /\ ClientGoto(c, IF client[c] = "failing" THEN "failed" ELSE "ok")
    /\ CloseWrite(c)
    /\ UNCHANGED <<written, listenVars>>

\* An interrupt ends the process; the kernel closes the connection for it.
Killed(c) ==
    /\ client[c] = "copying"
    /\ ClientGoto(c, "killed")
    /\ CloseWrite(c)
    /\ UNCHANGED <<written, listenVars>>

ClientStep(c) ==
    \/ Dial(c) \/ DialFails(c)
    \/ WriteChunk(c) \/ WriteFails(c)
    \/ ReaderFails(c) \/ ReaderEOF(c)
    \/ Hangup(c) \/ Killed(c)

Next ==
    \/ ListenNext /\ UNCHANGED clientVars
    \/ \E c \in Client : ClientStep(c)

Spec == Init /\ [][Next]_vars

\* A client closes once it has decided to; it owes nothing before: its reader
\* may block for ever.
Fairness ==
    /\ WF_vars(RunStep /\ UNCHANGED clientVars)
    /\ WF_vars(WatcherStep /\ UNCHANGED clientVars)
    /\ \A c \in Client :
          /\ WF_vars(HandlerStep(c) /\ UNCHANGED clientVars)
          /\ WF_vars(Hangup(c))

FairSpec == Spec /\ Fairness

-----------------------------------------------------------------------------
(* Properties. *)

\* The types of the variables.
TypeOK ==
    /\ TcpTypeOK
    /\ ListenTypeOK
    /\ client \in [Client -> {"idle", "copying", "failing", "succeeding",
                              "failed", "ok", "killed"}]
    /\ written \in [Client -> 0..MaxChunks]

\* A payload is logged whole or not at all: everything its client wrote
\* before it closed, whatever the deadline, the cancellation and the other
\* connections did meanwhile.
LoggedWhole ==
    \A c \in Client : logged[c] # NotLogged =>
        logged[c] = written[c] /\ client[c] \in {"ok", "failed", "killed"}

\* Whoever sees an address while the context is live sees one that listens.
AddrListens == listener /\ ~ cancelled => socket = "open"

\* After Run has returned nothing is published, and nothing will be accepted.
StoppedClean == run = "returned" => ~ listener /\ socket # "open"

\* Run returns only because its context was cancelled and its watcher has seen
\* that: errors of Accept do not end it, and the watcher is never let go
\* through <-stopped, which leaves the listener open.
OnlyCancelEnds ==
    run \in {"leaving", "returned"} => cancelled /\ watcher \notin {"unborn", "waiting"}

\* Run does not wait for its watcher, which may outlive it inside l.Close(); but
\* neither it nor the socket outlives Run for ever.
WatcherEnds == run = "returned" ~> watcher = "exited" /\ socket = "closed"

\* Cancelling the context ends Run.
CancelStopsRun == cancelled ~> run \in {"returned", "failed"}

\* The deadline bounds every handler, even for a client that never closes.
HandlersEnd == \A c \in Client : handler[c] = "started" ~> handler[c] = "done"

\* A connection in the backlog is accepted, or reset by the end of Run, also
\* when the process has no descriptor left and Accept fails over and over.
BacklogDrains == \A c \in Client : Waiting(c) ~> ~ Waiting(c)
=============================================================================
