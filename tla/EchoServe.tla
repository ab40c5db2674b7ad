----------------------------- MODULE EchoServe -----------------------------
(***************************************************************************)
(* The life of an echo server: Server.Run, setupTLSAutogen, serve and the  *)
(* handlers of pkg/echo/echo.go, with the JWT extension.  The command      *)
(* configures the extension; Run derives its context from the first SIGINT *)
(* or SIGTERM, checks the TLS flags, writes self-signed certificates to a  *)
(* temporary directory if asked to, and starts two goroutines: one calls   *)
(* Shutdown once the context is done, the other listens and serves.  Run   *)
(* waits for both.  The signal's context is also the base context of every *)
(* request, but not of the extension, which asks a key server on a         *)
(* background context.                                                     *)
(*                                                                         *)
(* net/http is modelled from how serve uses it: Shutdown closes the        *)
(* listener, closes idle connections, and waits without limit for the      *)
(* active ones; ListenAndServe refuses to start once Shutdown has begun.   *)
(* A connection has one request at a time.                                 *)
(***************************************************************************)
EXTENDS Integers, Sequences

CONSTANTS
    Conn,           \* the connections clients may open
    MaxRequests     \* bound of the model: requests on each connection

ASSUME MaxRequestsAssumption == MaxRequests \in Nat

\* How the TLS flags are set: not at all, both files, only one of them,
\* --tls-autogenerate alone or next to both files or to one.
TLSFlags == {"plain", "files", "half", "autogen", "autogen+files", "autogen+half"}

\* ServerMode, and how the JWT flags are set: no header name, a header name
\* without JWKS URL or audience, all three.
Mode == {"http", "grpc", "grpc+http"}
JWTFlags == {"off", "misconfigured", "on"}

\* A request is one for /healthz or /favicon.ico, one without a gRPC content
\* type, a unary RPC, or a Watch of the registered health service, which
\* streams until its context ends.
Kind == {"probe", "http", "unary", "watch"}

\* Each step of setupTLSAutogen after the directory.
SetupSteps == <<"CA", "server", "ca.crt", "ca.key", "server.crt", "server.key">>

VARIABLES
    tls,            \* the TLS flags
    mode,           \* Server.Mode
    jwt,            \* the JWT flags
    run,            \* control of the command and of Run
    dir,            \* the certificates' directory; "left" when its removal failed
    made,           \* how many of SetupSteps are done
    interrupted,    \* is the signal context done
    stopper,        \* control of serve's first goroutine
    server,         \* control of serve's second goroutine
    wg,             \* serve's WaitGroup: Done calls it still waits for
    shutdown,       \* http.Server: has Shutdown begun
    listening,      \* the listener; http.Server knows it once it is "open"
    conn,           \* http.Server: state of each connection
    kind,           \* what the connection's current or last request is
    gone,           \* connections whose client left under a request
    requests        \* requests that have arrived on each connection

flagVars == <<tls, mode, jwt>>
runVars == <<flagVars, run, dir, made>>
serveVars == <<stopper, server, wg>>
httpVars == <<shutdown, listening, conn, kind, gone, requests>>
vars == <<runVars, interrupted, serveVars, httpVars>>

Init ==
    /\ tls \in TLSFlags
    /\ mode \in Mode
    /\ jwt \in JWTFlags
    /\ run = "configuring"
    /\ dir = "none"
    /\ made = 0
    /\ interrupted = FALSE
    /\ stopper = "unborn"
    /\ server = "unborn"
    /\ wg = 0
    /\ shutdown = FALSE
    /\ listening = "none"
    /\ conn = [c \in Conn |-> "none"]
    /\ kind = [c \in Conn |-> "http"]
    /\ gone = {}
    /\ requests = [c \in Conn |-> 0]

\* SIGINT, SIGTERM or the caller's cancellation.  Later signals change
\* nothing: NotifyContext keeps them from the default handler until cancel.
Signal ==
    /\ run \notin {"configuring", "returned", "refused"}
    /\ ~ interrupted
    /\ interrupted' = TRUE
    /\ UNCHANGED <<runVars, serveVars, httpVars>>

-----------------------------------------------------------------------------
(* The command, Run and setupTLSAutogen. *)

\* The command installs the extension, unless it is misconfigured.
Configure ==
    /\ run = "configuring"
    /\ run' = IF jwt = "misconfigured" THEN "refused" ELSE "validating"
    /\ UNCHANGED <<flagVars, dir, made, interrupted, serveVars, httpVars>>

\* validateTLSFlags.
FlagsOK == tls \notin {"autogen+files", "half", "autogen+half"}

Validate ==
    /\ run = "validating"
    /\ run' = CASE ~ FlagsOK -> "refused"
              [] tls = "autogen" -> "generating"
              [] OTHER -> "installing"
    /\ UNCHANGED <<flagVars, dir, made, interrupted, serveVars, httpVars>>

\* os.MkdirTemp, which may fail.
MakeDir ==
    /\ run = "generating"
    /\ dir = "none"
    /\ \/ dir' = "present" /\ UNCHANGED run
       \/ run' = "refused" /\ UNCHANGED dir
    /\ UNCHANGED <<flagVars, made, interrupted, serveVars, httpVars>>

\* The next certificate is generated or the next file written; after the last
\* one the paths are set.
SetUp(step) ==
    /\ run = "generating"
    /\ dir = "present"
    /\ SetupSteps[made + 1] = step
    /\ made' = made + 1
    /\ run' = IF made' = Len(SetupSteps) THEN "installing" ELSE run
    /\ UNCHANGED <<flagVars, dir, interrupted, serveVars, httpVars>>

generateCACert == SetUp("CA")
generateServerCert == SetUp("server")
WriteFile == \E file \in {"ca.crt", "ca.key", "server.crt", "server.key"} : SetUp(file)

\* cleanup: os.RemoveAll, whose failure is logged and nothing else.
cleanup == dir' \in {"removed", "left"}

\* Mutant: the error return forgets cleanup().
SetupFails_NoCleanup ==
    /\ run = "generating"
    /\ dir = "present"
    /\ run' = "refused"
    /\ UNCHANGED <<flagVars, dir, made, interrupted, serveVars, httpVars>>

\* Any of those steps fails: cleanup, and Run returns the error.
SetupFails ==
    /\ run = "generating"
    /\ dir = "present"
    /\ cleanup
    /\ run' = "refused"
    /\ UNCHANGED <<flagVars, made, interrupted, serveVars, httpVars>>

\* Mutant: the WaitGroup is told of one goroutine only.
StartServing_AddsOnce ==
    /\ run = "installing"
    /\ run' = "serving"
    /\ stopper' = "waiting"
    /\ server' = "starting"
    /\ wg' = 1
    /\ UNCHANGED <<flagVars, dir, made, interrupted, httpVars>>

\* Mutant: cleanup runs before serve instead of after it.
StartServing_CleansFirst ==
    /\ run = "installing"
    /\ run' = "serving"
    /\ stopper' = "waiting"
    /\ server' = "starting"
    /\ wg' = 2
    /\ IF dir = "present" THEN cleanup ELSE UNCHANGED dir
    /\ UNCHANGED <<flagVars, made, interrupted, httpVars>>

\* The handlers are installed and serve starts its goroutines.
StartServing ==
    /\ run = "installing"
    /\ run' = "serving"
    /\ stopper' = "waiting"
    /\ server' = "starting"
    /\ wg' = 2
    /\ UNCHANGED <<flagVars, dir, made, interrupted, httpVars>>

\* Mutant: serve returns as soon as the serving goroutine is done.
Join_ServerOnly ==
    /\ run = "serving"
    /\ server = "done"
    /\ run' = "cleaning"
    /\ UNCHANGED <<flagVars, dir, made, interrupted, serveVars, httpVars>>

\* wg.Wait of serve.
Join ==
    /\ run = "serving"
    /\ wg = 0
    /\ run' = "cleaning"
    /\ UNCHANGED <<flagVars, dir, made, interrupted, serveVars, httpVars>>

\* The deferred cleanup; Run returns nil, also if that has failed.
Return ==
    /\ run = "cleaning"
    /\ run' = "returned"
    /\ IF dir = "present" THEN cleanup ELSE UNCHANGED dir
    /\ UNCHANGED <<flagVars, made, interrupted, serveVars, httpVars>>

-----------------------------------------------------------------------------
(* serve: the goroutine that shuts down. *)

\* wg.Done(), deferred by both goroutines.
Done == wg' = wg - 1

\* <-ctx.Done(), then Shutdown marks the server and closes the listener it
\* knows; one that is bound but not registered is not its own yet.
BeginShutdown ==
    /\ stopper = "waiting"
    /\ interrupted
    /\ stopper' = "draining"
    /\ shutdown' = TRUE
    /\ listening' = IF listening = "open" THEN "closed" ELSE listening
    /\ UNCHANGED <<runVars, interrupted, server, wg, conn, kind, gone, requests>>

\* Mutant: Shutdown returns while requests are active.
EndShutdown_Impatient ==
    /\ stopper = "draining"
    /\ stopper' = "done"
    /\ Done
    /\ UNCHANGED <<runVars, interrupted, server, httpVars>>

\* Shutdown(context.Background()) returns when no connection is left.
EndShutdown ==
    /\ stopper = "draining"
    /\ \A c \in Conn : conn[c] \in {"none", "closed"}
    /\ stopper' = "done"
    /\ Done
    /\ UNCHANGED <<runVars, interrupted, server, httpVars>>

\* A poll of Shutdown closes an idle connection.
CloseIdle(c) ==
    /\ stopper = "draining"
    /\ conn[c] = "idle"
    /\ conn' = [conn EXCEPT ![c] = "closed"]
    /\ UNCHANGED <<runVars, interrupted, serveVars, shutdown, listening,
                   kind, gone, requests>>

-----------------------------------------------------------------------------
(* serve: the goroutine that listens. *)

\* ListenAndServe looks whether Shutdown has begun.
Enter ==
    /\ server = "starting"
    /\ IF shutdown
       THEN server' = "done" /\ Done
       ELSE server' = "binding" /\ UNCHANGED wg
    /\ UNCHANGED <<runVars, interrupted, stopper, httpVars>>

\* net.Listen binds the address; http.Server does not know the listener yet.
Bind ==
    /\ server = "binding"
    /\ server' = IF tls = "plain" THEN "tracking" ELSE "loading"
    /\ listening' = "bound"
    /\ UNCHANGED <<runVars, interrupted, stopper, wg, shutdown, conn, kind, gone, requests>>

\* The address is taken: the error is logged, and only this goroutine ends.
BindFails ==
    /\ server = "binding"
    /\ server' = "done"
    /\ Done
    /\ UNCHANGED <<runVars, interrupted, stopper, httpVars>>

\* ServeTLS loads the key pair.
Load ==
    /\ server = "loading"
    /\ server' = "tracking"
    /\ UNCHANGED <<runVars, interrupted, stopper, wg, httpVars>>

\* The key pair does not load: the same, and the deferred Close of the listener.
LoadFails ==
    /\ server = "loading"
    /\ server' = "done"
    /\ Done
    /\ listening' = "closed"
    /\ UNCHANGED <<runVars, interrupted, stopper, shutdown, conn, kind, gone, requests>>

\* Mutant: serve runs another http.Server than the one it shuts down.
Track_OtherServer ==
    /\ server = "tracking"
    /\ server' = "serving"
    /\ listening' = "open"
    /\ UNCHANGED <<runVars, interrupted, stopper, wg, shutdown, conn, kind, gone, requests>>

\* Serve registers the listener, unless Shutdown has begun in the meantime.
Track ==
    /\ server = "tracking"
    /\ IF shutdown
       THEN server' = "done" /\ Done /\ listening' = "closed"
       ELSE server' = "serving" /\ listening' = "open" /\ UNCHANGED wg
    /\ UNCHANGED <<runVars, interrupted, stopper, shutdown, conn, kind, gone, requests>>

\* Serve returns ErrServerClosed.
ServeReturns ==
    /\ server = "serving"
    /\ shutdown
    /\ server' = "done"
    /\ Done
    /\ UNCHANGED <<runVars, interrupted, stopper, httpVars>>

-----------------------------------------------------------------------------
(* Connections and requests. *)

\* Only the connections change.
ConnFrame ==
    UNCHANGED <<runVars, interrupted, serveVars, shutdown, listening>>

\* The handler that the mux and the mode give a request.
Route(k) ==
    CASE k = "probe" -> "own"
      [] mode = "http" -> "echo"
      [] mode = "grpc+http" /\ k = "http" -> "echo"
      [] OTHER -> "grpc"

Open(c) ==
    /\ listening = "open"
    /\ conn[c] = "none"
    /\ conn' = [conn EXCEPT ![c] = "idle"]
    /\ ConnFrame
    /\ UNCHANGED <<kind, gone, requests>>

\* The client goes away; a handler under way goes on until it notices.
Hangup(c) ==
    /\ c \notin gone
    /\ \/ /\ conn[c] = "idle"
          /\ conn' = [conn EXCEPT ![c] = "closed"]
          /\ UNCHANGED gone
       \/ /\ conn[c] \in {"verifying", "active"}
          /\ gone' = gone \cup {c}
          /\ UNCHANGED conn
    /\ ConnFrame
    /\ UNCHANGED <<kind, requests>>

\* A request arrives, also on an idle connection that Shutdown will close.  If
\* it carries a token the extension verifies that first.
Arrive(c) ==
    /\ conn[c] = "idle"
    /\ requests[c] < MaxRequests
    /\ requests' = [requests EXCEPT ![c] = @ + 1]
    /\ \E k \in Kind, token \in BOOLEAN :
          /\ kind' = [kind EXCEPT ![c] = k]
          /\ conn' = [conn EXCEPT ![c] =
                         IF token /\ jwt = "on" /\ Route(k) # "own"
                         THEN "verifying" ELSE "active"]
    /\ ConnFrame
    /\ UNCHANGED gone

\* The key server answers, or the token needs no key: GetResult returns, with
\* claims or an error, and the handler goes on in either case.
Verified(c) ==
    /\ conn[c] = "verifying"
    /\ conn' = [conn EXCEPT ![c] = "active"]
    /\ ConnFrame
    /\ UNCHANGED <<kind, gone, requests>>

\* A connection is kept for another request until Shutdown has begun.
AfterRequest(c) == IF shutdown \/ c \in gone THEN "closed" ELSE "idle"

\* A Watch that gRPC serves; the echo handler answers it like any request.
Streams(c) == Route(kind[c]) = "grpc" /\ kind[c] = "watch"

\* The handler completes its response; that of a Watch does not.
Respond(c) ==
    /\ conn[c] = "active"
    /\ ~ Streams(c)
    /\ conn' = [conn EXCEPT ![c] = AfterRequest(c)]
    /\ ConnFrame
    /\ UNCHANGED <<kind, gone, requests>>

\* Mutant: BaseContext does not hand out the signal context.
Abort_OtherContext(c) ==
    /\ conn[c] = "active"
    /\ Route(kind[c]) = "grpc"
    /\ c \in gone
    /\ conn' = [conn EXCEPT ![c] = AfterRequest(c)]
    /\ ConnFrame
    /\ UNCHANGED <<kind, gone, requests>>

\* The request's context descends from the signal context through
\* BaseContext, and ends with its client: gRPC ends every RPC with it, the
\* other handlers never look.
Abort(c) ==
    /\ conn[c] = "active"
    /\ Route(kind[c]) = "grpc"
    /\ interrupted \/ c \in gone
    /\ conn' = [conn EXCEPT ![c] = AfterRequest(c)]
    /\ ConnFrame
    /\ UNCHANGED <<kind, gone, requests>>

-----------------------------------------------------------------------------

Setup ==
    \/ Configure \/ Validate \/ MakeDir
    \/ generateCACert \/ generateServerCert \/ WriteFile \/ SetupFails
RunStep == Setup \/ StartServing \/ Join \/ Return
StopperStep == BeginShutdown \/ EndShutdown \/ \E c \in Conn : CloseIdle(c)
ServerStep ==
    Enter \/ Bind \/ BindFails \/ Load \/ LoadFails \/ Track \/ ServeReturns
ClientStep(c) == Open(c) \/ Hangup(c) \/ Arrive(c)

Next ==
    \/ Signal
    \/ RunStep \/ StopperStep \/ ServerStep
    \/ \E c \in Conn : ClientStep(c) \/ Verified(c) \/ Respond(c) \/ Abort(c)

Spec == Init /\ [][Next]_vars

\* Goroutines that can run do, and every handler but Watch completes: the
\* others block on nothing but a client that stops in the middle of sending the
\* body it announced, which net/http reads when a handler ends and gRPC before
\* one starts, or that does not read its response; clients are taken to do
\* both.  Nothing is owed by the key server, which is asked without limit.
Fairness ==
    /\ WF_vars(RunStep) /\ WF_vars(StopperStep) /\ WF_vars(ServerStep)
    /\ \A c \in Conn : WF_vars(Respond(c)) /\ WF_vars(Abort(c))

FairSpec == Spec /\ Fairness

-----------------------------------------------------------------------------
(* Properties. *)

\* The types of the variables.
TypeOK ==
    /\ tls \in TLSFlags
    /\ mode \in Mode
    /\ jwt \in JWTFlags
    /\ made \in 0..Len(SetupSteps)
    /\ run \in {"configuring", "validating", "generating", "installing", "serving", "cleaning",
                "returned", "refused"}
    /\ wg \in 0..2
    /\ dir \in {"none", "present", "removed", "left"}
    /\ interrupted \in BOOLEAN
    /\ stopper \in {"unborn", "waiting", "draining", "done"}
    /\ server \in {"unborn", "starting", "binding", "loading", "tracking", "serving", "done"}
    /\ shutdown \in BOOLEAN
    /\ listening \in {"none", "bound", "open", "closed"}
    /\ conn \in [Conn -> {"none", "idle", "verifying", "active", "closed"}]
    /\ gone \subseteq Conn
    /\ kind \in [Conn -> Kind]
    /\ requests \in [Conn -> 0..MaxRequests]

\* However Run ends, and not before it does, the clean-up of the directory with
\* the private keys has run; keys stay on disk only where os.RemoveAll failed,
\* which Run logs and does not return (echo.go:154-156).
KeysCleanedUp ==
    dir # "none" =>
        (dir \in {"removed", "left"} <=> run \in {"returned", "refused"})

\* The certificates are there until the serving goroutine has loaded them, and
\* a server with a half-specified pair never starts.
CertsInPlace ==
    server \in {"starting", "binding", "loading"} =>
        /\ tls = "autogen" <=> dir = "present"
        /\ tls = "autogen" <=> made = Len(SetupSteps)
        /\ tls \in {"plain", "files", "autogen"}

\* Run returns nil only after the server has stopped altogether: no listener is
\* open, registered or not, no request is active, no connection is open.
Quiescent ==
    run \in {"cleaning", "returned"} =>
        /\ listening \in {"none", "closed"}
        /\ \A c \in Conn : conn[c] \in {"none", "closed"}

\* A server that has begun to shut down accepts nothing: whichever of the two
\* goroutines was first, a listener that was bound meanwhile is never
\* registered, and only closed.
NoLateListener == shutdown => listening # "open"

\* Run ends after serving only because it was interrupted; in particular the
\* failure to bind does not end it.
OnlyInterruptEnds == run \in {"cleaning", "returned"} => interrupted

\* A signal ends Run, provided that the key server answers: Shutdown has no
\* time limit, so that an open Watch would hold Run up but for the context it
\* inherits, and a verification, which inherits none, does hold it up, even
\* when its client has gone.
SignalEndsRun ==
    (\A c \in Conn : []<>(conn[c] # "verifying")) =>
        (interrupted ~> run \in {"returned", "refused"})
=============================================================================
