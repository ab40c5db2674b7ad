--------------------------- MODULE EchoServeProofs ---------------------------
(***************************************************************************)
(* Theorems about EchoServe, for every set of connections and every bound  *)
(* on the requests: generated keys are cleaned up when Run ends, the       *)
(* certificates are there when they are read, and whatever the order of    *)
(* the signal, the two goroutines and the clients, nothing is left open.   *)
(***************************************************************************)
EXTENDS EchoServe, TLAPS

USE MaxRequestsAssumption

-----------------------------------------------------------------------------
(* The inductive invariant. *)

\* serve's goroutines exist once Run has got that far, the WaitGroup counts
\* those that are not done, and Run passes it only when both are.
Goroutines ==
    /\ run \in {"serving", "cleaning", "returned"} =>
          /\ stopper # "unborn" /\ server # "unborn"
          /\ wg = (IF stopper = "done" THEN 0 ELSE 1) + (IF server = "done" THEN 0 ELSE 1)
    /\ run \notin {"serving", "cleaning", "returned"} =>
          stopper = "unborn" /\ server = "unborn" /\ wg = 0
    /\ run \in {"cleaning", "returned"} => stopper = "done" /\ server = "done"

\* Shutdown is begun by the signal's goroutine; it leaves no registered listener,
\* and returns only when there is no connection.  A listener that is not
\* registered is in the hands of the other goroutine.
Closing ==
    /\ shutdown <=> stopper \in {"draining", "done"}
    /\ shutdown => interrupted /\ listening # "open"
    /\ listening = "bound" <=> server \in {"loading", "tracking"}
    /\ stopper = "done" => \A c \in Conn : conn[c] \in {"none", "closed"}

\* The directory and the steps of its set-up, along the control of Run.
Certificates ==
    /\ run \in {"configuring", "validating"} => dir = "none" /\ made = 0
    /\ run = "generating" =>
          /\ tls = "autogen"
          /\ dir \in {"none", "present"}
          /\ made < Len(SetupSteps)
          /\ dir = "none" => made = 0
    /\ run \in {"installing", "serving", "cleaning"} =>
          /\ tls \in {"plain", "files", "autogen"}
          /\ dir \in {"none", "present"}
          /\ tls = "autogen" <=> dir = "present"
          /\ tls = "autogen" <=> made = Len(SetupSteps)
    /\ run \in {"returned", "refused"} => dir # "present"

IInv == TypeOK /\ Goroutines /\ Closing /\ Certificates

-----------------------------------------------------------------------------

\* The set-up has six steps.
LEMMA SetupLength == Len(SetupSteps) = 6
BY DEF SetupSteps

\* A server starts in the invariant.
LEMMA InitInvariant == Init => IInv
<1> SUFFICES ASSUME Init PROVE IInv
  OBVIOUS
<1>1. TypeOK
  <2>1. "http" \in Kind /\ 0 \in 0..MaxRequests
    BY DEF Kind
  <2>2. /\ conn \in [Conn -> {"none", "idle", "verifying", "active", "closed"}]
        /\ kind \in [Conn -> Kind]
        /\ requests \in [Conn -> 0..MaxRequests]
    BY <2>1 DEF Init
  <2>3. made \in 0..Len(SetupSteps) /\ wg \in 0..2
    BY SetupLength DEF Init
  <2>4. shutdown \in BOOLEAN /\ interrupted \in BOOLEAN
    BY DEF Init
  <2> QED
    BY <2>2, <2>3, <2>4 DEF Init, TypeOK
<1>2. Goroutines /\ Closing /\ Certificates
  BY SetupLength DEF Init, Goroutines, Closing, Certificates
<1> QED
  BY <1>1, <1>2 DEF IInv

\* The steps that change only the connections keep the invariant.
LEMMA ConnStepInvariant ==
    ASSUME IInv, NEW c \in Conn, ClientStep(c) \/ Verified(c) \/ Respond(c) \/ Abort(c)
    PROVE  IInv'
<1> USE DEF IInv, TypeOK, Goroutines, Closing, Certificates, ConnFrame, runVars, flagVars,
    serveVars
<1>1. CASE Open(c)
  BY <1>1 DEF Open
<1>2. CASE Hangup(c)
  BY <1>2 DEF Hangup
<1>3. CASE Arrive(c)
  BY <1>3 DEF Arrive
<1>4. CASE Verified(c)
  BY <1>4 DEF Verified
<1>5. CASE Respond(c)
  BY <1>5 DEF Respond, AfterRequest
<1>6. CASE Abort(c)
  BY <1>6 DEF Abort, AfterRequest
<1> QED
  BY <1>1, <1>2, <1>3, <1>4, <1>5, <1>6 DEF ClientStep

\* The steps of the command and of Run keep the invariant.
LEMMA RunStepInvariant ==
    ASSUME IInv, RunStep
    PROVE  IInv'
<1> USE SetupLength DEF IInv, TypeOK, Goroutines, Closing, Certificates, flagVars, serveVars,
    httpVars
<1>1. CASE Configure
  BY <1>1 DEF Configure
<1>2. CASE Validate
  BY <1>2 DEF Validate, FlagsOK, TLSFlags
<1>3. CASE MakeDir
  BY <1>3 DEF MakeDir
<1>4. ASSUME NEW step, SetUp(step) PROVE IInv'
  BY <1>4 DEF SetUp
<1>5. CASE SetupFails
  BY <1>5 DEF SetupFails, cleanup
<1>6. CASE StartServing
  BY <1>6 DEF StartServing
<1>7. CASE Join
  BY <1>7 DEF Join
<1>8. CASE Return
  BY <1>8 DEF Return, cleanup
<1> QED
  BY <1>1, <1>2, <1>3, <1>4, <1>5, <1>6, <1>7, <1>8
  DEF RunStep, Setup, generateCACert, generateServerCert, WriteFile

\* The steps of serve's goroutines keep the invariant.
LEMMA ServeStepInvariant ==
    ASSUME IInv, StopperStep \/ ServerStep
    PROVE  IInv'
<1> USE DEF IInv, TypeOK, Goroutines, Closing, Certificates, runVars, flagVars, httpVars,
    serveVars, Done
<1>1. CASE BeginShutdown
  BY <1>1 DEF BeginShutdown
<1>2. CASE EndShutdown
  BY <1>2 DEF EndShutdown
<1>3. ASSUME NEW c \in Conn, CloseIdle(c) PROVE IInv'
  BY <1>3 DEF CloseIdle
<1>4. CASE Enter
  BY <1>4 DEF Enter
<1>5. CASE Bind
  BY <1>5 DEF Bind
<1>6. CASE BindFails
  BY <1>6 DEF BindFails
<1>7. CASE Load
  BY <1>7 DEF Load
<1>8. CASE LoadFails
  BY <1>8 DEF LoadFails
<1>9. CASE Track
  BY <1>9 DEF Track
<1>10. CASE ServeReturns
  BY <1>10 DEF ServeReturns
<1> QED
  BY <1>1, <1>2, <1>3, <1>4, <1>5, <1>6, <1>7, <1>8, <1>9, <1>10
  DEF StopperStep, ServerStep

\* Spec => []IInv: the invariant that the theorems below rest on.
LEMMA Invariant == Spec => []IInv
<1>1. IInv /\ [Next]_vars => IInv'
  <2> SUFFICES ASSUME IInv, [Next]_vars PROVE IInv'
    OBVIOUS
  <2>1. CASE Signal
    BY <2>1 DEF Signal, IInv, TypeOK, Goroutines, Closing, Certificates, runVars, flagVars,
      serveVars, httpVars
  <2>2. CASE RunStep
    BY <2>2, RunStepInvariant
  <2>3. CASE StopperStep \/ ServerStep
    BY <2>3, ServeStepInvariant
  <2>4. ASSUME NEW c \in Conn, ClientStep(c) \/ Verified(c) \/ Respond(c) \/ Abort(c)
        PROVE  IInv'
    BY <2>4, ConnStepInvariant
  <2>5. CASE UNCHANGED vars
    BY <2>5 DEF vars, IInv, TypeOK, Goroutines, Closing, Certificates, runVars, flagVars,
      serveVars, httpVars
  <2> QED
    BY <2>1, <2>2, <2>3, <2>4, <2>5 DEF Next
<1> QED
  BY <1>1, InitInvariant, PTL DEF Spec

-----------------------------------------------------------------------------
(* The theorems. *)

\* The variables of the server keep their types, the WaitGroup included, whose
\* counter never goes below zero.
THEOREM TypeCorrect == Spec => []TypeOK
<1>1. IInv => TypeOK
  BY DEF IInv
<1> QED
  BY <1>1, Invariant, PTL

\* However Run ends (returned or refused, at whatever step of the set-up), the
\* clean-up of setupTLSAutogen's directory has run, and it runs at no other time.
THEOREM CleanUpRuns == Spec => []KeysCleanedUp
<1>1. IInv => KeysCleanedUp
  BY DEF IInv, TypeOK, Certificates, KeysCleanedUp
<1> QED
  BY <1>1, Invariant, PTL

\* ListenAndServeTLS finds the generated files: they are complete and in place
\* until the goroutine that serves has loaded them.
THEOREM CertsReadable == Spec => []CertsInPlace
<1>1. IInv => CertsInPlace
  BY DEF IInv, TypeOK, Certificates, Goroutines, CertsInPlace
<1> QED
  BY <1>1, Invariant, PTL

\* After Run's wg.Wait no listener and no connection is open.
THEOREM RunLeavesNothing == Spec => []Quiescent
<1>1. IInv => Quiescent
  BY DEF IInv, TypeOK, Goroutines, Closing, Quiescent
<1> QED
  BY <1>1, Invariant, PTL

\* Shutdown and ListenAndServe race, and whoever wins no registered listener is
\* open once Shutdown has begun.
THEOREM ShutdownStopsListening == Spec => []NoLateListener
<1>1. IInv => NoLateListener
  BY DEF IInv, Closing, NoLateListener
<1> QED
  BY <1>1, Invariant, PTL

\* Run goes on waiting for a signal when the serving goroutine fails.
THEOREM OnlySignalsEndServing == Spec => []OnlyInterruptEnds
<1>1. IInv => OnlyInterruptEnds
  BY DEF IInv, Goroutines, Closing, OnlyInterruptEnds
<1> QED
  BY <1>1, Invariant, PTL
=============================================================================
