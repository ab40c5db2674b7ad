---------------------------- MODULE BenchReport ----------------------------
(***************************************************************************)
(* What a bench run promises to whoever reads its report, without          *)
(* connections, contexts or goroutine steps.  Each worker keeps a log of   *)
(* numbered entries, without gaps; a worker that has stopped logs nothing  *)
(* more; the report appears once, when every worker has stopped, and then  *)
(* holds every log entirely, in worker order, and never changes.           *)
(* BenchRun.tla is shown to implement this module.                         *)
(***************************************************************************)
EXTENDS Integers, Sequences

CONSTANTS Worker, Outcome

VARIABLES stage, log, stopped, report

absVars == <<stage, log, stopped, report>>

Init ==
    /\ stage = "idle"
    /\ log = [w \in Worker |-> << >>]
    /\ stopped = {}
    /\ report = << >>

Begin ==
    /\ stage = "idle"
    /\ stage' = "running"
    /\ UNCHANGED <<log, stopped, report>>

\* The run could not start: no report, an error instead.
Refuse ==
    /\ stage = "idle"
    /\ stage' = "failed"
    /\ UNCHANGED <<log, stopped, report>>

\* A running worker logs the outcome of its next attempt, and may stop.
Log(w) ==
    /\ stage = "running"
    /\ w \notin stopped
    /\ \E out \in Outcome :
          log' = [log EXCEPT ![w] =
                    Append(@, [by |-> w, call |-> Len(@) + 1, out |-> out])]
    /\ stopped' \in {stopped, stopped \cup {w}}
    /\ UNCHANGED <<stage, report>>

Stop(w) ==
    /\ stage = "running"
    /\ w \notin stopped
    /\ stopped' = stopped \cup {w}
    /\ UNCHANGED <<stage, log, report>>

\* r lists every entry of every log once, by worker and then by attempt.
IsReport(r) ==
    /\ \A i \in 1..Len(r) : \E w \in Worker :
          \E k \in 1..Len(log[w]) : r[i] = log[w][k]
    /\ \A w \in Worker : \A k \in 1..Len(log[w]) :
          \E i \in 1..Len(r) : r[i] = log[w][k]
    /\ \A i, j \in 1..Len(r) :
          i < j => \/ r[i].by < r[j].by
                   \/ r[i].by = r[j].by /\ r[i].call < r[j].call

\* The report replaces the empty one in one step.
Publish ==
    /\ stage = "running"
    /\ stopped = Worker
    /\ stage' = "published"
    /\ IsReport(report')
    /\ UNCHANGED <<log, stopped>>

Next ==
    \/ Begin \/ Refuse \/ Publish
    \/ \E w \in Worker : Log(w) \/ Stop(w)

Spec == Init /\ [][Next]_absVars
=============================================================================
