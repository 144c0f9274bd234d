---------------------------- MODULE ExporterRunner ----------------------------
(***************************************************************************)
(* exporterRunner.start and shutdown, and the wrappedExporter they handle   *)
(* (exporter_runner.go).                                                    *)
(*                                                                          *)
(* What the rest of exporter_creator takes for one exporter is up to one    *)
(* component per signal, each of which may fail to be created, to start or  *)
(* to stop.  The handler's mutex lets only one instance be started or       *)
(* stopped at a time.  The observerHandler keeps an instance only if start  *)
(* returns it; Shutdown stops the instances it has kept.                    *)
(***************************************************************************)
EXTENDS Naturals, FiniteSets

CONSTANTS
    Instance,     \* the exporters that start is called for
    Signal,       \* logs, metrics and traces
    StartMayFail, \* exporters whose components may fail to start once created
    NoInstance

ASSUME RunnerSentinel == NoInstance \notin Instance
ASSUME StartMayFailType == StartMayFail \subseteq Instance

VARIABLES
    stage,     \* how far each instance is
    enabled,   \* the template's signals, for each instance
    pending,   \* of these, the ones the present loop has not come to
    made,      \* signals whose component is not nil in the wrappedExporter
    running,   \* signals whose component has started and was not stopped
    failing,   \* the present loop has collected an error
    busy,      \* the instance start or shutdown is at
    closed     \* the handler has been shut down

runnerVars == <<stage, enabled, pending, made, running, failing, busy, closed>>

Stage == {"unused", "creating", "starting", "kept", "refused", "stopping", "stopped"}
------------------------------------------------------------------------------
RunnerInit ==
    /\ stage = [i \in Instance |-> "unused"]
    /\ enabled = [i \in Instance |-> {}]
    /\ pending = [i \in Instance |-> {}]
    /\ made = [i \in Instance |-> {}]
    /\ running = [i \in Instance |-> {}]
    /\ failing = [i \in Instance |-> FALSE]
    /\ busy = NoInstance
    /\ closed = FALSE

(* The handler's mutex serialises starts and stops.  Mutant: it does not. *)
RunnerAlwaysFree == TRUE
RunnerFree == busy = NoInstance

(* start gives up when there is no factory of the type, or the              *)
(* configuration does not load.                                             *)
Reject(i) ==
    /\ RunnerFree /\ ~closed /\ stage[i] = "unused"
    /\ stage' = [stage EXCEPT ![i] = "refused"]
    /\ UNCHANGED <<enabled, pending, made, running, failing, busy, closed>>

BeginStarting(i, signals) ==
    /\ RunnerFree /\ ~closed /\ stage[i] = "unused"
    /\ busy' = i
    /\ stage' = [stage EXCEPT ![i] = "creating"]
    /\ enabled' = [enabled EXCEPT ![i] = signals]
    /\ pending' = [pending EXCEPT ![i] = signals]
    /\ UNCHANGED <<made, running, failing, closed>>

(* Each signal the template enables is tried.  That the factory does not    *)
(* support it is no error; any other error is collected, and the rest are   *)
(* still tried.                                                             *)
Create(i, s, outcome) ==
    /\ stage[i] = "creating" /\ s \in pending[i]
    /\ pending' = [pending EXCEPT ![i] = @ \ {s}]
    /\ made' = [made EXCEPT ![i] = IF outcome = "made" THEN @ \cup {s} ELSE @]
    /\ failing' = [failing EXCEPT ![i] = @ \/ outcome = "error"]
    /\ UNCHANGED <<stage, enabled, running, busy, closed>>

(* Mutant: creation errors, and a wrapper of nothing, are let through. *)
UsableAnyway(i) == TRUE
(* No error, and a component for at least one signal. *)
Usable(i) == ~failing[i] /\ made[i] # {}

FinishCreating(i) ==
    /\ stage[i] = "creating" /\ pending[i] = {}
    /\ stage' = [stage EXCEPT ![i] = IF Usable(i) THEN "starting" ELSE "refused"]
    /\ pending' = [pending EXCEPT ![i] = IF Usable(i) THEN made[i] ELSE {}]
    /\ busy' = IF Usable(i) THEN i ELSE NoInstance
    /\ UNCHANGED <<enabled, made, running, failing, closed>>

(* wrappedExporter.Start goes on to the next component after one fails.     *)
StartComponent(i, s, ok) ==
    /\ stage[i] = "starting" /\ s \in pending[i]
    /\ pending' = [pending EXCEPT ![i] = @ \ {s}]
    /\ running' = [running EXCEPT ![i] = IF ok THEN @ \cup {s} ELSE @]
    /\ failing' = [failing EXCEPT ![i] = @ \/ ~ok]
    /\ UNCHANGED <<stage, enabled, made, busy, closed>>

(* start returns the wrapper, and the handler files it, unless a component  *)
(* failed.                                                                  *)
FinishStarting(i) ==
    /\ stage[i] = "starting" /\ pending[i] = {}
    /\ stage' = [stage EXCEPT ![i] = IF failing[i] THEN "refused" ELSE "kept"]
    /\ busy' = NoInstance
    /\ UNCHANGED <<enabled, pending, made, running, failing, closed>>
------------------------------------------------------------------------------
BeginStop(i) ==
    /\ RunnerFree /\ stage[i] = "kept"
    /\ busy' = i
    /\ stage' = [stage EXCEPT ![i] = "stopping"]
    /\ pending' = [pending EXCEPT ![i] = made[i]]
    /\ UNCHANGED <<enabled, made, running, failing, closed>>

(* Mutant: the loop ends at the first error. *)
RemainingIfOk(i, s, ok) == IF ok THEN pending[i] \ {s} ELSE {}
Remaining(i, s, ok) == pending[i] \ {s}

(* wrappedExporter.Shutdown goes on after an error.  A component that       *)
(* reports one has stopped all the same.                                    *)
StopComponent(i, s, ok) ==
    /\ stage[i] = "stopping" /\ s \in pending[i]
    /\ pending' = [pending EXCEPT ![i] = Remaining(i, s, ok)]
    /\ running' = [running EXCEPT ![i] = @ \ {s}]
    /\ failing' = [failing EXCEPT ![i] = @ \/ ~ok]
    /\ UNCHANGED <<stage, enabled, made, busy, closed>>

FinishStopping(i) ==
    /\ stage[i] = "stopping" /\ pending[i] = {}
    /\ stage' = [stage EXCEPT ![i] = "stopped"]
    /\ busy' = NoInstance
    /\ UNCHANGED <<enabled, pending, made, running, failing, closed>>

(* observerHandler.shutdown returns: nothing it keeps is left to stop.      *)
(* Nothing starts or stops after it, which supposes that observers drain;   *)
(* ExporterCreator has the other case.                                      *)
Close ==
    /\ RunnerFree /\ ~closed
    /\ \A i \in Instance : stage[i] # "kept"
    /\ closed' = TRUE
    /\ UNCHANGED <<stage, enabled, pending, made, running, failing, busy>>
------------------------------------------------------------------------------
StartNext(i) ==
    \/ Reject(i)
    \/ \E signals \in SUBSET Signal \ {{}} : BeginStarting(i, signals)
    \/ \E s \in Signal, outcome \in {"made", "unsupported", "error"} : Create(i, s, outcome)
    \/ FinishCreating(i)
    \/ \E s \in Signal, ok \in {TRUE, i \notin StartMayFail} : StartComponent(i, s, ok)
    \/ FinishStarting(i)

StopNext(i) ==
    \/ BeginStop(i)
    \/ \E s \in Signal, ok \in BOOLEAN : StopComponent(i, s, ok)
    \/ FinishStopping(i)

RunnerNext == (\E i \in Instance : StartNext(i) \/ StopNext(i)) \/ Close

RunnerSpec == RunnerInit /\ [][RunnerNext]_runnerVars
------------------------------------------------------------------------------
(* At most one instance is being started or stopped, and it is the busy one.*)
RunnerTypeOK ==
    /\ stage \in [Instance -> Stage]
    /\ {enabled, pending, made, running} \subseteq [Instance -> SUBSET Signal]
    /\ failing \in [Instance -> BOOLEAN]
    /\ busy \in Instance \cup {NoInstance}
    /\ closed \in BOOLEAN
    /\ \A i \in Instance : stage[i] \in {"creating", "starting", "stopping"} <=> busy = i

(* An exporter that start returns is whole: every component in the wrapper  *)
(* runs, there is at least one, and the template enables its signal         *)
(* (exporter_runner.go:73-123).                                             *)
KeptIsWhole ==
    \A i \in Instance : stage[i] = "kept" =>
        /\ running[i] = made[i] /\ made[i] # {}
        /\ made[i] \subseteq enabled[i]

(* Once shutdown of an exporter returns none of its components runs, the    *)
(* errors of some notwithstanding (exporter_runner.go:279-289).             *)
StoppedRunsNothing ==
    \A i \in Instance : stage[i] = "stopped" => running[i] = {}

(* A start that fails leaves nothing running: no component is started       *)
(* before all have been created (exporter_runner.go:110-121).  This needs   *)
(* components that start once they are created.                             *)
RefusedRunsNothing ==
    \A i \in Instance \ StartMayFail : stage[i] = "refused" => running[i] = {}

(* Of these, Shutdown leaves no component running (exporter.go:144), and    *)
(* none of an exporter that was kept.                                       *)
ClosedRunsNothing ==
    closed => \A i \in Instance :
        i \notin StartMayFail \/ stage[i] # "refused" => running[i] = {}

(* exporter.go:144: Shutdown stops "all its exporters started at runtime".  *)
ShutdownStopsAll == closed => \A i \in Instance : running[i] = {}

(* Why: what runs has been made; what has been made and is not pending runs *)
(* or has made the loop collect an error, or is stopped.                    *)
RunnerInv ==
    /\ RunnerTypeOK
    /\ \A i \in Instance :
          /\ running[i] \subseteq made[i] /\ made[i] \subseteq enabled[i]
          /\ pending[i] \subseteq enabled[i]
          /\ stage[i] \in {"unused", "creating"} => running[i] = {}
          /\ stage[i] = "unused" => made[i] = {} /\ ~failing[i]
          /\ stage[i] \in {"starting", "kept", "stopping"} => made[i] # {}
          /\ stage[i] = "starting" =>
                /\ pending[i] \subseteq made[i]
                /\ ~failing[i] => running[i] = made[i] \ pending[i]
                /\ i \notin StartMayFail => ~failing[i]
          /\ stage[i] = "stopping" => running[i] = pending[i]
          /\ closed => stage[i] # "kept"
    /\ KeptIsWhole /\ StoppedRunsNothing /\ RefusedRunsNothing
    /\ closed => busy = NoInstance
==============================================================================
