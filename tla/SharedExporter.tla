---------------------------- MODULE SharedExporter ----------------------------
(***************************************************************************)
(* factory.go and internal/sharedcomponent: one exporter_creator for every *)
(* pipeline that references its configuration.                             *)
(*                                                                         *)
(* The factory is asked for an exporter once per pipeline.  Each call      *)
(* constructs a creator, whose telemetry it keeps or releases, and hands   *)
(* back the one cached for the configuration.  Each pipeline then starts   *)
(* and shuts down that shared component; sync.Once lets the first Start    *)
(* and the first Shutdown through, and makes a later one wait for it.      *)
(*                                                                         *)
(* The collector (external) builds all pipelines, then starts them, until  *)
(* one fails, then shuts all down, started or not; after that, or after a  *)
(* build that failed, it may build again from the same configurations.     *)
(* Factory calls and shutdowns, which reach a map without a lock, come one *)
(* after another (factory.go:100); starts may overlap.  What the creator   *)
(* does between its Start and its Shutdown is ExporterCreator's.           *)
(***************************************************************************)
EXTENDS Naturals

CONSTANTS
    Pipeline,
    Config,    \* the configurations, which are the keys of the cache
    ConfigOf,  \* [Pipeline -> Config]
    Creator,   \* the exporterCreators that may ever be constructed
    None,      \* no creator
    MaxBuilds  \* bound: times the collector builds its pipelines

ASSUME SharedConstants ==
    /\ ConfigOf \in [Pipeline -> Config]
    /\ None \notin Creator \cup Config
    /\ MaxBuilds \in Nat

VARIABLES
    comps,      \* SharedComponents.comps
    cfg,        \* the configuration a creator was constructed with
    status,     \* of each creator
    attached,   \* creators whose telemetry registrations are in place
    startOnce, stopOnce, \* of the shared component around each creator
    held,       \* the creator behind the exporter a pipeline was given
    pc,         \* where each pipeline is
    phase,      \* what the collector is doing
    builds      \* how often it has begun to build

creatorVars == <<cfg, status, attached>>
onceVars == <<startOnce, stopOnce>>
sharedVars == <<comps, creatorVars, onceVars, held, pc, phase, builds>>
------------------------------------------------------------------------------
SharedInit ==
    /\ comps = [k \in Config |-> None]
    /\ cfg = [c \in Creator |-> None]
    /\ status = [c \in Creator |-> "unused"]
    /\ attached = {}
    /\ startOnce = [c \in Creator |-> "ready"]
    /\ stopOnce = [c \in Creator |-> "ready"]
    /\ held = [p \in Pipeline |-> None]
    /\ pc = [p \in Pipeline |-> "absent"]
    /\ phase = "building"
    /\ builds = 1

(* Instances are interchangeable: which unused one comes next is no matter. *)
NewCreator == CHOOSE c \in Creator : status[c] = "unused"

(* GetOrAdd returns what is cached for the configuration, or else caches    *)
(* what was constructed.  Mutant: the surplus overwrites the entry.         *)
AddAlways(k, created) == created
GetOrAdd(k, created) == IF comps[k] = None THEN created ELSE comps[k]

(* The creators left with their telemetry attached.  Mutant: the surplus    *)
(* one among them.                                                          *)
KeepSurplus(created, ec) == attached \cup {created}
ReleaseSurplus(created, ec) ==
    IF ec # created THEN attached ELSE attached \cup {created}

(* getOrAddExporterCreator, called for the pipeline by CreateLogs, -Metrics *)
(* or -Traces.                                                              *)
CreateExporter(p, created) ==
    /\ phase = "building" /\ pc[p] = "absent"
    /\ created \in Creator /\ status[created] = "unused"
    /\ LET ec == GetOrAdd(ConfigOf[p], created)
       IN /\ comps' = [comps EXCEPT ![ConfigOf[p]] = ec]
          /\ attached' = ReleaseSurplus(created, ec)
          /\ held' = [held EXCEPT ![p] = ec]
    /\ cfg' = [cfg EXCEPT ![created] = ConfigOf[p]]
    /\ status' = [status EXCEPT ![created] = "built"]
    /\ pc' = [pc EXCEPT ![p] = "created"]
    /\ UNCHANGED <<onceVars, phase, builds>>

(* newExporterCreator fails, before it reaches the cache: the collector     *)
(* drops the pipelines it has, without shutting them down, and may try      *)
(* again.                                                                   *)
CreateFails ==
    /\ phase = "building" /\ \E p \in Pipeline : pc[p] = "absent"
    /\ held' = [p \in Pipeline |-> None]
    /\ pc' = [p \in Pipeline |-> "absent"]
    /\ IF builds < MaxBuilds THEN builds' = builds + 1 /\ UNCHANGED phase
       ELSE phase' = "abandoned" /\ UNCHANGED builds
    /\ UNCHANGED <<comps, creatorVars, onceVars>>

Built ==
    /\ phase = "building" /\ \A p \in Pipeline : pc[p] = "created"
    /\ phase' = "running"
    /\ UNCHANGED <<comps, creatorVars, onceVars, held, pc, builds>>
------------------------------------------------------------------------------
(* sync.Once: the first caller runs the function, the others return when it *)
(* is through.  Mutants: every caller runs it; the others do not wait.      *)
AnyCaller(once) == TRUE
FirstCaller(once) == once = "ready"
OverOrUnderWay(once) == once # "ready"
Over(once) == once = "done"

(* SharedComponent.Start. *)
BeginStart(p) ==
    /\ phase = "running" /\ pc[p] = "created" /\ \A q \in Pipeline : pc[q] # "failed"
    /\ IF FirstCaller(startOnce[held[p]])
       THEN /\ startOnce' = [startOnce EXCEPT ![held[p]] = "running"]
            /\ pc' = [pc EXCEPT ![p] = "starting"]
       ELSE /\ pc' = [pc EXCEPT ![p] = "waiting"]
            /\ UNCHANGED startOnce
    /\ UNCHANGED <<comps, creatorVars, stopOnce, held, phase, builds>>

(* exporterCreator.Start returns.  If it fails it has subscribed to nothing. *)
EndStart(p, ok) ==
    /\ pc[p] = "starting"
    /\ startOnce' = [startOnce EXCEPT ![held[p]] = "done"]
    /\ status' = [status EXCEPT ![held[p]] =
            IF @ # "built" THEN "started again" ELSE IF ok THEN "running" ELSE "failed"]
    /\ pc' = [pc EXCEPT ![p] = IF ok THEN "started" ELSE "failed"]
    /\ UNCHANGED <<comps, cfg, attached, stopOnce, held, phase, builds>>

(* A Start that did not run the function returns no error, whatever the one *)
(* that did returned.                                                       *)
WaitStart(p) ==
    /\ pc[p] = "waiting" /\ Over(startOnce[held[p]])
    /\ pc' = [pc EXCEPT ![p] = "started"]
    /\ UNCHANGED <<comps, creatorVars, onceVars, held, phase, builds>>
------------------------------------------------------------------------------
BeginClosing ==
    /\ phase = "running" /\ \A p \in Pipeline : pc[p] \notin {"starting", "waiting"}
    /\ \A p \in Pipeline : pc[p] = "created" => \E q \in Pipeline : pc[q] = "failed"
    /\ phase' = "closing"
    /\ UNCHANGED <<comps, creatorVars, onceVars, held, pc, builds>>

(* Mutant: only a creator that was started is shut down. *)
StopsIfStarted(c) == FirstCaller(stopOnce[c]) /\ Over(startOnce[c])
Stops(c) == FirstCaller(stopOnce[c])

(* SharedComponent.Shutdown: pipelines that are started, that failed to     *)
(* start, or that were never started.                                       *)
BeginShutdown(p) ==
    /\ phase = "closing" /\ pc[p] \in {"created", "started", "failed"}
    /\ \A q \in Pipeline : pc[q] # "stopping"
    /\ IF Stops(held[p])
       THEN /\ stopOnce' = [stopOnce EXCEPT ![held[p]] = "running"]
            /\ pc' = [pc EXCEPT ![p] = "stopping"]
       ELSE /\ pc' = [pc EXCEPT ![p] = "stopped"]
            /\ UNCHANGED stopOnce
    /\ UNCHANGED <<comps, creatorVars, startOnce, held, phase, builds>>

(* Mutant: a creator that was shut down stays cached. *)
StaysCached(k) == UNCHANGED comps
RemoveFunc(k) == comps' = [comps EXCEPT ![k] = None]

(* exporterCreator.Shutdown, the release of its telemetry included, and     *)
(* removeFunc.                                                              *)
EndShutdown(p) ==
    /\ pc[p] = "stopping"
    /\ status' = [status EXCEPT ![held[p]] = IF @ = "stopped" THEN "stopped again" ELSE "stopped"]
    /\ attached' = attached \ {held[p]}
    /\ RemoveFunc(cfg[held[p]])
    /\ stopOnce' = [stopOnce EXCEPT ![held[p]] = "done"]
    /\ pc' = [pc EXCEPT ![p] = "stopped"]
    /\ UNCHANGED <<cfg, startOnce, held, phase, builds>>

Closed == phase = "closing" /\ \A p \in Pipeline : pc[p] = "stopped"

(* The collector builds again from the same configurations. *)
Rebuild ==
    /\ Closed /\ builds < MaxBuilds
    /\ builds' = builds + 1
    /\ phase' = "building"
    /\ held' = [p \in Pipeline |-> None]
    /\ pc' = [p \in Pipeline |-> "absent"]
    /\ UNCHANGED <<comps, creatorVars, onceVars>>

Exit == (Closed \/ phase = "abandoned") /\ UNCHANGED sharedVars
------------------------------------------------------------------------------
StartStep(p) == (\E ok \in BOOLEAN : EndStart(p, ok)) \/ WaitStart(p)
ShutdownStep(p) == BeginShutdown(p) \/ EndShutdown(p)

SharedNext ==
    \/ \E p \in Pipeline :
          CreateExporter(p, NewCreator) \/ BeginStart(p) \/ StartStep(p) \/ ShutdownStep(p)
    \/ CreateFails \/ Built \/ BeginClosing \/ Rebuild \/ Exit

SharedSpec == SharedInit /\ [][SharedNext]_sharedVars

(* A Start under way returns; a collector that is closing goes on to shut   *)
(* every pipeline down.  Nothing obliges it to start or to close.           *)
FairSharedSpec ==
    SharedSpec /\ \A p \in Pipeline : WF_sharedVars(StartStep(p)) /\ WF_sharedVars(ShutdownStep(p))
------------------------------------------------------------------------------
(* The cache, the creators and the pipelines' exporters keep their types; a *)
(* creator is started once and stopped once (sharedcomponent.go:44-45).     *)
SharedTypeOK ==
    /\ comps \in [Config -> Creator \cup {None}]
    /\ cfg \in [Creator -> Config \cup {None}]
    /\ status \in [Creator -> {"unused", "built", "running", "failed", "stopped"}]
    /\ attached \subseteq Creator
    /\ startOnce \in [Creator -> {"ready", "running", "done"}]
    /\ stopOnce \in [Creator -> {"ready", "running", "done"}]
    /\ held \in [Pipeline -> Creator \cup {None}]
    /\ pc \in [Pipeline -> {"absent", "created", "starting", "waiting", "started", "failed",
                            "stopping", "stopped"}]
    /\ phase \in {"building", "running", "closing", "abandoned"}
    /\ builds \in Nat
    /\ \A p \in Pipeline : pc[p] = "absent" <=> held[p] = None

(* Pipelines share an exporter exactly when they share a configuration, and *)
(* no two creators of one configuration run, so that an observer is         *)
(* subscribed to once (factory_test.go:58, 84).                             *)
OneCreatorPerConfig ==
    /\ \A p, q \in Pipeline :
          held[p] # None /\ held[q] # None => (held[p] = held[q] <=> ConfigOf[p] = ConfigOf[q])
    /\ \A c, d \in Creator :
          status[c] = "running" /\ status[d] = "running" /\ cfg[c] = cfg[d] => c = d

(* Telemetry registrations are in place for the cached creators and for no  *)
(* other: a surplus creator's, or a stopped one's, are released, and never  *)
(* those of the creator the pipelines share (factory.go:92-97).             *)
AttachedIsCached == attached = {c \in Creator : cfg[c] # None /\ comps[cfg[c]] = c}

(* A pipeline whose Start returned no error has a creator that runs, until  *)
(* the collector closes, unless the pipeline that did start it was told     *)
(* that it failed (sharedcomponent.go:60-66).                               *)
StartedIsRunning ==
    \A p \in Pipeline : pc[p] = "started" =>
        \/ status[held[p]] = "running"
        \/ \E q \in Pipeline : held[q] = held[p] /\ pc[q] = "failed"
        \/ phase = "closing"

(* What is cached is usable: a later build of a configuration never gets a  *)
(* creator that was started before, which sync.Once would not start again   *)
(* (sharedcomponent.go:45).                                                 *)
CachedIsFresh ==
    phase = "building" => \A k \in Config : comps[k] # None => status[comps[k]] = "built"

(* Closing comes to an end, and releases everything: whether a pipeline was *)
(* started, failed, or was never started because another one failed.        *)
ClosingReleases ==
    phase = "closing" ~>
        /\ Closed
        /\ attached = {} /\ \A c \in Creator : status[c] # "running"
        /\ \A k \in Config : comps[k] = None
==============================================================================
