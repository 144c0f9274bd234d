--------------------------- MODULE ExporterCreator ---------------------------
(***************************************************************************)
(* The core of exporter_creator: exporters started and stopped at run time *)
(* as observers report endpoints.                                          *)
(*                                                                         *)
(* Each watched observer calls its own observerNotify (observernotify.go)  *)
(* from a goroutine of its own.  All of them delegate to one               *)
(* observerHandler (observerhandler.go), whose mutex serialises the        *)
(* callbacks, and then to one endpointTracker.  The handler starts and     *)
(* stops exporters, files them by endpoint in exportersByEndpoint and      *)
(* registers them with the router.  exporterCreator.Start subscribes to    *)
(* the observers; Shutdown unsubscribes and stops every exporter           *)
(* (exporter.go).                                                          *)
(*                                                                         *)
(* The router's and the tracker's operations are atomic, under locks of    *)
(* their own.  A callback is not: every exporter it starts or stops, and   *)
(* every registration, is a step that the other goroutines, and the        *)
(* pipelines that route through the router, can see.                       *)
(*                                                                         *)
(* A batch is a function from the endpoint ids in it to their              *)
(* environments; the handler takes its endpoints, and Go's map iteration   *)
(* the templates, in any order.                                            *)
(***************************************************************************)
EXTENDS TelemetryRouter

CONSTANTS
    Observer,          \* the observers of watch_observers
    Template,          \* the exporter templates
    Env,               \* what an endpoint may look like
    Matches,           \* [Template -> SUBSET Env]: rule.eval
    RoutingProperties, \* [Template -> [Env -> Properties]]: routingEnv, flattened
    TemplateType,      \* [Template -> ExporterType]
    EndpointType,
    EndpointTypeOf,    \* [Env -> EndpointType]: endpointTypeOf
    ObserverType,
    TypeOf,            \* [Observer -> ObserverType]
    NotReported,       \* the observer says nothing of this endpoint
    None,              \* no goroutine, no endpoint, no exporter
    Creator,           \* the goroutine that runs exporterCreator.Shutdown
    Reportable,        \* [Observer -> SUBSET EndpointID]: what each may report
    Resyncing,         \* observers that call OnAdd again for what they reported
    Retracting,        \* observers that remove what they do not report
    Drained,           \* observers whose Unsubscribe returns only when no callback is running
    StartMayFail,      \* runner.start, or the expansion before it, may fail
    MaxCallbacks       \* bound: callbacks made, by all observers together

ASSUME TemplatesType ==
    /\ Matches \in [Template -> SUBSET Env]
    /\ RoutingProperties \in [Template -> [Env -> Properties]]
    /\ TemplateType \in [Template -> ExporterType]
ASSUME ObserversType ==
    /\ EndpointTypeOf \in [Env -> EndpointType]
    /\ Reportable \in [Observer -> SUBSET EndpointID]
    /\ Resyncing \subseteq Observer
    /\ Retracting \subseteq Observer
    /\ Drained \subseteq Observer
    /\ StartMayFail \in BOOLEAN
    /\ MaxCallbacks \in Nat
ASSUME Sentinels ==
    /\ None \notin Observer \cup EndpointID \cup Exporter
    /\ Creator \notin Observer \cup {None}
    /\ NotReported \notin Env

VARIABLES
    phase,               \* where Start and Shutdown are
    subscribed,          \* observers whose Notify is registered
    reported,            \* what each observer last said of each endpoint
    pc,                  \* where each observer's callback is
    call,                \* the callback: which one, with which batch
    callbacks,           \* how many were made
    mutex,               \* who holds the observerHandler's mutex
    toRemove, toAdd,     \* endpoints the holder has left to remove and to add
    current,             \* the one it is at
    toStop,              \* exporters of it left to stop
    untried,             \* matching templates of it left to start
    started,             \* exporter just started and not yet registered
    status,              \* of each exporter
    exportersByEndpoint, \* the handler's exporterMap
    live, totals, observedEndpoints  \* the endpointTracker's

observerVars == <<subscribed, reported, callbacks>>
frameVars == <<toRemove, toAdd, current, toStop, untried, started>>
exporterVars == <<status, exportersByEndpoint>>
trackedVars == <<live, totals, observedEndpoints>>
vars == <<phase, observerVars, pc, call, mutex, frameVars, exporterVars, trackedVars, routerVars>>

Tracker == INSTANCE EndpointTracker
ASSUME TrackerAssumption == Tracker!TrackerConstants

Batches(o) == UNION {[ids -> Env] : ids \in SUBSET Reportable[o] \ {{}}}
NoCall == [op |-> "none", batch |-> [id \in {} |-> NotReported]]
NothingStarted == [exporter |-> None, template |-> None]
Draining == Drained = Observer
Filed == UNION {exportersByEndpoint[id] : id \in EndpointID}

(* Mutant: the mutex does not exclude. *)
MutexAlwaysFree == TRUE
MutexFree == mutex = None

(* Mutant: a loop that does not advance. *)
DoneNever(work, item) == work
(* The rest of a loop's work, once it is through with an item. *)
Done(work, item) == work \ {item}
------------------------------------------------------------------------------
Init ==
    /\ phase = "created"
    /\ subscribed = {}
    /\ reported = [o \in Observer |-> [id \in EndpointID |-> NotReported]]
    /\ pc = [o \in Observer |-> "idle"]
    /\ call = [o \in Observer |-> NoCall]
    /\ callbacks = 0
    /\ mutex = None
    /\ toRemove = {} /\ toAdd = {} /\ current = None /\ toStop = {} /\ untried = {}
    /\ started = NothingStarted
    /\ status = [x \in Exporter |-> "unused"]
    /\ exportersByEndpoint = [id \in EndpointID |-> {}]
    /\ Tracker!TrackerInit
    /\ RouterInit
------------------------------------------------------------------------------
(* exporterCreator.Start: it gives up on a host of the wrong kind or an     *)
(* observer it cannot find before it subscribes to any.                     *)
Start ==
    /\ phase = "created"
    /\ phase' \in {IF Observer = {} THEN "started" ELSE "starting", "failed"}
    /\ UNCHANGED <<observerVars, pc, call, mutex, frameVars, exporterVars, trackedVars, routerVars>>

(* An observer may call back as soon as it is watched, before Start returns. *)
ListAndWatch(o) ==
    /\ phase = "starting" /\ o \notin subscribed
    /\ subscribed' = subscribed \cup {o}
    /\ phase' = IF subscribed' = Observer THEN "started" ELSE phase
    /\ UNCHANGED <<reported, callbacks, pc, call, mutex, frameVars, exporterVars, trackedVars, routerVars>>

BeginShutdown ==
    /\ phase \in {"started", "failed"}
    /\ phase' = "unsubscribing"
    /\ UNCHANGED <<observerVars, pc, call, mutex, frameVars, exporterVars, trackedVars, routerVars>>

Unsubscribe(o) ==
    /\ phase = "unsubscribing" /\ o \in subscribed
    /\ o \in Drained => pc[o] = "idle"
    /\ subscribed' = subscribed \ {o}
    /\ UNCHANGED <<phase, reported, callbacks, pc, call, mutex, frameVars, exporterVars, trackedVars, routerVars>>

(* Mutant: Shutdown stops the exporters before it unsubscribes. *)
UnsubscribedNotAwaited == TRUE
Unsubscribed == subscribed = {}

(* observerHandler.shutdown takes the mutex and stops all it has filed; it  *)
(* leaves the exporterMap and the router as they are.                       *)
LockForShutdown ==
    /\ phase = "unsubscribing" /\ Unsubscribed
    /\ MutexFree
    /\ phase' = "stopping"
    /\ mutex' = Creator
    /\ toStop' = Filed
    /\ UNCHANGED <<observerVars, pc, call, toRemove, toAdd, current, untried, started,
                   exporterVars, trackedVars, routerVars>>

FinishShutdown ==
    /\ mutex = Creator /\ toStop = {}
    /\ phase' = "shut down"
    /\ mutex' = None
    /\ UNCHANGED <<observerVars, pc, call, frameVars, exporterVars, trackedVars, routerVars>>
------------------------------------------------------------------------------
(* observerNotify: the callbacks.  An observer makes one at a time.  It     *)
(* adds what it has not reported (and, to resync, what it has, unchanged),  *)
(* removes what it has (and, to retract twice, what it has not, of which    *)
(* nothing but the id is read), and reports a change of what it has.        *)
Known(o) == {id \in Reportable[o] : reported[o][id] # NotReported}

Call(o, op, batch) ==
    /\ o \in subscribed /\ pc[o] = "idle" /\ callbacks < MaxCallbacks
    /\ callbacks' = callbacks + 1
    /\ pc' = [pc EXCEPT ![o] = "waiting"]
    /\ call' = [call EXCEPT ![o] = [op |-> op, batch |-> batch]]
    /\ reported' = [reported EXCEPT ![o] =
            [id \in EndpointID |->
                IF id \notin DOMAIN batch THEN @[id]
                ELSE IF op = "remove" THEN NotReported ELSE batch[id]]]
    /\ UNCHANGED <<phase, subscribed, mutex, frameVars, exporterVars, trackedVars, routerVars>>

OnAdd(o, batch) ==
    /\ \A id \in DOMAIN batch \cap Known(o) : o \in Resyncing /\ batch[id] = reported[o][id]
    /\ Call(o, "add", batch)

OnRemove(o, batch) ==
    /\ \A id \in DOMAIN batch :
          \/ batch[id] = reported[o][id]
          \/ o \in Retracting /\ id \notin Known(o) /\ batch[id] = CHOOSE env \in Env : TRUE
    /\ Call(o, "remove", batch)

OnChange(o, batch) ==
    /\ DOMAIN batch \subseteq Known(o)
    /\ \A id \in DOMAIN batch : batch[id] # reported[o][id]
    /\ Call(o, "change", batch)

(* Mutant: a change does not remove what it replaces. *)
RemovedByRemovals(c) == IF c.op = "remove" THEN DOMAIN c.batch ELSE {}
RemovedBy(c) == IF c.op \in {"remove", "change"} THEN DOMAIN c.batch ELSE {}
AddedBy(c) == IF c.op \in {"add", "change"} THEN DOMAIN c.batch ELSE {}

(* observerHandler.OnAdd, OnRemove and OnChange under the handler's mutex: *)
(* a change is the removal of the whole batch and then its addition.       *)
Lock(o) ==
    /\ pc[o] = "waiting" /\ MutexFree
    /\ mutex' = o
    /\ pc' = [pc EXCEPT ![o] = "handling"]
    /\ toRemove' = RemovedBy(call[o])
    /\ toAdd' = AddedBy(call[o])
    /\ UNCHANGED <<phase, observerVars, call, current, toStop, untried, started,
                   exporterVars, trackedVars, routerVars>>

Unlock(o) ==
    /\ mutex = o
    /\ current = None /\ toRemove = {} /\ toAdd = {}
    /\ mutex' = None
    /\ pc' = [pc EXCEPT ![o] = "counting"]
    /\ UNCHANGED <<phase, observerVars, call, frameVars, exporterVars, trackedVars, routerVars>>

(* Mutant: the tracker is not told of changes. *)
TrackCallButChange(o, c) ==
    CASE c.op = "remove" -> Tracker!Untrack(o, DOMAIN c.batch)
      [] c.op = "change" -> UNCHANGED trackedVars
      [] OTHER -> Tracker!Track(o, [id \in DOMAIN c.batch |-> EndpointTypeOf[c.batch[id]]])
TrackCall(o, c) ==
    IF c.op = "remove" THEN Tracker!Untrack(o, DOMAIN c.batch)
    ELSE Tracker!Track(o, [id \in DOMAIN c.batch |-> EndpointTypeOf[c.batch[id]]])

(* The second half of an observerNotify callback, with no lock in common   *)
(* with the first.                                                         *)
Count(o) ==
    /\ pc[o] = "counting"
    /\ pc' = [pc EXCEPT ![o] = "idle"]
    /\ call' = [call EXCEPT ![o] = NoCall]
    /\ TrackCall(o, call[o])
    /\ UNCHANGED <<phase, observerVars, mutex, frameVars, exporterVars, routerVars>>
------------------------------------------------------------------------------
(* exporterMap.  Mutants: Get returns one exporter of the several there     *)
(* are; RemoveAll keeps what was stopped.                                   *)
Put(id, x) == exportersByEndpoint' = [exportersByEndpoint EXCEPT ![id] = @ \cup {x}]
GetOne(id) == {x \in exportersByEndpoint[id] : x = CHOOSE y \in exportersByEndpoint[id] : TRUE}
Get(id) == exportersByEndpoint[id]
RemoveNone(id) == UNCHANGED exportersByEndpoint
RemoveAll(id) == exportersByEndpoint' = [exportersByEndpoint EXCEPT ![id] = {}]

(* onRemoveLocked, endpoint by endpoint. *)
TakeRemoved(id) ==
    /\ mutex \in Observer /\ current = None /\ id \in toRemove
    /\ IF Get(id) = {}
       THEN toRemove' = Done(toRemove, id) /\ UNCHANGED <<current, toStop>>
       ELSE current' = id /\ toStop' = Get(id) /\ UNCHANGED toRemove
    /\ UNCHANGED <<phase, observerVars, pc, call, mutex, toAdd, untried, started,
                   exporterVars, trackedVars, routerVars>>

(* runner.shutdown, whose error is only logged or collected. *)
StopExporter(x) ==
    /\ mutex # None /\ x \in toStop
    /\ toStop' = Done(toStop, x)
    /\ status' = [status EXCEPT ![x] = IF @ = "running" THEN "stopped" ELSE "stopped again"]
    /\ UNCHANGED <<phase, observerVars, pc, call, mutex, toRemove, toAdd, current, untried, started,
                   exportersByEndpoint, trackedVars, routerVars>>

DropEndpoint(id) ==
    /\ mutex \in Observer /\ current = id /\ id \in toRemove /\ toStop = {}
    /\ RemoveExporter(id)
    /\ RemoveAll(id)
    /\ toRemove' = Done(toRemove, id)
    /\ current' = None
    /\ UNCHANGED <<phase, observerVars, pc, call, mutex, toAdd, toStop, untried, started,
                   status, trackedVars>>

(* Mutant: the first template that matches is the only one. *)
FirstTemplateFor(env) == {t \in Template : env \in Matches[t] /\
                            t = CHOOSE u \in Template : env \in Matches[u]}
TemplatesFor(env) == {t \in Template : env \in Matches[t]}

(* onAddLocked, endpoint by endpoint: every template whose rule matches.  A *)
(* rule that fails to evaluate, and an endpoint with no environment, match  *)
(* nothing.                                                                 *)
TakeAdded(id) ==
    /\ mutex \in Observer /\ current = None /\ toRemove = {} /\ id \in toAdd
    /\ current' = id
    /\ toAdd' = toAdd \ {id}
    /\ untried' = TemplatesFor(call[mutex].batch[id])
    /\ UNCHANGED <<phase, observerVars, pc, call, mutex, toRemove, toStop, started,
                   exporterVars, trackedVars, routerVars>>

Adding == mutex \in Observer /\ current # None /\ current \notin toRemove

(* Instances are interchangeable: which unused one comes next is no matter. *)
NewExporter == CHOOSE x \in Exporter : status[x] = "unused"

(* startExporter up to exportersByEndpoint.Put: the exporter runs and is    *)
(* filed, but not yet registered.                                           *)
StartExporter(t, x) ==
    /\ Adding /\ started = NothingStarted /\ t \in untried
    /\ x \in Exporter /\ status[x] = "unused"
    /\ status' = [status EXCEPT ![x] = "running"]
    /\ Put(current, x)
    /\ started' = [exporter |-> x, template |-> t]
    /\ untried' = untried \ {t}
    /\ UNCHANGED <<phase, observerVars, pc, call, mutex, toRemove, toAdd, current, toStop,
                   trackedVars, routerVars>>

(* Any of its early returns: nothing is filed. *)
StartExporterFails(t) ==
    /\ StartMayFail
    /\ Adding /\ started = NothingStarted /\ t \in untried
    /\ untried' = untried \ {t}
    /\ UNCHANGED <<phase, observerVars, pc, call, mutex, toRemove, toAdd, current, toStop, started,
                   exporterVars, trackedVars, routerVars>>

(* Mutant: the exporter may be registered again. *)
RegisterTwice ==
    /\ Adding /\ started # NothingStarted
    /\ AddExporter(current, started.exporter,
                   RoutingProperties[started.template][call[mutex].batch[current]],
                   TemplateType[started.template])
    /\ started' \in {started, NothingStarted}
    /\ UNCHANGED <<phase, observerVars, pc, call, mutex, toRemove, toAdd, current, toStop, untried,
                   exporterVars, trackedVars>>

Register ==
    /\ Adding /\ started # NothingStarted
    /\ AddExporter(current, started.exporter,
                   RoutingProperties[started.template][call[mutex].batch[current]],
                   TemplateType[started.template])
    /\ started' = NothingStarted
    /\ UNCHANGED <<phase, observerVars, pc, call, mutex, toRemove, toAdd, current, toStop, untried,
                   exporterVars, trackedVars>>

NextEndpoint ==
    /\ Adding /\ started = NothingStarted /\ untried = {}
    /\ current' = None
    /\ UNCHANGED <<phase, observerVars, pc, call, mutex, toRemove, toAdd, toStop, untried, started,
                   exporterVars, trackedVars, routerVars>>
------------------------------------------------------------------------------
Handle ==
    \/ \E id \in EndpointID : TakeRemoved(id) \/ DropEndpoint(id) \/ TakeAdded(id)
    \/ \E x \in Exporter : StopExporter(x)
    \/ \E t \in Template : StartExporter(t, NewExporter) \/ StartExporterFails(t)
    \/ Register
    \/ NextEndpoint

Callback(o) ==
    \E batch \in Batches(o) : OnAdd(o, batch) \/ OnRemove(o, batch) \/ OnChange(o, batch)

(* The creator is shut down and no callback is under way. *)
Finished ==
    /\ phase = "shut down" /\ \A o \in Observer : pc[o] = "idle"
    /\ UNCHANGED vars

Next ==
    \/ Start \/ BeginShutdown \/ LockForShutdown \/ FinishShutdown
    \/ \E o \in Observer :
          \/ ListAndWatch(o) \/ Unsubscribe(o)
          \/ Callback(o) \/ Lock(o) \/ Unlock(o) \/ Count(o)
    \/ Handle
    \/ Finished

Spec == Init /\ [][Next]_vars

(* Starting and stopping an exporter returns; a goroutine that can run does *)
(* run; a sync.Mutex wakes those that wait for it in turn, which is strong  *)
(* fairness of each acquisition, and so of an Unsubscribe that waits for    *)
(* callbacks to drain.  Nothing obliges an observer to call back, or the    *)
(* collector to shut the creator down.                                      *)
Fairness ==
    /\ WF_vars(Handle)
    /\ WF_vars(FinishShutdown)
    /\ SF_vars(LockForShutdown)
    /\ \A o \in Observer :
          /\ SF_vars(Lock(o)) /\ WF_vars(Unlock(o)) /\ WF_vars(Count(o))
          /\ SF_vars(Unsubscribe(o))

FairSpec == Spec /\ Fairness
------------------------------------------------------------------------------
Frame == [op : {"none", "add", "remove", "change"},
          batch : UNION {[ids -> Env] : ids \in SUBSET EndpointID}]
StartedExporter == [exporter : Exporter, template : Template] \cup {NothingStarted}

(* The fields of the creator, of its handler and of the goroutines that     *)
(* call it, and the router's table, keep their types; a callback is in the  *)
(* handler exactly while it holds the mutex.                                *)
TypeOK ==
    /\ phase \in {"created", "starting", "started", "failed", "unsubscribing", "stopping", "shut down"}
    /\ subscribed \subseteq Observer
    /\ reported \in [Observer -> [EndpointID -> Env \cup {NotReported}]]
    /\ pc \in [Observer -> {"idle", "waiting", "handling", "counting"}]
    /\ call \in [Observer -> Frame]
    /\ callbacks \in Nat
    /\ mutex \in Observer \cup {Creator, None}
    /\ \A o \in Observer : pc[o] = "handling" <=> mutex = o
    /\ toRemove \subseteq EndpointID /\ toAdd \subseteq EndpointID
    /\ current \in EndpointID \cup {None}
    /\ toStop \subseteq Exporter
    /\ untried \subseteq Template
    /\ started \in StartedExporter
    /\ status \in [Exporter -> {"unused", "running", "stopped", "stopped again"}]
    /\ exportersByEndpoint \in [EndpointID -> SUBSET Exporter]
    /\ routed \subseteq RoutedExporter

(* The handler's map and the router's table, which are updated one after    *)
(* the other, hold the same exporters under the same endpoints, save the    *)
(* one exporter that is being registered (observerhandler.go:126-127, 244,  *)
(* 277).                                                                    *)
RouterMirrorsHandler ==
    \A id \in EndpointID :
        exportersByEndpoint[id] =
            {re.exporter : re \in RoutedTo(id)} \cup
            (IF id = current /\ started # NothingStarted THEN {started.exporter} ELSE {})

(* Every exporter that runs is filed under one endpoint, so that a removal  *)
(* or Shutdown will find it: none leaks (observerhandler_multitemplate_     *)
(* test.go: a second template must not overwrite the first one's exporter). *)
NoStrandedExporter ==
    \A x \in Exporter : status[x] = "running" =>
        \E id \in EndpointID : x \in exportersByEndpoint[id]

(* Telemetry is routed to running exporters only, except in the window in   *)
(* which onRemoveLocked stops an endpoint's exporters before it takes them  *)
(* off the router, and once Shutdown has begun to stop them.                *)
RoutableIsRunning ==
    \A re \in routed :
        \/ status[re.exporter] = "running"
        \/ current = re.endpoint /\ re.endpoint \in toRemove
        \/ phase \in {"stopping", "shut down"}

(* No exporter is shut down twice, by two callbacks or by a callback and    *)
(* Shutdown.                                                                *)
StopOnce == \A x \in Exporter : status[x] # "stopped again"

Quiescent == phase = "started" /\ \A o \in Observer : pc[o] = "idle"

(* What the router should hold, given what the observers report: for each  *)
(* endpoint, as last reported, each template that matches it.              *)
Wanted ==
    {w \in [endpoint : EndpointID, exporterType : ExporterType, properties : Properties] :
        \E o \in Observer, t \in Template :
            LET env == reported[o][w.endpoint] IN
            /\ env \in Matches[t]
            /\ w.exporterType = TemplateType[t]
            /\ w.properties = RoutingProperties[t][env]}

Entry(re) == [endpoint |-> re.endpoint, exporterType |-> re.exporterType,
              properties |-> re.properties]

(* Once callbacks have settled, nothing is routed by properties an endpoint *)
(* no longer has, nor to an endpoint no observer reports any more, if a     *)
(* change is reported as one (a repeated OnAdd repeats what was said).      *)
RoutesOnlyWhatIsReported == Quiescent => {Entry(re) : re \in routed} \subseteq Wanted

(* Once callbacks have settled, every reported endpoint can be reached      *)
(* through every template that matches it, by the properties it has now.    *)
EveryReportIsRouted == Quiescent => Wanted \subseteq {Entry(re) : re \in routed}

(* "One exporter is created per endpoint the rule matches" (README.md),     *)
(* for templates that differ in type.                                       *)
OneExporterPerRule ==
    \A a, b \in routed :
        a.endpoint = b.endpoint /\ a.exporterType = b.exporterType => a = b

(* Between the callbacks of an observer, the tracker has for it exactly     *)
(* what it reports, by type, though it may retract what it never reported   *)
(* (endpointtracker.go:81); the totals and the gauge follow.                *)
ReportedIsCounted ==
    /\ \A o \in Observer, id \in EndpointID : pc[o] = "idle" =>
          live[o][id] = IF reported[o][id] = NotReported THEN NotReported
                        ELSE EndpointTypeOf[reported[o][id]]
    /\ Tracker!TotalsMatchLive

(* The gauge does what it promises, fed by the callbacks as they come: each *)
(* leaves every series at the number of endpoints then reported, whatever   *)
(* is resynced, retyped, retracted unreported, or shared by observers of    *)
(* one type.                                                                *)
GaugeKeepsPromise == Tracker!GaugeKeepsPromise

(* The gauge and routing agree: once callbacks have settled, an endpoint    *)
(* counted as observed, and matched by some template, has an exporter.      *)
ObservedIsRoutable ==
    Quiescent =>
        \A o \in Observer, id \in EndpointID :
            live[o][id] # NotReported /\ (\E t \in Template : reported[o][id] \in Matches[t])
                => RoutedTo(id) # {}

(* exporter.go:144: Shutdown stops the creator "and all its exporters       *)
(* started at runtime".                                                     *)
NoExporterOutlivesShutdown ==
    phase = "shut down" => \A x \in Exporter : status[x] # "running"

(* Whatever the interleaving, the handler drives the router through its     *)
(* operations, and never registers what is registered.                      *)
DrivesRouter == RouterSpec

(* Why the above holds: what the holder of the mutex has in hand.           *)
Idle == current = None /\ toRemove = {} /\ toAdd = {} /\ untried = {} /\ started = NothingStarted
Removing == current \in toRemove

FrameInv ==
    /\ mutex \notin Observer => Idle
    /\ mutex # Creator /\ ~Removing => toStop = {}
    /\ current = None \/ Removing => untried = {} /\ started = NothingStarted
    /\ current # None /\ ~Removing => toRemove = {}
    /\ mutex \in Observer =>
          /\ toAdd \subseteq DOMAIN call[mutex].batch
          /\ Adding => current \in DOMAIN call[mutex].batch

(* An exporter is filed once, from its start on; a filed exporter runs      *)
(* unless the removal of its endpoint has got to it, or Shutdown may have.  *)
FiledInv ==
    /\ \A id1, id2 \in EndpointID :
          exportersByEndpoint[id1] \cap exportersByEndpoint[id2] # {} => id1 = id2
    /\ \A id \in EndpointID : \A x \in exportersByEndpoint[id] :
          /\ status[x] # "unused"
          /\ \/ status[x] = "running"
             \/ current = id /\ Removing /\ x \notin toStop
             \/ phase \in {"stopping", "shut down"}
          /\ current = id /\ Removing => (x \in toStop \/ status[x] # "running")
    /\ started # NothingStarted =>
          started.exporter \in exportersByEndpoint[current] /\ Unregistered(started.exporter)
    /\ Removing => toStop \subseteq exportersByEndpoint[current]

(* If Unsubscribe waits for callbacks, none is under way once all observers *)
(* are unsubscribed: Shutdown stops, once, everything that runs.            *)
DrainInv ==
    /\ mutex = Creator <=> phase = "stopping"
    /\ phase \in {"stopping", "shut down"} => subscribed = {}
    /\ Draining =>
          /\ \A o \in Observer : pc[o] # "idle" => o \in subscribed
          /\ \A x \in toStop : status[x] = "running"
          /\ phase = "stopping" => \A x \in Exporter : status[x] = "running" => x \in toStop

(* The inductive invariant of the handler. *)
HandlerInv ==
    /\ TypeOK /\ FrameInv /\ FiledInv /\ DrainInv
    /\ RouterMirrorsHandler /\ NoStrandedExporter
    /\ Draining => StopOnce /\ NoExporterOutlivesShutdown

(* A callback returns, though others compete for the mutex. *)
CallbackReturns == \A o \in Observer : pc[o] = "waiting" ~> pc[o] = "idle"

(* Shutdown returns. *)
ShutdownReturns == phase = "unsubscribing" ~> phase = "shut down"
==============================================================================
