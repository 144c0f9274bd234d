------------------------ MODULE ExporterCreatorProofs ------------------------
(* The handler's invariants, for any number of observers, endpoints,        *)
(* templates and exporters, and for every kind of observer and exporter the *)
(* constants allow.                                                         *)
EXTENDS ExporterCreator, TelemetryRouterProofs

(* A batch names endpoints, each with an environment. *)
LEMMA BatchType ==
    ASSUME NEW b \in UNION {[ids -> Env] : ids \in SUBSET EndpointID}
    PROVE  DOMAIN b \subseteq EndpointID /\ \A id \in DOMAIN b : b[id] \in Env
  OBVIOUS

(* What an observer may put in a batch is a batch. *)
LEMMA BatchesType ==
    ASSUME NEW o \in Observer, NEW b \in Batches(o)
    PROVE  b \in UNION {[ids -> Env] : ids \in SUBSET EndpointID}
  BY ObserversType DEF Batches

(* No callback is a callback with an empty batch. *)
LEMMA NoCallType == NoCall \in Frame
  <1>1. NoCall.batch \in [{} -> Env]
    BY DEF NoCall
  <1>2. {} \in SUBSET EndpointID
    OBVIOUS
  <1>3. NoCall.batch \in UNION {[ids -> Env] : ids \in SUBSET EndpointID}
    BY <1>1, <1>2
  <1> QED
    BY <1>3 DEF NoCall, Frame

(* What the handler has just started, and registers next, is an entry of    *)
(* the router's table.                                                      *)
LEMMA RegisteredType ==
    ASSUME HandlerInv, Register
    PROVE  /\ [endpoint |-> current, exporter |-> started.exporter,
               exporterType |-> TemplateType[started.template],
               properties |-> RoutingProperties[started.template][call[mutex].batch[current]]]
                 \in RoutedExporter
           /\ mutex \in Observer /\ current \in EndpointID
           /\ started.exporter \in Exporter
           /\ RoutingProperties[started.template][call[mutex].batch[current]] \in Properties
           /\ TemplateType[started.template] \in ExporterType
  <1>1. mutex \in Observer /\ current \in EndpointID /\ current \in DOMAIN call[mutex].batch
    BY DEF Register, Adding, HandlerInv, TypeOK, FrameInv
  <1>2. started.exporter \in Exporter /\ started.template \in Template
    BY DEF Register, HandlerInv, TypeOK, StartedExporter
  <1>3. call[mutex].batch[current] \in Env
    BY <1>1, BatchType DEF HandlerInv, TypeOK, Frame
  <1>4. RoutingProperties[started.template][call[mutex].batch[current]] \in Properties
    BY <1>2, <1>3, TemplatesType
  <1>5. TemplateType[started.template] \in ExporterType
    BY <1>2, TemplatesType
  <1> QED
    BY <1>1, <1>2, <1>4, <1>5 DEF RoutedExporter

(* Every step keeps the types. *)
LEMMA TypeStep == HandlerInv /\ [Next]_vars => TypeOK'
  <1> SUFFICES ASSUME HandlerInv, [Next]_vars PROVE TypeOK'
    OBVIOUS
  <1>1. ASSUME Start
        PROVE  TypeOK'
    BY <1>1, Sentinels DEF Start, HandlerInv, TypeOK, observerVars, frameVars,
       exporterVars, routerVars
  <1>2. ASSUME BeginShutdown
        PROVE  TypeOK'
    BY <1>2, Sentinels DEF BeginShutdown, HandlerInv, TypeOK, observerVars,
       frameVars, exporterVars, routerVars
  <1>3. ASSUME LockForShutdown
        PROVE  TypeOK'
    <2>1. \A id \in EndpointID : exportersByEndpoint[id] \subseteq Exporter
      BY DEF HandlerInv, TypeOK
    <2>2. Filed \subseteq Exporter
      BY <2>1 DEF Filed
    <2> QED
      BY <1>3, <2>2, Sentinels
      DEF LockForShutdown, MutexFree, HandlerInv, TypeOK, observerVars, exporterVars, routerVars
  <1>4. ASSUME FinishShutdown
        PROVE  TypeOK'
    BY <1>4, Sentinels DEF FinishShutdown, HandlerInv, TypeOK, observerVars,
       frameVars, exporterVars, routerVars
  <1>5. ASSUME NEW o \in Observer, ListAndWatch(o)
        PROVE  TypeOK'
    BY <1>5, Sentinels DEF ListAndWatch, HandlerInv, TypeOK, frameVars,
       exporterVars, routerVars
  <1>6. ASSUME NEW o \in Observer, Unsubscribe(o)
        PROVE  TypeOK'
    BY <1>6, Sentinels DEF Unsubscribe, HandlerInv, TypeOK, frameVars,
       exporterVars, routerVars
  <1>7. ASSUME NEW o \in Observer, NEW op \in {"add", "remove", "change"},
               NEW batch \in Batches(o), Call(o, op, batch)
        PROVE  TypeOK'
    <2>1. [op |-> op, batch |-> batch] \in Frame
      BY BatchesType DEF Frame
    <2>2. call' \in [Observer -> Frame]
      BY <1>7, <2>1 DEF Call, HandlerInv, TypeOK
    <2>3. DOMAIN batch \subseteq EndpointID /\ \A id \in DOMAIN batch : batch[id] \in Env
      BY BatchesType, BatchType
    <2>4. reported' \in [Observer -> [EndpointID -> Env \cup {NotReported}]]
      BY <1>7, <2>3 DEF Call, HandlerInv, TypeOK
    <2>5. /\ pc' \in [Observer -> {"idle", "waiting", "handling", "counting"}]
          /\ \A p \in Observer : pc'[p] = "handling" <=> mutex' = p
      BY <1>7 DEF Call, HandlerInv, TypeOK
    <2>6. callbacks' \in Nat
      <3>1. callbacks \in Nat /\ callbacks' = callbacks + 1
        BY <1>7 DEF Call, HandlerInv, TypeOK
      <3> QED
        BY <3>1
    <2>7. UNCHANGED <<phase, subscribed, mutex, frameVars, exporterVars, routed>>
      BY <1>7 DEF Call, routerVars
    <2> QED
      BY <2>2, <2>4, <2>5, <2>6, <2>7 DEF HandlerInv, TypeOK, frameVars, exporterVars
  <1>8. ASSUME NEW o \in Observer, Lock(o)
        PROVE  TypeOK'
    <2>1. DOMAIN call[o].batch \subseteq EndpointID
      BY BatchType DEF HandlerInv, TypeOK, Frame
    <2> QED
      BY <1>8, <2>1, Sentinels
      DEF Lock, MutexFree, RemovedBy, AddedBy, HandlerInv, TypeOK,
          observerVars, exporterVars, routerVars
  <1>9. ASSUME NEW o \in Observer, Unlock(o)
        PROVE  TypeOK'
    BY <1>9, Sentinels DEF Unlock, HandlerInv, TypeOK, observerVars,
       frameVars, exporterVars, routerVars
  <1>10. ASSUME NEW o \in Observer, Count(o)
        PROVE  TypeOK'
    <2>1. NoCall \in Frame
      BY NoCallType
    <2>2. call' \in [Observer -> Frame]
      BY <1>10, <2>1 DEF Count, HandlerInv, TypeOK
    <2> QED
      BY <1>10, <2>2
      DEF Count, HandlerInv, TypeOK, observerVars, frameVars, exporterVars, routerVars
  <1>11. ASSUME NEW id \in EndpointID, TakeRemoved(id)
        PROVE  TypeOK'
    <2>1. exportersByEndpoint[id] \subseteq Exporter
      BY DEF HandlerInv, TypeOK
    <2>2. CASE exportersByEndpoint[id] = {}
      BY <1>11, <2>2
      DEF TakeRemoved, Get, Done, HandlerInv, TypeOK, observerVars, exporterVars, routerVars
    <2>3. CASE exportersByEndpoint[id] # {}
      BY <1>11, <2>1, <2>3
      DEF TakeRemoved, Get, HandlerInv, TypeOK, observerVars, exporterVars, routerVars
    <2> QED
      BY <2>2, <2>3
  <1>12. ASSUME NEW x \in Exporter, StopExporter(x)
        PROVE  TypeOK'
    BY <1>12, Sentinels DEF StopExporter, Done, HandlerInv, TypeOK,
       observerVars, routerVars
  <1>13. ASSUME NEW id \in EndpointID, DropEndpoint(id)
        PROVE  TypeOK'
    BY <1>13, Sentinels DEF DropEndpoint, Done, RemoveAll, HandlerInv, TypeOK,
       observerVars, RemoveExporter
  <1>14. ASSUME NEW id \in EndpointID, TakeAdded(id)
        PROVE  TypeOK'
    BY <1>14, Sentinels DEF TakeAdded, TemplatesFor, HandlerInv, TypeOK,
       observerVars, exporterVars, routerVars
  <1>15. ASSUME NEW t \in Template, NEW x, StartExporter(t, x)
        PROVE  TypeOK'
    BY <1>15, Sentinels DEF StartExporter, Put, Adding, HandlerInv, TypeOK,
       observerVars, routerVars, StartedExporter, NothingStarted
  <1>16. ASSUME NEW t \in Template, StartExporterFails(t)
        PROVE  TypeOK'
    BY <1>16, Sentinels DEF StartExporterFails, Adding, HandlerInv, TypeOK,
       observerVars, exporterVars, routerVars
  <1>17. ASSUME Register
        PROVE  TypeOK'
    <2>1. routed' \subseteq RoutedExporter
      BY <1>17, RegisteredType DEF Register, AddExporter, HandlerInv, TypeOK
    <2> QED
      BY <1>17, <2>1
      DEF Register, HandlerInv, TypeOK, StartedExporter, observerVars, exporterVars
  <1>18. ASSUME NextEndpoint
        PROVE  TypeOK'
    BY <1>18, Sentinels DEF NextEndpoint, Adding, HandlerInv, TypeOK,
       observerVars, exporterVars, routerVars
  <1>19. CASE UNCHANGED vars
    BY <1>19 DEF vars, HandlerInv, TypeOK, observerVars, frameVars,
       exporterVars, routerVars
  <1> QED
    BY <1>1, <1>2, <1>3, <1>4, <1>5, <1>6, <1>7, <1>8, <1>9, <1>10, <1>11,
       <1>12, <1>13, <1>14, <1>15, <1>16, <1>17, <1>18, <1>19
    DEF Next, Handle, Callback, OnAdd, OnRemove, OnChange, Finished

(* The holder of the mutex finishes one endpoint before it takes the next,  *)
(* and all of them before it lets go.                                       *)
LEMMA FrameStep == HandlerInv /\ [Next]_vars => FrameInv'
  <1> SUFFICES ASSUME HandlerInv, [Next]_vars PROVE FrameInv'
    OBVIOUS
  <1>1. ASSUME Start
        PROVE  FrameInv'
    BY <1>1, Sentinels DEF Start, HandlerInv, TypeOK, FrameInv, Idle,
       Removing, Adding, frameVars
  <1>2. ASSUME BeginShutdown
        PROVE  FrameInv'
    BY <1>2, Sentinels DEF BeginShutdown, HandlerInv, TypeOK, FrameInv, Idle,
       Removing, Adding, frameVars
  <1>3. ASSUME LockForShutdown
        PROVE  FrameInv'
    BY <1>3, Sentinels DEF LockForShutdown, Unsubscribed, MutexFree, Filed,
       HandlerInv, TypeOK, FrameInv, Idle, Removing, Adding
  <1>4. ASSUME FinishShutdown
        PROVE  FrameInv'
    BY <1>4, Sentinels DEF FinishShutdown, HandlerInv, TypeOK, FrameInv, Idle,
       Removing, Adding, frameVars
  <1>5. ASSUME NEW o \in Observer, ListAndWatch(o)
        PROVE  FrameInv'
    BY <1>5, Sentinels DEF ListAndWatch, HandlerInv, TypeOK, FrameInv, Idle,
       Removing, Adding, frameVars
  <1>6. ASSUME NEW o \in Observer, Unsubscribe(o)
        PROVE  FrameInv'
    BY <1>6, Sentinels DEF Unsubscribe, HandlerInv, TypeOK, FrameInv, Idle,
       Removing, Adding, frameVars
  <1>7. ASSUME NEW o \in Observer, NEW op \in {"add", "remove", "change"},
               NEW batch \in Batches(o), Call(o, op, batch)
        PROVE  FrameInv'
    BY <1>7, Sentinels DEF Call, HandlerInv, TypeOK, FrameInv, Idle, Removing,
       Adding, frameVars
  <1>8. ASSUME NEW o \in Observer, Lock(o)
        PROVE  FrameInv'
    BY <1>8, Sentinels DEF Lock, MutexFree, RemovedBy, AddedBy, HandlerInv,
       TypeOK, FrameInv, Idle, Removing, Adding
  <1>9. ASSUME NEW o \in Observer, Unlock(o)
        PROVE  FrameInv'
    BY <1>9, Sentinels DEF Unlock, HandlerInv, TypeOK, FrameInv, Idle,
       Removing, Adding, frameVars
  <1>10. ASSUME NEW o \in Observer, Count(o)
        PROVE  FrameInv'
    BY <1>10, Sentinels DEF Count, HandlerInv, TypeOK, FrameInv, Idle,
       Removing, Adding, frameVars
  <1>11. ASSUME NEW id \in EndpointID, TakeRemoved(id)
        PROVE  FrameInv'
    <2>1. CASE exportersByEndpoint[id] = {}
      BY <1>11, <2>1, Sentinels DEF TakeRemoved, Get, Done, HandlerInv, TypeOK, FrameInv, Idle, Removing, Adding
    <2>2. CASE exportersByEndpoint[id] # {}
      <3>1. /\ mutex \in Observer /\ current = None /\ id \in toRemove /\ current' = id
            /\ UNCHANGED <<toRemove, toAdd, untried, started, mutex, call>>
        BY <1>11, <2>2 DEF TakeRemoved, Get
      <3>2. untried = {} /\ started = NothingStarted /\ toAdd \subseteq DOMAIN call[mutex].batch
        BY <3>1 DEF HandlerInv, FrameInv
      <3>3. Removing' /\ ~Adding'
        BY <3>1 DEF Removing, Adding
      <3> QED
        BY <3>1, <3>2, <3>3 DEF FrameInv, NothingStarted
    <2> QED
      BY <2>1, <2>2
  <1>12. ASSUME NEW x \in Exporter, StopExporter(x)
        PROVE  FrameInv'
    BY <1>12, Sentinels DEF StopExporter, Done, HandlerInv, TypeOK, FrameInv,
       Idle, Removing, Adding
  <1>13. ASSUME NEW id \in EndpointID, DropEndpoint(id)
        PROVE  FrameInv'
    BY <1>13, Sentinels DEF DropEndpoint, Done, RemoveAll, HandlerInv, TypeOK,
       FrameInv, Idle, Removing, Adding
  <1>14. ASSUME NEW id \in EndpointID, TakeAdded(id)
        PROVE  FrameInv'
    BY <1>14, Sentinels DEF TakeAdded, TemplatesFor, HandlerInv, TypeOK,
       FrameInv, Idle, Removing, Adding
  <1>15. ASSUME NEW t \in Template, NEW x, StartExporter(t, x)
        PROVE  FrameInv'
    BY <1>15, Sentinels DEF StartExporter, Put, Adding, HandlerInv, TypeOK,
       FrameInv, Idle, Removing
  <1>16. ASSUME NEW t \in Template, StartExporterFails(t)
        PROVE  FrameInv'
    BY <1>16, Sentinels DEF StartExporterFails, Adding, HandlerInv, TypeOK,
       FrameInv, Idle, Removing
  <1>17. ASSUME Register
        PROVE  FrameInv'
    BY <1>17, Sentinels DEF Register, Adding, HandlerInv, TypeOK, FrameInv,
       Idle, Removing
  <1>18. ASSUME NextEndpoint
        PROVE  FrameInv'
    BY <1>18, Sentinels DEF NextEndpoint, Adding, HandlerInv, TypeOK,
       FrameInv, Idle, Removing
  <1>19. CASE UNCHANGED vars
    BY <1>19 DEF vars, HandlerInv, TypeOK, FrameInv, Idle, Removing, Adding,
       frameVars
  <1> QED
    BY <1>1, <1>2, <1>3, <1>4, <1>5, <1>6, <1>7, <1>8, <1>9, <1>10, <1>11,
       <1>12, <1>13, <1>14, <1>15, <1>16, <1>17, <1>18, <1>19
    DEF Next, Handle, Callback, OnAdd, OnRemove, OnChange, Finished

(* An exporter is filed when it starts and until its removal has stopped    *)
(* it.                                                                      *)
LEMMA FiledStep == HandlerInv /\ [Next]_vars => FiledInv'
  <1> SUFFICES ASSUME HandlerInv, [Next]_vars PROVE FiledInv'
    OBVIOUS
  <1>1. ASSUME Start
        PROVE  FiledInv'
    BY <1>1, Sentinels DEF Start, HandlerInv, TypeOK, FrameInv, FiledInv,
       Idle, Removing, Unregistered, frameVars, exporterVars, routerVars
  <1>2. ASSUME BeginShutdown
        PROVE  FiledInv'
    BY <1>2, Sentinels DEF BeginShutdown, HandlerInv, TypeOK, FrameInv,
       FiledInv, Idle, Removing, Unregistered, frameVars, exporterVars,
       routerVars
  <1>3. ASSUME LockForShutdown
        PROVE  FiledInv'
    BY <1>3, Sentinels DEF LockForShutdown, Unsubscribed, MutexFree, Filed,
       HandlerInv, TypeOK, FrameInv, FiledInv, Idle, Removing, Unregistered,
       exporterVars, routerVars
  <1>4. ASSUME FinishShutdown
        PROVE  FiledInv'
    BY <1>4, Sentinels DEF FinishShutdown, HandlerInv, TypeOK, FrameInv,
       FiledInv, Idle, Removing, Unregistered, frameVars, exporterVars,
       routerVars
  <1>5. ASSUME NEW o \in Observer, ListAndWatch(o)
        PROVE  FiledInv'
    BY <1>5, Sentinels DEF ListAndWatch, HandlerInv, TypeOK, FrameInv,
       FiledInv, Idle, Removing, Unregistered, frameVars, exporterVars,
       routerVars
  <1>6. ASSUME NEW o \in Observer, Unsubscribe(o)
        PROVE  FiledInv'
    BY <1>6, Sentinels DEF Unsubscribe, HandlerInv, TypeOK, FrameInv,
       FiledInv, Idle, Removing, Unregistered, frameVars, exporterVars,
       routerVars
  <1>7. ASSUME NEW o \in Observer, NEW op \in {"add", "remove", "change"},
               NEW batch \in Batches(o), Call(o, op, batch)
        PROVE  FiledInv'
    BY <1>7, Sentinels DEF Call, HandlerInv, TypeOK, FrameInv, FiledInv, Idle,
       Removing, Unregistered, frameVars, exporterVars, routerVars
  <1>8. ASSUME NEW o \in Observer, Lock(o)
        PROVE  FiledInv'
    BY <1>8, Sentinels DEF Lock, MutexFree, RemovedBy, AddedBy, HandlerInv,
       TypeOK, FrameInv, FiledInv, Idle, Removing, Unregistered, exporterVars,
       routerVars
  <1>9. ASSUME NEW o \in Observer, Unlock(o)
        PROVE  FiledInv'
    BY <1>9, Sentinels DEF Unlock, HandlerInv, TypeOK, FrameInv, FiledInv,
       Idle, Removing, Unregistered, frameVars, exporterVars, routerVars
  <1>10. ASSUME NEW o \in Observer, Count(o)
        PROVE  FiledInv'
    BY <1>10, Sentinels DEF Count, HandlerInv, TypeOK, FrameInv, FiledInv,
       Idle, Removing, Unregistered, frameVars, exporterVars, routerVars
  <1>11. ASSUME NEW id \in EndpointID, TakeRemoved(id)
        PROVE  FiledInv'
    <2>1. /\ mutex \in Observer /\ current = None /\ id \in toRemove
          /\ \/ current' = current /\ toStop' = toStop
             \/ current' = id /\ toStop' = exportersByEndpoint[id] /\ toRemove' = toRemove
          /\ UNCHANGED <<phase, started, status, exportersByEndpoint, routed>>
      BY <1>11 DEF TakeRemoved, Get, exporterVars, routerVars
    <2>2. started = NothingStarted /\ None \notin toRemove /\ toRemove' \subseteq toRemove
      BY <1>11, <2>1, Sentinels DEF TakeRemoved, Done, HandlerInv, TypeOK, FrameInv
    <2>3. \A id2 \in EndpointID : \A x \in exportersByEndpoint[id2] :
             status[x] = "running" \/ phase \in {"stopping", "shut down"}
      BY <2>1, Sentinels DEF HandlerInv, FiledInv
    <2>4. FiledInv
      BY DEF HandlerInv
    <2>5. CASE current' = current /\ toStop' = toStop
      <3>1. ~Removing'
        BY <2>1, <2>2, <2>5 DEF Removing
      <3> QED
        BY <2>1, <2>2, <2>3, <2>4, <2>5, <3>1, Sentinels DEF FiledInv, Unregistered
    <2>6. CASE current' = id /\ toStop' = exportersByEndpoint[id] /\ toRemove' = toRemove
      <3>1. Removing'
        BY <2>1, <2>6 DEF Removing
      <3> QED
        BY <2>1, <2>2, <2>3, <2>4, <2>6, <3>1, Sentinels DEF FiledInv, Unregistered
    <2> QED
      BY <2>1, <2>5, <2>6
  <1>12. ASSUME NEW x \in Exporter, StopExporter(x)
        PROVE  FiledInv'
    <2>1. /\ x \in toStop /\ toStop' = toStop \ {x}
          /\ status' = [status EXCEPT ![x] = IF @ = "running" THEN "stopped" ELSE "stopped again"]
          /\ UNCHANGED <<phase, mutex, current, toRemove, started, exportersByEndpoint, routed>>
      BY <1>12 DEF StopExporter, Done, routerVars
    <2>2. /\ status' \in [Exporter -> {"unused", "running", "stopped", "stopped again"}]
          /\ status'[x] \in {"stopped", "stopped again"}
          /\ \A y \in Exporter \ {x} : status'[y] = status[y]
      BY <2>1 DEF HandlerInv, TypeOK
    <2>3. Removing \/ phase \in {"stopping", "shut down"}
      BY <2>1 DEF HandlerInv, FrameInv, DrainInv
    <2>4. FiledInv /\ \A id \in EndpointID : exportersByEndpoint[id] \subseteq Exporter
      BY DEF HandlerInv, TypeOK
    <2>5. Removing => current \in EndpointID /\ x \in exportersByEndpoint[current]
      BY <2>1 DEF HandlerInv, TypeOK, FiledInv, Removing
    <2>6. ASSUME NEW id \in EndpointID, NEW y \in exportersByEndpoint[id]
          PROVE  /\ status'[y] # "unused"
                 /\ \/ status'[y] = "running"
                    \/ current = id /\ Removing /\ y \notin toStop'
                    \/ phase \in {"stopping", "shut down"}
                 /\ current = id /\ Removing => (y \in toStop' \/ status'[y] # "running")
      <3>1. CASE y = x
        <4>1. Removing => current = id
          BY <2>4, <2>5, <2>6, <3>1 DEF FiledInv
        <4> QED
          BY <2>1, <2>2, <2>3, <3>1, <4>1
      <3>2. CASE y # x
        <4>1. y \in Exporter /\ status'[y] = status[y] /\ (y \in toStop' <=> y \in toStop)
          BY <2>1, <2>2, <2>4, <2>6, <3>2
        <4> QED
          BY <2>4, <2>6, <4>1 DEF FiledInv
      <3> QED
        BY <3>1, <3>2
    <2> QED
      BY <2>1, <2>4, <2>6 DEF FiledInv, Removing, Unregistered
  <1>13. ASSUME NEW id \in EndpointID, DropEndpoint(id)
        PROVE  FiledInv'
    BY <1>13, Sentinels DEF DropEndpoint, Done, RemoveAll, HandlerInv, TypeOK,
       FrameInv, FiledInv, Idle, Removing, Unregistered, RemoveExporter
  <1>14. ASSUME NEW id \in EndpointID, TakeAdded(id)
        PROVE  FiledInv'
    BY <1>14, Sentinels DEF TakeAdded, TemplatesFor, HandlerInv, TypeOK,
       FrameInv, FiledInv, Idle, Removing, Unregistered, exporterVars,
       routerVars
  <1>15. ASSUME NEW t \in Template, NEW x, StartExporter(t, x)
        PROVE  FiledInv'
    <2>1. /\ current \in EndpointID /\ ~Removing /\ started' = [exporter |-> x, template |-> t]
          /\ status' = [status EXCEPT ![x] = "running"]
          /\ exportersByEndpoint' = [exportersByEndpoint EXCEPT ![current] = @ \cup {x}]
          /\ status[x] = "unused" /\ x \in Exporter
          /\ UNCHANGED <<phase, current, toRemove, toStop, routed>>
      BY <1>15 DEF StartExporter, Put, Adding, Removing, HandlerInv, TypeOK, routerVars
    <2>2. \A id \in EndpointID : x \notin exportersByEndpoint[id]
      BY <2>1 DEF HandlerInv, FiledInv
    <2>3. \A id \in EndpointID :
             exportersByEndpoint'[id] = exportersByEndpoint[id] \cup (IF id = current THEN {x} ELSE {})
      BY <2>1 DEF HandlerInv, TypeOK
    <2>4. Unregistered(x)
      <3>1. ASSUME NEW re \in routed PROVE re.exporter # x
        <4>1. re.endpoint \in EndpointID
          BY <3>1 DEF HandlerInv, TypeOK, RoutedExporter
        <4>2. re \in RoutedTo(re.endpoint)
          BY <3>1 DEF RoutedTo
        <4>3. re.exporter \in exportersByEndpoint[re.endpoint]
          BY <4>1, <4>2 DEF HandlerInv, RouterMirrorsHandler
        <4> QED
          BY <2>2, <4>1, <4>3
      <3> QED
        BY <3>1 DEF Unregistered
    <2>5. \A id1, id2 \in EndpointID :
             exportersByEndpoint'[id1] \cap exportersByEndpoint'[id2] # {} => id1 = id2
      <3>1. \A id1, id2 \in EndpointID :
               exportersByEndpoint[id1] \cap exportersByEndpoint[id2] # {} => id1 = id2
        BY DEF HandlerInv, FiledInv
      <3>2. \A id \in EndpointID : \A y \in exportersByEndpoint'[id] :
               y \in exportersByEndpoint[id] \/ (y = x /\ id = current)
        BY <2>3
      <3> QED
        BY <2>2, <3>1, <3>2
    <2>6. /\ status'[x] = "running"
          /\ \A y \in Exporter \ {x} : status'[y] = status[y]
          /\ \A id \in EndpointID : exportersByEndpoint[id] \subseteq Exporter
      BY <2>1 DEF HandlerInv, TypeOK
    <2>7. ASSUME NEW id \in EndpointID, NEW y \in exportersByEndpoint'[id]
          PROVE  /\ status'[y] # "unused"
                 /\ status'[y] = "running" \/ phase \in {"stopping", "shut down"}
      <3>1. CASE y = x
        BY <2>6, <3>1
      <3>2. CASE y # x
        <4>1. y \in exportersByEndpoint[id] /\ status'[y] = status[y]
          BY <2>3, <2>6, <2>7, <3>2
        <4> QED
          BY <2>1, <4>1 DEF HandlerInv, FiledInv
      <3> QED
        BY <3>1, <3>2
    <2> QED
      BY <2>1, <2>3, <2>4, <2>5, <2>7 DEF FiledInv, Removing, Unregistered
  <1>16. ASSUME NEW t \in Template, StartExporterFails(t)
        PROVE  FiledInv'
    BY <1>16, Sentinels DEF StartExporterFails, Adding, HandlerInv, TypeOK,
       FrameInv, FiledInv, Idle, Removing, Unregistered, exporterVars,
       routerVars
  <1>17. ASSUME Register
        PROVE  FiledInv'
    BY <1>17, Sentinels DEF Register, Adding, HandlerInv, TypeOK, FrameInv,
       FiledInv, Idle, Removing, Unregistered, exporterVars, AddExporter
  <1>18. ASSUME NextEndpoint
        PROVE  FiledInv'
    BY <1>18, Sentinels DEF NextEndpoint, Adding, HandlerInv, TypeOK,
       FrameInv, FiledInv, Idle, Removing, Unregistered, exporterVars,
       routerVars
  <1>19. CASE UNCHANGED vars
    <2>1. UNCHANGED <<phase, status, exportersByEndpoint, current, toRemove, toStop, started, routed>>
      BY <1>19 DEF vars, frameVars, exporterVars, routerVars
    <2> QED
      BY <2>1 DEF HandlerInv, FiledInv, Removing, Unregistered
  <1> QED
    BY <1>1, <1>2, <1>3, <1>4, <1>5, <1>6, <1>7, <1>8, <1>9, <1>10, <1>11,
       <1>12, <1>13, <1>14, <1>15, <1>16, <1>17, <1>18, <1>19
    DEF Next, Handle, Callback, OnAdd, OnRemove, OnChange, Finished

(* What Shutdown stops is what runs, if callbacks have drained.             *)
LEMMA DrainStep == HandlerInv /\ [Next]_vars => DrainInv'
  <1> SUFFICES ASSUME HandlerInv, [Next]_vars PROVE DrainInv'
    OBVIOUS
  <1>1. ASSUME Start
        PROVE  DrainInv'
    BY <1>1, Sentinels DEF Start, HandlerInv, TypeOK, FrameInv, FiledInv,
       DrainInv, NoStrandedExporter, Idle, Removing, observerVars, frameVars,
       exporterVars
  <1>2. ASSUME BeginShutdown
        PROVE  DrainInv'
    BY <1>2, Sentinels DEF BeginShutdown, HandlerInv, TypeOK, FrameInv,
       FiledInv, DrainInv, NoStrandedExporter, Idle, Removing, observerVars,
       frameVars, exporterVars
  <1>3. ASSUME LockForShutdown
        PROVE  DrainInv'
    <2>1. /\ phase = "unsubscribing" /\ subscribed = {} /\ mutex = None
          /\ phase' = "stopping" /\ mutex' = Creator /\ toStop' = Filed
          /\ UNCHANGED <<subscribed, pc, status>>
      BY <1>3 DEF LockForShutdown, Unsubscribed, MutexFree, observerVars, exporterVars
    <2>2. ~Removing
      BY <2>1, Sentinels DEF HandlerInv, FrameInv, Idle, Removing
    <2>3. \A x \in Filed : status[x] = "running"
      BY <2>1, <2>2 DEF HandlerInv, FiledInv, Filed
    <2>4. \A x \in Exporter : status[x] = "running" => x \in Filed
      BY DEF HandlerInv, NoStrandedExporter, Filed
    <2>5. Draining => \A o \in Observer : pc[o] # "idle" => o \in subscribed
      BY DEF HandlerInv, DrainInv
    <2> QED
      BY <2>1, <2>3, <2>4, <2>5 DEF DrainInv
  <1>4. ASSUME FinishShutdown
        PROVE  DrainInv'
    BY <1>4, Sentinels DEF FinishShutdown, HandlerInv, TypeOK, FrameInv,
       FiledInv, DrainInv, NoStrandedExporter, Idle, Removing, observerVars,
       frameVars, exporterVars
  <1>5. ASSUME NEW o \in Observer, ListAndWatch(o)
        PROVE  DrainInv'
    BY <1>5, Sentinels DEF ListAndWatch, HandlerInv, TypeOK, FrameInv,
       FiledInv, DrainInv, NoStrandedExporter, Idle, Removing, frameVars,
       exporterVars
  <1>6. ASSUME NEW o \in Observer, Unsubscribe(o)
        PROVE  DrainInv'
    <2>1. Draining => pc[o] = "idle"
      BY <1>6 DEF Unsubscribe, Draining
    <2>2. /\ phase = "unsubscribing" /\ subscribed' = subscribed \ {o}
          /\ UNCHANGED <<phase, mutex, pc, toStop, status>>
      BY <1>6 DEF Unsubscribe, frameVars, exporterVars
    <2> QED
      BY <2>1, <2>2 DEF HandlerInv, DrainInv
  <1>7. ASSUME NEW o \in Observer, NEW op \in {"add", "remove", "change"},
               NEW batch \in Batches(o), Call(o, op, batch)
        PROVE  DrainInv'
    <2>1. /\ o \in subscribed /\ pc' = [pc EXCEPT ![o] = "waiting"]
          /\ UNCHANGED <<phase, subscribed, mutex, toStop, status>>
      BY <1>7 DEF Call, frameVars, exporterVars
    <2>2. \A p \in Observer : pc'[p] # "idle" => pc[p] # "idle" \/ p = o
      BY <2>1 DEF HandlerInv, TypeOK
    <2> QED
      BY <2>1, <2>2 DEF HandlerInv, DrainInv
  <1>8. ASSUME NEW o \in Observer, Lock(o)
        PROVE  DrainInv'
    <2>1. /\ mutex = None /\ mutex' = o /\ pc[o] = "waiting"
          /\ pc' = [pc EXCEPT ![o] = "handling"]
          /\ UNCHANGED <<phase, subscribed, toStop, status>>
      BY <1>8 DEF Lock, MutexFree, observerVars, exporterVars
    <2>2. phase # "stopping" /\ mutex' # Creator
      BY <2>1, Sentinels DEF HandlerInv, DrainInv
    <2>3. \A p \in Observer : pc'[p] # "idle" => pc[p] # "idle"
      BY <2>1 DEF HandlerInv, TypeOK
    <2> QED
      BY <2>1, <2>2, <2>3 DEF HandlerInv, DrainInv
  <1>9. ASSUME NEW o \in Observer, Unlock(o)
        PROVE  DrainInv'
    BY <1>9, Sentinels DEF Unlock, HandlerInv, TypeOK, FrameInv, FiledInv,
       DrainInv, NoStrandedExporter, Idle, Removing, observerVars, frameVars,
       exporterVars
  <1>10. ASSUME NEW o \in Observer, Count(o)
        PROVE  DrainInv'
    <2>1. /\ pc' = [pc EXCEPT ![o] = "idle"]
          /\ UNCHANGED <<phase, subscribed, mutex, toStop, status>>
      BY <1>10 DEF Count, observerVars, frameVars, exporterVars
    <2>2. \A p \in Observer : pc'[p] # "idle" => pc[p] # "idle"
      BY <2>1 DEF HandlerInv, TypeOK
    <2> QED
      BY <2>1, <2>2 DEF HandlerInv, DrainInv
  <1>11. ASSUME NEW id \in EndpointID, TakeRemoved(id)
        PROVE  DrainInv'
    <2>1. /\ mutex \in Observer /\ current = None
          /\ toStop' = toStop \/ toStop' = exportersByEndpoint[id]
          /\ UNCHANGED <<phase, subscribed, mutex, pc, status>>
      BY <1>11 DEF TakeRemoved, Get, observerVars, exporterVars
    <2>2. pc[mutex] = "handling"
      BY <2>1 DEF HandlerInv, TypeOK
    <2>3. Draining => phase \notin {"stopping", "shut down"}
      BY <2>1, <2>2 DEF HandlerInv, DrainInv
    <2>4. Draining => \A x \in exportersByEndpoint[id] : status[x] = "running"
      BY <2>1, <2>3, Sentinels DEF HandlerInv, FiledInv
    <2> QED
      BY <2>1, <2>3, <2>4 DEF HandlerInv, DrainInv
  <1>12. ASSUME NEW x \in Exporter, StopExporter(x)
        PROVE  DrainInv'
    <2>1. /\ x \in toStop /\ toStop' = toStop \ {x}
          /\ status' = [status EXCEPT ![x] = IF @ = "running" THEN "stopped" ELSE "stopped again"]
          /\ UNCHANGED <<phase, subscribed, mutex, pc>>
      BY <1>12 DEF StopExporter, Done, observerVars
    <2>2. /\ status'[x] # "running" /\ toStop \subseteq Exporter
          /\ \A y \in Exporter \ {x} : status'[y] = status[y]
      BY <2>1 DEF HandlerInv, TypeOK
    <2> QED
      BY <2>1, <2>2 DEF HandlerInv, DrainInv
  <1>13. ASSUME NEW id \in EndpointID, DropEndpoint(id)
        PROVE  DrainInv'
    BY <1>13, Sentinels DEF DropEndpoint, Done, RemoveAll, HandlerInv, TypeOK,
       FrameInv, FiledInv, DrainInv, NoStrandedExporter, Idle, Removing,
       observerVars
  <1>14. ASSUME NEW id \in EndpointID, TakeAdded(id)
        PROVE  DrainInv'
    BY <1>14, Sentinels DEF TakeAdded, TemplatesFor, HandlerInv, TypeOK,
       FrameInv, FiledInv, DrainInv, NoStrandedExporter, Idle, Removing,
       observerVars, exporterVars
  <1>15. ASSUME NEW t \in Template, NEW x, StartExporter(t, x)
        PROVE  DrainInv'
    BY <1>15, Sentinels DEF StartExporter, Put, Adding, HandlerInv, TypeOK,
       FrameInv, FiledInv, DrainInv, NoStrandedExporter, Idle, Removing,
       observerVars
  <1>16. ASSUME NEW t \in Template, StartExporterFails(t)
        PROVE  DrainInv'
    BY <1>16, Sentinels DEF StartExporterFails, Adding, HandlerInv, TypeOK,
       FrameInv, FiledInv, DrainInv, NoStrandedExporter, Idle, Removing,
       observerVars, exporterVars
  <1>17. ASSUME Register
        PROVE  DrainInv'
    BY <1>17, Sentinels DEF Register, Adding, HandlerInv, TypeOK, FrameInv,
       FiledInv, DrainInv, NoStrandedExporter, Idle, Removing, observerVars,
       exporterVars
  <1>18. ASSUME NextEndpoint
        PROVE  DrainInv'
    BY <1>18, Sentinels DEF NextEndpoint, Adding, HandlerInv, TypeOK,
       FrameInv, FiledInv, DrainInv, NoStrandedExporter, Idle, Removing,
       observerVars, exporterVars
  <1>19. CASE UNCHANGED vars
    BY <1>19 DEF vars, HandlerInv, TypeOK, FrameInv, FiledInv, DrainInv,
       NoStrandedExporter, Idle, Removing, observerVars, frameVars,
       exporterVars
  <1> QED
    BY <1>1, <1>2, <1>3, <1>4, <1>5, <1>6, <1>7, <1>8, <1>9, <1>10, <1>11,
       <1>12, <1>13, <1>14, <1>15, <1>16, <1>17, <1>18, <1>19
    DEF Next, Handle, Callback, OnAdd, OnRemove, OnChange, Finished

(* The handler files and registers, unregisters and unfiles, the same       *)
(* exporters.                                                               *)
LEMMA MirrorStep == HandlerInv /\ [Next]_vars => RouterMirrorsHandler'
  <1> SUFFICES ASSUME HandlerInv, [Next]_vars PROVE RouterMirrorsHandler'
    OBVIOUS
  <1>1. ASSUME Start
        PROVE  RouterMirrorsHandler'
    BY <1>1, Sentinels DEF Start, HandlerInv, TypeOK, FrameInv,
       RouterMirrorsHandler, Idle, Removing, RoutedTo, frameVars,
       exporterVars, routerVars
  <1>2. ASSUME BeginShutdown
        PROVE  RouterMirrorsHandler'
    BY <1>2, Sentinels DEF BeginShutdown, HandlerInv, TypeOK, FrameInv,
       RouterMirrorsHandler, Idle, Removing, RoutedTo, frameVars,
       exporterVars, routerVars
  <1>3. ASSUME LockForShutdown
        PROVE  RouterMirrorsHandler'
    BY <1>3, Sentinels DEF LockForShutdown, Unsubscribed, MutexFree, Filed,
       HandlerInv, TypeOK, FrameInv, RouterMirrorsHandler, Idle, Removing,
       RoutedTo, exporterVars, routerVars
  <1>4. ASSUME FinishShutdown
        PROVE  RouterMirrorsHandler'
    BY <1>4, Sentinels DEF FinishShutdown, HandlerInv, TypeOK, FrameInv,
       RouterMirrorsHandler, Idle, Removing, RoutedTo, frameVars,
       exporterVars, routerVars
  <1>5. ASSUME NEW o \in Observer, ListAndWatch(o)
        PROVE  RouterMirrorsHandler'
    BY <1>5, Sentinels DEF ListAndWatch, HandlerInv, TypeOK, FrameInv,
       RouterMirrorsHandler, Idle, Removing, RoutedTo, frameVars,
       exporterVars, routerVars
  <1>6. ASSUME NEW o \in Observer, Unsubscribe(o)
        PROVE  RouterMirrorsHandler'
    BY <1>6, Sentinels DEF Unsubscribe, HandlerInv, TypeOK, FrameInv,
       RouterMirrorsHandler, Idle, Removing, RoutedTo, frameVars,
       exporterVars, routerVars
  <1>7. ASSUME NEW o \in Observer, NEW op \in {"add", "remove", "change"},
               NEW batch \in Batches(o), Call(o, op, batch)
        PROVE  RouterMirrorsHandler'
    BY <1>7, Sentinels DEF Call, HandlerInv, TypeOK, FrameInv,
       RouterMirrorsHandler, Idle, Removing, RoutedTo, frameVars,
       exporterVars, routerVars
  <1>8. ASSUME NEW o \in Observer, Lock(o)
        PROVE  RouterMirrorsHandler'
    BY <1>8, Sentinels DEF Lock, MutexFree, RemovedBy, AddedBy, HandlerInv,
       TypeOK, FrameInv, RouterMirrorsHandler, Idle, Removing, RoutedTo,
       exporterVars, routerVars
  <1>9. ASSUME NEW o \in Observer, Unlock(o)
        PROVE  RouterMirrorsHandler'
    BY <1>9, Sentinels DEF Unlock, HandlerInv, TypeOK, FrameInv,
       RouterMirrorsHandler, Idle, Removing, RoutedTo, frameVars,
       exporterVars, routerVars
  <1>10. ASSUME NEW o \in Observer, Count(o)
        PROVE  RouterMirrorsHandler'
    BY <1>10, Sentinels DEF Count, HandlerInv, TypeOK, FrameInv,
       RouterMirrorsHandler, Idle, Removing, RoutedTo, frameVars,
       exporterVars, routerVars
  <1>11. ASSUME NEW id \in EndpointID, TakeRemoved(id)
        PROVE  RouterMirrorsHandler'
    BY <1>11, Sentinels DEF TakeRemoved, Get, Done, HandlerInv, TypeOK,
       FrameInv, RouterMirrorsHandler, Idle, Removing, RoutedTo, exporterVars,
       routerVars
  <1>12. ASSUME NEW x \in Exporter, StopExporter(x)
        PROVE  RouterMirrorsHandler'
    BY <1>12, Sentinels DEF StopExporter, Done, HandlerInv, TypeOK, FrameInv,
       RouterMirrorsHandler, Idle, Removing, RoutedTo, routerVars
  <1>13. ASSUME NEW id \in EndpointID, DropEndpoint(id)
        PROVE  RouterMirrorsHandler'
    <2>1. /\ current = id /\ id \in toRemove /\ current' = None
          /\ routed' = routed \ RoutedTo(id)
          /\ exportersByEndpoint' = [exportersByEndpoint EXCEPT ![id] = {}]
          /\ UNCHANGED started
      BY <1>13 DEF DropEndpoint, RemoveAll, RemoveExporter
    <2>2. started = NothingStarted
      BY <2>1 DEF HandlerInv, FrameInv, Removing
    <2>3. ASSUME NEW id2 \in EndpointID
          PROVE  exportersByEndpoint'[id2] = {re.exporter : re \in RoutedTo(id2)'}
      <3>1. CASE id2 = id
        <4>1. RoutedTo(id2)' = {} /\ exportersByEndpoint'[id2] = {}
          BY <2>1, <3>1 DEF RoutedTo, HandlerInv, TypeOK
        <4> QED
          BY <4>1
      <3>2. CASE id2 # id
        <4>1. RoutedTo(id2)' = RoutedTo(id2)
          BY <2>1, <3>2 DEF RoutedTo
        <4>2. exportersByEndpoint'[id2] = exportersByEndpoint[id2]
          BY <2>1, <3>2 DEF HandlerInv, TypeOK
        <4>3. exportersByEndpoint[id2] = {re.exporter : re \in RoutedTo(id2)}
          BY <2>2 DEF HandlerInv, RouterMirrorsHandler
        <4> QED
          BY <4>1, <4>2, <4>3
      <3> QED
        BY <3>1, <3>2
    <2> QED
      BY <2>1, <2>2, <2>3 DEF RouterMirrorsHandler, NothingStarted
  <1>14. ASSUME NEW id \in EndpointID, TakeAdded(id)
        PROVE  RouterMirrorsHandler'
    BY <1>14, Sentinels DEF TakeAdded, TemplatesFor, HandlerInv, TypeOK,
       FrameInv, RouterMirrorsHandler, Idle, Removing, RoutedTo, exporterVars,
       routerVars
  <1>15. ASSUME NEW t \in Template, NEW x, StartExporter(t, x)
        PROVE  RouterMirrorsHandler'
    <2>1. /\ current \in EndpointID /\ started = NothingStarted
          /\ started' = [exporter |-> x, template |-> t]
          /\ exportersByEndpoint' = [exportersByEndpoint EXCEPT ![current] = @ \cup {x}]
          /\ x \in Exporter /\ UNCHANGED <<current, routed>>
      BY <1>15 DEF StartExporter, Put, Adding, HandlerInv, TypeOK, routerVars
    <2>2. (started # NothingStarted)' /\ (started.exporter)' = x
      BY <2>1, Sentinels DEF NothingStarted
    <2>3. ASSUME NEW id \in EndpointID
          PROVE  exportersByEndpoint'[id] =
                    {re.exporter : re \in RoutedTo(id)'} \cup (IF id = current THEN {x} ELSE {})
      <3>1. exportersByEndpoint[id] = {re.exporter : re \in RoutedTo(id)}
        BY <2>1 DEF HandlerInv, RouterMirrorsHandler
      <3>2. RoutedTo(id)' = RoutedTo(id)
        BY <2>1 DEF RoutedTo
      <3>3. exportersByEndpoint'[id] = exportersByEndpoint[id] \cup (IF id = current THEN {x} ELSE {})
        BY <2>1 DEF HandlerInv, TypeOK
      <3> QED
        BY <3>1, <3>2, <3>3
    <2> QED
      BY <2>1, <2>2, <2>3 DEF RouterMirrorsHandler
  <1>16. ASSUME NEW t \in Template, StartExporterFails(t)
        PROVE  RouterMirrorsHandler'
    BY <1>16, Sentinels DEF StartExporterFails, Adding, HandlerInv, TypeOK,
       FrameInv, RouterMirrorsHandler, Idle, Removing, RoutedTo, exporterVars,
       routerVars
  <1>17. ASSUME Register
        PROVE  RouterMirrorsHandler'
    <2> DEFINE e == [endpoint |-> current, exporter |-> started.exporter,
                     exporterType |-> TemplateType[started.template],
                     properties |-> RoutingProperties[started.template][call[mutex].batch[current]]]
    <2>1. /\ routed' = routed \cup {e} /\ started # NothingStarted /\ started' = NothingStarted
          /\ UNCHANGED <<current, exportersByEndpoint>>
      BY <1>17 DEF Register, AddExporter, exporterVars
    <2>2. e.endpoint = current /\ e.exporter = started.exporter
      OBVIOUS
    <2> HIDE DEF e
    <2>3. ASSUME NEW id \in EndpointID
          PROVE  exportersByEndpoint'[id] = {re.exporter : re \in RoutedTo(id)'}
      <3>1. exportersByEndpoint[id] = {re.exporter : re \in RoutedTo(id)} \cup
                                      (IF id = current THEN {started.exporter} ELSE {})
        BY <2>1 DEF HandlerInv, RouterMirrorsHandler
      <3>2. RoutedTo(id)' = RoutedTo(id) \cup (IF id = current THEN {e} ELSE {})
        BY <2>1, <2>2 DEF RoutedTo
      <3> QED
        BY <2>1, <2>2, <3>1, <3>2
    <2> QED
      BY <2>1, <2>3 DEF RouterMirrorsHandler
  <1>18. ASSUME NextEndpoint
        PROVE  RouterMirrorsHandler'
    BY <1>18, Sentinels DEF NextEndpoint, Adding, HandlerInv, TypeOK,
       FrameInv, RouterMirrorsHandler, Idle, Removing, RoutedTo, exporterVars,
       routerVars
  <1>19. CASE UNCHANGED vars
    BY <1>19 DEF vars, HandlerInv, TypeOK, FrameInv, RouterMirrorsHandler,
       Idle, Removing, RoutedTo, frameVars, exporterVars, routerVars
  <1> QED
    BY <1>1, <1>2, <1>3, <1>4, <1>5, <1>6, <1>7, <1>8, <1>9, <1>10, <1>11,
       <1>12, <1>13, <1>14, <1>15, <1>16, <1>17, <1>18, <1>19
    DEF Next, Handle, Callback, OnAdd, OnRemove, OnChange, Finished

(* Nothing runs that is not filed.                                          *)
LEMMA StrandedStep == HandlerInv /\ [Next]_vars => NoStrandedExporter'
  <1> SUFFICES ASSUME HandlerInv, [Next]_vars PROVE NoStrandedExporter'
    OBVIOUS
  <1>1. ASSUME Start
        PROVE  NoStrandedExporter'
    BY <1>1 DEF Start, HandlerInv, TypeOK, FrameInv, FiledInv,
       NoStrandedExporter, Removing, exporterVars
  <1>2. ASSUME BeginShutdown
        PROVE  NoStrandedExporter'
    BY <1>2 DEF BeginShutdown, HandlerInv, TypeOK, FrameInv, FiledInv,
       NoStrandedExporter, Removing, exporterVars
  <1>3. ASSUME LockForShutdown
        PROVE  NoStrandedExporter'
    BY <1>3 DEF LockForShutdown, Unsubscribed, MutexFree, Filed, HandlerInv,
       TypeOK, FrameInv, FiledInv, NoStrandedExporter, Removing, exporterVars
  <1>4. ASSUME FinishShutdown
        PROVE  NoStrandedExporter'
    BY <1>4 DEF FinishShutdown, HandlerInv, TypeOK, FrameInv, FiledInv,
       NoStrandedExporter, Removing, exporterVars
  <1>5. ASSUME NEW o \in Observer, ListAndWatch(o)
        PROVE  NoStrandedExporter'
    BY <1>5 DEF ListAndWatch, HandlerInv, TypeOK, FrameInv, FiledInv,
       NoStrandedExporter, Removing, exporterVars
  <1>6. ASSUME NEW o \in Observer, Unsubscribe(o)
        PROVE  NoStrandedExporter'
    BY <1>6 DEF Unsubscribe, HandlerInv, TypeOK, FrameInv, FiledInv,
       NoStrandedExporter, Removing, exporterVars
  <1>7. ASSUME NEW o \in Observer, NEW op \in {"add", "remove", "change"},
               NEW batch \in Batches(o), Call(o, op, batch)
        PROVE  NoStrandedExporter'
    BY <1>7 DEF Call, HandlerInv, TypeOK, FrameInv, FiledInv,
       NoStrandedExporter, Removing, exporterVars
  <1>8. ASSUME NEW o \in Observer, Lock(o)
        PROVE  NoStrandedExporter'
    BY <1>8 DEF Lock, MutexFree, RemovedBy, AddedBy, HandlerInv, TypeOK,
       FrameInv, FiledInv, NoStrandedExporter, Removing, exporterVars
  <1>9. ASSUME NEW o \in Observer, Unlock(o)
        PROVE  NoStrandedExporter'
    BY <1>9 DEF Unlock, HandlerInv, TypeOK, FrameInv, FiledInv,
       NoStrandedExporter, Removing, exporterVars
  <1>10. ASSUME NEW o \in Observer, Count(o)
        PROVE  NoStrandedExporter'
    BY <1>10 DEF Count, HandlerInv, TypeOK, FrameInv, FiledInv,
       NoStrandedExporter, Removing, exporterVars
  <1>11. ASSUME NEW id \in EndpointID, TakeRemoved(id)
        PROVE  NoStrandedExporter'
    BY <1>11 DEF TakeRemoved, Get, Done, HandlerInv, TypeOK, FrameInv,
       FiledInv, NoStrandedExporter, Removing, exporterVars
  <1>12. ASSUME NEW x \in Exporter, StopExporter(x)
        PROVE  NoStrandedExporter'
    BY <1>12 DEF StopExporter, Done, HandlerInv, TypeOK, FrameInv, FiledInv,
       NoStrandedExporter, Removing
  <1>13. ASSUME NEW id \in EndpointID, DropEndpoint(id)
        PROVE  NoStrandedExporter'
    BY <1>13 DEF DropEndpoint, Done, RemoveAll, HandlerInv, TypeOK, FrameInv,
       FiledInv, NoStrandedExporter, Removing
  <1>14. ASSUME NEW id \in EndpointID, TakeAdded(id)
        PROVE  NoStrandedExporter'
    BY <1>14 DEF TakeAdded, TemplatesFor, HandlerInv, TypeOK, FrameInv,
       FiledInv, NoStrandedExporter, Removing, exporterVars
  <1>15. ASSUME NEW t \in Template, NEW x, StartExporter(t, x)
        PROVE  NoStrandedExporter'
    <2>1. /\ current \in EndpointID /\ x \in Exporter
          /\ status' = [status EXCEPT ![x] = "running"]
          /\ exportersByEndpoint' = [exportersByEndpoint EXCEPT ![current] = @ \cup {x}]
      BY <1>15 DEF StartExporter, Put, Adding, HandlerInv, TypeOK
    <2>2. \A id \in EndpointID : exportersByEndpoint[id] \subseteq exportersByEndpoint'[id]
      BY <2>1 DEF HandlerInv, TypeOK
    <2>3. x \in exportersByEndpoint'[current]
      BY <2>1 DEF HandlerInv, TypeOK
    <2>4. \A y \in Exporter \ {x} : status'[y] = status[y]
      BY <2>1 DEF HandlerInv, TypeOK
    <2> QED
      BY <2>1, <2>2, <2>3, <2>4 DEF HandlerInv, NoStrandedExporter
  <1>16. ASSUME NEW t \in Template, StartExporterFails(t)
        PROVE  NoStrandedExporter'
    BY <1>16 DEF StartExporterFails, Adding, HandlerInv, TypeOK, FrameInv,
       FiledInv, NoStrandedExporter, Removing, exporterVars
  <1>17. ASSUME Register
        PROVE  NoStrandedExporter'
    BY <1>17 DEF Register, Adding, HandlerInv, TypeOK, FrameInv, FiledInv,
       NoStrandedExporter, Removing, exporterVars
  <1>18. ASSUME NextEndpoint
        PROVE  NoStrandedExporter'
    BY <1>18 DEF NextEndpoint, Adding, HandlerInv, TypeOK, FrameInv, FiledInv,
       NoStrandedExporter, Removing, exporterVars
  <1>19. CASE UNCHANGED vars
    BY <1>19 DEF vars, HandlerInv, TypeOK, FrameInv, FiledInv,
       NoStrandedExporter, Removing, exporterVars
  <1> QED
    BY <1>1, <1>2, <1>3, <1>4, <1>5, <1>6, <1>7, <1>8, <1>9, <1>10, <1>11,
       <1>12, <1>13, <1>14, <1>15, <1>16, <1>17, <1>18, <1>19
    DEF Next, Handle, Callback, OnAdd, OnRemove, OnChange, Finished

(* What is stopped runs, and nothing starts once Shutdown has begun to stop. *)
LEMMA StopStep == HandlerInv /\ [Next]_vars => (Draining => StopOnce /\ NoExporterOutlivesShutdown)'
  <1> SUFFICES ASSUME HandlerInv, [Next]_vars PROVE (Draining => StopOnce /\ NoExporterOutlivesShutdown)'
    OBVIOUS
  <1>1. ASSUME Start
        PROVE  (Draining => StopOnce /\ NoExporterOutlivesShutdown)'
    BY <1>1 DEF Start, HandlerInv, TypeOK, DrainInv, StopOnce,
       NoExporterOutlivesShutdown, exporterVars
  <1>2. ASSUME BeginShutdown
        PROVE  (Draining => StopOnce /\ NoExporterOutlivesShutdown)'
    BY <1>2 DEF BeginShutdown, HandlerInv, TypeOK, DrainInv, StopOnce,
       NoExporterOutlivesShutdown, exporterVars
  <1>3. ASSUME LockForShutdown
        PROVE  (Draining => StopOnce /\ NoExporterOutlivesShutdown)'
    BY <1>3 DEF LockForShutdown, Unsubscribed, MutexFree, Filed, HandlerInv,
       TypeOK, DrainInv, StopOnce, NoExporterOutlivesShutdown, exporterVars
  <1>4. ASSUME FinishShutdown
        PROVE  (Draining => StopOnce /\ NoExporterOutlivesShutdown)'
    BY <1>4 DEF FinishShutdown, HandlerInv, TypeOK, DrainInv, StopOnce,
       NoExporterOutlivesShutdown, exporterVars
  <1>5. ASSUME NEW o \in Observer, ListAndWatch(o)
        PROVE  (Draining => StopOnce /\ NoExporterOutlivesShutdown)'
    BY <1>5 DEF ListAndWatch, HandlerInv, TypeOK, DrainInv, StopOnce,
       NoExporterOutlivesShutdown, exporterVars
  <1>6. ASSUME NEW o \in Observer, Unsubscribe(o)
        PROVE  (Draining => StopOnce /\ NoExporterOutlivesShutdown)'
    BY <1>6 DEF Unsubscribe, HandlerInv, TypeOK, DrainInv, StopOnce,
       NoExporterOutlivesShutdown, exporterVars
  <1>7. ASSUME NEW o \in Observer, NEW op \in {"add", "remove", "change"},
               NEW batch \in Batches(o), Call(o, op, batch)
        PROVE  (Draining => StopOnce /\ NoExporterOutlivesShutdown)'
    BY <1>7 DEF Call, HandlerInv, TypeOK, DrainInv, StopOnce,
       NoExporterOutlivesShutdown, exporterVars
  <1>8. ASSUME NEW o \in Observer, Lock(o)
        PROVE  (Draining => StopOnce /\ NoExporterOutlivesShutdown)'
    BY <1>8 DEF Lock, MutexFree, RemovedBy, AddedBy, HandlerInv, TypeOK,
       DrainInv, StopOnce, NoExporterOutlivesShutdown, exporterVars
  <1>9. ASSUME NEW o \in Observer, Unlock(o)
        PROVE  (Draining => StopOnce /\ NoExporterOutlivesShutdown)'
    BY <1>9 DEF Unlock, HandlerInv, TypeOK, DrainInv, StopOnce,
       NoExporterOutlivesShutdown, exporterVars
  <1>10. ASSUME NEW o \in Observer, Count(o)
        PROVE  (Draining => StopOnce /\ NoExporterOutlivesShutdown)'
    BY <1>10 DEF Count, HandlerInv, TypeOK, DrainInv, StopOnce,
       NoExporterOutlivesShutdown, exporterVars
  <1>11. ASSUME NEW id \in EndpointID, TakeRemoved(id)
        PROVE  (Draining => StopOnce /\ NoExporterOutlivesShutdown)'
    BY <1>11 DEF TakeRemoved, Get, Done, HandlerInv, TypeOK, DrainInv,
       StopOnce, NoExporterOutlivesShutdown, exporterVars
  <1>12. ASSUME NEW x \in Exporter, StopExporter(x)
        PROVE  (Draining => StopOnce /\ NoExporterOutlivesShutdown)'
    BY <1>12 DEF StopExporter, Done, HandlerInv, TypeOK, DrainInv, StopOnce,
       NoExporterOutlivesShutdown
  <1>13. ASSUME NEW id \in EndpointID, DropEndpoint(id)
        PROVE  (Draining => StopOnce /\ NoExporterOutlivesShutdown)'
    BY <1>13 DEF DropEndpoint, Done, RemoveAll, HandlerInv, TypeOK, DrainInv,
       StopOnce, NoExporterOutlivesShutdown
  <1>14. ASSUME NEW id \in EndpointID, TakeAdded(id)
        PROVE  (Draining => StopOnce /\ NoExporterOutlivesShutdown)'
    BY <1>14 DEF TakeAdded, TemplatesFor, HandlerInv, TypeOK, DrainInv,
       StopOnce, NoExporterOutlivesShutdown, exporterVars
  <1>15. ASSUME NEW t \in Template, NEW x, StartExporter(t, x)
        PROVE  (Draining => StopOnce /\ NoExporterOutlivesShutdown)'
    BY <1>15 DEF StartExporter, Put, Adding, HandlerInv, TypeOK, DrainInv,
       StopOnce, NoExporterOutlivesShutdown
  <1>16. ASSUME NEW t \in Template, StartExporterFails(t)
        PROVE  (Draining => StopOnce /\ NoExporterOutlivesShutdown)'
    BY <1>16 DEF StartExporterFails, Adding, HandlerInv, TypeOK, DrainInv,
       StopOnce, NoExporterOutlivesShutdown, exporterVars
  <1>17. ASSUME Register
        PROVE  (Draining => StopOnce /\ NoExporterOutlivesShutdown)'
    BY <1>17 DEF Register, Adding, HandlerInv, TypeOK, DrainInv, StopOnce,
       NoExporterOutlivesShutdown, exporterVars
  <1>18. ASSUME NextEndpoint
        PROVE  (Draining => StopOnce /\ NoExporterOutlivesShutdown)'
    BY <1>18 DEF NextEndpoint, Adding, HandlerInv, TypeOK, DrainInv, StopOnce,
       NoExporterOutlivesShutdown, exporterVars
  <1>19. CASE UNCHANGED vars
    BY <1>19 DEF vars, HandlerInv, TypeOK, DrainInv, StopOnce,
       NoExporterOutlivesShutdown, exporterVars
  <1> QED
    BY <1>1, <1>2, <1>3, <1>4, <1>5, <1>6, <1>7, <1>8, <1>9, <1>10, <1>11,
       <1>12, <1>13, <1>14, <1>15, <1>16, <1>17, <1>18, <1>19
    DEF Next, Handle, Callback, OnAdd, OnRemove, OnChange, Finished

(* Nothing is started, filed or registered at first. *)
LEMMA HandlerInvInit == Init => HandlerInv
  <1> SUFFICES ASSUME Init PROVE HandlerInv
    OBVIOUS
  <1>1. Idle /\ mutex = None /\ toStop = {} /\ routed = {} /\ phase = "created" /\ subscribed = {}
    BY DEF Init, Idle, RouterInit
  <1>2. NoCall \in Frame
    BY NoCallType
  <1>3. TypeOK
    BY <1>1, <1>2, Sentinels DEF Init, TypeOK, Idle, StartedExporter
  <1>4. FrameInv
    BY <1>1, Sentinels DEF FrameInv, Idle, Removing
  <1>5. /\ \A id \in EndpointID : exportersByEndpoint[id] = {} /\ RoutedTo(id) = {}
        /\ \A x \in Exporter : status[x] = "unused"
        /\ \A o \in Observer : pc[o] = "idle"
    BY <1>1 DEF Init, RoutedTo
  <1>6. FiledInv
    BY <1>1, <1>5 DEF FiledInv, Idle, Removing
  <1>7. DrainInv
    BY <1>1, <1>5, Sentinels DEF DrainInv
  <1>8. RouterMirrorsHandler
    BY <1>1, <1>5 DEF RouterMirrorsHandler, Idle
  <1>9. NoStrandedExporter /\ StopOnce /\ NoExporterOutlivesShutdown
    BY <1>5 DEF NoStrandedExporter, StopOnce, NoExporterOutlivesShutdown
  <1> QED
    BY <1>3, <1>4, <1>6, <1>7, <1>8, <1>9 DEF HandlerInv

(* HandlerInv is an invariant of the creator and its handler, whether or    *)
(* not observers resync, retract what they never reported, share endpoints  *)
(* or drain, and exporters fail.                                            *)
THEOREM HandlerInvariant == Spec => []HandlerInv
  <1>1. HandlerInv /\ [Next]_vars => HandlerInv'
    BY TypeStep, FrameStep, FiledStep, DrainStep, MirrorStep, StrandedStep, StopStep DEF HandlerInv
  <1> QED
    BY <1>1, HandlerInvInit, PTL DEF Spec

(* observerhandler.go: a callback is in the handler exactly while it holds  *)
(* the mutex, and every field keeps its type.                               *)
THEOREM TypesHold == Spec => []TypeOK
  BY HandlerInvariant, PTL DEF HandlerInv

(* observerhandler.go:126-127, 244, 277: the handler's map and the router's *)
(* table never disagree by more than the exporter being registered.         *)
THEOREM RouterMirrors == Spec => []RouterMirrorsHandler
  BY HandlerInvariant, PTL DEF HandlerInv

(* exportermap.go: an exporter that runs can always be found and stopped.   *)
THEOREM NoneIsStranded == Spec => []NoStrandedExporter
  BY HandlerInvariant, PTL DEF HandlerInv

(* router.go, observerhandler.go:106-135: no telemetry is routed to an      *)
(* exporter that was stopped, but for one whose endpoint is being removed   *)
(* or once Shutdown stops the exporters.                                    *)
THEOREM RoutableRuns == Spec => []RoutableIsRunning
  <1>1. HandlerInv => RoutableIsRunning
    <2> SUFFICES ASSUME HandlerInv, NEW re \in routed
                 PROVE  \/ status[re.exporter] = "running"
                        \/ current = re.endpoint /\ re.endpoint \in toRemove
                        \/ phase \in {"stopping", "shut down"}
      BY DEF RoutableIsRunning
    <2>1. re.endpoint \in EndpointID /\ re \in RoutedTo(re.endpoint)
      BY DEF HandlerInv, TypeOK, RoutedExporter, RoutedTo
    <2>2. re.exporter \in exportersByEndpoint[re.endpoint]
      BY <2>1 DEF HandlerInv, RouterMirrorsHandler
    <2> QED
      BY <2>1, <2>2 DEF HandlerInv, FiledInv, Removing
  <1> QED
    BY <1>1, HandlerInvariant, PTL

(* exporter.go:144, observerhandler.go:156-176: if observers drain their    *)
(* callbacks when they are unsubscribed, Shutdown leaves nothing running.   *)
THEOREM ShutdownIsComplete ==
    ASSUME Draining
    PROVE  Spec => []NoExporterOutlivesShutdown
  <1>1. HandlerInv => NoExporterOutlivesShutdown
    BY DEF HandlerInv
  <1> QED
    BY <1>1, HandlerInvariant, PTL

(* observerhandler.go:106-135, 156-176: and no exporter is shut down twice. *)
THEOREM StoppedOnce ==
    ASSUME Draining
    PROVE  Spec => []StopOnce
  <1>1. HandlerInv => StopOnce
    BY DEF HandlerInv
  <1> QED
    BY <1>1, HandlerInvariant, PTL

(* A step of the handler is an operation of the router, or none of its      *)
(* concern.                                                                 *)
LEMMA DrivesRouterStep == HandlerInv /\ [Next]_vars => [RouterNext]_routerVars
  <1> SUFFICES ASSUME HandlerInv, [Next]_vars PROVE [RouterNext]_routerVars
    OBVIOUS
  <1>1. ASSUME Start
        PROVE  [RouterNext]_routerVars
    BY <1>1 DEF Start
  <1>2. ASSUME BeginShutdown
        PROVE  [RouterNext]_routerVars
    BY <1>2 DEF BeginShutdown
  <1>3. ASSUME LockForShutdown
        PROVE  [RouterNext]_routerVars
    BY <1>3 DEF LockForShutdown
  <1>4. ASSUME FinishShutdown
        PROVE  [RouterNext]_routerVars
    BY <1>4 DEF FinishShutdown
  <1>5. ASSUME NEW o \in Observer, ListAndWatch(o)
        PROVE  [RouterNext]_routerVars
    BY <1>5 DEF ListAndWatch
  <1>6. ASSUME NEW o \in Observer, Unsubscribe(o)
        PROVE  [RouterNext]_routerVars
    BY <1>6 DEF Unsubscribe
  <1>7. ASSUME NEW o \in Observer, NEW op \in {"add", "remove", "change"},
               NEW batch \in Batches(o), Call(o, op, batch)
        PROVE  [RouterNext]_routerVars
    BY <1>7 DEF Call
  <1>8. ASSUME NEW o \in Observer, Lock(o)
        PROVE  [RouterNext]_routerVars
    BY <1>8 DEF Lock
  <1>9. ASSUME NEW o \in Observer, Unlock(o)
        PROVE  [RouterNext]_routerVars
    BY <1>9 DEF Unlock
  <1>10. ASSUME NEW o \in Observer, Count(o)
        PROVE  [RouterNext]_routerVars
    BY <1>10 DEF Count
  <1>11. ASSUME NEW id \in EndpointID, TakeRemoved(id)
        PROVE  [RouterNext]_routerVars
    BY <1>11 DEF TakeRemoved
  <1>12. ASSUME NEW x \in Exporter, StopExporter(x)
        PROVE  [RouterNext]_routerVars
    BY <1>12 DEF StopExporter
  <1>13. ASSUME NEW id \in EndpointID, DropEndpoint(id)
        PROVE  [RouterNext]_routerVars
    BY <1>13 DEF DropEndpoint, RouterNext
  <1>14. ASSUME NEW id \in EndpointID, TakeAdded(id)
        PROVE  [RouterNext]_routerVars
    BY <1>14 DEF TakeAdded
  <1>15. ASSUME NEW t \in Template, NEW x, StartExporter(t, x)
        PROVE  [RouterNext]_routerVars
    BY <1>15 DEF StartExporter
  <1>16. ASSUME NEW t \in Template, StartExporterFails(t)
        PROVE  [RouterNext]_routerVars
    BY <1>16 DEF StartExporterFails
  <1>17. ASSUME Register
        PROVE  [RouterNext]_routerVars
    <2>1. Unregistered(started.exporter)
      BY <1>17 DEF Register, HandlerInv, FiledInv
    <2> QED
      BY <1>17, <2>1, RegisteredType DEF Register, RouterNext
  <1>18. ASSUME NextEndpoint
        PROVE  [RouterNext]_routerVars
    BY <1>18 DEF NextEndpoint
  <1>19. CASE UNCHANGED vars
    BY <1>19 DEF vars
  <1> QED
    BY <1>1, <1>2, <1>3, <1>4, <1>5, <1>6, <1>7, <1>8, <1>9, <1>10, <1>11,
       <1>12, <1>13, <1>14, <1>15, <1>16, <1>17, <1>18, <1>19
    DEF Next, Handle, Callback, OnAdd, OnRemove, OnChange, Finished

(* observerhandler.go:126, 277: the handler is a client of the router as    *)
(* the router expects it: every run of it is a run of RouterSpec.           *)
THEOREM HandlerDrivesRouter == Spec => DrivesRouter
  <1>1. Init => RouterInit
    BY DEF Init
  <1> QED
    BY <1>1, DrivesRouterStep, HandlerInvariant, PTL DEF Spec, DrivesRouter, RouterSpec

(* So the router's totals are exact under the handler too.                  *)
THEOREM CountsAreExactUnderHandler == Spec => []CachedCountMatchesExporters
  BY HandlerDrivesRouter, CountsAreExact, PTL DEF DrivesRouter

------------------------------------------------------------------------------
(***************************************************************************)
(* What observers report is what is counted and what is routed.            *)
(*                                                                         *)
(* Fed by the callbacks of any number of observers, which race each other, *)
(* resync, retype and share endpoints, the observed-endpoints gauge keeps  *)
(* its promise, the tracker has what each observer reports, and nothing    *)
(* else is routed to.  Observers with endpoints of their own find each of  *)
(* their reports routed, and those that do not resync find it routed once. *)
(***************************************************************************)

T == INSTANCE EndpointTrackerProofs

TypeAsReported(o, id) ==
    IF reported[o][id] = NotReported THEN NotReported ELSE EndpointTypeOf[reported[o][id]]

(* The tracker has what an observer reported before the callback that is   *)
(* under way, which holds what has changed since.                          *)
CountedInv ==
    \A o \in Observer, id \in EndpointID :
        IF id \in DOMAIN call[o].batch
        THEN /\ pc[o] # "idle"
             /\ reported[o][id] = IF call[o].op = "remove" THEN NotReported ELSE call[o].batch[id]
        ELSE live[o][id] = TypeAsReported(o, id)

(* The tracker is touched at the end of a callback and nowhere else.       *)
LEMMA OnlyCallbacksCount ==
    ASSUME [Next]_vars
    PROVE  UNCHANGED trackedVars \/ \E o \in Observer : Count(o)
  <1>1. CASE Start \/ BeginShutdown \/ LockForShutdown \/ FinishShutdown
    BY <1>1 DEF Start, BeginShutdown, LockForShutdown, FinishShutdown
  <1>2. CASE \E o \in Observer : ListAndWatch(o) \/ Unsubscribe(o) \/ Lock(o) \/ Unlock(o)
    BY <1>2 DEF ListAndWatch, Unsubscribe, Lock, Unlock
  <1>3. CASE \E o \in Observer : Callback(o)
    BY <1>3 DEF Callback, OnAdd, OnRemove, OnChange, Call
  <1>4. CASE Handle
    BY <1>4 DEF Handle, TakeRemoved, DropEndpoint, TakeAdded, StopExporter, StartExporter,
       StartExporterFails, Register, NextEndpoint
  <1>5. CASE Finished \/ UNCHANGED vars
    BY <1>5 DEF Finished, vars
  <1>6. CASE \E o \in Observer : Count(o)
    BY <1>6
  <1> QED
    BY <1>1, <1>2, <1>3, <1>4, <1>5, <1>6 DEF Next

(* And what an observer reports, and its callback, by the callback alone.  *)
LEMMA OnlyCallbacksReport ==
    ASSUME TypeOK, [Next]_vars
    PROVE  \/ /\ UNCHANGED <<reported, call>>
              /\ \A o \in Observer : pc'[o] = "idle" => pc[o] = "idle"
           \/ \E o \in Observer : Count(o)
           \/ \E o \in Observer, op \in {"add", "remove", "change"} :
                 \E batch \in Batches(o) : Call(o, op, batch)
  <1>1. CASE Start \/ BeginShutdown \/ LockForShutdown \/ FinishShutdown
    BY <1>1 DEF Start, BeginShutdown, LockForShutdown, FinishShutdown, observerVars
  <1>2. CASE \E o \in Observer : ListAndWatch(o) \/ Unsubscribe(o)
    BY <1>2 DEF ListAndWatch, Unsubscribe
  <1>3. CASE \E o \in Observer : Lock(o) \/ Unlock(o)
    BY <1>3 DEF Lock, Unlock, observerVars, TypeOK
  <1>4. CASE \E o \in Observer : Callback(o)
    BY <1>4 DEF Callback, OnAdd, OnRemove, OnChange
  <1>5. CASE Handle
    BY <1>5 DEF Handle, TakeRemoved, DropEndpoint, TakeAdded, StopExporter, StartExporter,
       StartExporterFails, Register, NextEndpoint, observerVars
  <1>6. CASE Finished \/ UNCHANGED vars
    BY <1>6 DEF Finished, vars, observerVars
  <1>7. CASE \E o \in Observer : Count(o)
    BY <1>7
  <1> QED
    BY <1>1, <1>2, <1>3, <1>4, <1>5, <1>6, <1>7 DEF Next

(* The tracker the proofs are of is the creator's. *)
LEMMA SameCardinality ==
    \A S : Tracker!Cardinality(S) = T!Cardinality(S)
  BY DEF Tracker!Cardinality, T!Cardinality

LEMMA SameSeries ==
    /\ Tracker!Series = T!Series /\ Tracker!NoSeries = T!NoSeries
    /\ \A o, s : Tracker!LiveIn(o, s) = T!LiveIn(o, s)
    /\ \A counted : Tracker!RecordLocked(counted) <=> T!RecordLocked(counted)
  BY DEF Tracker!Series, T!Series, Tracker!NoSeries, T!NoSeries, Tracker!LiveIn, T!LiveIn,
     Tracker!RecordLocked, T!RecordLocked

LEMMA SameTrack ==
    ASSUME NEW o, NEW batch, Tracker!Track(o, batch) PROVE T!Track(o, batch)
  <1>1. \A s : /\ Tracker!Entering(o, batch, s) = T!Entering(o, batch, s)
               /\ Tracker!Leaving(o, batch, s) = T!Leaving(o, batch, s)
    BY SameSeries DEF Tracker!Entering, T!Entering, Tracker!Leaving, T!Leaving
  <1> QED
    BY <1>1, SameSeries, SameCardinality DEF Tracker!Track, T!Track

LEMMA SameUntrack ==
    ASSUME NEW o, NEW ids, Tracker!Untrack(o, ids) PROVE T!Untrack(o, ids)
  <1>1. \A s : Tracker!Withdrawn(o, ids, s) = T!Withdrawn(o, ids, s)
    BY SameSeries DEF Tracker!Withdrawn, T!Withdrawn
  <1> QED
    BY <1>1, SameSeries, SameCardinality DEF Tracker!Untrack, T!Untrack

(* What a callback tells the tracker is a batch of known types.            *)
LEMMA CountIsTracking ==
    ASSUME TypeOK, NEW o \in Observer, Count(o)
    PROVE  /\ DOMAIN call[o].batch \in SUBSET EndpointID
           /\ [id \in DOMAIN call[o].batch |-> EndpointTypeOf[call[o].batch[id]]] \in T!Batch
           /\ IF call[o].op = "remove" THEN T!Untrack(o, DOMAIN call[o].batch)
              ELSE T!Track(o, [id \in DOMAIN call[o].batch |-> EndpointTypeOf[call[o].batch[id]]])
  <1> DEFINE b == call[o].batch
             types == [id \in DOMAIN b |-> EndpointTypeOf[b[id]]]
  <1>1. DOMAIN b \subseteq EndpointID /\ \A id \in DOMAIN b : b[id] \in Env
    BY BatchType DEF TypeOK, Frame
  <1>2. types \in [DOMAIN b -> EndpointType]
    BY <1>1, ObserversType
  <1>3. types \in T!Batch
    BY <1>1, <1>2 DEF T!Batch
  <1>4. IF call[o].op = "remove" THEN Tracker!Untrack(o, DOMAIN b) ELSE Tracker!Track(o, types)
    BY DEF Count, TrackCall
  <1> QED
    BY <1>1, <1>3, <1>4, SameTrack, SameUntrack

(* So the tracker, fed by the callbacks, runs as its own specification has it. *)
LEMMA TrackerStep ==
    ASSUME TypeOK, [Next]_vars PROVE [T!TrackerNext]_(T!trackerVars)
  <1>1. ASSUME NEW o \in Observer, Count(o)
        PROVE  T!TrackerNext
    BY <1>1, CountIsTracking DEF T!TrackerNext
  <1>2. CASE UNCHANGED trackedVars
    BY <1>2 DEF trackedVars, T!trackerVars
  <1> QED
    BY <1>1, <1>2, OnlyCallbacksCount

LEMMA TrackerRuns == Spec => T!TrackerSpec
  <1>1. Init => T!TrackerInit
    BY SameSeries DEF Init, Tracker!TrackerInit, T!TrackerInit
  <1> QED
    BY <1>1, TrackerStep, HandlerInvariant, PTL DEF Spec, HandlerInv, T!TrackerSpec

LEMMA SameConstants == T!TrackerConstants
  <1>1. \A S : Tracker!IsFiniteSet(S) <=> T!IsFiniteSet(S)
    BY DEF Tracker!IsFiniteSet, T!IsFiniteSet
  <1> QED
    BY <1>1, TrackerAssumption DEF Tracker!TrackerConstants, T!TrackerConstants

LEMMA TrackerIsTrue == Spec => []T!TrackerInv
  BY TrackerRuns, SameConstants, T!TrackerInvariant, PTL

(* A callback begins: what it reports is all that the tracker has not.     *)
LEMMA CallKeepsCounted ==
    ASSUME TypeOK, CountedInv, NEW o \in Observer, NEW op \in {"add", "remove", "change"},
           NEW batch \in Batches(o), Call(o, op, batch)
    PROVE  (\A p \in Observer, id \in EndpointID :
               IF id \in DOMAIN call'[p].batch
               THEN /\ pc'[p] # "idle"
                    /\ reported'[p][id] = IF call'[p].op = "remove" THEN NotReported
                                          ELSE call'[p].batch[id]
               ELSE live[p][id] = IF reported'[p][id] = NotReported THEN NotReported
                                  ELSE EndpointTypeOf[reported'[p][id]])
  <1> TAKE p \in Observer, id \in EndpointID
  <1>1. /\ pc[o] = "idle" /\ pc' = [pc EXCEPT ![o] = "waiting"]
        /\ call' = [call EXCEPT ![o] = [op |-> op, batch |-> batch]]
        /\ reported' = [reported EXCEPT ![o] =
               [i \in EndpointID |-> IF i \notin DOMAIN batch THEN reported[o][i]
                                     ELSE IF op = "remove" THEN NotReported ELSE batch[i]]]
    BY DEF Call
  <1>2. id \notin DOMAIN call[o].batch
    BY <1>1 DEF CountedInv
  <1>3. CASE p = o
    <2>1. call'[p].batch = batch /\ call'[p].op = op /\ pc'[p] = "waiting"
      BY <1>1, <1>3 DEF TypeOK
    <2>2. reported'[p][id] = IF id \notin DOMAIN batch THEN reported[o][id]
                             ELSE IF op = "remove" THEN NotReported ELSE batch[id]
      BY <1>1, <1>3 DEF TypeOK
    <2>3. live[o][id] = TypeAsReported(o, id)
      BY <1>2 DEF CountedInv
    <2> QED
      BY <1>3, <2>1, <2>2, <2>3 DEF TypeAsReported
  <1>4. CASE p # o
    <2>1. call'[p] = call[p] /\ pc'[p] = pc[p] /\ reported'[p] = reported[p]
      BY <1>1, <1>4 DEF TypeOK
    <2> QED
      BY <2>1 DEF CountedInv, TypeAsReported
  <1> QED
    BY <1>3, <1>4

(* A callback ends: the tracker has caught up.                             *)
LEMMA CountKeepsCounted ==
    ASSUME TypeOK, T!TrackerInv, CountedInv, NEW o \in Observer, Count(o)
    PROVE  CountedInv'
  <1>1. /\ call' = [call EXCEPT ![o] = NoCall] /\ reported' = reported
        /\ pc' = [pc EXCEPT ![o] = "idle"]
    BY DEF Count, observerVars
  <1>2. DOMAIN call[o].batch \subseteq EndpointID
    BY CountIsTracking
  <1>3. /\ call[o].op = "remove" =>
             live' = [live EXCEPT ![o] = [i \in EndpointID |->
                        IF i \in DOMAIN call[o].batch THEN NotReported ELSE live[o][i]]]
        /\ call[o].op # "remove" =>
             live' = [live EXCEPT ![o] = [i \in EndpointID |->
                        IF i \in DOMAIN call[o].batch THEN EndpointTypeOf[call[o].batch[i]]
                        ELSE live[o][i]]]
    BY CountIsTracking DEF T!Track, T!Untrack
  <1>4. live \in [Observer -> [EndpointID -> EndpointType \cup {NotReported}]]
    BY DEF T!TrackerInv, T!TrackerTypeOK
  <1>5. ASSUME NEW p \in Observer, NEW id \in EndpointID
        PROVE  IF id \in DOMAIN call'[p].batch
               THEN /\ pc'[p] # "idle"
                    /\ reported'[p][id] = IF call'[p].op = "remove" THEN NotReported
                                          ELSE call'[p].batch[id]
               ELSE live'[p][id] = TypeAsReported(p, id)
    <2>1. CASE p = o
      <3>1. id \notin DOMAIN call'[p].batch
        BY <1>1, <2>1 DEF NoCall, TypeOK
      <3>2. CASE id \in DOMAIN call[o].batch
        <4>1. call[o].batch[id] \in Env
          BY <3>2, BatchType DEF TypeOK, Frame
        <4>2. reported[o][id] = IF call[o].op = "remove" THEN NotReported ELSE call[o].batch[id]
          BY <3>2 DEF CountedInv
        <4>3. live'[o][id] = IF call[o].op = "remove" THEN NotReported
                             ELSE EndpointTypeOf[call[o].batch[id]]
          BY <1>3, <1>4, <3>2
        <4> QED
          BY <2>1, <3>1, <4>1, <4>2, <4>3, Sentinels DEF TypeAsReported
      <3>3. CASE id \notin DOMAIN call[o].batch
        <4>1. live'[o][id] = live[o][id]
          BY <1>3, <1>4, <3>3
        <4> QED
          BY <2>1, <3>1, <3>3, <4>1 DEF CountedInv
      <3> QED
        BY <3>2, <3>3
    <2>2. CASE p # o
      <3>1. call'[p] = call[p] /\ pc'[p] = pc[p] /\ live'[p] = live[p]
        BY <1>1, <1>3, <1>4, <2>2 DEF TypeOK
      <3> QED
        BY <1>1, <3>1 DEF CountedInv
    <2> QED
      BY <2>1, <2>2
  <1> QED
    BY <1>1, <1>5 DEF CountedInv, TypeAsReported

LEMMA CountedStep ==
    ASSUME TypeOK, TypeOK', T!TrackerInv, CountedInv, [Next]_vars
    PROVE  CountedInv'
  <1>1. CASE \E o \in Observer : Count(o)
    BY <1>1, CountKeepsCounted
  <1>2. CASE ~ \E o \in Observer : Count(o)
    <2>1. live' = live
      BY <1>2, OnlyCallbacksCount DEF trackedVars
    <2>2. CASE /\ UNCHANGED <<reported, call>>
               /\ \A o \in Observer : pc'[o] = "idle" => pc[o] = "idle"
      BY <2>1, <2>2 DEF CountedInv, TypeAsReported
    <2>3. CASE \E o \in Observer, op \in {"add", "remove", "change"} :
                 \E batch \in Batches(o) : Call(o, op, batch)
      BY <2>1, <2>3, CallKeepsCounted DEF CountedInv, TypeAsReported
    <2> QED
      BY <1>2, <2>2, <2>3, OnlyCallbacksReport
  <1> QED
    BY <1>1, <1>2

LEMMA CountedInitially == Init => CountedInv
  BY DEF Init, NoCall, Tracker!TrackerInit, CountedInv, TypeAsReported

LEMMA CountedAlways == Spec => []CountedInv
  <1>1. HandlerInv /\ T!TrackerInv /\ CountedInv /\ HandlerInv' /\ [Next]_vars => CountedInv'
    BY CountedStep DEF HandlerInv
  <1> QED
    BY <1>1, CountedInitially, HandlerInvariant, TrackerIsTrue, PTL DEF Spec
------------------------------------------------------------------------------
(* exporter.go:181-198, endpointtracker.go:58-116: callbacks of several     *)
(* observers, each counted after it let go of the handler, leave the        *)
(* tracker with what every observer reports and with exact totals.          *)
THEOREM ReportsAreCounted == Spec => []ReportedIsCounted
  <1>1. T!TrackerInv => Tracker!TotalsMatchLive
    <2>1. Tracker!Reports = T!Reports
      BY DEF Tracker!Reports, T!Reports
    <2>2. \A s : Tracker!ReportsIn(s) = T!ReportsIn(s)
      BY <2>1 DEF Tracker!ReportsIn, T!ReportsIn
    <2> QED
      BY <2>2, SameSeries, SameCardinality DEF T!TrackerInv, T!TotalsMatchLive, Tracker!TotalsMatchLive
  <1>2. TypeOK /\ CountedInv /\ Tracker!TotalsMatchLive => ReportedIsCounted
    BY DEF CountedInv, ReportedIsCounted, TypeAsReported
  <1>3. HandlerInv => TypeOK
    BY DEF HandlerInv
  <1> QED
    BY <1>1, <1>2, <1>3, HandlerInvariant, TrackerIsTrue, CountedAlways, PTL

(* endpointtracker.go:13-30: in the running creator the gauge keeps its     *)
(* promise, every callback a report or a retraction of it.                  *)
THEOREM GaugeIsTrueUnderCallbacks == Spec => GaugeKeepsPromise
  <1>1. Spec => T!GaugeKeepsPromise
    BY TrackerRuns, SameConstants, T!TrackerKeepsPromise, PTL
  <1>2. Tracker!Reports = T!Reports /\ Tracker!Reports' = T!Reports'
    BY DEF Tracker!Reports, T!Reports
  <1>3. T!Promise!Init => Tracker!Promise!Init
    BY <1>2 DEF T!Promise!Init, Tracker!Promise!Init, T!Promise!Series, Tracker!Promise!Series,
       T!Promise!NoSeries, Tracker!Promise!NoSeries
  <1>4. [T!Promise!Next]_<<T!Reports, observedEndpoints>>
          => [Tracker!Promise!Next]_<<Tracker!Reports, observedEndpoints>>
    <2>1. \A S : T!Promise!Cardinality(S) = Tracker!Promise!Cardinality(S)
      BY DEF T!Promise!Cardinality, Tracker!Promise!Cardinality
    <2>2. \A rs, s : T!Promise!Counted(rs, s) = Tracker!Promise!Counted(rs, s)
      BY DEF T!Promise!Counted, Tracker!Promise!Counted
    <2>3. ASSUME NEW new, T!Promise!Show(new)
          PROVE  Tracker!Promise!Show(new)
      BY <1>2, <2>1, <2>2, <2>3 DEF T!Promise!Show, Tracker!Promise!Show, T!Promise!Series,
         Tracker!Promise!Series, T!Promise!NoSeries, Tracker!Promise!NoSeries
    <2>4. \A o, ids : T!Promise!ReportsOf(o, ids) = Tracker!Promise!ReportsOf(o, ids)
      BY <1>2 DEF T!Promise!ReportsOf, Tracker!Promise!ReportsOf
    <2>5. ASSUME NEW o, NEW batch, T!Promise!Reported(o, batch)
          PROVE  Tracker!Promise!Reported(o, batch)
      BY <1>2, <2>3, <2>4, <2>5 DEF T!Promise!Reported, Tracker!Promise!Reported
    <2>6. ASSUME NEW o, NEW ids, T!Promise!Retracted(o, ids)
          PROVE  Tracker!Promise!Retracted(o, ids)
      BY <1>2, <2>3, <2>4, <2>6 DEF T!Promise!Retracted, Tracker!Promise!Retracted
    <2>7. T!Promise!Next => Tracker!Promise!Next
      BY <2>5, <2>6 DEF T!Promise!Next, Tracker!Promise!Next, T!Promise!Batch, Tracker!Promise!Batch
    <2> QED
      BY <1>2, <2>7
  <1> QED
    BY <1>1, <1>3, <1>4, PTL DEF GaugeKeepsPromise, Tracker!GaugeKeepsPromise, Tracker!Promise!Spec,
       T!GaugeKeepsPromise, T!Promise!Spec
------------------------------------------------------------------------------
Owned == \A o, p \in Observer : o # p => Reportable[o] \cap Reportable[p] = {}
DistinctTypes == \A t, u \in Template : TemplateType[t] = TemplateType[u] => t = u

(* What the holder of the mutex has in hand is of its batch, and an        *)
(* observer reports only what it may.                                      *)
HandInv ==
    /\ \A o \in Observer : DOMAIN call[o].batch \subseteq Reportable[o]
    /\ \A o \in Observer, id \in EndpointID : reported[o][id] # NotReported => id \in Reportable[o]
    /\ mutex \in Observer =>
          /\ toRemove \subseteq RemovedBy(call[mutex]) /\ toAdd \subseteq AddedBy(call[mutex])
          /\ toRemove # {} => toAdd = AddedBy(call[mutex])
          /\ Adding => /\ current \in AddedBy(call[mutex]) \ toAdd
                       /\ untried \subseteq TemplatesFor(call[mutex].batch[current])
          /\ started # NothingStarted =>
                started.template \in TemplatesFor(call[mutex].batch[current]) \ untried

(* What is routed is reported, or about to be removed.                     *)
JustifiedInv ==
    \A re \in routed :
        \/ Entry(re) \in Wanted
        \/ re.endpoint \in toRemove
        \/ \E o \in Observer : pc[o] = "waiting" /\ re.endpoint \in RemovedBy(call[o])

RoutedFor(id, t, env) ==
    \E re \in routed : /\ re.endpoint = id /\ re.exporterType = TemplateType[t]
                       /\ re.properties = RoutingProperties[t][env]

(* What is reported is routed, or about to be.                             *)
OnItsWay(o, id, t) ==
    \/ pc[o] = "waiting" /\ id \in AddedBy(call[o])
    \/ mutex = o /\ id \in toAdd
    \/ /\ mutex = o /\ Adding /\ current = id
       /\ t \in untried \/ (started # NothingStarted /\ started.template = t)
ReachedInv ==
    \A o \in Observer, id \in EndpointID, t \in Template : reported[o][id] \in Matches[t] =>
        OnItsWay(o, id, t) \/ RoutedFor(id, t, reported[o][id])

(* What is about to be routed is not routed yet.                           *)
FreshCalls ==
    \A o \in Observer : pc[o] = "waiting" /\ call[o].op = "add" =>
        \A id \in DOMAIN call[o].batch : RoutedTo(id) = {}
FreshAdditions == \A id \in toAdd \ toRemove : RoutedTo(id) = {}
FreshTypes ==
    Adding => \A re \in RoutedTo(current) :
        /\ \A t \in untried : re.exporterType # TemplateType[t]
        /\ started # NothingStarted => re.exporterType # TemplateType[started.template]
FreshInv == FreshCalls /\ FreshAdditions /\ FreshTypes /\ OneExporterPerRule

(* Of all that the creator does, this touches what is routed and why.      *)
reportVars == <<routed, reported, pc, call, mutex, toRemove, toAdd, current, untried, started>>

LEMMA ReportSteps ==
    ASSUME [Next]_vars
    PROVE  \/ UNCHANGED reportVars
           \/ LockForShutdown \/ FinishShutdown
           \/ \E o \in Observer : Callback(o) \/ Lock(o) \/ Unlock(o) \/ Count(o)
           \/ \E id \in EndpointID : TakeRemoved(id) \/ DropEndpoint(id) \/ TakeAdded(id)
           \/ \E t \in Template : StartExporter(t, NewExporter) \/ StartExporterFails(t)
           \/ Register \/ NextEndpoint
  <1>1. CASE Start \/ BeginShutdown
    BY <1>1 DEF Start, BeginShutdown, reportVars, observerVars, frameVars, routerVars
  <1>2. CASE \E o \in Observer : ListAndWatch(o) \/ Unsubscribe(o)
    BY <1>2 DEF ListAndWatch, Unsubscribe, reportVars, frameVars, routerVars
  <1>3. CASE \E x \in Exporter : StopExporter(x)
    BY <1>3 DEF StopExporter, reportVars, observerVars, routerVars
  <1>4. CASE Finished \/ UNCHANGED vars
    BY <1>4 DEF Finished, vars, reportVars, observerVars, frameVars, routerVars
  <1> QED
    BY <1>1, <1>2, <1>3, <1>4 DEF Next, Handle

(* A callback is told of what it may report.                               *)
Tells(o, op, batch) ==
    /\ Call(o, op, batch)
    /\ op = "add" /\ Resyncing = {} => \A id \in DOMAIN batch : reported[o][id] = NotReported
    /\ op = "add" => \A id \in DOMAIN batch : reported[o][id] \in {NotReported, batch[id]}
    /\ DOMAIN batch \subseteq Reportable[o] /\ \A id \in DOMAIN batch : batch[id] \in Env
    /\ pc[o] = "idle" /\ pc' = [pc EXCEPT ![o] = "waiting"]
    /\ call'[o] = [op |-> op, batch |-> batch]
    /\ \A p \in Observer \ {o} : call'[p] = call[p] /\ reported'[p] = reported[p]
    /\ \A id \in EndpointID : reported'[o][id] =
          IF id \notin DOMAIN batch THEN reported[o][id]
          ELSE IF op = "remove" THEN NotReported ELSE batch[id]
    /\ UNCHANGED <<routed, mutex, toRemove, toAdd, current, untried, started>>

LEMMA CallbackReports ==
    ASSUME TypeOK, NEW o \in Observer, Callback(o)
    PROVE  \E op \in {"add", "remove", "change"}, batch \in Batches(o) : Tells(o, op, batch)
  <1>1. PICK op \in {"add", "remove", "change"}, batch \in Batches(o) :
          /\ Call(o, op, batch)
          /\ op = "add" => \A id \in DOMAIN batch \cap Known(o) :
                               o \in Resyncing /\ batch[id] = reported[o][id]
    BY DEF Callback, OnAdd, OnRemove, OnChange
  <1>2. DOMAIN batch \subseteq Reportable[o] /\ \A id \in DOMAIN batch : batch[id] \in Env
    BY DEF Batches
  <1>3. op = "add" => \A id \in DOMAIN batch :
          reported[o][id] = NotReported \/ (o \in Resyncing /\ batch[id] = reported[o][id])
    BY <1>1, <1>2 DEF Known
  <1>4. /\ pc[o] = "idle" /\ pc' = [pc EXCEPT ![o] = "waiting"]
        /\ call' = [call EXCEPT ![o] = [op |-> op, batch |-> batch]]
        /\ reported' = [reported EXCEPT ![o] =
               [id \in EndpointID |-> IF id \notin DOMAIN batch THEN reported[o][id]
                                      ELSE IF op = "remove" THEN NotReported ELSE batch[id]]]
        /\ UNCHANGED <<routed, mutex, toRemove, toAdd, current, untried, started>>
    BY <1>1 DEF Call, frameVars, routerVars
  <1>5. /\ call'[o] = [op |-> op, batch |-> batch]
        /\ \A p \in Observer \ {o} : call'[p] = call[p] /\ reported'[p] = reported[p]
        /\ \A id \in EndpointID : reported'[o][id] =
              IF id \notin DOMAIN batch THEN reported[o][id]
              ELSE IF op = "remove" THEN NotReported ELSE batch[id]
    BY <1>4 DEF TypeOK
  <1>6. /\ op = "add" /\ Resyncing = {} => \A id \in DOMAIN batch : reported[o][id] = NotReported
        /\ op = "add" => \A id \in DOMAIN batch : reported[o][id] \in {NotReported, batch[id]}
    BY <1>3
  <1>7. Tells(o, op, batch)
    BY <1>1, <1>2, <1>4, <1>5, <1>6 DEF Tells
  <1> QED
    BY <1>1, <1>7

(* What is handled is of the batch.                                        *)
LEMMA HandStep ==
    ASSUME HandlerInv, HandlerInv', HandInv, [Next]_vars
    PROVE  HandInv'
  <1> USE DEF HandInv, HandlerInv
  <1>1. CASE UNCHANGED reportVars
    BY <1>1 DEF reportVars, Adding, TemplatesFor, RemovedBy, AddedBy
  <1>2. CASE LockForShutdown \/ FinishShutdown
    BY <1>2, Sentinels DEF LockForShutdown, FinishShutdown, observerVars, frameVars
  <1>3. ASSUME NEW o \in Observer, Callback(o)
        PROVE  HandInv'
    <2>0. PICK op \in {"add", "remove", "change"}, batch \in Batches(o) : Tells(o, op, batch)
      BY <1>3, CallbackReports
    <2>1. /\ DOMAIN batch \subseteq Reportable[o]
          /\ pc[o] = "idle" /\ call'[o] = [op |-> op, batch |-> batch]
          /\ \A p \in Observer \ {o} : call'[p] = call[p] /\ reported'[p] = reported[p]
          /\ \A id \in EndpointID : reported'[o][id] =
                IF id \notin DOMAIN batch THEN reported[o][id]
                ELSE IF op = "remove" THEN NotReported ELSE batch[id]
          /\ UNCHANGED <<mutex, toRemove, toAdd, current, untried, started>>
      BY <2>0 DEF Tells
    <2>2. mutex # o
      BY <2>1 DEF TypeOK
    <2>3. mutex \in Observer => call'[mutex] = call[mutex]
      BY <2>1, <2>2
    <2>4. /\ \A p \in Observer : DOMAIN call'[p].batch \subseteq Reportable[p]
          /\ \A p \in Observer, id \in EndpointID : reported'[p][id] # NotReported => id \in Reportable[p]
      BY <2>1
    <2> QED
      BY <2>1, <2>3, <2>4 DEF Adding, TemplatesFor, RemovedBy, AddedBy
  <1>4. ASSUME NEW o \in Observer, Lock(o)
        PROVE  HandInv'
    <2>1. /\ mutex' = o /\ toRemove' = RemovedBy(call[o]) /\ toAdd' = AddedBy(call[o])
          /\ UNCHANGED <<call, reported, current, untried, started>>
          /\ mutex = None
      BY <1>4 DEF Lock, observerVars, MutexFree
    <2>2. current = None /\ started = NothingStarted
      BY <2>1, Sentinels DEF FrameInv, Idle
    <2> QED
      BY <2>1, <2>2 DEF Adding, RemovedBy, AddedBy
  <1>5. ASSUME NEW o \in Observer, Unlock(o)
        PROVE  HandInv'
    BY <1>5, Sentinels DEF Unlock, observerVars
  <1>6. ASSUME NEW o \in Observer, Count(o)
        PROVE  HandInv'
    <2>1. /\ call' = [call EXCEPT ![o] = NoCall] /\ pc[o] = "counting"
          /\ UNCHANGED <<reported, mutex, toRemove, toAdd, current, untried, started>>
      BY <1>6 DEF Count, observerVars, frameVars
    <2>2. mutex # o
      BY <2>1 DEF TypeOK
    <2>3. mutex \in Observer => call'[mutex] = call[mutex]
      BY <2>1, <2>2 DEF TypeOK
    <2>4. \A p \in Observer : DOMAIN call'[p].batch \subseteq Reportable[p]
      BY <2>1 DEF TypeOK, NoCall
    <2> QED
      BY <2>1, <2>3, <2>4 DEF Adding, TemplatesFor, RemovedBy, AddedBy
  <1>7. ASSUME NEW id \in EndpointID, TakeRemoved(id)
        PROVE  HandInv'
    <2>1. /\ mutex \in Observer /\ current = None /\ id \in toRemove
          /\ UNCHANGED <<call, reported, mutex, toAdd, untried, started>>
          /\ toRemove' \subseteq toRemove
          /\ current' = None \/ (current' = id /\ toRemove' = toRemove)
      BY <1>7 DEF TakeRemoved, observerVars, Done
    <2>2. ~Adding' /\ started = NothingStarted
      BY <2>1 DEF Adding, FrameInv
    <2> QED
      BY <2>1, <2>2 DEF RemovedBy, AddedBy
  <1>8. ASSUME NEW id \in EndpointID, DropEndpoint(id)
        PROVE  HandInv'
    <2>1. /\ mutex \in Observer /\ current = id /\ id \in toRemove /\ current' = None
          /\ UNCHANGED <<call, reported, mutex, toAdd, untried, started>>
          /\ toRemove' \subseteq toRemove
      BY <1>8 DEF DropEndpoint, observerVars, Done
    <2>2. ~Adding' /\ started = NothingStarted
      BY <2>1 DEF Adding, FrameInv, Removing
    <2> QED
      BY <2>1, <2>2 DEF RemovedBy, AddedBy
  <1>9. ASSUME NEW id \in EndpointID, TakeAdded(id)
        PROVE  HandInv'
    <2>1. /\ mutex \in Observer /\ current = None /\ id \in toAdd /\ toRemove = {}
          /\ current' = id /\ toAdd' = toAdd \ {id} /\ untried' = TemplatesFor(call[mutex].batch[id])
          /\ UNCHANGED <<call, reported, mutex, toRemove, started>>
      BY <1>9 DEF TakeAdded, observerVars
    <2>2. started = NothingStarted
      BY <2>1 DEF FrameInv
    <2> QED
      BY <2>1, <2>2 DEF Adding, TemplatesFor, RemovedBy, AddedBy
  <1>10. ASSUME NEW t \in Template, NEW x, StartExporter(t, x)
         PROVE  HandInv'
    <2>1. /\ Adding /\ t \in untried /\ started'.template = t /\ untried' = untried \ {t}
          /\ UNCHANGED <<call, reported, mutex, toRemove, toAdd, current>>
      BY <1>10 DEF StartExporter, observerVars
    <2> QED
      BY <2>1 DEF Adding, TemplatesFor, RemovedBy, AddedBy
  <1>11. ASSUME NEW t \in Template, StartExporterFails(t)
         PROVE  HandInv'
    BY <1>11 DEF StartExporterFails, observerVars, Adding, TemplatesFor, RemovedBy, AddedBy
  <1>12. CASE Register
    BY <1>12 DEF Register, observerVars, Adding, TemplatesFor, RemovedBy, AddedBy
  <1>13. CASE NextEndpoint
    <2>1. ~Adding' /\ started' = NothingStarted
      BY <1>13 DEF NextEndpoint, Adding
    <2> QED
      BY <1>13, <2>1 DEF NextEndpoint, observerVars, RemovedBy, AddedBy
  <1> QED
    BY <1>1, <1>2, <1>3, <1>4, <1>5, <1>6, <1>7, <1>8, <1>9, <1>10, <1>11, <1>12, <1>13, ReportSteps

WantedBy(o, t, re) ==
    /\ reported[o][re.endpoint] \in Matches[t] /\ re.exporterType = TemplateType[t]
    /\ re.properties = RoutingProperties[t][reported[o][re.endpoint]]

LEMMA WantedEntry ==
    ASSUME NEW re \in RoutedExporter
    PROVE  Entry(re) \in Wanted <=> \E o \in Observer, t \in Template : WantedBy(o, t, re)
  <1>1. /\ Entry(re) \in [endpoint : EndpointID, exporterType : ExporterType, properties : Properties]
        /\ Entry(re).endpoint = re.endpoint /\ Entry(re).exporterType = re.exporterType
        /\ Entry(re).properties = re.properties
    BY DEF Entry, RoutedExporter
  <1> QED
    BY <1>1 DEF Wanted, WantedBy

LEMMA WantedEntryNext ==
    ASSUME NEW re \in RoutedExporter
    PROVE  (Entry(re) \in Wanted)' <=> \E o \in Observer, t \in Template : WantedBy(o, t, re)'
  <1>1. /\ Entry(re) \in [endpoint : EndpointID, exporterType : ExporterType, properties : Properties]
        /\ Entry(re).endpoint = re.endpoint /\ Entry(re).exporterType = re.exporterType
        /\ Entry(re).properties = re.properties
    BY DEF Entry, RoutedExporter
  <1> QED
    BY <1>1 DEF Wanted, WantedBy, Entry

(* The handler and its client agree on what an endpoint that is added      *)
(* looks like.                                                             *)
LEMMA AddsWhatIsReported ==
    ASSUME TypeOK, CountedInv, HandInv, NEW o \in Observer, NEW id \in AddedBy(call[o])
    PROVE  id \in EndpointID /\ id \in Reportable[o] /\ reported[o][id] = call[o].batch[id]
  <1>1. call[o].op # "remove" /\ id \in DOMAIN call[o].batch
    BY DEF AddedBy
  <1>2. id \in EndpointID /\ id \in Reportable[o]
    BY <1>1, ObserversType DEF HandInv
  <1> QED
    BY <1>1, <1>2 DEF CountedInv

(* Nothing is routed by what no observer reports, unless its removal is    *)
(* under way.                                                              *)
LEMMA JustifiedStep ==
    ASSUME HandlerInv, HandlerInv', CountedInv, HandInv, JustifiedInv, [Next]_vars
    PROVE  JustifiedInv'
  <1>0. TypeOK /\ TypeOK' /\ routed \subseteq RoutedExporter /\ routed' \subseteq RoutedExporter
    BY DEF HandlerInv, TypeOK
  <1> DEFINE Waits(re) == \E o \in Observer : pc[o] = "waiting" /\ re.endpoint \in RemovedBy(call[o])
             IsWanted(re) == \E o \in Observer, t \in Template : WantedBy(o, t, re)
  <1>1. \A re \in routed : IsWanted(re) \/ re.endpoint \in toRemove \/ Waits(re)
    BY <1>0, WantedEntry DEF JustifiedInv
  <1>2. SUFFICES \A re \in routed' : IsWanted(re)' \/ re.endpoint \in toRemove' \/ Waits(re)'
    BY <1>0, <1>2, WantedEntryNext DEF JustifiedInv
  <1>3. reported' = reported => \A re : IsWanted(re)' <=> IsWanted(re)
    BY DEF WantedBy
  <1>4. UNCHANGED <<pc, call>> => \A re : Waits(re)' <=> Waits(re)
    BY DEF RemovedBy
  <1>5. CASE UNCHANGED reportVars
    <2>1. UNCHANGED <<pc, call, reported, routed, toRemove>>
      BY <1>5 DEF reportVars
    <2> HIDE DEF IsWanted, Waits
    <2> QED
      BY <1>1, <1>3, <1>4, <2>1
  <1>6. CASE LockForShutdown \/ FinishShutdown
    <2>1. UNCHANGED <<pc, call, reported, routed, toRemove>>
      BY <1>6 DEF LockForShutdown, FinishShutdown, observerVars, frameVars, routerVars
    <2> HIDE DEF IsWanted, Waits
    <2> QED
      BY <1>1, <1>3, <1>4, <2>1
  <1>7. ASSUME NEW o \in Observer, Callback(o), NEW re \in routed'
        PROVE  IsWanted(re)' \/ re.endpoint \in toRemove' \/ Waits(re)'
    <2>1. PICK op \in {"add", "remove", "change"}, batch \in Batches(o) : Tells(o, op, batch)
      BY <1>0, <1>7, CallbackReports
    <2>2. re \in routed /\ toRemove' = toRemove /\ re.endpoint \in EndpointID
      BY <1>0, <1>7, <2>1 DEF Tells, RoutedExporter
    <2>3. ASSUME NEW p \in Observer, NEW t \in Template, WantedBy(p, t, re)
          PROVE  IsWanted(re)' \/ Waits(re)'
      <3>1. CASE reported'[p][re.endpoint] = reported[p][re.endpoint]
        BY <2>3, <3>1 DEF WantedBy
      <3>2. CASE reported'[p][re.endpoint] # reported[p][re.endpoint]
        <4>1. p = o /\ re.endpoint \in DOMAIN batch
          BY <2>1, <2>2, <3>2 DEF Tells
        <4>2. reported[o][re.endpoint] # NotReported
          BY <2>3, <4>1, TemplatesType, Sentinels DEF WantedBy
        <4>3. op # "add"
          BY <2>1, <2>2, <3>2, <4>1, <4>2 DEF Tells
        <4>4. re.endpoint \in RemovedBy(call'[o])
          BY <2>1, <4>1, <4>3 DEF Tells, RemovedBy
        <4>5. pc'[o] = "waiting"
          BY <1>0, <2>1 DEF Tells, TypeOK
        <4> QED
          BY <4>4, <4>5 DEF RemovedBy
      <3> QED
        BY <3>1, <3>2
    <2>4. ASSUME Waits(re)
          PROVE  Waits(re)'
      <3>1. PICK p \in Observer : pc[p] = "waiting" /\ re.endpoint \in RemovedBy(call[p])
        BY <2>4
      <3>2. p # o
        BY <2>1, <3>1 DEF Tells
      <3>3. pc'[p] = "waiting" /\ call'[p] = call[p]
        BY <1>0, <2>1, <3>1, <3>2 DEF Tells, TypeOK
      <3> QED
        BY <3>1, <3>3 DEF RemovedBy
    <2> HIDE DEF Waits
    <2> QED
      BY <1>1, <2>2, <2>3, <2>4
  <1>8. ASSUME NEW o \in Observer, Lock(o), NEW re \in routed'
        PROVE  IsWanted(re)' \/ re.endpoint \in toRemove' \/ Waits(re)'
    <2>1. /\ mutex = None /\ pc' = [pc EXCEPT ![o] = "handling"] /\ toRemove' = RemovedBy(call[o])
          /\ UNCHANGED <<routed, reported, call>>
      BY <1>8 DEF Lock, MutexFree, observerVars, routerVars
    <2>2. toRemove = {}
      BY <2>1, Sentinels DEF HandlerInv, FrameInv, Idle
    <2>3. ASSUME Waits(re)
          PROVE  re.endpoint \in toRemove' \/ Waits(re)'
      <3>1. PICK p \in Observer : pc[p] = "waiting" /\ re.endpoint \in RemovedBy(call[p])
        BY <2>3
      <3>2. CASE p = o
        BY <2>1, <3>1, <3>2
      <3>3. CASE p # o
        BY <1>0, <2>1, <3>1, <3>3 DEF TypeOK, RemovedBy
      <3> QED
        BY <3>2, <3>3
    <2> HIDE DEF Waits, IsWanted
    <2> QED
      BY <1>1, <1>3, <1>8, <2>1, <2>2, <2>3
  <1>9. ASSUME NEW o \in Observer, Unlock(o) \/ Count(o), NEW re \in routed'
        PROVE  IsWanted(re)' \/ re.endpoint \in toRemove' \/ Waits(re)'
    <2>1. /\ pc[o] # "waiting" /\ UNCHANGED <<routed, reported, toRemove>>
          /\ \A p \in Observer \ {o} : pc'[p] = pc[p] /\ call'[p] = call[p]
      BY <1>0, <1>9 DEF Unlock, Count, observerVars, frameVars, routerVars, TypeOK
    <2>2. Waits(re) => Waits(re)'
      BY <2>1 DEF RemovedBy
    <2> HIDE DEF Waits, IsWanted
    <2> QED
      BY <1>1, <1>3, <1>9, <2>1, <2>2
  <1>10. ASSUME NEW id \in EndpointID, TakeRemoved(id), NEW re \in routed'
         PROVE  IsWanted(re)' \/ re.endpoint \in toRemove' \/ Waits(re)'
    <2>1. /\ UNCHANGED <<routed, reported, pc, call>>
          /\ toRemove' = toRemove \/ (exportersByEndpoint[id] = {} /\ toRemove' = toRemove \ {id})
      BY <1>10 DEF TakeRemoved, Get, Done, observerVars, routerVars
    <2>2. exportersByEndpoint[id] = {} => re.endpoint # id
      BY <1>10, <2>1 DEF HandlerInv, RouterMirrorsHandler, RoutedTo
    <2> HIDE DEF Waits, IsWanted
    <2> QED
      BY <1>1, <1>3, <1>4, <1>10, <2>1, <2>2
  <1>11. ASSUME NEW id \in EndpointID, DropEndpoint(id), NEW re \in routed'
         PROVE  IsWanted(re)' \/ re.endpoint \in toRemove' \/ Waits(re)'
    <2>1. /\ UNCHANGED <<reported, pc, call>>
          /\ routed' = routed \ RoutedTo(id) /\ toRemove' = toRemove \ {id}
      BY <1>11 DEF DropEndpoint, RemoveExporter, Done, observerVars
    <2>2. re \in routed /\ re.endpoint # id
      BY <1>11, <2>1 DEF RoutedTo
    <2> HIDE DEF Waits, IsWanted
    <2> QED
      BY <1>1, <1>3, <1>4, <2>1, <2>2
  <1>12. ASSUME \/ NextEndpoint \/ \E id \in EndpointID : TakeAdded(id)
                \/ \E t \in Template : StartExporter(t, NewExporter) \/ StartExporterFails(t),
                NEW re \in routed'
         PROVE  IsWanted(re)' \/ re.endpoint \in toRemove' \/ Waits(re)'
    <2>1. UNCHANGED <<routed, reported, pc, call, toRemove>>
      BY <1>12 DEF NextEndpoint, TakeAdded, StartExporter, StartExporterFails, observerVars, routerVars
    <2> HIDE DEF Waits, IsWanted
    <2> QED
      BY <1>1, <1>3, <1>4, <1>12, <2>1
  <1>13. ASSUME Register, NEW re \in routed'
         PROVE  IsWanted(re)' \/ re.endpoint \in toRemove' \/ Waits(re)'
    <2>1. /\ UNCHANGED <<reported, pc, call, toRemove>> /\ Adding /\ started # NothingStarted
          /\ routed' = routed \cup {[endpoint |-> current, exporter |-> started.exporter,
               exporterType |-> TemplateType[started.template],
               properties |-> RoutingProperties[started.template][call[mutex].batch[current]]]}
      BY <1>13 DEF Register, AddExporter, observerVars
    <2>2. CASE re \in routed
      <3> HIDE DEF Waits, IsWanted
      <3> QED
        BY <1>1, <1>3, <1>4, <2>1, <2>2
    <2>3. CASE re \notin routed
      <3>1. mutex \in Observer /\ started.template \in Template
        BY <1>0, <2>1 DEF Adding, TypeOK, StartedExporter
      <3>2. current \in AddedBy(call[mutex]) /\ call[mutex].batch[current] \in Matches[started.template]
        BY <2>1, <3>1 DEF HandInv, TemplatesFor
      <3>3. reported[mutex][current] = call[mutex].batch[current]
        BY <1>0, <3>1, <3>2, AddsWhatIsReported
      <3>4. /\ re.endpoint = current /\ re.exporterType = TemplateType[started.template]
            /\ re.properties = RoutingProperties[started.template][reported[mutex][current]]
        BY <1>13, <2>1, <2>3, <3>3
      <3>5. WantedBy(mutex, started.template, re)
        BY <3>2, <3>3, <3>4 DEF WantedBy
      <3>6. IsWanted(re)
        BY <3>1, <3>5
      <3> QED
        BY <1>3, <2>1, <3>6
    <2> QED
      BY <2>2, <2>3
  <1> HIDE DEF Waits, IsWanted
  <1> QED
    BY <1>5, <1>6, <1>7, <1>8, <1>9, <1>10, <1>11, <1>12, <1>13, ReportSteps

(* What is reported is routed once it was handled, for observers that do   *)
(* not take each other's endpoints away and exporters that start.          *)
LEMMA ReachedStep ==
    ASSUME Owned, ~StartMayFail, HandlerInv, HandlerInv', CountedInv, HandInv, ReachedInv,
           [Next]_vars
    PROVE  ReachedInv'
  <1>0. TypeOK /\ TypeOK' /\ FrameInv
    BY DEF HandlerInv
  <1> SUFFICES ASSUME NEW o \in Observer, NEW id \in EndpointID, NEW t \in Template,
                      reported'[o][id] \in Matches[t]
               PROVE  OnItsWay(o, id, t)' \/ RoutedFor(id, t, reported[o][id])'
    BY DEF ReachedInv
  <1>1. reported[o][id] \in Matches[t] => OnItsWay(o, id, t) \/ RoutedFor(id, t, reported[o][id])
    BY DEF ReachedInv
  <1>2. UNCHANGED <<routed, reported>> /\ RoutedFor(id, t, reported[o][id])
          => RoutedFor(id, t, reported[o][id])'
    BY DEF RoutedFor
  <1>3. CASE UNCHANGED reportVars
    <2>1. UNCHANGED <<routed, reported, pc, call, mutex, toRemove, toAdd, current, untried, started>>
      BY <1>3 DEF reportVars
    <2>2. OnItsWay(o, id, t) => OnItsWay(o, id, t)'
      BY <2>1 DEF OnItsWay, Adding, AddedBy
    <2> QED
      BY <1>1, <1>2, <2>1, <2>2
  <1>4. CASE LockForShutdown \/ FinishShutdown
    <2>1. /\ UNCHANGED <<routed, reported, pc, call, toAdd>> /\ mutex \in {None, Creator}
      BY <1>4 DEF LockForShutdown, FinishShutdown, MutexFree, observerVars, frameVars, routerVars
    <2>2. OnItsWay(o, id, t) => OnItsWay(o, id, t)'
      BY <2>1, Sentinels DEF OnItsWay, Adding, AddedBy
    <2> QED
      BY <1>1, <1>2, <2>1, <2>2
  <1>5. ASSUME NEW p \in Observer, Callback(p)
        PROVE  OnItsWay(o, id, t)' \/ RoutedFor(id, t, reported[o][id])'
    <2>1. PICK op \in {"add", "remove", "change"}, batch \in Batches(p) : Tells(p, op, batch)
      BY <1>0, <1>5, CallbackReports
    <2>2. /\ pc[p] = "idle" /\ pc'[p] = "waiting" /\ call'[p] = [op |-> op, batch |-> batch]
          /\ \A q \in Observer \ {p} : /\ call'[q] = call[q] /\ reported'[q] = reported[q]
                                       /\ pc'[q] = pc[q]
          /\ UNCHANGED <<routed, mutex, toRemove, toAdd, current, untried, started>>
      BY <1>0, <2>1 DEF Tells, TypeOK
    <2>3. CASE o # p
      <3>1. OnItsWay(o, id, t) => OnItsWay(o, id, t)'
        BY <2>2, <2>3 DEF OnItsWay, Adding, AddedBy
      <3> QED
        BY <1>1, <2>2, <2>3, <3>1 DEF RoutedFor
    <2>4. CASE o = p /\ id \in DOMAIN batch
      <3>1. op # "remove"
        BY <2>1, <2>4, TemplatesType, Sentinels DEF Tells
      <3>2. id \in AddedBy(call'[o])
        BY <2>2, <2>4, <3>1 DEF AddedBy
      <3> QED
        BY <2>2, <2>4, <3>2 DEF OnItsWay, AddedBy
    <2>5. CASE o = p /\ id \notin DOMAIN batch
      <3>1. reported'[o][id] = reported[o][id]
        BY <2>1, <2>5 DEF Tells
      <3>2. mutex # o
        BY <1>0, <2>2, <2>5 DEF TypeOK
      <3>3. RoutedFor(id, t, reported[o][id])
        BY <1>1, <2>2, <2>5, <3>1, <3>2 DEF OnItsWay
      <3> QED
        BY <2>2, <3>1, <3>3 DEF RoutedFor
    <2> QED
      BY <2>3, <2>4, <2>5
  <1>6. ASSUME NEW p \in Observer, Lock(p)
        PROVE  OnItsWay(o, id, t)' \/ RoutedFor(id, t, reported[o][id])'
    <2>1. /\ mutex = None /\ mutex' = p /\ toAdd' = AddedBy(call[p])
          /\ UNCHANGED <<routed, reported, call>> /\ \A q \in Observer \ {p} : pc'[q] = pc[q]
      BY <1>0, <1>6 DEF Lock, MutexFree, observerVars, routerVars, TypeOK
    <2>2. OnItsWay(o, id, t) => pc[o] = "waiting" /\ id \in AddedBy(call[o])
      BY <2>1, Sentinels DEF OnItsWay
    <2>3. OnItsWay(o, id, t) => OnItsWay(o, id, t)'
      BY <2>1, <2>2 DEF OnItsWay, AddedBy
    <2> QED
      BY <1>1, <1>2, <2>1, <2>3
  <1>7. ASSUME NEW p \in Observer, Unlock(p)
        PROVE  OnItsWay(o, id, t)' \/ RoutedFor(id, t, reported[o][id])'
    <2>1. /\ mutex = p /\ current = None /\ toAdd = {} /\ pc[p] = "handling"
          /\ UNCHANGED <<routed, reported, call>> /\ \A q \in Observer \ {p} : pc'[q] = pc[q]
      BY <1>0, <1>7 DEF Unlock, observerVars, routerVars, TypeOK
    <2>2. OnItsWay(o, id, t) => pc[o] = "waiting" /\ id \in AddedBy(call[o]) /\ o # p
      BY <2>1 DEF OnItsWay, Adding
    <2>3. OnItsWay(o, id, t) => OnItsWay(o, id, t)'
      BY <2>1, <2>2 DEF OnItsWay, AddedBy
    <2> QED
      BY <1>1, <1>2, <2>1, <2>3
  <1>8. ASSUME NEW p \in Observer, Count(p)
        PROVE  OnItsWay(o, id, t)' \/ RoutedFor(id, t, reported[o][id])'
    <2>1. /\ pc[p] = "counting"
          /\ UNCHANGED <<routed, reported, mutex, toRemove, toAdd, current, untried, started>>
          /\ \A q \in Observer \ {p} : pc'[q] = pc[q] /\ call'[q] = call[q]
      BY <1>0, <1>8 DEF Count, observerVars, frameVars, routerVars, TypeOK
    <2>2. OnItsWay(o, id, t) => OnItsWay(o, id, t)'
      BY <2>1 DEF OnItsWay, Adding, AddedBy
    <2> QED
      BY <1>1, <1>2, <2>1, <2>2
  <1>9. ASSUME NEW i \in EndpointID, TakeRemoved(i)
        PROVE  OnItsWay(o, id, t)' \/ RoutedFor(id, t, reported[o][id])'
    <2>1. /\ current = None
          /\ UNCHANGED <<routed, reported, pc, call, mutex, toAdd>>
      BY <1>9 DEF TakeRemoved, observerVars, routerVars
    <2>2. OnItsWay(o, id, t) => OnItsWay(o, id, t)'
      BY <2>1 DEF OnItsWay, Adding, AddedBy
    <2> QED
      BY <1>1, <1>2, <2>1, <2>2
  <1>10. ASSUME NEW i \in EndpointID, DropEndpoint(i)
         PROVE  OnItsWay(o, id, t)' \/ RoutedFor(id, t, reported[o][id])'
    <2>1. /\ mutex \in Observer /\ current = i /\ i \in toRemove
          /\ routed' = routed \ RoutedTo(i)
          /\ UNCHANGED <<reported, pc, call, mutex, toAdd>>
      BY <1>10 DEF DropEndpoint, RemoveExporter, observerVars
    <2>2. OnItsWay(o, id, t) => OnItsWay(o, id, t)'
      BY <2>1 DEF OnItsWay, Adding, AddedBy
    <2>3. CASE id # i
      <3>1. RoutedFor(id, t, reported[o][id]) => RoutedFor(id, t, reported[o][id])'
        BY <2>1, <2>3 DEF RoutedFor, RoutedTo
      <3> QED
        BY <1>1, <2>1, <2>2, <3>1
    <2>4. CASE id = i
      <3>1. id \in RemovedBy(call[mutex]) /\ toAdd = AddedBy(call[mutex])
        BY <2>1, <2>4 DEF HandInv
      <3>2. id \in DOMAIN call[mutex].batch
        BY <3>1 DEF RemovedBy
      <3>3. id \in Reportable[mutex] /\ id \in Reportable[o]
        <4>1. reported[o][id] # NotReported
          BY <2>1, TemplatesType, Sentinels
        <4> QED
          BY <2>1, <3>2, <4>1 DEF HandInv
      <3>4. mutex = o
        BY <2>1, <3>3 DEF Owned
      <3>5. call[o].op # "remove"
        <4>1. call[o].op = "remove" => reported[o][id] = NotReported
          BY <3>2, <3>4 DEF CountedInv
        <4> QED
          BY <2>1, <4>1, TemplatesType, Sentinels
      <3>6. id \in toAdd
        BY <3>1, <3>2, <3>4, <3>5 DEF RemovedBy, AddedBy
      <3> QED
        BY <2>1, <3>4, <3>6 DEF OnItsWay
    <2> QED
      BY <2>3, <2>4
  <1>11. ASSUME NEW i \in EndpointID, TakeAdded(i)
         PROVE  OnItsWay(o, id, t)' \/ RoutedFor(id, t, reported[o][id])'
    <2>1. /\ mutex \in Observer /\ current = None /\ i \in toAdd /\ toRemove = {} /\ toRemove' = {}
          /\ current' = i /\ toAdd' = toAdd \ {i} /\ untried' = TemplatesFor(call[mutex].batch[i])
          /\ UNCHANGED <<routed, reported, pc, call, mutex, started>>
      BY <1>11 DEF TakeAdded, observerVars, routerVars
    <2>2. CASE mutex = o /\ id = i
      <3>1. i \in AddedBy(call[mutex])
        BY <2>1 DEF HandInv
      <3>2. reported[o][id] = call[o].batch[id]
        BY <1>0, <2>2, <3>1, AddsWhatIsReported
      <3>3. t \in untried'
        BY <2>1, <2>2, <3>2 DEF TemplatesFor
      <3>4. Adding'
        BY <1>0, <2>1, Sentinels DEF Adding
      <3> QED
        BY <2>1, <2>2, <3>3, <3>4 DEF OnItsWay
    <2>3. CASE ~(mutex = o /\ id = i)
      <3>1. OnItsWay(o, id, t) => OnItsWay(o, id, t)'
        BY <2>1, <2>3 DEF OnItsWay, Adding, AddedBy
      <3> QED
        BY <1>1, <1>2, <2>1, <3>1
    <2> QED
      BY <2>2, <2>3
  <1>12. ASSUME NEW u \in Template, StartExporter(u, NewExporter)
         PROVE  OnItsWay(o, id, t)' \/ RoutedFor(id, t, reported[o][id])'
    <2>1. /\ started = NothingStarted /\ untried' = untried \ {u}
          /\ started' = [exporter |-> NewExporter, template |-> u] /\ NewExporter \in Exporter
          /\ UNCHANGED <<routed, reported, pc, call, mutex, toRemove, toAdd, current>>
      BY <1>12 DEF StartExporter, observerVars, routerVars
    <2>2. started' # NothingStarted /\ started'.template = u
      BY <2>1, Sentinels DEF NothingStarted
    <2>3. OnItsWay(o, id, t) => OnItsWay(o, id, t)'
      BY <2>1, <2>2 DEF OnItsWay, Adding, AddedBy, NothingStarted
    <2> QED
      BY <1>1, <1>2, <2>1, <2>3
  <1>13. CASE \E u \in Template : StartExporterFails(u)
    BY <1>13 DEF StartExporterFails
  <1>14. CASE Register
    <2>1. /\ started # NothingStarted /\ started' = NothingStarted /\ Adding
          /\ UNCHANGED <<reported, pc, call, mutex, toRemove, toAdd, current, untried>>
          /\ routed' = routed \cup {[endpoint |-> current, exporter |-> started.exporter,
               exporterType |-> TemplateType[started.template],
               properties |-> RoutingProperties[started.template][call[mutex].batch[current]]]}
      BY <1>14 DEF Register, AddExporter, observerVars
    <2>2. RoutedFor(id, t, reported[o][id]) => RoutedFor(id, t, reported[o][id])'
      BY <2>1 DEF RoutedFor
    <2>3. CASE mutex = o /\ current = id /\ started.template = t
      <3>1. current \in AddedBy(call[mutex])
        BY <2>1, <2>3 DEF HandInv
      <3>2. reported[o][id] = call[mutex].batch[current]
        BY <1>0, <2>3, <3>1, AddsWhatIsReported
      <3> DEFINE new == [endpoint |-> current, exporter |-> started.exporter,
               exporterType |-> TemplateType[started.template],
               properties |-> RoutingProperties[started.template][call[mutex].batch[current]]]
      <3>3. /\ new \in routed'
            /\ new.endpoint = current /\ new.exporterType = TemplateType[started.template]
            /\ new.properties = RoutingProperties[started.template][call[mutex].batch[current]]
        BY <2>1
      <3> HIDE DEF new
      <3>4. /\ new.endpoint = id /\ new.exporterType = TemplateType[t]
            /\ new.properties = RoutingProperties[t][reported'[o][id]]
        BY <2>1, <2>3, <3>2, <3>3
      <3> QED
        BY <3>3, <3>4 DEF RoutedFor
    <2>4. CASE ~(mutex = o /\ current = id /\ started.template = t)
      <3>1. OnItsWay(o, id, t) => OnItsWay(o, id, t)'
        BY <2>1, <2>4 DEF OnItsWay, Adding, AddedBy
      <3> QED
        BY <1>1, <2>1, <2>2, <3>1
    <2> QED
      BY <2>3, <2>4
  <1>15. CASE NextEndpoint
    <2>1. /\ started = NothingStarted /\ untried = {}
          /\ UNCHANGED <<routed, reported, pc, call, mutex, toAdd>>
      BY <1>15 DEF NextEndpoint, observerVars, routerVars
    <2>2. OnItsWay(o, id, t) => OnItsWay(o, id, t)'
      BY <2>1 DEF OnItsWay, Adding, AddedBy
    <2> QED
      BY <1>1, <1>2, <2>1, <2>2
  <1> QED
    BY <1>3, <1>4, <1>5, <1>6, <1>7, <1>8, <1>9, <1>10, <1>11, <1>12, <1>13, <1>14, <1>15, ReportSteps

(* To an endpoint that its observer does not report nothing is routed.     *)
LEMMA UnreportedIsUnrouted ==
    ASSUME Owned, HandlerInv, HandInv, JustifiedInv, NEW o \in Observer, pc[o] = "idle",
           NEW id \in Reportable[o], reported[o][id] = NotReported
    PROVE  RoutedTo(id) = {}
  <1> SUFFICES ASSUME NEW re \in routed, re.endpoint = id PROVE FALSE
    BY DEF RoutedTo
  <1>1. TypeOK /\ re \in RoutedExporter /\ id \in EndpointID /\ mutex # o
    BY DEF HandlerInv, TypeOK, RoutedExporter
  <1>2. CASE Entry(re) \in Wanted
    <2>1. PICK p \in Observer, t \in Template : WantedBy(p, t, re)
      BY <1>1, <1>2, WantedEntry
    <2>2. reported[p][id] # NotReported
      BY <2>1, TemplatesType, Sentinels DEF WantedBy
    <2>3. id \in Reportable[p]
      BY <1>1, <2>2 DEF HandInv
    <2> QED
      BY <2>2, <2>3 DEF Owned
  <1>3. CASE id \in toRemove
    <2>1. mutex \in Observer
      BY <1>3 DEF HandlerInv, FrameInv, Idle
    <2>2. id \in Reportable[mutex]
      BY <1>3, <2>1 DEF HandInv, RemovedBy
    <2> QED
      BY <1>1, <2>1, <2>2 DEF Owned
  <1>4. CASE \E p \in Observer : pc[p] = "waiting" /\ id \in RemovedBy(call[p])
    <2>1. PICK p \in Observer : pc[p] = "waiting" /\ id \in RemovedBy(call[p])
      BY <1>4
    <2>2. id \in Reportable[p]
      BY <2>1 DEF HandInv, RemovedBy
    <2> QED
      BY <2>1, <2>2 DEF Owned
  <1> QED
    BY <1>2, <1>3, <1>4 DEF JustifiedInv

(* An endpoint that is reported once has one exporter for each rule.       *)
LEMMA FreshStep ==
    ASSUME Owned, DistinctTypes, Resyncing = {},
           HandlerInv, HandlerInv', HandInv, JustifiedInv, FreshInv,
           [Next]_vars
    PROVE  FreshInv'
  <1>0. TypeOK /\ TypeOK' /\ FrameInv
    BY DEF HandlerInv
  <1>1. FreshCalls /\ FreshAdditions /\ FreshTypes /\ OneExporterPerRule
    BY DEF FreshInv
  <1>2. routed' = routed => OneExporterPerRule' /\ \A id : RoutedTo(id)' = RoutedTo(id)
    BY <1>1 DEF OneExporterPerRule, RoutedTo
  <1>3. CASE UNCHANGED reportVars
    BY <1>1, <1>2, <1>3 DEF reportVars, FreshInv, FreshCalls, FreshAdditions, FreshTypes, Adding
  <1>4. CASE LockForShutdown \/ FinishShutdown
    <2>1. /\ UNCHANGED <<routed, pc, call, toRemove, toAdd>> /\ mutex' \notin Observer
      BY <1>4, Sentinels DEF LockForShutdown, FinishShutdown, observerVars, frameVars, routerVars
    <2> QED
      BY <1>1, <1>2, <2>1 DEF FreshInv, FreshCalls, FreshAdditions, FreshTypes, Adding
  <1>5. ASSUME NEW o \in Observer, Callback(o)
        PROVE  FreshInv'
    <2>1. PICK op \in {"add", "remove", "change"}, batch \in Batches(o) : Tells(o, op, batch)
      BY <1>0, <1>5, CallbackReports
    <2>2. /\ pc[o] = "idle" /\ call'[o] = [op |-> op, batch |-> batch]
          /\ \A p \in Observer \ {o} : call'[p] = call[p] /\ pc'[p] = pc[p]
          /\ UNCHANGED <<routed, mutex, toRemove, toAdd, current, untried, started>>
      BY <1>0, <2>1 DEF Tells, TypeOK
    <2>3. op = "add" => \A id \in DOMAIN batch : RoutedTo(id) = {}
      <3>1. op = "add" => \A id \in DOMAIN batch :
                             id \in Reportable[o] /\ reported[o][id] = NotReported
        BY <2>1 DEF Tells
      <3> QED
        BY <2>2, <3>1, UnreportedIsUnrouted
    <2>4. FreshCalls'
      BY <1>1, <1>2, <2>2, <2>3 DEF FreshCalls
    <2> QED
      BY <1>1, <1>2, <2>2, <2>4 DEF FreshInv, FreshAdditions, FreshTypes, Adding
  <1>6. ASSUME NEW o \in Observer, Lock(o)
        PROVE  FreshInv'
    <2>1. /\ mutex = None /\ pc[o] = "waiting" /\ pc'[o] = "handling"
          /\ toRemove' = RemovedBy(call[o]) /\ toAdd' = AddedBy(call[o])
          /\ UNCHANGED <<routed, call, current, untried, started>>
          /\ \A p \in Observer \ {o} : pc'[p] = pc[p]
      BY <1>0, <1>6 DEF Lock, MutexFree, routerVars, TypeOK
    <2>2. current = None
      BY <2>1, Sentinels DEF HandlerInv, FrameInv, Idle
    <2>3. FreshAdditions'
      BY <1>1, <1>2, <2>1 DEF FreshCalls, FreshAdditions, RemovedBy, AddedBy
    <2> QED
      BY <1>1, <1>2, <2>1, <2>2, <2>3 DEF FreshInv, FreshCalls, FreshTypes, Adding
  <1>7. ASSUME NEW o \in Observer, Unlock(o) \/ Count(o)
        PROVE  FreshInv'
    <2>1. /\ pc'[o] # "waiting" /\ mutex' \in {mutex, None}
          /\ UNCHANGED <<routed, toRemove, toAdd, current, untried, started>>
          /\ \A p \in Observer \ {o} : pc'[p] = pc[p] /\ call'[p] = call[p]
      BY <1>0, <1>7 DEF Unlock, Count, frameVars, routerVars, TypeOK
    <2> QED
      BY <1>1, <1>2, <2>1, Sentinels DEF FreshInv, FreshCalls, FreshAdditions, FreshTypes, Adding
  <1>8. ASSUME NEW id \in EndpointID, TakeRemoved(id)
        PROVE  FreshInv'
    <2>1. /\ UNCHANGED <<routed, pc, call, toAdd>>
          /\ \/ toRemove' = toRemove /\ current' = id /\ id \in toRemove
             \/ exportersByEndpoint[id] = {} /\ toRemove' = toRemove \ {id} /\ current' = None
      BY <1>8 DEF TakeRemoved, Get, Done, routerVars
    <2>2. ~Adding'
      BY <2>1 DEF Adding
    <2>3. exportersByEndpoint[id] = {} => RoutedTo(id) = {}
      BY DEF HandlerInv, RouterMirrorsHandler
    <2>4. FreshAdditions'
      BY <1>1, <1>2, <2>1, <2>3 DEF FreshAdditions
    <2> QED
      BY <1>1, <1>2, <2>1, <2>2, <2>4 DEF FreshInv, FreshCalls, FreshTypes
  <1>9. ASSUME NEW id \in EndpointID, DropEndpoint(id)
        PROVE  FreshInv'
    <2>1. /\ routed' = routed \ RoutedTo(id) /\ toRemove' = toRemove \ {id} /\ current' = None
          /\ UNCHANGED <<pc, call, toAdd>>
      BY <1>9 DEF DropEndpoint, RemoveExporter, Done
    <2>2. /\ RoutedTo(id)' = {} /\ \A i : RoutedTo(i)' \subseteq RoutedTo(i)
      BY <2>1 DEF RoutedTo
    <2>3. FreshAdditions'
      <3> SUFFICES ASSUME NEW i \in toAdd' \ toRemove' PROVE RoutedTo(i)' = {}
        BY DEF FreshAdditions
      <3>1. CASE i = id
        BY <2>2, <3>1
      <3>2. CASE i # id
        <4>1. RoutedTo(i) = {}
          BY <1>1, <2>1, <3>2 DEF FreshAdditions
        <4> QED
          BY <2>2, <4>1
      <3> QED
        BY <3>1, <3>2
    <2>4. FreshCalls'
      BY <1>1, <2>1, <2>2 DEF FreshCalls
    <2>5. OneExporterPerRule'
      BY <1>1, <2>1 DEF OneExporterPerRule
    <2> QED
      BY <2>1, <2>3, <2>4, <2>5 DEF FreshInv, FreshTypes, Adding
  <1>10. ASSUME NEW id \in EndpointID, TakeAdded(id)
         PROVE  FreshInv'
    <2>1. /\ toRemove = {} /\ toRemove' = {} /\ id \in toAdd /\ toAdd' = toAdd \ {id} /\ current' = id
          /\ UNCHANGED <<routed, pc, call>>
      BY <1>10 DEF TakeAdded, routerVars
    <2>2. RoutedTo(id) = {}
      BY <1>1, <2>1 DEF FreshAdditions
    <2> QED
      BY <1>1, <1>2, <2>1, <2>2 DEF FreshInv, FreshCalls, FreshAdditions, FreshTypes
  <1>11. ASSUME NEW t \in Template, StartExporter(t, NewExporter)
         PROVE  FreshInv'
    <2>1. /\ Adding /\ t \in untried /\ untried' = untried \ {t} /\ started'.template = t
          /\ UNCHANGED <<routed, pc, call, toRemove, toAdd, current>>
      BY <1>11 DEF StartExporter, routerVars
    <2>2. FreshTypes'
      BY <1>1, <1>2, <2>1 DEF FreshTypes
    <2> QED
      BY <1>1, <1>2, <2>1, <2>2 DEF FreshInv, FreshCalls, FreshAdditions
  <1>12. CASE NextEndpoint \/ \E t \in Template : StartExporterFails(t)
    <2>1. /\ UNCHANGED <<routed, pc, call, mutex, toRemove, toAdd, started>> /\ untried' \subseteq untried
          /\ current' \in {current, None}
      BY <1>12 DEF NextEndpoint, StartExporterFails, routerVars
    <2>2. FreshTypes'
      BY <1>1, <1>2, <2>1 DEF FreshTypes, Adding
    <2> QED
      BY <1>1, <1>2, <2>1, <2>2 DEF FreshInv, FreshCalls, FreshAdditions
  <1>13. CASE Register
    <2> DEFINE new == [endpoint |-> current, exporter |-> started.exporter,
               exporterType |-> TemplateType[started.template],
               properties |-> RoutingProperties[started.template][call[mutex].batch[current]]]
    <2>1. /\ Adding /\ started # NothingStarted /\ started' = NothingStarted
          /\ UNCHANGED <<pc, call, mutex, toRemove, toAdd, current, untried>>
          /\ routed' = routed \cup {new}
      BY <1>13 DEF Register, AddExporter
    <2>2. new.endpoint = current /\ new.exporterType = TemplateType[started.template]
      OBVIOUS
    <2>3. /\ mutex \in Observer /\ pc[mutex] = "handling" /\ current \in AddedBy(call[mutex])
          /\ current \notin toAdd /\ current \in Reportable[mutex]
          /\ started.template \in Template \ untried /\ untried \subseteq Template
      <3>1. mutex \in Observer /\ pc[mutex] = "handling"
        BY <1>0, <2>1 DEF Adding, TypeOK
      <3>2. current \in AddedBy(call[mutex]) /\ current \notin toAdd /\ current \in Reportable[mutex]
        BY <2>1, <3>1 DEF HandInv, AddedBy
      <3>3. started.template \in Template \ untried /\ untried \subseteq Template
        BY <1>0, <2>1, <3>1 DEF HandInv, TemplatesFor, TypeOK
      <3> QED
        BY <3>1, <3>2, <3>3
    <2> HIDE DEF new
    <2>4. /\ \A i : i # current => RoutedTo(i)' = RoutedTo(i)
          /\ RoutedTo(current)' = RoutedTo(current) \cup {new}
      BY <2>1, <2>2 DEF RoutedTo
    <2>5. FreshCalls'
      <3>1. ASSUME NEW o \in Observer, pc[o] = "waiting", NEW id \in DOMAIN call[o].batch
            PROVE  id # current
        <4>1. o # mutex /\ id \in Reportable[o]
          BY <2>3, <3>1 DEF HandInv
        <4> QED
          BY <2>3, <4>1 DEF Owned
      <3> QED
        BY <1>1, <2>1, <2>4, <3>1 DEF FreshCalls
    <2>6. FreshAdditions'
      BY <1>1, <2>1, <2>3, <2>4 DEF FreshAdditions
    <2>7. FreshTypes'
      <3>1. \A t \in untried : TemplateType[t] # new.exporterType
        BY <2>2, <2>3 DEF DistinctTypes
      <3> QED
        BY <1>1, <2>1, <2>4, <3>1 DEF FreshTypes
    <2>8. OneExporterPerRule'
      <3>1. \A re \in routed : re.endpoint = current => re.exporterType # new.exporterType
        BY <1>1, <2>1, <2>2 DEF FreshTypes, RoutedTo
      <3> QED
        BY <1>1, <2>1, <2>2, <3>1 DEF OneExporterPerRule
    <2> QED
      BY <2>5, <2>6, <2>7, <2>8 DEF FreshInv
  <1> QED
    BY <1>3, <1>4, <1>5, <1>6, <1>7, <1>8, <1>9, <1>10, <1>11, <1>12, <1>13, ReportSteps

LEMMA RoutingInitially ==
    Init => HandInv /\ JustifiedInv /\ ReachedInv /\ FreshInv
  <1> SUFFICES ASSUME Init PROVE HandInv /\ JustifiedInv /\ ReachedInv /\ FreshInv
    OBVIOUS
  <1>1. /\ routed = {} /\ toAdd = {} /\ mutex = None /\ started = NothingStarted
        /\ \A o \in Observer : pc[o] = "idle" /\ call[o] = NoCall
        /\ \A o \in Observer, id \in EndpointID : reported[o][id] = NotReported
    BY DEF Init, RouterInit
  <1>2. HandInv
    BY <1>1, Sentinels DEF HandInv, NoCall
  <1>3. JustifiedInv
    BY <1>1 DEF JustifiedInv
  <1>4. ReachedInv
    BY <1>1, TemplatesType, Sentinels DEF ReachedInv
  <1>5. FreshInv
    BY <1>1, Sentinels
    DEF FreshInv, FreshCalls, FreshAdditions, FreshTypes, RoutedTo, OneExporterPerRule, Adding
  <1> QED
    BY <1>2, <1>3, <1>4, <1>5

LEMMA JustifiedAlways == Spec => [](HandInv /\ JustifiedInv)
  <1>1. HandlerInv /\ HandlerInv' /\ CountedInv /\ HandInv /\ JustifiedInv /\ [Next]_vars
          => HandInv' /\ JustifiedInv'
    BY HandStep, JustifiedStep
  <1> QED
    BY <1>1, RoutingInitially, HandlerInvariant, CountedAlways, PTL DEF Spec

(* observerhandler.go:60-98, 107-154: once callbacks have settled, nothing *)
(* is routed that no observer reports, however they race, resync, retract  *)
(* what they never reported, share endpoints or report what does not start *)
(* (if what changed is reported as a change).                              *)
THEOREM NothingElseIsRouted == Spec => []RoutesOnlyWhatIsReported
  <1>1. HandlerInv /\ JustifiedInv => RoutesOnlyWhatIsReported
    <2> SUFFICES ASSUME HandlerInv, JustifiedInv, Quiescent, NEW re \in routed
                 PROVE  Entry(re) \in Wanted
      BY DEF RoutesOnlyWhatIsReported
    <2>1. \A o \in Observer : pc[o] = "idle"
      BY DEF Quiescent
    <2>2. mutex \notin Observer
      BY <2>1 DEF HandlerInv, TypeOK
    <2>3. toRemove = {}
      BY <2>2 DEF HandlerInv, FrameInv, Idle
    <2> QED
      BY <2>1, <2>3 DEF JustifiedInv
  <1> QED
    BY <1>1, HandlerInvariant, JustifiedAlways, PTL

(* observerhandler.go:60-98: if no observer reports another's endpoints     *)
(* and exporters start, then once callbacks have settled each endpoint is  *)
(* routed through every template that matches it, as it was last reported. *)
THEOREM ReportsAreRouted ==
    ASSUME Owned, ~StartMayFail
    PROVE  Spec => []EveryReportIsRouted
  <1>1. HandlerInv /\ HandlerInv' /\ CountedInv /\ HandInv /\ ReachedInv /\ [Next]_vars => ReachedInv'
    BY ReachedStep
  <1>2. Spec => []ReachedInv
    BY <1>1, RoutingInitially, HandlerInvariant, CountedAlways, JustifiedAlways, PTL DEF Spec
  <1>3. HandlerInv /\ ReachedInv => EveryReportIsRouted
    <2> SUFFICES ASSUME HandlerInv, ReachedInv, Quiescent, NEW w \in Wanted
                 PROVE  \E re \in routed : Entry(re) = w
      BY DEF EveryReportIsRouted
    <2>1. PICK o \in Observer, t \in Template :
              /\ reported[o][w.endpoint] \in Matches[t] /\ w.exporterType = TemplateType[t]
              /\ w.properties = RoutingProperties[t][reported[o][w.endpoint]]
      BY DEF Wanted
    <2>2. w \in [endpoint : EndpointID, exporterType : ExporterType, properties : Properties]
      BY DEF Wanted
    <2>3. pc[o] = "idle" /\ mutex # o
      BY DEF Quiescent, HandlerInv, TypeOK
    <2>4. RoutedFor(w.endpoint, t, reported[o][w.endpoint])
      BY <2>1, <2>2, <2>3 DEF ReachedInv, OnItsWay
    <2>5. PICK re \in routed : /\ re.endpoint = w.endpoint /\ re.exporterType = w.exporterType
                               /\ re.properties = w.properties
      BY <2>1, <2>4 DEF RoutedFor
    <2>6. Entry(re) = w
      BY <2>2, <2>5 DEF Entry
    <2> QED
      BY <2>6
  <1> QED
    BY <1>2, <1>3, HandlerInvariant, PTL

(* README.md:75, observerhandler.go:244: if observers do not resync      *)
(* either, and templates differ in type, each endpoint has one exporter,   *)
(* and no more, for a rule that matches it.                                *)
THEOREM RulesHaveOneExporter ==
    ASSUME Owned, DistinctTypes, Resyncing = {}
    PROVE  Spec => []OneExporterPerRule
  <1>1. HandlerInv /\ HandlerInv' /\ HandInv /\ JustifiedInv /\ FreshInv /\ [Next]_vars => FreshInv'
    BY FreshStep
  <1>2. FreshInv => OneExporterPerRule
    BY DEF FreshInv
  <1> QED
    BY <1>1, <1>2, RoutingInitially, HandlerInvariant, JustifiedAlways, PTL DEF Spec
==============================================================================
