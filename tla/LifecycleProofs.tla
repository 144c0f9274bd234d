-------------------------- MODULE LifecycleProofs ---------------------------
(****************************************************************************)
(* What is started is stopped: the components of the exporters, for any     *)
(* number of them and of signals; and the creator that the pipelines of one *)
(* configuration share, which is started once and stopped once, for any     *)
(* pipelines and configurations, however builds and starts fail and however *)
(* often the collector builds again.                                        *)
(****************************************************************************)
EXTENDS ExporterRunner, SharedExporter, TLAPS
------------------------------------------------------------------------------
(* The exporter runner.                                                     *)

(* At first no exporter has been started. *)
LEMMA RunnerInvInit == RunnerInit => RunnerInv
  BY RunnerSentinel
  DEF RunnerInit, RunnerInv, RunnerTypeOK, Stage, KeptIsWhole, StoppedRunsNothing, RefusedRunsNothing

(* Every step of a start or a stop keeps what is made, running and pending  *)
(* in step.                                                                 *)
LEMMA RunnerInvStep == RunnerInv /\ [RunnerNext]_runnerVars => RunnerInv'
  <1> SUFFICES ASSUME RunnerInv, [RunnerNext]_runnerVars PROVE RunnerInv'
    OBVIOUS
  <1> USE RunnerSentinel, StartMayFailType
  <1>1. ASSUME NEW i \in Instance, Reject(i)
        PROVE  RunnerInv'
    BY <1>1 DEF Reject, RunnerFree, RunnerInv, RunnerTypeOK, Stage,
       KeptIsWhole, StoppedRunsNothing, RefusedRunsNothing
  <1>2. ASSUME NEW i \in Instance, NEW signals \in SUBSET Signal \ {{}},
               BeginStarting(i, signals)
        PROVE  RunnerInv'
    BY <1>2 DEF BeginStarting, RunnerFree, RunnerInv, RunnerTypeOK, Stage,
       KeptIsWhole, StoppedRunsNothing, RefusedRunsNothing
  <1>3. ASSUME NEW i \in Instance, NEW s \in Signal, NEW outcome \in {"made", "unsupported", "error"},
               Create(i, s, outcome)
        PROVE  RunnerInv'
    BY <1>3 DEF Create, RunnerInv, RunnerTypeOK, Stage,
       KeptIsWhole, StoppedRunsNothing, RefusedRunsNothing
  <1>4. ASSUME NEW i \in Instance, FinishCreating(i)
        PROVE  RunnerInv'
    BY <1>4 DEF FinishCreating, Usable, RunnerInv, RunnerTypeOK, Stage,
       KeptIsWhole, StoppedRunsNothing, RefusedRunsNothing
  <1>5. ASSUME NEW i \in Instance, NEW s \in Signal, NEW ok \in {TRUE, i \notin StartMayFail},
               StartComponent(i, s, ok)
        PROVE  RunnerInv'
    <2>1. /\ stage[i] = "starting" /\ s \in pending[i] /\ s \in made[i]
          /\ UNCHANGED <<stage, enabled, made, busy, closed>>
      BY <1>5 DEF StartComponent, RunnerInv
    <2>2. /\ pending' = [pending EXCEPT ![i] = @ \ {s}]
          /\ running' = [running EXCEPT ![i] = IF ok THEN @ \cup {s} ELSE @]
          /\ failing' = [failing EXCEPT ![i] = @ \/ ~ok]
      BY <1>5 DEF StartComponent
    <2>3. RunnerTypeOK'
      BY <2>1, <2>2 DEF RunnerInv, RunnerTypeOK
    <2>4. /\ pending'[i] = pending[i] \ {s}
          /\ running'[i] = IF ok THEN running[i] \cup {s} ELSE running[i]
          /\ failing'[i] <=> failing[i] \/ ~ok
          /\ \A j \in Instance \ {i} : /\ pending'[j] = pending[j] /\ running'[j] = running[j]
                                       /\ failing'[j] = failing[j]
      BY <2>2 DEF RunnerInv, RunnerTypeOK
    <2>5. i \notin StartMayFail => ok
      OBVIOUS
    <2> QED
      BY <2>1, <2>3, <2>4, <2>5
      DEF RunnerInv, KeptIsWhole, StoppedRunsNothing, RefusedRunsNothing
  <1>6. ASSUME NEW i \in Instance, FinishStarting(i)
        PROVE  RunnerInv'
    BY <1>6 DEF FinishStarting, RunnerInv, RunnerTypeOK, Stage,
       KeptIsWhole, StoppedRunsNothing, RefusedRunsNothing
  <1>7. ASSUME NEW i \in Instance, BeginStop(i)
        PROVE  RunnerInv'
    BY <1>7 DEF BeginStop, RunnerFree, RunnerInv, RunnerTypeOK, Stage,
       KeptIsWhole, StoppedRunsNothing, RefusedRunsNothing
  <1>8. ASSUME NEW i \in Instance, NEW s \in Signal, NEW ok \in BOOLEAN,
               StopComponent(i, s, ok)
        PROVE  RunnerInv'
    <2>1. /\ stage[i] = "stopping" /\ UNCHANGED <<stage, enabled, made, busy, closed>>
          /\ pending' = [pending EXCEPT ![i] = pending[i] \ {s}]
          /\ running' = [running EXCEPT ![i] = @ \ {s}]
          /\ failing' = [failing EXCEPT ![i] = @ \/ ~ok]
      BY <1>8 DEF StopComponent, Remaining
    <2>2. RunnerTypeOK'
      BY <2>1 DEF RunnerInv, RunnerTypeOK
    <2>3. /\ pending'[i] = pending[i] \ {s} /\ running'[i] = running[i] \ {s}
          /\ \A j \in Instance \ {i} : /\ pending'[j] = pending[j] /\ running'[j] = running[j]
                                       /\ failing'[j] = failing[j]
      BY <2>1 DEF RunnerInv, RunnerTypeOK
    <2>4. running[i] = pending[i] /\ running'[i] = pending'[i]
      BY <2>1, <2>3 DEF RunnerInv
    <2>5. KeptIsWhole' /\ StoppedRunsNothing' /\ RefusedRunsNothing'
      <3>1. \A j \in Instance : stage'[j] \in {"kept", "stopped", "refused"} => j # i
        BY <2>1
      <3> QED
        BY <2>1, <2>3, <3>1 DEF RunnerInv, KeptIsWhole, StoppedRunsNothing, RefusedRunsNothing
    <2>6. ASSUME NEW j \in Instance
          PROVE  /\ running'[j] \subseteq made[j] /\ made[j] \subseteq enabled[j]
                 /\ pending'[j] \subseteq enabled[j]
                 /\ stage[j] \in {"unused", "creating"} => running'[j] = {}
                 /\ stage[j] = "unused" => made[j] = {} /\ ~failing'[j]
                 /\ stage[j] \in {"starting", "kept", "stopping"} => made[j] # {}
                 /\ stage[j] = "starting" =>
                       /\ pending'[j] \subseteq made[j]
                       /\ ~failing'[j] => running'[j] = made[j] \ pending'[j]
                       /\ j \notin StartMayFail => ~failing'[j]
                 /\ stage[j] = "stopping" => running'[j] = pending'[j]
                 /\ closed => stage[j] # "kept"
      <3>1. CASE j = i
        BY <2>1, <2>3, <2>4, <3>1 DEF RunnerInv
      <3>2. CASE j # i
        BY <2>3, <3>2 DEF RunnerInv
      <3> QED
        BY <3>1, <3>2
    <2>7. UNCHANGED <<stage, made, enabled, closed, busy>> /\ (closed => busy = NoInstance)
      BY <2>1 DEF RunnerInv
    <2> QED
      BY <2>2, <2>5, <2>6, <2>7 DEF RunnerInv
  <1>9. ASSUME NEW i \in Instance, FinishStopping(i)
        PROVE  RunnerInv'
    BY <1>9 DEF FinishStopping, RunnerInv, RunnerTypeOK, Stage,
       KeptIsWhole, StoppedRunsNothing, RefusedRunsNothing
  <1>10. ASSUME Close
        PROVE  RunnerInv'
    BY <1>10 DEF Close, RunnerFree, RunnerInv, RunnerTypeOK, Stage,
       KeptIsWhole, StoppedRunsNothing, RefusedRunsNothing
  <1>11. CASE UNCHANGED runnerVars
    BY <1>11 DEF runnerVars, RunnerInv, RunnerTypeOK, KeptIsWhole, StoppedRunsNothing,
       RefusedRunsNothing
  <1> QED
    BY <1>1, <1>2, <1>3, <1>4, <1>5, <1>6, <1>7, <1>8, <1>9, <1>10,
       <1>11 DEF RunnerNext, StartNext, StopNext

(* RunnerInv is an invariant of the runner.                                 *)
THEOREM RunnerInvariant == RunnerSpec => []RunnerInv
  BY RunnerInvInit, RunnerInvStep, PTL DEF RunnerSpec

(* observerhandler.go:54, 101, 139, 158: under the handler's mutex one      *)
(* start or stop of an exporter is under way at a time.                     *)
THEOREM OneAtATime == RunnerSpec => []RunnerTypeOK
  BY RunnerInvariant, PTL DEF RunnerInv

(* exporter_runner.go:73-123: an exporter the handler keeps runs in full.   *)
THEOREM KeptExportersAreWhole == RunnerSpec => []KeptIsWhole
  BY RunnerInvariant, PTL DEF RunnerInv

(* exporter_runner.go:279-289: an exporter that was stopped runs no more,   *)
(* whatever errors its components report.                                   *)
THEOREM StoppedExportersRunNothing == RunnerSpec => []StoppedRunsNothing
  BY RunnerInvariant, PTL DEF RunnerInv

(* exporter.go:144: Shutdown stops every component of the exporters the     *)
(* handler keeps, and no other runs if components that are created start.   *)
THEOREM ShutdownStopsWhatStarted == RunnerSpec => []ClosedRunsNothing
  <1>1. RunnerInv => ClosedRunsNothing
    BY RunnerSentinel
    DEF RunnerInv, RunnerTypeOK, Stage, StoppedRunsNothing, RefusedRunsNothing, ClosedRunsNothing
  <1> QED
    BY <1>1, RunnerInvariant, PTL

(* exporter.go:144: so Shutdown leaves nothing running at all, provided     *)
(* that components that are created start.                                  *)
THEOREM ShutdownStopsEveryComponent ==
    ASSUME StartMayFail = {}
    PROVE  RunnerSpec => []ShutdownStopsAll
  <1>1. ClosedRunsNothing => ShutdownStopsAll
    BY DEF ClosedRunsNothing, ShutdownStopsAll
  <1> QED
    BY <1>1, ShutdownStopsWhatStarted, PTL

------------------------------------------------------------------------------
(* The shared exporter.                                                     *)

(* What sync.Once remembers agrees with what became of the creator.        *)
CreatorInv ==
    \A c \in Creator :
        /\ status[c] = "unused" <=> cfg[c] = None
        /\ status[c] = "stopped" <=> stopOnce[c] = "done"
        /\ startOnce[c] = "ready" => status[c] \notin {"running", "failed"}
        /\ startOnce[c] = "done" => status[c] \notin {"unused", "built"}

(* What is cached was not stopped, and a pipeline has asked for it; what   *)
(* runs is cached.                                                         *)
CacheInv ==
    /\ \A k \in Config : comps[k] # None =>
          /\ cfg[comps[k]] = k /\ status[comps[k]] # "stopped"
          /\ \E p \in Pipeline : ConfigOf[p] = k
    /\ \A c \in Creator : status[c] = "running" => comps[cfg[c]] = c
    /\ AttachedIsCached
    /\ CachedIsFresh

(* A pipeline's creator is the cached one until it is stopped.             *)
HeldInv ==
    /\ \A p \in Pipeline : held[p] # None =>
          /\ cfg[held[p]] = ConfigOf[p]
          /\ comps[ConfigOf[p]] = IF stopOnce[held[p]] = "done" THEN None ELSE held[p]
          /\ phase \in {"building", "running"} => stopOnce[held[p]] # "done"
    /\ \A p, q \in Pipeline :
          held[p] # None /\ held[q] # None /\ ConfigOf[p] = ConfigOf[q] => held[p] = held[q]

(* Where pipelines may be in each phase.                                   *)
PhaseInv ==
    \A p \in Pipeline :
        /\ phase = "building" => pc[p] \in {"absent", "created"}
        /\ phase = "running" => pc[p] \in {"created", "starting", "waiting", "started", "failed"}
        /\ phase = "closing" => pc[p] \in {"created", "started", "failed", "stopping", "stopped"}
        /\ phase = "abandoned" => pc[p] = "absent"

(* Of the pipelines of a creator one at most is inside its Start, and one  *)
(* at most, of all, inside a Shutdown; others return when it is through.   *)
StartInv ==
    /\ \A p \in Pipeline :
          /\ pc[p] = "starting" => startOnce[held[p]] = "running" /\ status[held[p]] = "built"
          /\ pc[p] = "started" => startOnce[held[p]] = "done"
          /\ phase = "running" /\ status[held[p]] = "failed" /\ held[p] # None =>
                \E q \in Pipeline : held[q] = held[p] /\ pc[q] = "failed"
    /\ \A p, q \in Pipeline :
          pc[p] = "starting" /\ pc[q] = "starting" /\ held[p] = held[q] => p = q

StopInv ==
    /\ \A p \in Pipeline :
          /\ pc[p] = "stopping" => stopOnce[held[p]] = "running"
          /\ pc[p] = "stopped" => stopOnce[held[p]] = "done"
    /\ \A p, q \in Pipeline : pc[p] = "stopping" /\ pc[q] = "stopping" => p = q
    /\ \A c \in Creator : stopOnce[c] = "running" =>
          \E p \in Pipeline : held[p] = c /\ pc[p] = "stopping"

SharedInv ==
    SharedTypeOK /\ CreatorInv /\ CacheInv /\ HeldInv /\ PhaseInv /\ StartInv /\ StopInv

(* It holds before anything is built. *)
LEMMA SharedInitially == SharedInit => SharedInv
  BY SharedConstants DEF SharedInit, SharedInv, SharedTypeOK, CreatorInv, CacheInv, HeldInv, PhaseInv,
     StartInv, StopInv, AttachedIsCached, CachedIsFresh

(* A factory call: what it constructs is cached, or released.              *)
LEMMA FactoryCallKeepsInv ==
    ASSUME SharedInv, NEW p \in Pipeline, NEW created \in Creator, CreateExporter(p, created)
    PROVE  SharedInv'
  <1> DEFINE k == ConfigOf[p]
             ec == GetOrAdd(k, created)
  <1>1. /\ phase = "building" /\ pc[p] = "absent" /\ held[p] = None
        /\ status[created] = "unused" /\ cfg[created] = None /\ k \in Config
    BY SharedConstants DEF CreateExporter, SharedInv, SharedTypeOK, CreatorInv
  <1>2. /\ comps' = [comps EXCEPT ![k] = ec]
        /\ attached' = IF ec # created THEN attached ELSE attached \cup {created}
        /\ held' = [held EXCEPT ![p] = ec]
        /\ cfg' = [cfg EXCEPT ![created] = k]
        /\ status' = [status EXCEPT ![created] = "built"]
        /\ pc' = [pc EXCEPT ![p] = "created"]
        /\ startOnce' = startOnce /\ stopOnce' = stopOnce /\ phase' = phase /\ builds' = builds
    BY DEF CreateExporter, ReleaseSurplus, onceVars
  <1>3. \/ comps[k] = None /\ ec = created
        \/ comps[k] # None /\ ec = comps[k] /\ ec # created /\ ec \in Creator
    BY <1>1, SharedConstants DEF GetOrAdd, SharedInv, SharedTypeOK, CacheInv
  <1>4. \A q \in Pipeline : held[q] # created
    BY <1>1, SharedConstants DEF SharedInv, SharedTypeOK, HeldInv
  <1>5. \A l \in Config : comps[l] # created
    BY <1>1, SharedConstants DEF SharedInv, SharedTypeOK, CacheInv
  <1>6. SharedTypeOK'
    BY <1>1, <1>2, <1>3, <1>4, <1>5, SharedConstants DEF SharedInv, SharedTypeOK
  <1>7. CreatorInv'
    BY <1>1, <1>2, <1>3, <1>4, <1>5, SharedConstants DEF SharedInv, SharedTypeOK, CreatorInv
  <1>8. CacheInv'
    BY <1>1, <1>2, <1>3, <1>4, <1>5, SharedConstants DEF SharedInv, SharedTypeOK, CacheInv, AttachedIsCached, CachedIsFresh
  <1>9. HeldInv'
    BY <1>1, <1>2, <1>3, <1>4, <1>5, SharedConstants DEF SharedInv, SharedTypeOK, HeldInv, CacheInv, CreatorInv
  <1>10. PhaseInv'
    BY <1>1, <1>2, <1>3, <1>4, <1>5, SharedConstants DEF SharedInv, SharedTypeOK, PhaseInv
  <1>11. StartInv'
    BY <1>1, <1>2, <1>3, <1>4, <1>5, SharedConstants DEF SharedInv, SharedTypeOK, StartInv, PhaseInv
  <1>12. StopInv'
    BY <1>1, <1>2, <1>3, <1>4, <1>5, SharedConstants DEF SharedInv, SharedTypeOK, StopInv, PhaseInv
  <1> QED BY <1>6, <1>7, <1>8, <1>9, <1>10, <1>11, <1>12 DEF SharedInv

(* A factory call that fails leaves what is cached, and no pipelines.      *)
LEMMA FailedCallKeepsInv ==
    ASSUME SharedInv, CreateFails
    PROVE  SharedInv'
  <1>1. /\ phase = "building" /\ phase' \in {"building", "abandoned"} /\ builds' \in Nat
        /\ held' = [q \in Pipeline |-> None] /\ pc' = [q \in Pipeline |-> "absent"]
        /\ UNCHANGED <<comps, cfg, status, attached, startOnce, stopOnce>>
    <2>1. builds \in Nat /\ phase = "building"
      BY DEF CreateFails, SharedInv, SharedTypeOK
    <2>2. \/ builds' = builds + 1 /\ phase' = phase
          \/ builds' = builds /\ phase' = "abandoned"
      BY DEF CreateFails
    <2> QED
      BY <2>1, <2>2 DEF CreateFails, creatorVars, onceVars
  <1>2. SharedTypeOK'
    BY <1>1, SharedConstants DEF SharedInv, SharedTypeOK
  <1>3. CreatorInv'
    BY <1>1, SharedConstants DEF SharedInv, SharedTypeOK, CreatorInv
  <1>4. CacheInv'
    BY <1>1, SharedConstants DEF SharedInv, SharedTypeOK, CacheInv, AttachedIsCached, CachedIsFresh
  <1>5. HeldInv'
    BY <1>1, SharedConstants DEF SharedInv, SharedTypeOK, HeldInv
  <1>6. PhaseInv'
    BY <1>1, SharedConstants DEF SharedInv, SharedTypeOK, PhaseInv
  <1>7. StartInv'
    BY <1>1, SharedConstants DEF SharedInv, SharedTypeOK, StartInv
  <1>8. StopInv'
    BY <1>1, SharedConstants DEF SharedInv, SharedTypeOK, StopInv, PhaseInv
  <1> QED BY <1>2, <1>3, <1>4, <1>5, <1>6, <1>7, <1>8 DEF SharedInv

(* Everything is built, and what is cached is fresh.                       *)
LEMMA BuiltKeepsInv ==
    ASSUME SharedInv, Built
    PROVE  SharedInv'
  <1>1. /\ phase = "building" /\ phase' = "running" /\ \A p \in Pipeline : pc[p] = "created"
        /\ UNCHANGED <<comps, cfg, status, attached, startOnce, stopOnce, held, pc, builds>>
    BY DEF Built, creatorVars, onceVars
  <1>2. \A p \in Pipeline : held[p] # None => status[held[p]] = "built"
    BY <1>1, SharedConstants DEF SharedInv, SharedTypeOK, HeldInv, CacheInv, CachedIsFresh
  <1>3. SharedTypeOK'
    BY <1>1, <1>2, SharedConstants DEF SharedInv, SharedTypeOK
  <1>4. CreatorInv'
    BY <1>1, <1>2, SharedConstants DEF SharedInv, SharedTypeOK, CreatorInv
  <1>5. CacheInv'
    BY <1>1, <1>2, SharedConstants DEF SharedInv, SharedTypeOK, CacheInv, AttachedIsCached, CachedIsFresh
  <1>6. HeldInv'
    BY <1>1, <1>2, SharedConstants DEF SharedInv, SharedTypeOK, HeldInv
  <1>7. PhaseInv'
    BY <1>1, <1>2, SharedConstants DEF SharedInv, SharedTypeOK, PhaseInv
  <1>8. StartInv'
    BY <1>1, <1>2, SharedConstants DEF SharedInv, SharedTypeOK, StartInv
  <1>9. StopInv'
    BY <1>1, <1>2, SharedConstants DEF SharedInv, SharedTypeOK, StopInv
  <1> QED BY <1>3, <1>4, <1>5, <1>6, <1>7, <1>8, <1>9 DEF SharedInv

(* The first Start is let through, to a creator that is built.             *)
LEMMA BeginStartKeepsInv ==
    ASSUME SharedInv, NEW p \in Pipeline, BeginStart(p)
    PROVE  SharedInv'
  <1> DEFINE h == held[p]
  <1>1. /\ phase = "running" /\ pc[p] = "created" /\ h \in Creator
        /\ UNCHANGED <<comps, cfg, status, attached, stopOnce, held, phase, builds>>
    BY DEF BeginStart, creatorVars, SharedInv, SharedTypeOK
  <1>2. \/ /\ startOnce[h] = "ready" /\ startOnce' = [startOnce EXCEPT ![h] = "running"]
           /\ pc' = [pc EXCEPT ![p] = "starting"]
        \/ startOnce' = startOnce /\ pc' = [pc EXCEPT ![p] = "waiting"]
    BY DEF BeginStart, FirstCaller
  <1>3. cfg[h] # None /\ status[h] \notin {"unused", "stopped"}
    BY <1>1, SharedConstants DEF SharedInv, SharedTypeOK, HeldInv, CreatorInv
  <1>4. startOnce[h] = "ready" => status[h] = "built"
    BY <1>1, <1>3 DEF SharedInv, SharedTypeOK, CreatorInv
  <1>5. SharedTypeOK'
    BY <1>1, <1>2, <1>3, <1>4, SharedConstants DEF SharedInv, SharedTypeOK
  <1>6. CreatorInv'
    BY <1>1, <1>2, <1>3, <1>4, SharedConstants DEF SharedInv, SharedTypeOK, CreatorInv
  <1>7. CacheInv'
    BY <1>1, <1>2, <1>3, <1>4, SharedConstants DEF SharedInv, SharedTypeOK, CacheInv, AttachedIsCached, CachedIsFresh
  <1>8. HeldInv'
    BY <1>1, <1>2, <1>3, <1>4, SharedConstants DEF SharedInv, SharedTypeOK, HeldInv
  <1>9. PhaseInv'
    BY <1>1, <1>2, <1>3, <1>4, SharedConstants DEF SharedInv, SharedTypeOK, PhaseInv
  <1>10. StartInv'
    BY <1>1, <1>2, <1>3, <1>4, SharedConstants DEF SharedInv, SharedTypeOK, StartInv
  <1>11. StopInv'
    BY <1>1, <1>2, <1>3, <1>4, SharedConstants DEF SharedInv, SharedTypeOK, StopInv
  <1> QED BY <1>5, <1>6, <1>7, <1>8, <1>9, <1>10, <1>11 DEF SharedInv

(* A Start returns: only one was under way, and it is remembered.          *)
LEMMA EndStartKeepsInv ==
    ASSUME SharedInv, NEW p \in Pipeline, NEW ok \in BOOLEAN, EndStart(p, ok)
    PROVE  SharedInv'
  <1> DEFINE h == held[p]
             outcome == IF ok THEN "running" ELSE "failed"
  <1>1. /\ pc[p] = "starting" /\ h \in Creator /\ status[h] = "built" /\ startOnce[h] = "running"
        /\ phase = "running"
    <2>1. pc[p] = "starting"
      BY DEF EndStart
    <2> QED
      BY <2>1 DEF SharedInv, SharedTypeOK, StartInv, PhaseInv
  <1>2. /\ startOnce' = [startOnce EXCEPT ![h] = "done"]
        /\ status' = [status EXCEPT ![h] = outcome]
        /\ pc' = [pc EXCEPT ![p] = IF ok THEN "started" ELSE "failed"]
        /\ UNCHANGED <<comps, cfg, attached, stopOnce, held, phase, builds>>
    BY <1>1 DEF EndStart, SharedInv, SharedTypeOK
  <1>3. comps[ConfigOf[p]] = h /\ cfg[h] = ConfigOf[p]
    BY <1>1, SharedConstants DEF SharedInv, SharedTypeOK, HeldInv
  <1>4. SharedTypeOK'
    BY <1>1, <1>2, <1>3, SharedConstants DEF SharedInv, SharedTypeOK
  <1>5. CreatorInv'
    BY <1>1, <1>2, <1>3, SharedConstants DEF SharedInv, SharedTypeOK, CreatorInv
  <1>6. CacheInv'
    BY <1>1, <1>2, <1>3, SharedConstants DEF SharedInv, SharedTypeOK, CacheInv, AttachedIsCached, CachedIsFresh
  <1>7. HeldInv'
    BY <1>1, <1>2, <1>3, SharedConstants DEF SharedInv, SharedTypeOK, HeldInv
  <1>8. PhaseInv'
    BY <1>1, <1>2, <1>3, SharedConstants DEF SharedInv, SharedTypeOK, PhaseInv
  <1>9. StartInv'
    BY <1>1, <1>2, <1>3, SharedConstants DEF SharedInv, SharedTypeOK, StartInv
  <1>10. StopInv'
    BY <1>1, <1>2, <1>3, SharedConstants DEF SharedInv, SharedTypeOK, StopInv
  <1> QED BY <1>4, <1>5, <1>6, <1>7, <1>8, <1>9, <1>10 DEF SharedInv

(* The others return when it is through.                                   *)
LEMMA WaitStartKeepsInv ==
    ASSUME SharedInv, NEW p \in Pipeline, WaitStart(p)
    PROVE  SharedInv'
  <1>1. /\ pc[p] = "waiting" /\ startOnce[held[p]] = "done" /\ pc' = [pc EXCEPT ![p] = "started"]
        /\ UNCHANGED <<comps, cfg, status, attached, startOnce, stopOnce, held, phase, builds>>
    BY DEF WaitStart, Over, creatorVars, onceVars
  <1>2. SharedTypeOK'
    BY <1>1, SharedConstants DEF SharedInv, SharedTypeOK
  <1>3. CreatorInv'
    BY <1>1, SharedConstants DEF SharedInv, SharedTypeOK, CreatorInv
  <1>4. CacheInv'
    BY <1>1, SharedConstants DEF SharedInv, SharedTypeOK, CacheInv, AttachedIsCached, CachedIsFresh
  <1>5. HeldInv'
    BY <1>1, SharedConstants DEF SharedInv, SharedTypeOK, HeldInv
  <1>6. PhaseInv'
    BY <1>1, SharedConstants DEF SharedInv, SharedTypeOK, PhaseInv
  <1>7. StartInv'
    BY <1>1, SharedConstants DEF SharedInv, SharedTypeOK, StartInv
  <1>8. StopInv'
    BY <1>1, SharedConstants DEF SharedInv, SharedTypeOK, StopInv
  <1> QED BY <1>2, <1>3, <1>4, <1>5, <1>6, <1>7, <1>8 DEF SharedInv

(* The collector closes when no Start is under way.                        *)
LEMMA BeginClosingKeepsInv ==
    ASSUME SharedInv, BeginClosing
    PROVE  SharedInv'
  <1>1. /\ phase = "running" /\ phase' = "closing"
        /\ \A p \in Pipeline : pc[p] \notin {"starting", "waiting"}
        /\ UNCHANGED <<comps, cfg, status, attached, startOnce, stopOnce, held, pc, builds>>
    BY DEF BeginClosing, creatorVars, onceVars
  <1>2. SharedTypeOK'
    BY <1>1, SharedConstants DEF SharedInv, SharedTypeOK
  <1>3. CreatorInv'
    BY <1>1, SharedConstants DEF SharedInv, SharedTypeOK, CreatorInv
  <1>4. CacheInv'
    BY <1>1, SharedConstants DEF SharedInv, SharedTypeOK, CacheInv, AttachedIsCached, CachedIsFresh
  <1>5. HeldInv'
    BY <1>1, SharedConstants DEF SharedInv, SharedTypeOK, HeldInv
  <1>6. PhaseInv'
    BY <1>1, SharedConstants DEF SharedInv, SharedTypeOK, PhaseInv
  <1>7. StartInv'
    BY <1>1, SharedConstants DEF SharedInv, SharedTypeOK, StartInv
  <1>8. StopInv'
    BY <1>1, SharedConstants DEF SharedInv, SharedTypeOK, StopInv
  <1> QED BY <1>2, <1>3, <1>4, <1>5, <1>6, <1>7, <1>8 DEF SharedInv

(* A Shutdown that is not the first finds the first through: they come one *)
(* after another.                                                          *)
LEMMA BeginShutdownKeepsInv ==
    ASSUME SharedInv, NEW p \in Pipeline, BeginShutdown(p)
    PROVE  SharedInv'
  <1> DEFINE h == held[p]
  <1>1. /\ phase = "closing" /\ pc[p] \in {"created", "started", "failed"} /\ h \in Creator
        /\ \A q \in Pipeline : pc[q] # "stopping"
        /\ UNCHANGED <<comps, cfg, status, attached, startOnce, held, phase, builds>>
    BY DEF BeginShutdown, creatorVars, SharedInv, SharedTypeOK
  <1>2. \A c \in Creator : stopOnce[c] \in {"ready", "done"}
    BY <1>1 DEF SharedInv, SharedTypeOK, StopInv
  <1>3. \/ /\ stopOnce[h] = "ready" /\ stopOnce' = [stopOnce EXCEPT ![h] = "running"]
           /\ pc' = [pc EXCEPT ![p] = "stopping"]
        \/ stopOnce[h] = "done" /\ stopOnce' = stopOnce /\ pc' = [pc EXCEPT ![p] = "stopped"]
    BY <1>1, <1>2 DEF BeginShutdown, Stops, FirstCaller
  <1>4. SharedTypeOK'
    BY <1>1, <1>2, <1>3, SharedConstants DEF SharedInv, SharedTypeOK
  <1>5. CreatorInv'
    BY <1>1, <1>2, <1>3, SharedConstants DEF SharedInv, SharedTypeOK, CreatorInv
  <1>6. CacheInv'
    BY <1>1, <1>2, <1>3, SharedConstants DEF SharedInv, SharedTypeOK, CacheInv, AttachedIsCached, CachedIsFresh
  <1>7. HeldInv'
    BY <1>1, <1>2, <1>3, SharedConstants DEF SharedInv, SharedTypeOK, HeldInv
  <1>8. PhaseInv'
    BY <1>1, <1>2, <1>3, SharedConstants DEF SharedInv, SharedTypeOK, PhaseInv
  <1>9. StartInv'
    BY <1>1, <1>2, <1>3, SharedConstants DEF SharedInv, SharedTypeOK, StartInv, PhaseInv
  <1>10. StopInv'
    BY <1>1, <1>2, <1>3, SharedConstants DEF SharedInv, SharedTypeOK, StopInv
  <1> QED BY <1>4, <1>5, <1>6, <1>7, <1>8, <1>9, <1>10 DEF SharedInv

(* The creator that was stopped is the cached one, and no longer is.       *)
LEMMA EndShutdownKeepsInv ==
    ASSUME SharedInv, NEW p \in Pipeline, EndShutdown(p)
    PROVE  SharedInv'
  <1> DEFINE h == held[p]
  <1>1. /\ pc[p] = "stopping" /\ h \in Creator /\ stopOnce[h] = "running" /\ status[h] # "stopped"
        /\ phase = "closing" /\ \A q \in Pipeline : pc[q] # "starting"
    <2>1. pc[p] = "stopping"
      BY DEF EndShutdown
    <2> QED
      BY <2>1 DEF SharedInv, SharedTypeOK, StopInv, PhaseInv, CreatorInv
  <1>2. /\ cfg[h] = ConfigOf[p] /\ comps[ConfigOf[p]] = h /\ ConfigOf[p] \in Config
    BY <1>1, SharedConstants DEF SharedInv, SharedTypeOK, HeldInv
  <1>3. /\ status' = [status EXCEPT ![h] = "stopped"]
        /\ attached' = attached \ {h}
        /\ comps' = [comps EXCEPT ![ConfigOf[p]] = None]
        /\ stopOnce' = [stopOnce EXCEPT ![h] = "done"]
        /\ pc' = [pc EXCEPT ![p] = "stopped"]
        /\ UNCHANGED <<cfg, startOnce, held, phase, builds>>
    BY <1>1, <1>2 DEF EndShutdown, RemoveFunc, SharedInv, SharedTypeOK
  <1>4. SharedTypeOK'
    BY <1>1, <1>2, <1>3, SharedConstants DEF SharedInv, SharedTypeOK
  <1>5. CreatorInv'
    BY <1>1, <1>2, <1>3, SharedConstants DEF SharedInv, SharedTypeOK, CreatorInv
  <1>6. CacheInv'
    BY <1>1, <1>2, <1>3, SharedConstants DEF SharedInv, SharedTypeOK, CacheInv, AttachedIsCached, CachedIsFresh
  <1>7. HeldInv'
    BY <1>1, <1>2, <1>3, SharedConstants DEF SharedInv, SharedTypeOK, HeldInv
  <1>8. PhaseInv'
    BY <1>1, <1>2, <1>3, SharedConstants DEF SharedInv, SharedTypeOK, PhaseInv
  <1>9. StartInv'
    BY <1>1, <1>2, <1>3, SharedConstants DEF SharedInv, SharedTypeOK, StartInv
  <1>10. StopInv'
    BY <1>1, <1>2, <1>3, SharedConstants DEF SharedInv, SharedTypeOK, StopInv
  <1> QED BY <1>4, <1>5, <1>6, <1>7, <1>8, <1>9, <1>10 DEF SharedInv

(* When every pipeline is stopped, nothing is cached.                      *)
LEMMA RebuildKeepsInv ==
    ASSUME SharedInv, Rebuild
    PROVE  SharedInv'
  <1>1. /\ phase = "closing" /\ \A p \in Pipeline : pc[p] = "stopped"
        /\ phase' = "building" /\ builds' = builds + 1
        /\ held' = [p \in Pipeline |-> None] /\ pc' = [p \in Pipeline |-> "absent"]
        /\ UNCHANGED <<comps, cfg, status, attached, startOnce, stopOnce>>
    BY DEF Rebuild, Closed, creatorVars, onceVars
  <1>2. \A k \in Config : comps[k] = None
    BY <1>1, SharedConstants DEF SharedInv, SharedTypeOK, CacheInv, HeldInv, StopInv
  <1>3. SharedTypeOK'
    BY <1>1, <1>2, SharedConstants DEF SharedInv, SharedTypeOK
  <1>4. CreatorInv'
    BY <1>1, <1>2, SharedConstants DEF SharedInv, SharedTypeOK, CreatorInv
  <1>5. CacheInv'
    BY <1>1, <1>2, SharedConstants DEF SharedInv, SharedTypeOK, CacheInv, AttachedIsCached, CachedIsFresh
  <1>6. HeldInv'
    BY <1>1, <1>2, SharedConstants DEF SharedInv, SharedTypeOK, HeldInv
  <1>7. PhaseInv'
    BY <1>1, <1>2, SharedConstants DEF SharedInv, SharedTypeOK, PhaseInv
  <1>8. StartInv'
    BY <1>1, <1>2, SharedConstants DEF SharedInv, SharedTypeOK, StartInv
  <1>9. StopInv'
    BY <1>1, <1>2, SharedConstants DEF SharedInv, SharedTypeOK, StopInv
  <1> QED BY <1>3, <1>4, <1>5, <1>6, <1>7, <1>8, <1>9 DEF SharedInv

(* The invariant holds whatever pipelines there are.                       *)
THEOREM SharedInvariant == SharedSpec => []SharedInv
  <1>1. SharedInv /\ [SharedNext]_sharedVars => SharedInv'
    <2> SUFFICES ASSUME SharedInv, [SharedNext]_sharedVars PROVE SharedInv'
      OBVIOUS
    <2>1. ASSUME NEW p \in Pipeline, CreateExporter(p, NewCreator) PROVE SharedInv'
      <3>1. NewCreator \in Creator
        BY <2>1 DEF CreateExporter
      <3> QED BY <2>1, <3>1, FactoryCallKeepsInv
    <2>2. ASSUME NEW p \in Pipeline, BeginStart(p) PROVE SharedInv'
      BY <2>2, BeginStartKeepsInv
    <2>3. ASSUME NEW p \in Pipeline, StartStep(p) PROVE SharedInv'
      BY <2>3, EndStartKeepsInv, WaitStartKeepsInv DEF StartStep
    <2>4. ASSUME NEW p \in Pipeline, ShutdownStep(p) PROVE SharedInv'
      BY <2>4, BeginShutdownKeepsInv, EndShutdownKeepsInv DEF ShutdownStep
    <2>5. CASE CreateFails \/ Built \/ BeginClosing \/ Rebuild
      BY <2>5, FailedCallKeepsInv, BuiltKeepsInv, BeginClosingKeepsInv, RebuildKeepsInv
    <2>6. CASE UNCHANGED sharedVars
      BY <2>6 DEF sharedVars, creatorVars, onceVars, SharedInv, SharedTypeOK, CreatorInv, CacheInv,
                  AttachedIsCached, CachedIsFresh, HeldInv, PhaseInv, StartInv, StopInv
    <2> QED
      BY <2>1, <2>2, <2>3, <2>4, <2>5, <2>6 DEF SharedNext, Exit
  <1> QED
    BY <1>1, SharedInitially, PTL DEF SharedSpec

(* No creator is started again or stopped again, for any number of         *)
(* pipelines that start and stop it.                                       *)
THEOREM StartedAndStoppedOnce == SharedSpec => []SharedTypeOK
  <1>1. SharedInv => SharedTypeOK
    BY DEF SharedInv
  <1> QED BY <1>1, SharedInvariant, PTL

(* Pipelines share a creator exactly when they share a configuration, and  *)
(* no two creators run for one.                                            *)
THEOREM CreatorsAreShared == SharedSpec => []OneCreatorPerConfig
  <1>1. SharedInv => OneCreatorPerConfig
    BY SharedConstants DEF SharedInv, HeldInv, CacheInv, OneCreatorPerConfig
  <1> QED BY <1>1, SharedInvariant, PTL

(* No telemetry registration is left to a creator nothing will shut down.  *)
THEOREM SurplusIsReleased == SharedSpec => []AttachedIsCached
  <1>1. SharedInv => AttachedIsCached
    BY DEF SharedInv, CacheInv
  <1> QED BY <1>1, SharedInvariant, PTL

(* A pipeline that started has a running creator, unless the Start that    *)
(* ran, of another pipeline, failed.                                       *)
THEOREM StartedRuns == SharedSpec => []StartedIsRunning
  <1>1. SharedInv => StartedIsRunning
    <2> SUFFICES ASSUME SharedInv, NEW p \in Pipeline, pc[p] = "started", phase # "closing"
                 PROVE  \/ status[held[p]] = "running"
                        \/ \E q \in Pipeline : held[q] = held[p] /\ pc[q] = "failed"
      BY DEF StartedIsRunning
    <2>1. phase = "running" /\ held[p] \in Creator
      BY DEF SharedInv, SharedTypeOK, PhaseInv
    <2>2. status[held[p]] \in {"running", "failed", "stopped"}
      BY <2>1 DEF SharedInv, SharedTypeOK, CreatorInv, StartInv
    <2>3. status[held[p]] # "stopped"
      BY <2>1, SharedConstants DEF SharedInv, CreatorInv, HeldInv
    <2> QED
      BY <2>1, <2>2, <2>3, SharedConstants DEF SharedInv, StartInv
  <1> QED BY <1>1, SharedInvariant, PTL

(* A configuration that comes back gets a creator that can be started.     *)
THEOREM RebuiltIsFresh == SharedSpec => []CachedIsFresh
  <1>1. SharedInv => CachedIsFresh
    BY DEF SharedInv, CacheInv
  <1> QED BY <1>1, SharedInvariant, PTL
==============================================================================
