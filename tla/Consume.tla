-------------------------------- MODULE Consume --------------------------------
(***************************************************************************)
(* ConsumeLogs, ConsumeMetrics and ConsumeTraces (exporter.go): a pipeline  *)
(* hands the exporter_creator a batch; each of its resources is routed by   *)
(* its attributes to the exporters of the endpoints it matches, and what    *)
(* nobody takes is counted as non-routable.                                 *)
(*                                                                          *)
(* The three differ in their signal alone.  A pipeline has one signal and   *)
(* makes one call at a time; the collector runs several pipelines.  A call  *)
(* holds the router's lock only inside Route, once per resource: exporters  *)
(* come and go between two resources of a batch, and between the routing of *)
(* a resource and its delivery.                                             *)
(*                                                                          *)
(* A resource carries a set of points: log records, data points or spans.   *)
(* The resources of a batch, and Go's map iteration the groups, are taken   *)
(* in any order.                                                            *)
(***************************************************************************)
EXTENDS TelemetryRouter

CONSTANTS
    Pipeline,
    Signal,
    SignalOf,        \* [Pipeline -> Signal]
    Resource,        \* the resources pipelines send
    AttributesOf,    \* [Resource -> Attributes]
    Point,
    PointsOf,        \* [Resource -> SUBSET Point]
    Handles,         \* [Exporter -> SUBSET Signal]: non-nil fields of the wrappedExporter
    DefaultExporter, \* tests give the creator some; Start leaves it with none
    DefaultHandles,  \* [DefaultExporter -> SUBSET Signal]
    MaxCalls         \* bound: calls made, by all pipelines together

ASSUME PipelinesType ==
    /\ SignalOf \in [Pipeline -> Signal]
    /\ Handles \in [Exporter -> SUBSET Signal]
    /\ DefaultHandles \in [DefaultExporter -> SUBSET Signal]
    /\ MaxCalls \in Nat
ASSUME ResourcesType ==
    /\ AttributesOf \in [Resource -> Attributes]
    /\ PointsOf \in [Resource -> SUBSET Point]
    /\ IsFiniteSet(Resource) /\ IsFiniteSet(Point)
    /\ \A r, s \in Resource : PointsOf[r] \cap PointsOf[s] # {} => r = s

VARIABLES
    calls,      \* how many calls were made
    consuming,  \* pipelines with a call under way
    batch,      \* its resources
    toGroup,    \* the ones it has not routed yet
    groups,     \* exportersByComponent
    unmatched,  \* unmatchedLogs, unmatchedMetrics, unmatchedTraces
    unroutable, \* points matched, but by no exporter that handles the signal
    untried,    \* default exporters that handle the signal, not yet called
    taken,      \* exportSucceeded: a default exporter took the unmatched
    erred,      \* errs is not empty
    delivered,  \* resources that some exporter accepted
    nonRoutable \* the non-routable counter, by signal

callVars == <<calls, consuming, batch, toGroup, groups, unmatched, unroutable, untried, taken,
              erred, delivered, nonRoutable>>
consumeVars == <<callVars, routerVars>>

NumberOf(resources) == Cardinality(UNION {PointsOf[r] : r \in resources})
------------------------------------------------------------------------------
ConsumeInit ==
    /\ calls = 0 /\ consuming = {}
    /\ batch = [p \in Pipeline |-> {}]
    /\ toGroup = [p \in Pipeline |-> {}]
    /\ groups = [p \in Pipeline |-> [x \in Exporter |-> {}]]
    /\ unmatched = [p \in Pipeline |-> {}]
    /\ unroutable = [p \in Pipeline |-> 0]
    /\ untried = [p \in Pipeline |-> {}]
    /\ taken = [p \in Pipeline |-> FALSE]
    /\ erred = [p \in Pipeline |-> FALSE]
    /\ delivered = [p \in Pipeline |-> {}]
    /\ nonRoutable = [s \in Signal |-> 0]
    /\ RouterInit

(* Mutant: a batch for the unmatched that is reused, and not emptied. *)
ReusedBatch(p) == unmatched[p]
NewBatch(p) == {}

BeginConsume(p, resources) ==
    /\ p \notin consuming /\ calls < MaxCalls
    /\ calls' = calls + 1
    /\ consuming' = consuming \cup {p}
    /\ batch' = [batch EXCEPT ![p] = resources]
    /\ toGroup' = [toGroup EXCEPT ![p] = resources]
    /\ groups' = [groups EXCEPT ![p] = [x \in Exporter |-> {}]]
    /\ unmatched' = [unmatched EXCEPT ![p] = NewBatch(p)]
    /\ unroutable' = [unroutable EXCEPT ![p] = 0]
    /\ untried' = [untried EXCEPT ![p] = {d \in DefaultExporter : SignalOf[p] \in DefaultHandles[d]}]
    /\ taken' = [taken EXCEPT ![p] = FALSE]
    /\ erred' = [erred EXCEPT ![p] = FALSE]
    /\ delivered' = [delivered EXCEPT ![p] = {}]
    /\ UNCHANGED <<nonRoutable, routerVars>>

(* Mutant: an exporter that does not handle the signal makes the resource   *)
(* lost, even if another takes it.                                          *)
LostIfAnyCannot(p, matched) == \E x \in matched : SignalOf[p] \notin Handles[x]
(* Matched, but accepted by none.                                           *)
Lost(p, matched) == matched # {} /\ \A x \in matched : SignalOf[p] \notin Handles[x]

(* Routing one resource and sorting it into the groups. *)
GroupResource(p, r) ==
    /\ p \in consuming /\ r \in toGroup[p]
    /\ LET matched == Route(AttributesOf[r])
           takers == {x \in matched : SignalOf[p] \in Handles[x]}
       IN /\ groups' = [groups EXCEPT ![p] =
                 [x \in Exporter |-> IF x \in takers THEN @[x] \cup {r} ELSE @[x]]]
          /\ unmatched' = [unmatched EXCEPT ![p] = IF matched = {} THEN @ \cup {r} ELSE @]
          /\ unroutable' = [unroutable EXCEPT ![p] =
                 IF Lost(p, matched) THEN @ + NumberOf({r}) ELSE @]
    /\ toGroup' = [toGroup EXCEPT ![p] = @ \ {r}]
    /\ UNCHANGED <<calls, consuming, batch, untried, taken, erred, delivered, nonRoutable,
                   routerVars>>

(* One call per exporter, with all its resources; an error does not end the *)
(* loop.  The exporter may have left the router, or been stopped, since.    *)
Send(p, x, ok) ==
    /\ p \in consuming /\ toGroup[p] = {} /\ groups[p][x] # {}
    /\ groups' = [groups EXCEPT ![p][x] = {}]
    /\ delivered' = [delivered EXCEPT ![p] = IF ok THEN @ \cup groups[p][x] ELSE @]
    /\ erred' = [erred EXCEPT ![p] = @ \/ ~ok]
    /\ UNCHANGED <<calls, consuming, batch, toGroup, unmatched, unroutable, untried, taken,
                   nonRoutable, routerVars>>

AllSent(p) == toGroup[p] = {} /\ \A x \in Exporter : groups[p][x] = {}

(* Each default exporter that handles the signal gets all the unmatched.    *)
SendDefault(p, d, ok) ==
    /\ p \in consuming /\ AllSent(p) /\ unmatched[p] # {} /\ d \in untried[p]
    /\ untried' = [untried EXCEPT ![p] = @ \ {d}]
    /\ taken' = [taken EXCEPT ![p] = @ \/ ok]
    /\ delivered' = [delivered EXCEPT ![p] = IF ok THEN @ \cup unmatched[p] ELSE @]
    /\ erred' = [erred EXCEPT ![p] = @ \/ ~ok]
    /\ UNCHANGED <<calls, consuming, batch, toGroup, groups, unmatched, unroutable,
                   nonRoutable, routerVars>>

(* Mutants: the points of the unmatched are counted instead of, not in      *)
(* addition to, those of unhandled signals; they are counted whenever a     *)
(* default exporter failed.                                                 *)
NonRoutableAssigned(p) ==
    IF unmatched[p] # {} /\ ~taken[p] THEN NumberOf(unmatched[p]) ELSE unroutable[p]
NonRoutableOnAnyError(p) ==
    unroutable[p] + IF unmatched[p] # {} /\ (~taken[p] \/ erred[p])
                    THEN NumberOf(unmatched[p]) ELSE 0
NonRoutable(p) ==
    unroutable[p] + IF unmatched[p] # {} /\ ~taken[p] THEN NumberOf(unmatched[p]) ELSE 0

(* The call returns errs, if there are any. *)
Return(p) ==
    /\ p \in consuming /\ AllSent(p) /\ (unmatched[p] = {} \/ untried[p] = {})
    /\ consuming' = consuming \ {p}
    /\ nonRoutable' = [nonRoutable EXCEPT ![SignalOf[p]] = @ + NonRoutable(p)]
    /\ UNCHANGED <<calls, batch, toGroup, groups, unmatched, unroutable, untried, taken, erred,
                   delivered, routerVars>>

(* What the observers' callbacks do to the router meanwhile. *)
RouterChanges == RouterNext /\ UNCHANGED callVars
------------------------------------------------------------------------------
ConsumeStep(p) ==
    \/ \E r \in Resource : GroupResource(p, r)
    \/ \E x \in Exporter, ok \in BOOLEAN : Send(p, x, ok)
    \/ \E d \in DefaultExporter, ok \in BOOLEAN : SendDefault(p, d, ok)
    \/ Return(p)

ConsumeNext ==
    \/ \E p \in Pipeline :
          \/ \E resources \in SUBSET Resource \ {{}} : BeginConsume(p, resources)
          \/ ConsumeStep(p)
    \/ RouterChanges

ConsumeSpec == ConsumeInit /\ [][ConsumeNext]_consumeVars
------------------------------------------------------------------------------
(* The call's local variables keep their types, and speak of its batch.     *)
ConsumeTypeOK ==
    /\ calls \in Nat /\ consuming \subseteq Pipeline
    /\ {batch, toGroup, unmatched, delivered} \subseteq [Pipeline -> SUBSET Resource]
    /\ groups \in [Pipeline -> [Exporter -> SUBSET Resource]]
    /\ unroutable \in [Pipeline -> Nat]
    /\ untried \in [Pipeline -> SUBSET DefaultExporter]
    /\ taken \in [Pipeline -> BOOLEAN] /\ erred \in [Pipeline -> BOOLEAN]
    /\ nonRoutable \in [Signal -> Nat]
    /\ \A p \in Pipeline :
          toGroup[p] \cup unmatched[p] \cup delivered[p] \cup UNION {groups[p][x] : x \in Exporter}
              \subseteq batch[p]

(* "Whether that telemetry is then counted as non-routable depends on the   *)
(* other exporters it matched: it is only lost, and only counted, when none *)
(* of them accepted it" (exporter.go:609): when a call returns, the counter *)
(* rises by no more than the points nobody accepted, and, unless the call   *)
(* returns an error, by exactly those.  So telemetry never vanishes, nor is *)
(* it both delivered and counted, whatever the router does meanwhile.       *)
Counted(p) ==
    LET lost == NumberOf(batch[p] \ delivered[p])
        added == nonRoutable'[SignalOf[p]] - nonRoutable[SignalOf[p]]
    IN added <= lost /\ (erred[p] \/ added = lost)

LossIsCounted == [][\A p \in consuming \ consuming' : Counted(p)]_consumeVars
==============================================================================
