--------------------------- MODULE TelemetryRouter ---------------------------
(***************************************************************************)
(* router.go: the table that says which exporters a resource reaches.      *)
(*                                                                         *)
(* telemetryRouter keeps map[EndpointID][]*routedExporter together with    *)
(* two caches of its size (count, byType) and reports byType through the   *)
(* exporters_count gauge.  Every operation runs under r.mu from its first  *)
(* to its last line, so each is one atomic step here; the lock itself is   *)
(* not part of this module.                                                *)
(*                                                                         *)
(* The map of slices is the set of its routedExporters, each with the key  *)
(* it is filed under: a slice is appended to, ranged over and deleted as a *)
(* whole, and every routedExporter holds an exporter of its own.           *)
(***************************************************************************)
EXTENDS Integers, FiniteSets

CONSTANTS
    EndpointID,    \* ids of the endpoints observers report
    Exporter,      \* the exporter instances that may ever be created
    ExporterType,  \* component types of the templates, e.g. otlp
    Attribute,     \* resource attribute names
    Property,      \* endpoint property paths
    Value,         \* typed values of either
    Absent,        \* no such attribute, no such property
    AttributeText, \* pcommon.Value.AsString of a value
    PropertyText,  \* toString of a value
    Rules          \* routing.rules: [attribute, property] pairs

ASSUME AbsentIsNoValue == Absent \notin Value
ASSUME RulesType == Rules \subseteq [attribute : Attribute, property : Property]

VARIABLES
    routed,        \* r.exporters: the routedExporters, with their endpoint
    count,         \* r.count
    byType,        \* r.byType; 0 for a type never seen
    exportersCount \* last value recorded in the gauge, by exporter_type

routerVars == <<routed, count, byType, exportersCount>>

NoSeries == -1  \* a gauge series that was never recorded

Attributes == [Attribute -> Value \cup {Absent}]
Properties == [Property -> Value \cup {Absent}]
RoutedExporter == [endpoint : EndpointID, exporter : Exporter,
                   exporterType : ExporterType, properties : Properties]

RoutedTo(id) == {re \in routed : re.endpoint = id}
OfType(t) == {re \in routed : re.exporterType = t}
------------------------------------------------------------------------------
RouterInit ==
    /\ routed = {}
    /\ count = 0
    /\ byType = [t \in ExporterType |-> 0]
    /\ exportersCount = [t \in ExporterType |-> NoSeries]

(* Mutant: a type at zero is dropped instead of being recorded as zero. *)
RecordCountSkipsZero(added) ==
    exportersCount' = [t \in ExporterType |->
        IF byType'[t] # 0 THEN byType'[t] ELSE exportersCount[t]]

(* recordCountLocked writes every type that has a key in byType: a type    *)
(* gets its key when first added and keeps it.  `added` is the set of      *)
(* types the calling operation adds.                                       *)
RecordCount(added) ==
    exportersCount' = [t \in ExporterType |->
        IF t \in added \/ exportersCount[t] # NoSeries
        THEN byType'[t] ELSE NoSeries]

AddExporter(id, exp, props, t) ==
    /\ routed' = routed \cup {[endpoint |-> id, exporter |-> exp,
                               exporterType |-> t, properties |-> props]}
    /\ count' = count + 1
    /\ byType' = [byType EXCEPT ![t] = @ + 1]
    /\ RecordCount({t})

(* What removing an endpoint takes off the total: as many as it has, none   *)
(* included.  Mutants: one, if it has any; one, whatever it has.            *)
OneIfAny(id) == IF RoutedTo(id) = {} THEN 0 ELSE 1
AlwaysOne(id) == 1
NumberRemoved(id) == Cardinality(RoutedTo(id))

(* Mutant: nothing is removed. *)
RemoveExporterForgets(id) == UNCHANGED routerVars

RemoveExporter(id) ==
    /\ routed' = routed \ RoutedTo(id)
    /\ count' = count - NumberRemoved(id)
    /\ byType' = [t \in ExporterType |->
                    byType[t] - Cardinality(RoutedTo(id) \cap OfType(t))]
    /\ RecordCount({})

(* Every rule has to find its attribute on the resource and its property   *)
(* on the endpoint, and the two have to read the same as text.  With no    *)
(* rules nothing matches.                                                  *)
MatchesAllRules(attrs, props) ==
    /\ Rules # {}
    /\ \A rule \in Rules :
          /\ attrs[rule.attribute] # Absent
          /\ props[rule.property] # Absent
          /\ AttributeText[attrs[rule.attribute]] = PropertyText[props[rule.property]]

(* Route reads the cached count before it looks at the table. *)
Route(attrs) ==
    IF count = 0 THEN {}
    ELSE {re.exporter : re \in {x \in routed : MatchesAllRules(attrs, x.properties)}}
------------------------------------------------------------------------------
(* startExporter hands AddExporter the exporter runner.start has just      *)
(* returned, so no exporter is registered twice while it is registered.    *)
Unregistered(exp) == \A re \in routed : re.exporter # exp

RouterNext ==
    \/ \E id \in EndpointID, exp \in Exporter, props \in Properties, t \in ExporterType :
          Unregistered(exp) /\ AddExporter(id, exp, props, t)
    \/ \E id \in EndpointID : RemoveExporter(id)

RouterSpec == RouterInit /\ [][RouterNext]_routerVars
------------------------------------------------------------------------------
(* The router's fields keep their types; no total goes below zero          *)
(* (router.go:25-50).                                                      *)
RouterTypeOK ==
    /\ routed \subseteq RoutedExporter
    /\ count \in Nat
    /\ byType \in [ExporterType -> Nat]
    /\ exportersCount \in [ExporterType -> Nat \cup {NoSeries}]

(* The cached totals never drift from the table they summarise, through    *)
(* several exporters under one endpoint, removal of an endpoint with none  *)
(* and repeated removal (router.go:31-38).                                 *)
CachedCountMatchesExporters ==
    /\ count = Cardinality(routed)
    /\ \A t \in ExporterType : byType[t] = Cardinality(OfType(t))

(* The gauge shows, for every type that ever had an exporter, how many it  *)
(* has now: a type whose last exporter went reads zero and never keeps its *)
(* last value; only a type never seen has no series (router.go:113-117).   *)
GaugeReportsLiveCount ==
    \A t \in ExporterType :
        \/ exportersCount[t] = Cardinality(OfType(t))
        \/ exportersCount[t] = NoSeries /\ OfType(t) = {}

(* Gating on the cached count loses nothing: Route returns exactly the     *)
(* exporters whose endpoint satisfies every rule, and none when there are  *)
(* no rules (router.go:146-164).                                           *)
RouteIsExact ==
    \A attrs \in Attributes :
        Route(attrs) = {exp \in Exporter :
            \E re \in routed : re.exporter = exp /\ MatchesAllRules(attrs, re.properties)}
==============================================================================
