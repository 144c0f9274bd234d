------------------------ MODULE TelemetryRouterProofs ------------------------
(* The cached totals of router.go are exact, for any set of endpoints,      *)
(* exporters and types, finite or not.                                      *)
EXTENDS TelemetryRouter, FiniteSetTheorems, TLAPS

(* The table is finite because it grows one exporter at a time: that is     *)
(* what lets its size, and the totals, be numbers at all.                   *)
RouterInv ==
    /\ RouterTypeOK
    /\ IsFiniteSet(routed)
    /\ CachedCountMatchesExporters
    /\ GaugeReportsLiveCount

(* Filtering by type or endpoint keeps a finite table finite, and its size  *)
(* a number.                                                                *)
LEMMA FilteredTableFinite ==
    ASSUME IsFiniteSet(routed)
    PROVE  /\ \A id \in EndpointID :
                 /\ IsFiniteSet(RoutedTo(id))
                 /\ Cardinality(RoutedTo(id)) \in Nat
           /\ \A t \in ExporterType :
                 /\ IsFiniteSet(OfType(t))
                 /\ Cardinality(OfType(t)) \in Nat
           /\ Cardinality(routed) \in Nat
  <1>1. \A id \in EndpointID : RoutedTo(id) \subseteq routed
    BY DEF RoutedTo
  <1>2. \A t \in ExporterType : OfType(t) \subseteq routed
    BY DEF OfType
  <1> QED
    BY <1>1, <1>2, FS_Subset, FS_CardinalityType

(* One more exporter of type t raises that type's size by one and leaves    *)
(* the other types alone.                                                   *)
LEMMA AddExporterCounts ==
    ASSUME RouterInv,
           NEW id \in EndpointID, NEW exp \in Exporter,
           NEW props \in Properties, NEW t \in ExporterType,
           Unregistered(exp),
           AddExporter(id, exp, props, t)
    PROVE  /\ IsFiniteSet(routed')
           /\ CachedCountMatchesExporters'
  <1> DEFINE re == [endpoint |-> id, exporter |-> exp,
                    exporterType |-> t, properties |-> props]
  <1>1. routed' = routed \cup {re} /\ re \notin routed
    BY DEF AddExporter, Unregistered
  <1>2. IsFiniteSet(routed) /\ IsFiniteSet(routed') /\ Cardinality(routed') = Cardinality(routed) + 1
    BY <1>1, FS_AddElement DEF RouterInv
  <1>3. count' = Cardinality(routed')
    BY <1>2 DEF AddExporter, RouterInv, CachedCountMatchesExporters
  <1>4. byType'[t] = Cardinality(OfType(t)')
    <2>1. OfType(t)' = OfType(t) \cup {re} /\ re \notin OfType(t)
      BY <1>1 DEF OfType
    <2>2. IsFiniteSet(OfType(t))
      BY <1>2, FilteredTableFinite
    <2>3. Cardinality(OfType(t)') = Cardinality(OfType(t)) + 1
      BY <2>1, <2>2, FS_AddElement
    <2> QED
      BY <2>3 DEF AddExporter, RouterInv, RouterTypeOK, CachedCountMatchesExporters
  <1>5. ASSUME NEW u \in ExporterType, u # t
        PROVE  byType'[u] = Cardinality(OfType(u)')
    <2>1. OfType(u)' = OfType(u)
      BY <1>1, <1>5 DEF OfType
    <2> QED
      BY <1>5, <2>1 DEF AddExporter, RouterInv, RouterTypeOK, CachedCountMatchesExporters
  <1> QED
    BY <1>2, <1>3, <1>4, <1>5 DEF CachedCountMatchesExporters

(* Taking every exporter of an endpoint out of a finite table lowers each   *)
(* total by exactly the number taken out of it.                             *)
LEMMA RemoveExporterCounts ==
    ASSUME RouterInv, NEW id \in EndpointID, RemoveExporter(id)
    PROVE  /\ IsFiniteSet(routed')
           /\ CachedCountMatchesExporters'
  <1>1. routed' = routed \ RoutedTo(id) /\ IsFiniteSet(routed)
    BY DEF RemoveExporter, RouterInv
  <1>2. IsFiniteSet(routed') /\ Cardinality(routed') = Cardinality(routed) - Cardinality(routed \cap RoutedTo(id))
    BY <1>1, FilteredTableFinite, FS_Difference
  <1>3. routed \cap RoutedTo(id) = RoutedTo(id)
    BY DEF RoutedTo
  <1>4. count' = Cardinality(routed')
    BY <1>2, <1>3 DEF RemoveExporter, NumberRemoved, RouterInv, CachedCountMatchesExporters
  <1>5. ASSUME NEW u \in ExporterType
        PROVE  byType'[u] = Cardinality(OfType(u)')
    <2>1. OfType(u)' = OfType(u) \ RoutedTo(id)
      BY <1>1 DEF OfType
    <2>2. OfType(u) \cap RoutedTo(id) = RoutedTo(id) \cap OfType(u)
      OBVIOUS
    <2>3. IsFiniteSet(OfType(u)) /\ IsFiniteSet(RoutedTo(id))
      BY <1>1, FilteredTableFinite
    <2>4. Cardinality(OfType(u)') = Cardinality(OfType(u)) - Cardinality(RoutedTo(id) \cap OfType(u))
      BY <2>1, <2>2, <2>3, FS_Difference
    <2> QED
      BY <2>4 DEF RemoveExporter, RouterInv, CachedCountMatchesExporters
  <1> QED
    BY <1>2, <1>4, <1>5 DEF CachedCountMatchesExporters

(* recordCountLocked brings the gauge in step with totals that are exact,   *)
(* provided it writes every type that has exporters.                        *)
LEMMA RecordCountReportsTotals ==
    ASSUME RouterInv, NEW added \in SUBSET ExporterType,
           RecordCount(added),
           CachedCountMatchesExporters',
           \A t \in ExporterType \ added : OfType(t)' \subseteq OfType(t)
    PROVE  GaugeReportsLiveCount'
  <1> SUFFICES ASSUME NEW t \in ExporterType
               PROVE  \/ exportersCount'[t] = Cardinality(OfType(t)')
                      \/ exportersCount'[t] = NoSeries /\ OfType(t)' = {}
    BY DEF GaugeReportsLiveCount
  <1>1. CASE t \in added \/ exportersCount[t] # NoSeries
    BY <1>1 DEF RecordCount, CachedCountMatchesExporters
  <1>2. CASE t \notin added /\ exportersCount[t] = NoSeries
    <2>1. Cardinality(OfType(t)) \in Nat
      BY FilteredTableFinite DEF RouterInv
    <2>2. OfType(t) = {}
      BY <1>2, <2>1 DEF RouterInv, GaugeReportsLiveCount, NoSeries
    <2> QED
      BY <1>2, <2>2 DEF RecordCount
  <1> QED
    BY <1>1, <1>2

(* The totals are numbers of exporters, so none is ever negative.           *)
LEMMA RecordCountKeepsTypes ==
    ASSUME RouterInv, NEW added \in SUBSET ExporterType,
           RecordCount(added), IsFiniteSet(routed'),
           CachedCountMatchesExporters',
           byType' = [t \in ExporterType |-> byType'[t]]
    PROVE  /\ count' \in Nat
           /\ byType' \in [ExporterType -> Nat]
           /\ exportersCount' \in [ExporterType -> Nat \cup {NoSeries}]
  <1>1. \A t \in ExporterType : OfType(t)' \subseteq routed'
    BY DEF OfType
  <1>2. count' \in Nat /\ \A t \in ExporterType : byType'[t] \in Nat
    BY <1>1, FS_Subset, FS_CardinalityType DEF CachedCountMatchesExporters
  <1> QED
    BY <1>2 DEF RecordCount

(* RouterInv holds at first. *)
LEMMA RouterInvInit == RouterInit => RouterInv
  <1> SUFFICES ASSUME RouterInit PROVE RouterInv
    OBVIOUS
  <1>1. \A t \in ExporterType : OfType(t) = {}
    BY DEF RouterInit, OfType
  <1> QED
    BY <1>1, FS_EmptySet
    DEF RouterInit, RouterInv, RouterTypeOK, CachedCountMatchesExporters, GaugeReportsLiveCount, NoSeries

(* RouterInv survives the registration of an exporter. *)
LEMMA AddExporterInv ==
    ASSUME RouterInv,
           NEW id \in EndpointID, NEW exp \in Exporter,
           NEW props \in Properties, NEW t \in ExporterType,
           Unregistered(exp),
           AddExporter(id, exp, props, t)
    PROVE  RouterInv'
  <1>1. IsFiniteSet(routed') /\ CachedCountMatchesExporters'
    BY AddExporterCounts
  <1>2. RecordCount({t})
    BY DEF AddExporter
  <1>3. byType' = [u \in ExporterType |-> byType'[u]]
    BY DEF AddExporter, RouterInv, RouterTypeOK
  <1>4. \A u \in ExporterType \ {t} : OfType(u)' \subseteq OfType(u)
    BY DEF AddExporter, OfType
  <1>5. GaugeReportsLiveCount'
    BY <1>1, <1>2, <1>4, RecordCountReportsTotals
  <1>6. RouterTypeOK'
    <2>1. routed' \subseteq RoutedExporter
      BY DEF AddExporter, RouterInv, RouterTypeOK, RoutedExporter
    <2> QED
      BY <1>1, <1>2, <1>3, <2>1, RecordCountKeepsTypes DEF RouterTypeOK
  <1> QED
    BY <1>1, <1>5, <1>6 DEF RouterInv

(* RouterInv survives the removal of an endpoint. *)
LEMMA RemoveExporterInv ==
    ASSUME RouterInv, NEW id \in EndpointID, RemoveExporter(id)
    PROVE  RouterInv'
  <1>1. IsFiniteSet(routed') /\ CachedCountMatchesExporters'
    BY RemoveExporterCounts
  <1>2. RecordCount({})
    BY DEF RemoveExporter
  <1>3. byType' = [u \in ExporterType |-> byType'[u]]
    BY DEF RemoveExporter
  <1>4. \A u \in ExporterType \ {} : OfType(u)' \subseteq OfType(u)
    BY DEF RemoveExporter, OfType
  <1>5. GaugeReportsLiveCount'
    BY <1>1, <1>2, <1>4, RecordCountReportsTotals
  <1>6. RouterTypeOK'
    <2>1. routed' \subseteq RoutedExporter
      BY DEF RemoveExporter, RouterInv, RouterTypeOK
    <2> QED
      BY <1>1, <1>2, <1>3, <2>1, RecordCountKeepsTypes DEF RouterTypeOK
  <1> QED
    BY <1>1, <1>5, <1>6 DEF RouterInv

(* Nothing in RouterInv depends on more than the router's variables. *)
LEMMA RouterInvStutter == RouterInv /\ UNCHANGED routerVars => RouterInv'
  BY DEF RouterInv, routerVars, RouterTypeOK, CachedCountMatchesExporters,
         GaugeReportsLiveCount, OfType

(* RouterInv is an invariant of the router. *)
THEOREM RouterInvariant == RouterSpec => []RouterInv
  <1>1. RouterInit => RouterInv
    BY RouterInvInit
  <1>2. RouterInv /\ [RouterNext]_routerVars => RouterInv'
    BY AddExporterInv, RemoveExporterInv, RouterInvStutter DEF RouterNext
  <1> QED
    BY <1>1, <1>2, PTL DEF RouterSpec

(* router.go:31-38: the cached totals always equal the number of exporters  *)
(* in the table, in all and by type, whatever is added and removed.         *)
THEOREM CountsAreExact == RouterSpec => []CachedCountMatchesExporters
  BY RouterInvariant, PTL DEF RouterInv

(* router.go:113-117: every series of the gauge shows the present number.   *)
THEOREM GaugeIsExact == RouterSpec => []GaugeReportsLiveCount
  BY RouterInvariant, PTL DEF RouterInv

(* router.go:156-164: skipping the table when the cached count is zero      *)
(* never skips an exporter that would have matched.                         *)
THEOREM RoutingIsExact == RouterSpec => []RouteIsExact
  <1>1. RouterInv => RouteIsExact
    <2> SUFFICES ASSUME RouterInv, NEW attrs \in Attributes
                 PROVE  Route(attrs) = {exp \in Exporter :
                            \E re \in routed : re.exporter = exp /\ MatchesAllRules(attrs, re.properties)}
      BY DEF RouteIsExact
    <2>1. \A re \in routed : re.exporter \in Exporter
      BY DEF RouterInv, RouterTypeOK, RoutedExporter
    <2>2. count = 0 => routed = {}
      BY FS_EmptySet DEF RouterInv, CachedCountMatchesExporters
    <2> QED
      BY <2>1, <2>2 DEF Route
  <1> QED
    BY <1>1, RouterInvariant, PTL
==============================================================================
