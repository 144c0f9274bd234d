----------------------------- MODULE ConsumeProofs -----------------------------
(***************************************************************************)
(* What a call of Consume counts as non-routable is what nobody accepted:  *)
(* for any pipelines, batches and exporters, whatever the router does      *)
(* between the routing of one resource and the next.                       *)
(***************************************************************************)
EXTENDS Consume, TelemetryRouterProofs

(* What is on its way to exporters. *)
Grouped(p) == UNION {groups[p][x] : x \in Exporter}

(* A resource is in one hand at a time: not yet routed, on its way to      *)
(* exporters or accepted by one, or matched by none.  The unmatched become *)
(* accepted when a default exporter takes them, after all are routed.      *)
HandsInv(p) ==
    /\ toGroup[p] \cap (unmatched[p] \cup Grouped(p) \cup delivered[p]) = {}
    /\ unmatched[p] \cap Grouped(p) = {}
    /\ IF taken[p] THEN toGroup[p] = {} /\ unmatched[p] \subseteq delivered[p]
       ELSE unmatched[p] \cap delivered[p] = {}

(* What unroutable counts is the points of some resources of the batch that *)
(* are in no hand, and unless an exporter failed these are all the others.  *)
LostIs(p, lost) ==
    /\ lost \subseteq batch[p]
    /\ lost \cap (toGroup[p] \cup unmatched[p] \cup Grouped(p) \cup delivered[p]) = {}
    /\ unroutable[p] = NumberOf(lost)
    /\ erred[p] \/ batch[p] = toGroup[p] \cup unmatched[p] \cup Grouped(p) \cup delivered[p] \cup lost

LostInv(p) == \E lost \in SUBSET Resource : LostIs(p, lost)

(* So it is in every call: each has variables of its own.                  *)
CallsInv ==
    /\ ConsumeTypeOK
    /\ \A p \in Pipeline : HandsInv(p) /\ LostInv(p)
------------------------------------------------------------------------------
(* The points of a set of resources are finitely many.                     *)
LEMMA NumberType ==
    ASSUME NEW S \in SUBSET Resource
    PROVE  /\ IsFiniteSet(UNION {PointsOf[r] : r \in S})
           /\ NumberOf(S) \in Nat
  <1>1. UNION {PointsOf[r] : r \in S} \subseteq Point
    BY ResourcesType
  <1> QED
    BY <1>1, ResourcesType, FS_Subset, FS_CardinalityType DEF NumberOf

LEMMA NumberOfNone == NumberOf({}) = 0
  <1>1. UNION {PointsOf[r] : r \in {}} = {}
    OBVIOUS
  <1> QED
    BY <1>1, FS_EmptySet DEF NumberOf

(* More resources have no fewer points.                                    *)
LEMMA NumberGrows ==
    ASSUME NEW T \in SUBSET Resource, NEW S \in SUBSET T
    PROVE  NumberOf(S) <= NumberOf(T)
  <1>1. UNION {PointsOf[r] : r \in S} \subseteq UNION {PointsOf[r] : r \in T}
    OBVIOUS
  <1> QED
    BY <1>1, NumberType, FS_Subset DEF NumberOf

(* Resources have no points in common, so their numbers add up.            *)
LEMMA NumbersAdd ==
    ASSUME NEW S \in SUBSET Resource, NEW T \in SUBSET Resource, S \cap T = {}
    PROVE  NumberOf(S \cup T) = NumberOf(S) + NumberOf(T)
  <1> DEFINE PS == UNION {PointsOf[r] : r \in S}
             PT == UNION {PointsOf[r] : r \in T}
  <1>1. UNION {PointsOf[r] : r \in S \cup T} = PS \cup PT
    OBVIOUS
  <1>2. PS \cap PT = {}
    BY ResourcesType
  <1>3. IsFiniteSet(PS) /\ IsFiniteSet(PT)
    BY NumberType
  <1>4. NumberOf(S) = Cardinality(PS) /\ NumberOf(T) = Cardinality(PT)
        /\ NumberOf(S \cup T) = Cardinality(PS \cup PT)
    BY <1>1 DEF NumberOf
  <1> HIDE DEF PS, PT
  <1>5. Cardinality(PS \cup PT) = Cardinality(PS) + Cardinality(PT) - Cardinality({})
    BY <1>2, <1>3, FS_Union
  <1>6. Cardinality(PS) \in Nat /\ Cardinality(PT) \in Nat /\ Cardinality({}) = 0
    BY <1>3, FS_CardinalityType, FS_EmptySet
  <1> QED
    BY <1>4, <1>5, <1>6
------------------------------------------------------------------------------
(* Calls leave the router alone, and what changes it is an operation of its *)
(* own.                                                                     *)
LEMMA CallsSpareRouter ==
    ASSUME [ConsumeNext]_consumeVars
    PROVE  [RouterNext]_routerVars
  <1>1. ASSUME NEW p \in Pipeline, NEW resources \in SUBSET Resource, BeginConsume(p, resources)
        PROVE  UNCHANGED routerVars
    BY <1>1 DEF BeginConsume
  <1>2. ASSUME NEW p \in Pipeline, ConsumeStep(p)
        PROVE  UNCHANGED routerVars
    BY <1>2 DEF ConsumeStep, GroupResource, Send, SendDefault, Return
  <1>3. CASE RouterChanges
    BY <1>3 DEF RouterChanges
  <1>4. CASE UNCHANGED consumeVars
    BY <1>4 DEF consumeVars
  <1> QED
    BY <1>1, <1>2, <1>3, <1>4 DEF ConsumeNext

(* Calls write nothing of the router (exporter.go), so what is proved of    *)
(* the router's own runs holds of these.                                    *)
LEMMA ConsumeDrivesRouter == ConsumeSpec => RouterSpec
  <1>1. ConsumeInit => RouterInit
    BY DEF ConsumeInit
  <1> QED
    BY <1>1, CallsSpareRouter, PTL DEF ConsumeSpec, RouterSpec

(* router.go:31-38, 113-117, 156-164, with calls under way: the totals, the *)
(* gauge and the answers of Route agree with the table.                     *)
THEOREM RouterIsExactUnderCalls ==
    ConsumeSpec => [](CachedCountMatchesExporters /\ GaugeReportsLiveCount /\ RouteIsExact)
  BY ConsumeDrivesRouter, CountsAreExact, GaugeIsExact, RoutingIsExact, PTL
------------------------------------------------------------------------------
(* A call depends on nothing but its own variables.                         *)
LEMMA OtherCallsStay ==
    ASSUME NEW q \in Pipeline, HandsInv(q), LostInv(q),
           batch'[q] = batch[q], toGroup'[q] = toGroup[q], groups'[q] = groups[q],
           unmatched'[q] = unmatched[q], unroutable'[q] = unroutable[q], taken'[q] = taken[q],
           erred'[q] = erred[q], delivered'[q] = delivered[q]
    PROVE  HandsInv(q)' /\ LostInv(q)'
  <1>1. Grouped(q)' = Grouped(q)
    BY DEF Grouped
  <1>2. HandsInv(q)'
    BY <1>1 DEF HandsInv
  <1>3. PICK lost \in SUBSET Resource : LostIs(q, lost)
    BY DEF LostInv
  <1>4. LostIs(q, lost)'
    BY <1>1, <1>3 DEF LostIs, NumberOf
  <1> QED
    BY <1>2, <1>4 DEF LostInv

LEMMA CallsInitially == ConsumeInit => CallsInv
  <1> SUFFICES ASSUME ConsumeInit PROVE CallsInv
    OBVIOUS
  <1>1. ConsumeTypeOK
    BY PipelinesType DEF ConsumeInit, ConsumeTypeOK
  <1>2. ASSUME NEW p \in Pipeline
        PROVE  HandsInv(p) /\ LostIs(p, {})
    <2>1. Grouped(p) = {}
      BY DEF ConsumeInit, Grouped
    <2> QED
      BY <2>1, NumberOfNone DEF ConsumeInit, HandsInv, LostIs
  <1> QED
    BY <1>1, <1>2 DEF CallsInv, LostInv

(* A call begins with all of its batch to route, and nothing from before.   *)
LEMMA BeginConsumeKeepsInv ==
    ASSUME CallsInv, NEW p \in Pipeline, NEW resources \in SUBSET Resource,
           BeginConsume(p, resources)
    PROVE  CallsInv'
  <1> USE DEF CallsInv
  <1>1. ConsumeTypeOK'
    BY PipelinesType DEF BeginConsume, NewBatch, ConsumeTypeOK
  <1>2. HandsInv(p)' /\ LostIs(p, {})'
    <2>1. /\ batch'[p] = resources /\ toGroup'[p] = resources /\ unmatched'[p] = {}
          /\ groups'[p] = [x \in Exporter |-> {}] /\ unroutable'[p] = 0
          /\ taken'[p] = FALSE /\ erred'[p] = FALSE /\ delivered'[p] = {}
      BY DEF BeginConsume, NewBatch, ConsumeTypeOK
    <2>2. Grouped(p)' = {}
      BY <2>1 DEF Grouped
    <2> QED
      BY <2>1, <2>2, NumberOfNone DEF HandsInv, LostIs, NumberOf
  <1>3. ASSUME NEW q \in Pipeline, q # p
        PROVE  HandsInv(q)' /\ LostInv(q)'
    BY <1>3, OtherCallsStay DEF BeginConsume, ConsumeTypeOK
  <1> QED
    BY <1>1, <1>2, <1>3 DEF LostInv

(* A routed resource leaves toGroup for one hand: exporters that handle it, *)
(* the unmatched, or none, and then its points are counted.                 *)
LEMMA GroupResourceKeepsInv ==
    ASSUME CallsInv, RouterTypeOK, NEW p \in Pipeline, NEW r \in Resource, GroupResource(p, r)
    PROVE  CallsInv'
  <1> USE DEF CallsInv
  <1> DEFINE matched == Route(AttributesOf[r])
             takers == {x \in matched : SignalOf[p] \in Handles[x]}
  <1>1. /\ p \in consuming /\ r \in toGroup[p]
        /\ groups' = [groups EXCEPT ![p] =
               [x \in Exporter |-> IF x \in takers THEN groups[p][x] \cup {r} ELSE groups[p][x]]]
        /\ unmatched' = [unmatched EXCEPT ![p] =
               IF matched = {} THEN unmatched[p] \cup {r} ELSE unmatched[p]]
        /\ unroutable' = [unroutable EXCEPT ![p] =
               IF Lost(p, matched) THEN unroutable[p] + NumberOf({r}) ELSE unroutable[p]]
        /\ toGroup' = [toGroup EXCEPT ![p] = toGroup[p] \ {r}]
        /\ UNCHANGED <<calls, consuming, batch, untried, taken, erred, delivered, nonRoutable>>
    BY DEF GroupResource
  <1>2. matched \subseteq Exporter
    BY DEF Route, RouterTypeOK, RoutedExporter
  <1>3. Lost(p, matched) <=> matched # {} /\ takers = {}
    BY DEF Lost
  <1>4. /\ toGroup[p] \subseteq batch[p] /\ unmatched[p] \subseteq batch[p]
        /\ batch[p] \in SUBSET Resource
        /\ groups[p] \in [Exporter -> SUBSET Resource] /\ unroutable[p] \in Nat
        /\ NumberOf({r}) \in Nat
    BY NumberType DEF ConsumeTypeOK
  <1> HIDE DEF matched
  <1>5. /\ toGroup'[p] = toGroup[p] \ {r}
        /\ unmatched'[p] = IF matched = {} THEN unmatched[p] \cup {r} ELSE unmatched[p]
        /\ unroutable'[p] = IF Lost(p, matched) THEN unroutable[p] + NumberOf({r}) ELSE unroutable[p]
        /\ batch'[p] = batch[p] /\ taken'[p] = taken[p] /\ erred'[p] = erred[p]
        /\ delivered'[p] = delivered[p]
    BY <1>1 DEF ConsumeTypeOK
  <1>6. Grouped(p)' = IF takers = {} THEN Grouped(p) ELSE Grouped(p) \cup {r}
    <2>1. groups'[p] = [x \in Exporter |->
              IF x \in takers THEN groups[p][x] \cup {r} ELSE groups[p][x]]
      BY <1>1 DEF ConsumeTypeOK
    <2>2. takers \subseteq Exporter
      BY <1>2
    <2> HIDE DEF takers
    <2> QED
      BY <2>1, <2>2 DEF Grouped
  <1>7. ConsumeTypeOK'
    <2>1. groups' \in [Pipeline -> [Exporter -> SUBSET Resource]]
      BY <1>1, <1>4 DEF ConsumeTypeOK
    <2>2. unroutable' \in [Pipeline -> Nat]
      BY <1>1, <1>4 DEF ConsumeTypeOK
    <2>3. {batch, toGroup, unmatched, delivered}' \subseteq [Pipeline -> SUBSET Resource]
      BY <1>1, <1>4 DEF ConsumeTypeOK
    <2>4. toGroup'[p] \cup unmatched'[p] \cup delivered'[p] \cup Grouped(p)' \subseteq batch'[p]
      BY <1>1, <1>4, <1>5, <1>6 DEF ConsumeTypeOK, Grouped
    <2>5. ASSUME NEW q \in Pipeline, q # p
          PROVE  /\ toGroup'[q] = toGroup[q] /\ unmatched'[q] = unmatched[q]
                 /\ groups'[q] = groups[q]
      BY <1>1, <2>5 DEF ConsumeTypeOK
    <2> QED
      BY <1>1, <2>1, <2>2, <2>3, <2>4, <2>5 DEF ConsumeTypeOK, Grouped
  <1>8. HandsInv(p)'
    BY <1>1, <1>5, <1>6 DEF HandsInv
  <1>9. LostInv(p)'
    <2>1. PICK lost \in SUBSET Resource : LostIs(p, lost)
      BY DEF LostInv
    <2>2. CASE Lost(p, matched)
      <3>1. NumberOf(lost \cup {r}) = NumberOf(lost) + NumberOf({r})
        <4>1. lost \cap {r} = {}
          BY <1>1, <2>1 DEF LostIs
        <4> QED
          BY <4>1, NumbersAdd
      <3>2. NumberOf(lost \cup {r})' = NumberOf(lost \cup {r})
        BY DEF NumberOf
      <3>3. LostIs(p, lost \cup {r})'
        BY <1>1, <1>3, <1>4, <1>5, <1>6, <2>1, <2>2, <3>1, <3>2 DEF LostIs, HandsInv
      <3> QED
        BY <3>3 DEF LostInv
    <2>3. CASE ~Lost(p, matched)
      <3>1. NumberOf(lost)' = NumberOf(lost)
        BY DEF NumberOf
      <3>2. LostIs(p, lost)'
        BY <1>1, <1>3, <1>5, <1>6, <2>1, <2>3, <3>1 DEF LostIs
      <3> QED
        BY <3>2 DEF LostInv
    <2> QED
      BY <2>2, <2>3
  <1>10. ASSUME NEW q \in Pipeline, q # p
         PROVE  HandsInv(q)' /\ LostInv(q)'
    <2> HIDE DEF takers
    <2> QED
      BY <1>1, <1>10, OtherCallsStay DEF ConsumeTypeOK
  <1> QED
    BY <1>7, <1>8, <1>9, <1>10

(* What an exporter accepts is delivered; what it does not is an error.     *)
LEMMA SendKeepsInv ==
    ASSUME CallsInv, NEW p \in Pipeline, NEW x \in Exporter, NEW ok \in BOOLEAN, Send(p, x, ok)
    PROVE  CallsInv'
  <1> USE DEF CallsInv
  <1>1. /\ toGroup[p] = {}
        /\ groups' = [groups EXCEPT ![p][x] = {}]
        /\ delivered' = [delivered EXCEPT ![p] =
               IF ok THEN delivered[p] \cup groups[p][x] ELSE delivered[p]]
        /\ erred' = [erred EXCEPT ![p] = erred[p] \/ ~ok]
        /\ UNCHANGED <<calls, consuming, batch, toGroup, unmatched, unroutable, untried, taken,
                       nonRoutable>>
    BY DEF Send
  <1>2. groups[p] \in [Exporter -> SUBSET Resource] /\ groups[p][x] \subseteq Grouped(p)
    BY DEF ConsumeTypeOK, Grouped
  <1>3. /\ groups'[p] = [groups[p] EXCEPT ![x] = {}]
        /\ delivered'[p] = IF ok THEN delivered[p] \cup groups[p][x] ELSE delivered[p]
        /\ erred[p] \/ ~ok => erred'[p]
    BY <1>1 DEF ConsumeTypeOK
  <1>4. Grouped(p)' \subseteq Grouped(p) /\ Grouped(p) \subseteq Grouped(p)' \cup groups[p][x]
    BY <1>2, <1>3 DEF Grouped
  <1>5. ConsumeTypeOK'
    <2>1. groups' \in [Pipeline -> [Exporter -> SUBSET Resource]]
      BY <1>1, <1>2 DEF ConsumeTypeOK
    <2>2. delivered' \in [Pipeline -> SUBSET Resource] /\ erred' \in [Pipeline -> BOOLEAN]
      BY <1>1, <1>2 DEF ConsumeTypeOK
    <2>3. toGroup'[p] \cup unmatched'[p] \cup delivered'[p] \cup Grouped(p)' \subseteq batch'[p]
      BY <1>1, <1>2, <1>3, <1>4 DEF ConsumeTypeOK, Grouped
    <2>4. ASSUME NEW q \in Pipeline, q # p
          PROVE  delivered'[q] = delivered[q] /\ groups'[q] = groups[q]
      BY <1>1, <2>4 DEF ConsumeTypeOK
    <2> QED
      BY <1>1, <2>1, <2>2, <2>3, <2>4 DEF ConsumeTypeOK, Grouped
  <1>6. HandsInv(p)'
    BY <1>1, <1>2, <1>3, <1>4 DEF HandsInv
  <1>7. LostInv(p)'
    <2>1. PICK lost \in SUBSET Resource : LostIs(p, lost)
      BY DEF LostInv
    <2>2. NumberOf(lost)' = NumberOf(lost)
      BY DEF NumberOf
    <2>3. LostIs(p, lost)'
      BY <1>1, <1>2, <1>3, <1>4, <2>1, <2>2 DEF LostIs
    <2> QED
      BY <2>3 DEF LostInv
  <1>8. ASSUME NEW q \in Pipeline, q # p
        PROVE  HandsInv(q)' /\ LostInv(q)'
    BY <1>1, <1>8, OtherCallsStay DEF ConsumeTypeOK
  <1> QED
    BY <1>5, <1>6, <1>7, <1>8

(* Only when all is routed and sent are the unmatched offered; a default    *)
(* exporter takes all of them or none.                                      *)
LEMMA SendDefaultKeepsInv ==
    ASSUME CallsInv, NEW p \in Pipeline, NEW d \in DefaultExporter, NEW ok \in BOOLEAN,
           SendDefault(p, d, ok)
    PROVE  CallsInv'
  <1> USE DEF CallsInv
  <1>1. /\ toGroup[p] = {}
        /\ untried' = [untried EXCEPT ![p] = untried[p] \ {d}]
        /\ taken' = [taken EXCEPT ![p] = taken[p] \/ ok]
        /\ delivered' = [delivered EXCEPT ![p] =
               IF ok THEN delivered[p] \cup unmatched[p] ELSE delivered[p]]
        /\ erred' = [erred EXCEPT ![p] = erred[p] \/ ~ok]
        /\ UNCHANGED <<calls, consuming, batch, toGroup, groups, unmatched, unroutable, nonRoutable>>
    BY DEF SendDefault, AllSent
  <1>2. /\ taken'[p] <=> taken[p] \/ ok
        /\ erred[p] \/ ~ok => erred'[p]
        /\ delivered'[p] = IF ok THEN delivered[p] \cup unmatched[p] ELSE delivered[p]
        /\ Grouped(p)' = Grouped(p)
    BY <1>1 DEF ConsumeTypeOK, Grouped
  <1>3. ConsumeTypeOK'
    BY <1>1 DEF ConsumeTypeOK
  <1>4. HandsInv(p)'
    BY <1>1, <1>2 DEF HandsInv
  <1>5. LostInv(p)'
    <2>1. PICK lost \in SUBSET Resource : LostIs(p, lost)
      BY DEF LostInv
    <2>2. NumberOf(lost)' = NumberOf(lost)
      BY DEF NumberOf
    <2>3. LostIs(p, lost)'
      BY <1>1, <1>2, <2>1, <2>2 DEF LostIs
    <2> QED
      BY <2>3 DEF LostInv
  <1>6. ASSUME NEW q \in Pipeline, q # p
        PROVE  HandsInv(q)' /\ LostInv(q)'
    BY <1>1, <1>6, OtherCallsStay DEF ConsumeTypeOK
  <1> QED
    BY <1>3, <1>4, <1>5, <1>6

(* What a call adds to the counter is a number of points.                   *)
LEMMA NonRoutableType ==
    ASSUME CallsInv, NEW p \in Pipeline
    PROVE  NonRoutable(p) \in Nat
  <1>1. unmatched[p] \in SUBSET Resource /\ unroutable[p] \in Nat
    BY DEF CallsInv, ConsumeTypeOK
  <1>2. NumberOf(unmatched[p]) \in Nat
    BY <1>1, NumberType
  <1> QED
    BY <1>1, <1>2 DEF NonRoutable

LEMMA ReturnKeepsInv ==
    ASSUME CallsInv, NEW p \in Pipeline, Return(p)
    PROVE  CallsInv'
  <1> USE DEF CallsInv
  <1>1. SignalOf[p] \in Signal
    BY PipelinesType
  <1>2. ConsumeTypeOK'
    <2>1. nonRoutable' \in [Signal -> Nat]
      BY <1>1, NonRoutableType DEF Return, ConsumeTypeOK
    <2> QED
      BY <2>1 DEF Return, ConsumeTypeOK
  <1>3. ASSUME NEW q \in Pipeline
        PROVE  HandsInv(q)' /\ LostInv(q)'
    BY OtherCallsStay DEF Return
  <1> QED
    BY <1>2, <1>3

LEMMA CallsStutter ==
    ASSUME CallsInv, UNCHANGED callVars
    PROVE  CallsInv'
  <1>1. ConsumeTypeOK'
    BY DEF CallsInv, callVars, ConsumeTypeOK
  <1>2. ASSUME NEW q \in Pipeline
        PROVE  HandsInv(q)' /\ LostInv(q)'
    BY OtherCallsStay DEF CallsInv, callVars
  <1> QED
    BY <1>1, <1>2 DEF CallsInv

(* CallsInv is an invariant of Consume.                                     *)
THEOREM CallsInvariant == ConsumeSpec => []CallsInv
  <1>1. CallsInv /\ RouterTypeOK /\ [ConsumeNext]_consumeVars => CallsInv'
    <2> SUFFICES ASSUME CallsInv, RouterTypeOK, [ConsumeNext]_consumeVars PROVE CallsInv'
      OBVIOUS
    <2>1. CASE UNCHANGED consumeVars \/ RouterChanges
      BY <2>1, CallsStutter DEF consumeVars, RouterChanges
    <2>2. ASSUME NEW p \in Pipeline, NEW resources \in SUBSET Resource, BeginConsume(p, resources)
          PROVE  CallsInv'
      BY <2>2, BeginConsumeKeepsInv
    <2>3. ASSUME NEW p \in Pipeline, ConsumeStep(p)
          PROVE  CallsInv'
      BY <2>3, GroupResourceKeepsInv, SendKeepsInv, SendDefaultKeepsInv, ReturnKeepsInv
      DEF ConsumeStep
    <2> QED
      BY <2>1, <2>2, <2>3 DEF ConsumeNext
  <1>2. RouterInv => RouterTypeOK
    BY DEF RouterInv
  <1> QED
    BY <1>1, <1>2, CallsInitially, ConsumeDrivesRouter, RouterInvariant, PTL DEF ConsumeSpec

(* exporter.go: a call's locals keep their types, and speak of its batch.   *)
THEOREM CallsKeepTypes == ConsumeSpec => []ConsumeTypeOK
  BY CallsInvariant, PTL DEF CallsInv
------------------------------------------------------------------------------
(* When all is sent what was lost, and the unmatched nobody took, are       *)
(* resources that were not delivered, and without an error they are all.    *)
LEMMA ReturnCounts ==
    ASSUME CallsInv, NEW p \in Pipeline, Return(p)
    PROVE  Counted(p)
  <1>1. PICK lost \in SUBSET Resource : LostIs(p, lost)
    BY DEF CallsInv, LostInv
  <1>2. HandsInv(p) /\ Grouped(p) = {} /\ toGroup[p] = {}
    BY DEF CallsInv, Return, AllSent, Grouped
  <1>3. /\ unmatched[p] \in SUBSET Resource /\ batch[p] \in SUBSET Resource
        /\ delivered[p] \in SUBSET Resource /\ unmatched[p] \subseteq batch[p]
        /\ lost \subseteq batch[p] /\ unroutable[p] = NumberOf(lost)
    BY <1>1 DEF CallsInv, ConsumeTypeOK, LostIs
  <1> DEFINE uncounted == IF taken[p] THEN {} ELSE unmatched[p]
             undelivered == batch[p] \ delivered[p]
  <1>4. uncounted \in SUBSET Resource /\ lost \cap uncounted = {}
    BY <1>1, <1>3 DEF LostIs
  <1>5. NonRoutable(p) = NumberOf(lost \cup uncounted)
    <2>1. NumberOf(lost \cup uncounted) = NumberOf(lost) + NumberOf(uncounted)
      BY <1>4, NumbersAdd
    <2>2. NumberOf(lost) \in Nat
      BY NumberType
    <2>3. NonRoutable(p) = NumberOf(lost) + NumberOf(uncounted)
      BY <1>3, <2>2, NumberOfNone DEF NonRoutable
    <2> QED
      BY <2>1, <2>3
  <1>6. lost \cup uncounted \subseteq undelivered
    BY <1>1, <1>2, <1>3 DEF LostIs, HandsInv
  <1>7. erred[p] \/ lost \cup uncounted = undelivered
    BY <1>1, <1>2, <1>3, <1>6 DEF LostIs, HandsInv
  <1>8. nonRoutable'[SignalOf[p]] - nonRoutable[SignalOf[p]] = NonRoutable(p)
    <2>1. SignalOf[p] \in Signal /\ nonRoutable \in [Signal -> Nat]
      BY PipelinesType DEF CallsInv, ConsumeTypeOK
    <2>2. NonRoutable(p) \in Nat
      BY NonRoutableType
    <2> QED
      BY <2>1, <2>2 DEF Return
  <1>9. NumberOf(lost \cup uncounted) <= NumberOf(undelivered)
    BY <1>3, <1>6, NumberGrows
  <1> QED
    BY <1>5, <1>7, <1>8, <1>9 DEF Counted

(* exporter.go:609: telemetry is counted as non-routable when nobody        *)
(* accepted it, by every call, whichever exporters come and go meanwhile:   *)
(* no more than that is counted, and without an error no less.              *)
THEOREM WhatIsLostIsCounted == ConsumeSpec => LossIsCounted
  <1>1. ASSUME CallsInv, [ConsumeNext]_consumeVars, NEW p, p \in consuming, p \notin consuming'
        PROVE  Counted(p)
    <2>1. p \in Pipeline
      BY <1>1 DEF CallsInv, ConsumeTypeOK
    <2>2. Return(p)
      BY <1>1 DEF ConsumeNext, ConsumeStep, BeginConsume, GroupResource, Send, SendDefault, Return,
         RouterChanges, callVars, consumeVars
    <2> QED
      BY <2>1, <2>2, ReturnCounts, <1>1
  <1>2. CallsInv /\ [ConsumeNext]_consumeVars
            => [\A p \in consuming \ consuming' : Counted(p)]_consumeVars
    BY <1>1
  <1> QED
    BY <1>2, CallsInvariant, PTL DEF ConsumeSpec, LossIsCounted
==============================================================================
