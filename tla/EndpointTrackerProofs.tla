------------------------ MODULE EndpointTrackerProofs ------------------------
(***************************************************************************)
(* Counting up and down keeps the observed-endpoints gauge true, for any   *)
(* observers and endpoints: totals are never below zero and always the     *)
(* number of reports, and the tracker implements ObservedEndpoints.        *)
(***************************************************************************)
EXTENDS EndpointTracker, FiniteSetTheorems, FunctionTheorems, TLAPS

(* The reports o makes of the endpoints ids as t. *)
As(o, ids, t) == {[observer |-> o, endpoint |-> id, endpointType |-> t] : id \in ids}

(* A series never recorded has no reports; a recorded one shows its total. *)
GaugeInv ==
    \A s \in Series : IF observedEndpoints[s] = NoSeries THEN ReportsIn(s) = {}
                                                         ELSE observedEndpoints[s] = totals[s]

TrackerInv ==
    /\ TrackerTypeOK
    /\ \A s \in Series : IsFiniteSet(ReportsIn(s))
    /\ TotalsMatchLive
    /\ GaugeInv

(* An observer has as many reports as endpoints it reports. *)
LEMMA AsMany ==
    ASSUME NEW o, NEW t, NEW ids, IsFiniteSet(ids)
    PROVE  IsFiniteSet(As(o, ids, t)) /\ Cardinality(As(o, ids, t)) = Cardinality(ids)
  <1> DEFINE f == [id \in ids |-> [observer |-> o, endpoint |-> id, endpointType |-> t]]
  <1>1. f \in [ids -> As(o, ids, t)]
    BY DEF As
  <1>2. \A a, b \in ids : f[a] = f[b] => a = b
    OBVIOUS
  <1>3. \A r \in As(o, ids, t) : \E id \in ids : f[id] = r
    BY DEF As
  <1> HIDE DEF f
  <1>4. f \in Bijection(ids, As(o, ids, t))
    BY <1>1, <1>2, <1>3, Fun_IsBij
  <1>5. ExistsBijection(ids, As(o, ids, t))
    BY <1>4 DEF ExistsBijection
  <1> QED
    BY <1>5, FS_Bijection

(* What leaves a set was in it and what enters was not, so counting is     *)
(* exact, and does not go below zero.                                      *)
LEMMA CountingIsExact ==
    ASSUME NEW R, IsFiniteSet(R), NEW L, L \subseteq R,
           NEW E, IsFiniteSet(E), E \cap R = {}
    PROVE  /\ IsFiniteSet((R \ L) \cup E)
           /\ Cardinality((R \ L) \cup E) = Cardinality(R) + Cardinality(E) - Cardinality(L)
           /\ Cardinality((R \ L) \cup E) \in Nat
  <1>1. R \cap L = L /\ (R \ L) \cap E = {}
    OBVIOUS
  <1>2. IsFiniteSet(R \ L) /\ Cardinality(R \ L) = Cardinality(R) - Cardinality(L)
    BY <1>1, FS_Difference
  <1>3. /\ IsFiniteSet((R \ L) \cup E)
        /\ Cardinality((R \ L) \cup E) = Cardinality(R \ L) + Cardinality(E) - Cardinality({})
    BY <1>1, <1>2, FS_Union
  <1>4. IsFiniteSet(L)
    BY FS_Subset
  <1>5. /\ Cardinality(R) \in Nat /\ Cardinality(L) \in Nat /\ Cardinality(E) \in Nat
        /\ Cardinality((R \ L) \cup E) \in Nat
    BY <1>3, <1>4, FS_CardinalityType
  <1> QED
    BY <1>2, <1>3, <1>5, FS_EmptySet

(* Nothing is reported, counted or shown at first. *)
LEMMA TrackerInitially == ASSUME TrackerConstants, TrackerInit PROVE TrackerInv
  <1>1. Reports = {}
    BY DEF TrackerConstants, TrackerInit, Reports
  <1>2. \A s \in Series : ReportsIn(s) = {}
    BY <1>1 DEF ReportsIn
  <1>3. TrackerTypeOK
    BY DEF TrackerInit, TrackerTypeOK
  <1>4. IsFiniteSet({}) /\ Cardinality({}) = 0
    BY FS_EmptySet
  <1>5. \A s \in Series : totals[s] = 0 /\ observedEndpoints[s] = NoSeries
    BY DEF TrackerInit
  <1> QED
    BY <1>2, <1>3, <1>4, <1>5 DEF TrackerInv, TotalsMatchLive, GaugeInv

(* What a reported batch does to the reports of one series: those it       *)
(* counts down were there, those it counts up were not.                    *)
LEMMA TrackReports ==
    ASSUME TrackerConstants, TrackerTypeOK, NEW o \in Observer, NEW batch \in Batch,
           Track(o, batch), NEW s \in Series
    PROVE  LET L == As(o, Leaving(o, batch, s), s.endpoint)
               E == As(o, Entering(o, batch, s), s.endpoint)
           IN  /\ ReportsIn(s)' = (ReportsIn(s) \ L) \cup E
               /\ L \subseteq ReportsIn(s) /\ E \cap ReportsIn(s) = {}
               /\ IsFiniteSet(Leaving(o, batch, s)) /\ IsFiniteSet(Entering(o, batch, s))
  <1> DEFINE L == As(o, Leaving(o, batch, s), s.endpoint)
             E == As(o, Entering(o, batch, s), s.endpoint)
             Report == [observer : Observer, endpoint : EndpointID, endpointType : EndpointType]
  <1>1. /\ DOMAIN batch \subseteq EndpointID /\ s.endpoint \in EndpointType
        /\ \A id \in DOMAIN batch : batch[id] \in EndpointType
    BY DEF Batch, Series
  <1>2. /\ \A p \in Observer, id \in EndpointID :
             live'[p][id] = IF p = o /\ id \in DOMAIN batch THEN batch[id] ELSE live[p][id]
    BY DEF Track, TrackerTypeOK
  <1>3. \A r : r \in ReportsIn(s) <=>
           r \in Report /\ live[r.observer][r.endpoint] = r.endpointType
           /\ TypeOf[r.observer] = s.observer /\ r.endpointType = s.endpoint
    BY DEF ReportsIn, Reports
  <1>4. \A r : r \in ReportsIn(s)' <=>
           r \in Report /\ live'[r.observer][r.endpoint] = r.endpointType
           /\ TypeOf[r.observer] = s.observer /\ r.endpointType = s.endpoint
    BY DEF ReportsIn, Reports
  <1>5. \A r : r \in L <=>
           r \in Report /\ r.observer = o /\ r.endpointType = s.endpoint
           /\ r.endpoint \in Leaving(o, batch, s)
    BY <1>1 DEF As, Leaving, LiveIn
  <1>6. \A r : r \in E <=>
           r \in Report /\ r.observer = o /\ r.endpointType = s.endpoint
           /\ r.endpoint \in Entering(o, batch, s)
    BY <1>1 DEF As, Entering
  <1> HIDE DEF L, E, Report
  <1>7. Leaving(o, batch, s) \subseteq EndpointID /\ Entering(o, batch, s) \subseteq EndpointID
    BY <1>1 DEF Leaving, Entering, LiveIn
  <1>8. IsFiniteSet(Leaving(o, batch, s)) /\ IsFiniteSet(Entering(o, batch, s))
    BY <1>7, FS_Subset DEF TrackerConstants
  <1>9. L \subseteq ReportsIn(s)
    BY <1>3, <1>5 DEF Leaving, LiveIn
  <1>10. E \cap ReportsIn(s) = {}
    BY <1>3, <1>6 DEF Entering
  <1>11. ASSUME NEW r \in Report
         PROVE  r \in ReportsIn(s)' <=> r \in (ReportsIn(s) \ L) \cup E
    <2>1. r.observer \in Observer /\ r.endpoint \in EndpointID
      BY <1>11 DEF Report
    <2>2. CASE r.observer = o /\ r.endpoint \in DOMAIN batch
      BY <2>1, <2>2, <1>2, <1>3, <1>4, <1>5, <1>6, <1>11 DEF Leaving, Entering, LiveIn
    <2>3. CASE ~(r.observer = o /\ r.endpoint \in DOMAIN batch)
      BY <2>1, <2>3, <1>2, <1>3, <1>4, <1>5, <1>6, <1>11 DEF Leaving, Entering, LiveIn
    <2> QED
      BY <2>2, <2>3
  <1>12. ReportsIn(s)' = (ReportsIn(s) \ L) \cup E
    BY <1>3, <1>4, <1>5, <1>6, <1>11
  <1> QED
    BY <1>8, <1>9, <1>10, <1>12 DEF L, E

(* What a retraction does to them. *)
LEMMA UntrackReports ==
    ASSUME TrackerConstants, TrackerTypeOK, NEW o \in Observer, NEW ids \in SUBSET EndpointID,
           Untrack(o, ids), NEW s \in Series
    PROVE  LET L == As(o, Withdrawn(o, ids, s), s.endpoint)
           IN  /\ ReportsIn(s)' = ReportsIn(s) \ L
               /\ L \subseteq ReportsIn(s) /\ IsFiniteSet(Withdrawn(o, ids, s))
  <1> DEFINE L == As(o, Withdrawn(o, ids, s), s.endpoint)
             Report == [observer : Observer, endpoint : EndpointID, endpointType : EndpointType]
  <1>1. s.endpoint \in EndpointType /\ NotReported \notin EndpointType
    BY DEF TrackerConstants, Series
  <1>2. \A p \in Observer, id \in EndpointID :
             live'[p][id] = IF p = o /\ id \in ids THEN NotReported ELSE live[p][id]
    BY DEF Untrack, TrackerTypeOK
  <1>3. \A r : r \in ReportsIn(s) <=>
           r \in Report /\ live[r.observer][r.endpoint] = r.endpointType
           /\ TypeOf[r.observer] = s.observer /\ r.endpointType = s.endpoint
    BY DEF ReportsIn, Reports
  <1>4. \A r : r \in ReportsIn(s)' <=>
           r \in Report /\ live'[r.observer][r.endpoint] = r.endpointType
           /\ TypeOf[r.observer] = s.observer /\ r.endpointType = s.endpoint
    BY DEF ReportsIn, Reports
  <1>5. \A r : r \in L <=>
           r \in Report /\ r.observer = o /\ r.endpointType = s.endpoint
           /\ r.endpoint \in Withdrawn(o, ids, s)
    BY <1>1 DEF As, Withdrawn, LiveIn
  <1> HIDE DEF L
  <1>6. Withdrawn(o, ids, s) \subseteq EndpointID
    BY DEF Withdrawn, LiveIn
  <1>7. IsFiniteSet(Withdrawn(o, ids, s))
    BY <1>6, FS_Subset DEF TrackerConstants
  <1>8. L \subseteq ReportsIn(s)
    BY <1>3, <1>5 DEF Withdrawn, LiveIn
  <1>9. \A r \in Report : r.observer \in Observer /\ r.endpoint \in EndpointID
    OBVIOUS
  <1> HIDE DEF Report
  <1>10. ReportsIn(s)' = ReportsIn(s) \ L
    BY <1>1, <1>2, <1>3, <1>4, <1>5, <1>9 DEF Withdrawn, LiveIn
  <1> QED
    BY <1>7, <1>8, <1>10 DEF L
------------------------------------------------------------------------------
(* A series with nothing to show has a total of zero. *)
LEMMA UnseenIsZero ==
    ASSUME TrackerInv, NEW s \in Series, observedEndpoints[s] = NoSeries
    PROVE  ReportsIn(s) = {} /\ totals[s] = 0
  <1>1. ReportsIn(s) = {} /\ totals[s] = Cardinality(ReportsIn(s))
    BY DEF TrackerInv, GaugeInv, TotalsMatchLive
  <1> QED
    BY <1>1, FS_EmptySet

(* The totals follow the reports of every series. *)
LEMMA TrackCounts ==
    ASSUME TrackerConstants, TrackerInv, NEW o \in Observer, NEW batch \in Batch,
           Track(o, batch), NEW s \in Series
    PROVE  /\ IsFiniteSet(ReportsIn(s)') /\ totals'[s] \in Nat
           /\ totals'[s] = Cardinality(ReportsIn(s)')
           /\ Entering(o, batch, s) = {} => ReportsIn(s)' \subseteq ReportsIn(s)
  <1> DEFINE L == As(o, Leaving(o, batch, s), s.endpoint)
             E == As(o, Entering(o, batch, s), s.endpoint)
  <1>1. /\ ReportsIn(s)' = (ReportsIn(s) \ L) \cup E
        /\ L \subseteq ReportsIn(s) /\ E \cap ReportsIn(s) = {}
        /\ IsFiniteSet(Leaving(o, batch, s)) /\ IsFiniteSet(Entering(o, batch, s))
    BY TrackReports DEF TrackerInv
  <1>2. /\ Cardinality(L) = Cardinality(Leaving(o, batch, s))
        /\ Cardinality(E) = Cardinality(Entering(o, batch, s)) /\ IsFiniteSet(E)
    BY <1>1, AsMany
  <1>3. IsFiniteSet(ReportsIn(s)) /\ totals[s] = Cardinality(ReportsIn(s))
    BY DEF TrackerInv, TotalsMatchLive
  <1>4. totals'[s] = totals[s] + Cardinality(Entering(o, batch, s)) - Cardinality(Leaving(o, batch, s))
    BY DEF Track
  <1>5. Entering(o, batch, s) = {} => E = {}
    BY DEF As
  <1> HIDE DEF L, E
  <1>6. /\ IsFiniteSet((ReportsIn(s) \ L) \cup E)
        /\ Cardinality((ReportsIn(s) \ L) \cup E)
             = Cardinality(ReportsIn(s)) + Cardinality(E) - Cardinality(L)
        /\ Cardinality((ReportsIn(s) \ L) \cup E) \in Nat
    BY <1>1, <1>2, <1>3, CountingIsExact
  <1> QED
    BY <1>1, <1>2, <1>3, <1>4, <1>5, <1>6

LEMMA UntrackCounts ==
    ASSUME TrackerConstants, TrackerInv, NEW o \in Observer, NEW ids \in SUBSET EndpointID,
           Untrack(o, ids), NEW s \in Series
    PROVE  /\ IsFiniteSet(ReportsIn(s)') /\ totals'[s] \in Nat
           /\ totals'[s] = Cardinality(ReportsIn(s)')
           /\ ReportsIn(s)' \subseteq ReportsIn(s)
  <1> DEFINE L == As(o, Withdrawn(o, ids, s), s.endpoint)
  <1>1. /\ ReportsIn(s)' = ReportsIn(s) \ L
        /\ L \subseteq ReportsIn(s) /\ IsFiniteSet(Withdrawn(o, ids, s))
    BY UntrackReports DEF TrackerInv
  <1>2. Cardinality(L) = Cardinality(Withdrawn(o, ids, s))
    BY <1>1, AsMany
  <1>3. IsFiniteSet(ReportsIn(s)) /\ totals[s] = Cardinality(ReportsIn(s))
    BY DEF TrackerInv, TotalsMatchLive
  <1>4. totals'[s] = totals[s] - Cardinality(Withdrawn(o, ids, s))
    BY DEF Untrack
  <1> HIDE DEF L
  <1>5. IsFiniteSet({}) /\ Cardinality({}) = 0
    BY FS_EmptySet
  <1>6. /\ IsFiniteSet((ReportsIn(s) \ L) \cup {})
        /\ Cardinality((ReportsIn(s) \ L) \cup {})
             = Cardinality(ReportsIn(s)) + Cardinality({}) - Cardinality(L)
        /\ Cardinality((ReportsIn(s) \ L) \cup {}) \in Nat
    BY <1>1, <1>3, <1>5, CountingIsExact
  <1>7. (ReportsIn(s) \ L) \cup {} = ReportsIn(s) \ L /\ Cardinality(ReportsIn(s)) \in Nat
        /\ Cardinality(L) \in Nat
    BY <1>1, <1>3, FS_CardinalityType, FS_Subset
  <1> QED
    BY <1>1, <1>2, <1>3, <1>4, <1>5, <1>6, <1>7

(* When what is counted is recorded, the gauge shows the new totals.       *)
LEMMA RecordedIsTrue ==
    ASSUME TrackerInv, NEW counted, RecordLocked(counted),
           \A s \in Series : totals'[s] \in Nat,
           \A s \in Series : s \notin counted => ReportsIn(s)' \subseteq ReportsIn(s)
    PROVE  GaugeInv' /\ observedEndpoints' \in [Series -> Nat \cup {NoSeries}]
  <1>1. ASSUME NEW s \in Series
        PROVE  observedEndpoints'[s] = IF s \in counted \/ observedEndpoints[s] # NoSeries
                                       THEN totals'[s] ELSE NoSeries
    BY DEF RecordLocked
  <1>2. ASSUME NEW s \in Series
        PROVE  IF observedEndpoints'[s] = NoSeries THEN ReportsIn(s)' = {}
               ELSE observedEndpoints'[s] = totals'[s]
    <2>1. CASE s \in counted \/ observedEndpoints[s] # NoSeries
      BY <1>1, <2>1 DEF NoSeries
    <2>2. CASE s \notin counted /\ observedEndpoints[s] = NoSeries
      BY <1>1, <2>2, UnseenIsZero
    <2> QED
      BY <2>1, <2>2
  <1>3. observedEndpoints' \in [Series -> Nat \cup {NoSeries}]
    BY <1>1 DEF RecordLocked, NoSeries
  <1> QED
    BY <1>2, <1>3 DEF GaugeInv

(* A reported batch keeps the invariant. *)
LEMMA TrackKeepsInv ==
    ASSUME TrackerConstants, TrackerInv, NEW o \in Observer, NEW batch \in Batch, Track(o, batch)
    PROVE  TrackerInv'
  <1>1. \A s \in Series : /\ IsFiniteSet(ReportsIn(s)') /\ totals'[s] \in Nat
                          /\ totals'[s] = Cardinality(ReportsIn(s)')
                          /\ Entering(o, batch, s) = {} => ReportsIn(s)' \subseteq ReportsIn(s)
    BY TrackCounts
  <1>2. GaugeInv' /\ observedEndpoints' \in [Series -> Nat \cup {NoSeries}]
    <2>1. RecordLocked({s \in Series : Entering(o, batch, s) # {}})
      BY DEF Track
    <2> QED
      BY <1>1, <2>1, RecordedIsTrue
  <1>3. live' \in [Observer -> [EndpointID -> EndpointType \cup {NotReported}]]
    <2>1. /\ DOMAIN batch \subseteq EndpointID
          /\ \A id \in DOMAIN batch : batch[id] \in EndpointType
      BY DEF Batch
    <2> QED
      BY <2>1 DEF Track, TrackerInv, TrackerTypeOK
  <1>4. totals' \in [Series -> Nat]
    BY <1>1 DEF Track
  <1> QED
    BY <1>1, <1>2, <1>3, <1>4 DEF TrackerInv, TrackerTypeOK, TotalsMatchLive

(* So does a retraction. *)
LEMMA UntrackKeepsInv ==
    ASSUME TrackerConstants, TrackerInv, NEW o \in Observer, NEW ids \in SUBSET EndpointID,
           Untrack(o, ids)
    PROVE  TrackerInv'
  <1>1. \A s \in Series : /\ IsFiniteSet(ReportsIn(s)') /\ totals'[s] \in Nat
                          /\ totals'[s] = Cardinality(ReportsIn(s)')
                          /\ ReportsIn(s)' \subseteq ReportsIn(s)
    BY UntrackCounts
  <1>2. GaugeInv' /\ observedEndpoints' \in [Series -> Nat \cup {NoSeries}]
    <2>1. RecordLocked({})
      BY DEF Untrack
    <2> QED
      BY <1>1, <2>1, RecordedIsTrue
  <1>3. live' \in [Observer -> [EndpointID -> EndpointType \cup {NotReported}]]
    BY DEF Untrack, TrackerInv, TrackerTypeOK
  <1>4. totals' \in [Series -> Nat]
    BY <1>1 DEF Untrack
  <1> QED
    BY <1>1, <1>2, <1>3, <1>4 DEF TrackerInv, TrackerTypeOK, TotalsMatchLive

(* And a step that leaves the tracker alone. *)
LEMMA UntouchedKeepsInv ==
    ASSUME TrackerInv, UNCHANGED trackerVars PROVE TrackerInv'
  BY DEF trackerVars, TrackerInv, TrackerTypeOK, TotalsMatchLive, GaugeInv, ReportsIn, Reports
------------------------------------------------------------------------------
(* A series the batch is of and that is not counted up was shown already.  *)
LEMMA SkippedIsShown ==
    ASSUME TrackerInv, NEW o \in Observer, NEW batch \in Batch, NEW id \in DOMAIN batch,
           NEW s \in Series, TypeOf[o] = s.observer, batch[id] = s.endpoint,
           Entering(o, batch, s) = {}
    PROVE  observedEndpoints[s] # NoSeries
  <1>1. id \in EndpointID /\ batch[id] \in EndpointType
    BY DEF Batch
  <1>2. live[o][id] = batch[id]
    BY DEF Entering
  <1> DEFINE r == [observer |-> o, endpoint |-> id, endpointType |-> batch[id]]
  <1>3. r \in ReportsIn(s)
    BY <1>1, <1>2 DEF ReportsIn, Reports
  <1> QED
    BY <1>3, UnseenIsZero

(* What the promise counts is what the totals count. *)
LEMMA PromiseShows ==
    ASSUME NEW shown, NEW counted, TrackerInv', RecordLocked(counted),
           \A s \in Series : s \in shown \/ observedEndpoints[s] # NoSeries
                         <=> s \in counted \/ observedEndpoints[s] # NoSeries
    PROVE  Promise!Show(shown)
  <1>1. ASSUME NEW s \in Series
        PROVE  Promise!Counted(Reports', s) = ReportsIn(s)'
    BY DEF Promise!Counted, ReportsIn
  <1>2. \A s \in Series : totals'[s] = Cardinality(ReportsIn(s)')
    BY DEF TrackerInv, TotalsMatchLive
  <1>3. Promise!Series = Series /\ Promise!NoSeries = NoSeries
    BY DEF Promise!Series, Series, Promise!NoSeries, NoSeries
  <1>4. \A S : Promise!Cardinality(S) = Cardinality(S)
    BY DEF Promise!Cardinality, Cardinality
  <1> QED
    BY <1>1, <1>2, <1>3, <1>4 DEF Promise!Show, RecordLocked

(* track is a report, as the promise has it. *)
LEMMA TrackIsReported ==
    ASSUME TrackerConstants, TrackerInv, NEW o \in Observer, NEW batch \in Batch, Track(o, batch)
    PROVE  Promise!Reported(o, batch)
  <1> DEFINE shown == {[observer |-> TypeOf[o], endpoint |-> batch[id]] : id \in DOMAIN batch}
             counted == {s \in Series : Entering(o, batch, s) # {}}
             now == {[observer |-> o, endpoint |-> id, endpointType |-> batch[id]] : id \in DOMAIN batch}
             Report == [observer : Observer, endpoint : EndpointID, endpointType : EndpointType]
  <1>1. /\ DOMAIN batch \subseteq EndpointID
        /\ \A id \in DOMAIN batch : batch[id] \in EndpointType
    BY DEF Batch
  <1>2. \A p \in Observer, id \in EndpointID :
             live'[p][id] = IF p = o /\ id \in DOMAIN batch THEN batch[id] ELSE live[p][id]
    BY DEF Track, TrackerInv, TrackerTypeOK
  <1>3. /\ \A r \in Report : r \in Reports <=> live[r.observer][r.endpoint] = r.endpointType
        /\ \A r \in Report : r \in Reports' <=> live'[r.observer][r.endpoint] = r.endpointType
        /\ Reports \subseteq Report /\ Reports' \subseteq Report
    BY DEF Reports
  <1>4. \A r : r \in now <=> /\ r \in Report /\ r.observer = o
                             /\ r.endpoint \in DOMAIN batch /\ r.endpointType = batch[r.endpoint]
    BY <1>1
  <1>5. \A r \in Report : r.observer \in Observer /\ r.endpoint \in EndpointID
    OBVIOUS
  <1>6. Reports' = (Reports \ Promise!ReportsOf(o, DOMAIN batch)) \cup now
    <2> HIDE DEF now, Report
    <2> QED
      BY <1>2, <1>3, <1>4, <1>5 DEF Promise!ReportsOf
  <1>7. ASSUME NEW s \in Series
        PROVE  s \in shown \/ observedEndpoints[s] # NoSeries
                 <=> s \in counted \/ observedEndpoints[s] # NoSeries
    <2>1. s \in shown <=> TypeOf[o] = s.observer /\ \E id \in DOMAIN batch : batch[id] = s.endpoint
      BY DEF Series
    <2>2. s \in counted => s \in shown
      BY <2>1 DEF Entering
    <2>3. s \in shown /\ s \notin counted => observedEndpoints[s] # NoSeries
      BY <2>1, SkippedIsShown
    <2> QED
      BY <2>2, <2>3
  <1>8. TrackerInv' /\ RecordLocked(counted)
    BY TrackKeepsInv DEF Track
  <1> HIDE DEF shown, counted
  <1>9. Promise!Show(shown)
    BY <1>7, <1>8, PromiseShows
  <1> QED
    BY <1>6, <1>9 DEF Promise!Reported, shown

(* untrack is a retraction. *)
LEMMA UntrackIsRetracted ==
    ASSUME TrackerConstants, TrackerInv, NEW o \in Observer, NEW ids \in SUBSET EndpointID,
           Untrack(o, ids)
    PROVE  Promise!Retracted(o, ids)
  <1> DEFINE Report == [observer : Observer, endpoint : EndpointID, endpointType : EndpointType]
  <1>1. \A p \in Observer, id \in EndpointID :
             live'[p][id] = IF p = o /\ id \in ids THEN NotReported ELSE live[p][id]
    BY DEF Untrack, TrackerInv, TrackerTypeOK
  <1>2. /\ \A r \in Report : r \in Reports <=> live[r.observer][r.endpoint] = r.endpointType
        /\ \A r \in Report : r \in Reports' <=> live'[r.observer][r.endpoint] = r.endpointType
        /\ Reports \subseteq Report /\ Reports' \subseteq Report
    BY DEF Reports
  <1>3. \A r \in Report : /\ r.observer \in Observer /\ r.endpoint \in EndpointID
                          /\ r.endpointType # NotReported
    BY DEF TrackerConstants
  <1>4. Reports' = Reports \ Promise!ReportsOf(o, ids)
    <2> HIDE DEF Report
    <2> QED
      BY <1>1, <1>2, <1>3 DEF Promise!ReportsOf
  <1>5. TrackerInv' /\ RecordLocked({})
    BY UntrackKeepsInv DEF Untrack
  <1>6. Promise!Show({})
    BY <1>5, PromiseShows
  <1> QED
    BY <1>4, <1>6 DEF Promise!Retracted
------------------------------------------------------------------------------
(* endpointtracker.go:36-43, 58-116: what the totals and the gauge say is  *)
(* true of what is reported after every operation, whatever came before.   *)
THEOREM TrackerInvariant ==
    ASSUME TrackerConstants PROVE TrackerSpec => []TrackerInv
  <1>1. TrackerInit => TrackerInv
    BY TrackerInitially
  <1>2. TrackerInv /\ [TrackerNext]_trackerVars => TrackerInv'
    BY TrackKeepsInv, UntrackKeepsInv, UntouchedKeepsInv DEF TrackerNext
  <1> QED
    BY <1>1, <1>2, PTL DEF TrackerSpec

(* endpointtracker.go:25-30, 53-55: no total is ever below zero, and each  *)
(* is the number of reports of its series.                                 *)
THEOREM TotalsAreExact ==
    ASSUME TrackerConstants PROVE TrackerSpec => [](TrackerTypeOK /\ TotalsMatchLive)
  <1>1. TrackerInv => TrackerTypeOK /\ TotalsMatchLive
    BY DEF TrackerInv
  <1> QED
    BY <1>1, TrackerInvariant, PTL

(* endpointtracker.go:13-30: so the tracker is an implementation of the    *)
(* gauge's promise, every operation a report or a retraction of it.        *)
THEOREM TrackerKeepsPromise ==
    ASSUME TrackerConstants PROVE TrackerSpec => GaugeKeepsPromise
  <1>1. TrackerInit => Promise!Init
    <2>1. TrackerConstants /\ TrackerInit => Reports = {}
      BY DEF TrackerConstants, TrackerInit, Reports
    <2> QED
      BY <2>1 DEF TrackerInit, Promise!Init, Promise!Series, Promise!NoSeries, Series, NoSeries
  <1>2. TrackerInv /\ [TrackerNext]_trackerVars => [Promise!Next]_<<Reports, observedEndpoints>>
    <2>1. ASSUME TrackerInv, NEW o \in Observer, NEW batch \in Batch, Track(o, batch)
          PROVE  Promise!Next
      BY <2>1, TrackIsReported DEF Promise!Next, Promise!Batch, Batch
    <2>2. ASSUME TrackerInv, NEW o \in Observer, NEW ids \in SUBSET EndpointID, Untrack(o, ids)
          PROVE  Promise!Next
      BY <2>2, UntrackIsRetracted DEF Promise!Next
    <2>3. CASE UNCHANGED trackerVars
      BY <2>3 DEF trackerVars, Reports
    <2> QED
      BY <2>1, <2>2, <2>3 DEF TrackerNext
  <1> QED
    BY <1>1, <1>2, TrackerInvariant, PTL DEF TrackerSpec, GaugeKeepsPromise, Promise!Spec
==============================================================================
