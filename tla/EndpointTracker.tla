--------------------------- MODULE EndpointTracker ---------------------------
(***************************************************************************)
(* endpointtracker.go: the observed-endpoints gauge, kept by counting up   *)
(* and down as observers report and retract endpoints.                     *)
(*                                                                         *)
(* One tracker is shared by all subscriptions.  track and untrack run      *)
(* under t.mu from end to end, so each is one step.  A batch is a function *)
(* from the endpoint ids in it to their types: an observer names an        *)
(* endpoint once in a batch, and the loop over a batch touches each id on  *)
(* its own, so its order does not matter.                                  *)
(***************************************************************************)
EXTENDS Integers, FiniteSets

CONSTANTS
    EndpointID,
    EndpointType,
    NotReported,   \* what live says of an endpoint it has no entry for
    Observer,
    ObserverType,
    TypeOf         \* component.ID.Type() of each observer

(* What is assumed of the constants; ExporterCreator assumes it of its own. *)
TrackerConstants ==
    /\ TypeOf \in [Observer -> ObserverType]
    /\ IsFiniteSet(EndpointID) /\ IsFiniteSet(Observer)
    /\ NotReported \notin EndpointType

VARIABLES
    live,              \* t.live: what each subscription reports, by id
    totals,            \* t.totals; 0 for a series that has no key yet
    observedEndpoints  \* last value recorded in the gauge, by series

trackerVars == <<live, totals, observedEndpoints>>

NoSeries == -1  \* a gauge series that was never recorded

Series == [observer : ObserverType, endpoint : EndpointType]
Batch == UNION {[ids -> EndpointType] : ids \in SUBSET EndpointID}

(* The endpoints o reports that are counted under s. *)
LiveIn(o, s) == {id \in EndpointID : TypeOf[o] = s.observer /\ live[o][id] = s.endpoint}
------------------------------------------------------------------------------
TrackerInit ==
    /\ live = [o \in Observer |-> [id \in EndpointID |-> NotReported]]
    /\ totals = [s \in Series |-> 0]
    /\ observedEndpoints = [s \in Series |-> NoSeries]

(* Mutant: a series at zero is dropped instead of being recorded as zero. *)
RecordLockedSkipsZero(counted) ==
    observedEndpoints' = [s \in Series |->
        IF totals'[s] # 0 THEN totals'[s] ELSE observedEndpoints[s]]

(* recordLocked writes every series that has a key in totals; `counted` is *)
(* the set of those the calling operation counts something in.             *)
RecordLocked(counted) ==
    observedEndpoints' = [s \in Series |->
        IF s \in counted \/ observedEndpoints[s] # NoSeries THEN totals'[s] ELSE NoSeries]

(* An endpoint reported again with the type it had is skipped; one whose   *)
(* type changed leaves its old series and enters the new one; a new one    *)
(* only enters.                                                            *)
Entering(o, batch, s) ==
    {id \in DOMAIN batch : /\ TypeOf[o] = s.observer /\ batch[id] = s.endpoint
                           /\ live[o][id] # batch[id]}
Leaving(o, batch, s) ==
    {id \in LiveIn(o, s) \cap DOMAIN batch : live[o][id] # batch[id]}

Track(o, batch) ==
    /\ live' = [live EXCEPT ![o] =
            [id \in EndpointID |-> IF id \in DOMAIN batch THEN batch[id] ELSE @[id]]]
    /\ totals' = [s \in Series |->
            totals[s] + Cardinality(Entering(o, batch, s)) - Cardinality(Leaving(o, batch, s))]
    /\ RecordLocked({s \in Series : Entering(o, batch, s) # {}})

(* Endpoints o never reported are ignored. *)
Withdrawn(o, ids, s) == LiveIn(o, s) \cap ids

Untrack(o, ids) ==
    /\ live' = [live EXCEPT ![o] =
            [id \in EndpointID |-> IF id \in ids THEN NotReported ELSE @[id]]]
    /\ totals' = [s \in Series |-> totals[s] - Cardinality(Withdrawn(o, ids, s))]
    /\ RecordLocked({})

TrackerNext ==
    \E o \in Observer :
        \/ \E batch \in Batch : Track(o, batch)
        \/ \E ids \in SUBSET EndpointID : Untrack(o, ids)

TrackerSpec == TrackerInit /\ [][TrackerNext]_trackerVars
------------------------------------------------------------------------------
(* The tracker's fields keep their types; no total goes below zero         *)
(* (endpointtracker.go:31-43).                                             *)
TrackerTypeOK ==
    /\ live \in [Observer -> [EndpointID -> EndpointType \cup {NotReported}]]
    /\ totals \in [Series -> Nat]
    /\ observedEndpoints \in [Series -> Nat \cup {NoSeries}]

(* All that is reported, with the observer that reports it. *)
Reports == {r \in [observer : Observer, endpoint : EndpointID, endpointType : EndpointType] :
                live[r.observer][r.endpoint] = r.endpointType}

ReportsIn(s) == {r \in Reports : TypeOf[r.observer] = s.observer /\ r.endpointType = s.endpoint}

(* Counting up and down comes to the number of endpoints now reported,     *)
(* summed over the observers that share a series and counting none twice   *)
(* (endpointtracker.go:25-30, 53-55).                                      *)
TotalsMatchLive == \A s \in Series : totals[s] = Cardinality(ReportsIn(s))

(* The incremental tracker does what the gauge promises: every step of it  *)
(* is a report or a retraction after which the series show the truth.      *)
Promise == INSTANCE ObservedEndpoints WITH reports <- Reports, gauge <- observedEndpoints
GaugeKeepsPromise == Promise!Spec
==============================================================================
