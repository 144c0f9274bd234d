-------------------------- MODULE ObservedEndpoints --------------------------
(***************************************************************************)
(* What the observed-endpoints gauge promises, without saying how it is    *)
(* kept: each of its series shows how many endpoints of that type are      *)
(* reported by observers of that type, and a series once shown is shown    *)
(* for ever.                                                               *)
(***************************************************************************)
EXTENDS Integers, FiniteSets

CONSTANTS
    EndpointID,
    EndpointType,  \* pod, port, k8s.crd, ...; "unknown" without Details
    Observer,      \* the observers of watch_observers
    ObserverType,
    TypeOf         \* [Observer -> ObserverType]


VARIABLES
    reports,  \* which observer reports which endpoint, and as what
    gauge     \* the value of each series

NoSeries == -1

Report == [observer : Observer, endpoint : EndpointID, endpointType : EndpointType]
Series == [observer : ObserverType, endpoint : EndpointType]

ReportsOf(o, ids) == {r \in reports : r.observer = o /\ r.endpoint \in ids}
Counted(rs, s) == {r \in rs : TypeOf[r.observer] = s.observer /\ r.endpointType = s.endpoint}
------------------------------------------------------------------------------
Init ==
    /\ reports = {}
    /\ gauge = [s \in Series |-> NoSeries]

(* Series that have been shown, and those in `new`, show what is true now. *)
Show(new) ==
    gauge' = [s \in Series |->
        IF s \in new \/ gauge[s] # NoSeries THEN Cardinality(Counted(reports', s)) ELSE NoSeries]

(* Observer o reports the endpoints in DOMAIN batch, each with its type.   *)
Reported(o, batch) ==
    LET now == {[observer |-> o, endpoint |-> id, endpointType |-> batch[id]] : id \in DOMAIN batch}
    IN  /\ reports' = (reports \ ReportsOf(o, DOMAIN batch)) \cup now
        /\ Show({[observer |-> TypeOf[o], endpoint |-> batch[id]] : id \in DOMAIN batch})

(* Observer o retracts endpoints, some of which it may never have reported. *)
Retracted(o, ids) ==
    /\ reports' = reports \ ReportsOf(o, ids)
    /\ Show({})

Batch == UNION {[ids -> EndpointType] : ids \in SUBSET EndpointID}

Next ==
    \E o \in Observer :
        \/ \E batch \in Batch : Reported(o, batch)
        \/ \E ids \in SUBSET EndpointID : Retracted(o, ids)

Spec == Init /\ [][Next]_<<reports, gauge>>
==============================================================================
