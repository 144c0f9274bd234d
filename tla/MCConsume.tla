------------------------------ MODULE MCConsume ------------------------------
(* A logs and a metrics pipeline; two resources, of two points and of one;  *)
(* an exporter for both signals and one for logs alone.                     *)
EXTENDS Consume, TLC

CONSTANTS logs, metrics, fromA, fromB, x1, x2, d1, d2

MCRules == {[attribute |-> "region", property |-> "region"]}
MCText == "a" :> "a" @@ "b" :> "b"
MCSignalOf == logs :> "logs" @@ metrics :> "metrics"
MCAttributesOf == fromA :> [a \in {"region"} |-> "a"] @@ fromB :> [a \in {"region"} |-> "b"]
MCPointsOf == fromA :> {1, 2} @@ fromB :> {3}
MCHandles == x1 :> {"logs", "metrics"} @@ x2 :> {"logs"}
MCDefaultHandles == d1 :> {"logs"} @@ d2 :> {"logs"}
MCSymmetry == Permutations(EndpointID) \cup Permutations(ExporterType) \cup Permutations({d1, d2})
==============================================================================
