--------------------------- MODULE MCSharedExporter ---------------------------
(* Three pipelines, two of them with one configuration; the collector builds *)
(* up to three times, at most a creator for each pipeline each time.         *)
EXTENDS SharedExporter, TLC

CONSTANTS logs, metrics, traces, k1, k2

MCConfigOf == logs :> k1 @@ metrics :> k1 @@ traces :> k2
==============================================================================
