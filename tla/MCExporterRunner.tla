--------------------------- MODULE MCExporterRunner ---------------------------
(* Two exporters of up to three signals each, one of which may fail to      *)
(* start.                                                                   *)
EXTENDS ExporterRunner, TLC

MCSymmetry == Permutations(Signal)
==============================================================================
