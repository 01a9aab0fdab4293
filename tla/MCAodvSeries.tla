--------------------------- MODULE MCAodvSeries ---------------------------
(* Model-checking instance of AodvSeries; no symmetry, for liveness.       *)
EXTENDS AodvSeries
=============================================================================
