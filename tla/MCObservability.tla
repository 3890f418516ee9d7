--------------------------- MODULE MCObservability ---------------------------
(* Instances of ObservabilityQueue for TLC.                                *)
EXTENDS ObservabilityQueue, TLC

CONSTANTS k1, k2, c1

MCKeys    == {k1, k2}
MCCallers == {c1}

==============================================================================
