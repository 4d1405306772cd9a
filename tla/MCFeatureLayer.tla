--------------------------- MODULE MCFeatureLayer ---------------------------
(* An instance of FeatureLayer for TLC: two filters that share no row, and *)
(* their OR.                                                               *)
EXTENDS FeatureLayer

CONSTANTS t1, t2

MCFilters == {<<{1}>>, <<{2}>>, <<{1}, {2}>>}
=============================================================================
