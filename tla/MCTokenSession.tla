--------------------------- MODULE MCTokenSession ---------------------------
(* An instance of TokenSession for TLC: two tasks on one session. *)
EXTENDS TokenSession

CONSTANTS t1, t2
=============================================================================
