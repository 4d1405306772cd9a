---------------------------- MODULE MCResilience ----------------------------
(* Instances of Resilience for TLC: two requests, for one service or for   *)
(* two services of one host.                                               *)
EXTENDS Resilience, TLC

CONSTANTS t1, t2

OneService == (t1 :> "roads") @@ (t2 :> "roads")
TwoServices == (t1 :> "roads") @@ (t2 :> "parcels")
=============================================================================
