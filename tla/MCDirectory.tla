----------------------------- MODULE MCDirectory -----------------------------
(* An instance of Directory for TLC: one service with layers of two types. *)
EXTENDS Directory

TwoLayers == [s \in Services |-> {[of |-> s, type |-> "Feature Layer"],
                                  [of |-> s, type |-> "Raster Layer"]}]
=============================================================================
