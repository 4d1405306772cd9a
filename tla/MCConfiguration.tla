--------------------------- MODULE MCConfiguration ---------------------------
(* An instance of Configuration for TLC: one field of each kind, and every *)
(* environment of at most two variables to start in.                       *)
EXTENDS Configuration, TLC

Defaults == [f \in Fields |-> IF f = "timeout" THEN 4
                              ELSE IF f \in Words THEN 0 ELSE 2]
Ranks == [timeout |-> 1, token_url |-> 2, threshold |-> 3]

EmptyEnv == [new |-> [f \in Fields |-> Unset], old |-> [f \in Aliased |-> Unset],
             chunk |-> Unset, backend |-> FALSE]
OneSet == Edited(EmptyEnv)
UpToTwoSet == OneSet \cup UNION {Edited(e) : e \in OneSet}
=============================================================================
