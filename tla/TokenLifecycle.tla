--------------------------- MODULE TokenLifecycle ---------------------------
(***************************************************************************)
(* What a token session promises its callers, whatever the number of tasks *)
(* that use it: one renewal at a time, started only for a token that is    *)
(* missing or spent, and a renewal replaces that token by the next one or  *)
(* leaves it in place.                                                     *)
(***************************************************************************)
EXTENDS Naturals

VARIABLES
  token,     (* the token held, 0 for none; tokens are numbered as received *)
  spent,     (* tokens that must not be relied on any more                  *)
  renewing   (* a renewal is in progress                                    *)

lifecycleVars == <<token, spent, renewing>>

LifecycleInit ==
  /\ token \in {0, 1}
  /\ spent \in SUBSET (1..token)
  /\ renewing = FALSE

Spend ==
  /\ \E k \in 0..token : spent' = spent \cup {k}
  /\ UNCHANGED <<token, renewing>>

(* The caller that finds the held token spent may be the one to renew it.  *)
Begin ==
  /\ ~renewing
  /\ renewing' = TRUE
  /\ spent' \in {spent, spent \cup {token}}
  /\ token = 0 \/ token \in spent'
  /\ UNCHANGED token

Renew ==
  /\ renewing
  /\ renewing' = FALSE
  /\ token' = token + 1
  /\ UNCHANGED spent

GiveUp ==
  /\ renewing
  /\ renewing' = FALSE
  /\ UNCHANGED <<token, spent>>

LifecycleNext == Spend \/ Begin \/ Renew \/ GiveUp

LifecycleSpec == LifecycleInit /\ [][LifecycleNext]_lifecycleVars
=============================================================================
