------------------------------ MODULE Responses ------------------------------
(***************************************************************************)
(* What restgdf makes of a decoded JSON answer (_models/_drift.py and      *)
(* _models/responses.py): the strict models refuse whatever does not fit,  *)
(* the permissive ones drop it and log the drift, each kind of drift once  *)
(* for the process.                                                        *)
(*                                                                         *)
(* An answer is kept as what the models tell apart.  "odd" is an answer    *)
(* whose error member is there but does not validate as ErrorInfo.         *)
(***************************************************************************)
EXTENDS Naturals

Strict == {"CountResponse", "ObjectIdsResponse"}
Permissive == {"LayerMetadata", "FeaturesResponse"}
Models == Strict \cup Permissive

\* A payload may have a declared field of the wrong type, a list with a wrong
\* item, or an undeclared field; whole: the fields a strict model requires.
Payloads == [shape : {"payload"}, bad : SUBSET {"field", "item"},
             whole : BOOLEAN, extra : BOOLEAN, truncated : BOOLEAN]
OtherAnswers == [shape : {"envelope", "odd", "list"}, bad : {{}},
                 whole : {FALSE}, extra : {FALSE}, truncated : {FALSE}]
AllAnswers == Payloads \cup OtherAnswers

\* What a drift record is about: the path and the kind in the code.
Places == {"root", "field", "item", "extra", "error"}
Keys == Permissive \X Places

VARIABLES
  seen,   \* _seen_drift, shared by the whole process
  logs    \* history: records emitted since the last reset, at most two kept

drift == <<seen, logs>>

DriftType == seen \subseteq Keys /\ logs \in [Keys -> 0..2]
DriftInit == seen = {} /\ logs = [k \in Keys |-> 0]

-----------------------------------------------------------------------------
(* _parse_response *)

IsErrorEnvelope(raw) == raw.shape = "envelope"

\* model_validate of a strict model.
Fits(raw) == raw.shape = "payload" /\ raw.whole /\ raw.bad = {}

\* Mutant: envelopes are left to the strict models.
Raises_StrictOnly(model, raw) == model \in Strict /\ ~Fits(raw)

Raises(model, raw) ==
  IF model \in Strict THEN ~Fits(raw) ELSE IsErrorEnvelope(raw)

\* What a permissive parse drops: all of an answer that is not a mapping, a
\* field that does not validate, and the whole item with a wrong member.
Dropped(raw) == IF raw.shape = "list" THEN {"root"} ELSE raw.bad

\* Mutant: only fields are looked at, not the items of lists.
Drifts_FieldsOnly(model, raw) ==
  IF model \in Strict \/ IsErrorEnvelope(raw) THEN {}
  ELSE {model} \X (raw.bad \ {"item"})

\* Undeclared members stay, and are logged; an odd error member is one.
Undeclared(raw) == (IF raw.extra THEN {"extra"} ELSE {})
              \cup (IF raw.shape = "odd" THEN {"error"} ELSE {})

Drifts(model, raw) ==
  IF model \in Strict \/ IsErrorEnvelope(raw) THEN {}
  ELSE {model} \X (Dropped(raw) \cup Undeclared(raw))

\* Mutant: the record is written without a look at what has been seen.
LogDrift_NoDedupe(keys) ==
  /\ seen' = seen \cup keys
  /\ logs' = [k \in Keys |-> IF k \in keys /\ logs[k] < 2 THEN logs[k] + 1
                             ELSE logs[k]]

\* _log_drift, for each of them.
LogDrift(keys) ==
  LET new == keys \ seen
  IN /\ seen' = seen \cup new
     /\ logs' = [k \in Keys |-> IF k \in new /\ logs[k] < 2 THEN logs[k] + 1
                                ELSE logs[k]]

ResetDriftCache == seen' = {} /\ logs' = [k \in Keys |-> 0]
=============================================================================
