---------------------------- MODULE FeatureLayer ----------------------------
(***************************************************************************)
(* FeatureLayer objects (restgdf/featurelayer/featurelayer.py) shared by   *)
(* asyncio tasks: answers cached across an await, frames handed out as     *)
(* copies, and where() making refined layers out of prepared ones.         *)
(*                                                                         *)
(* A where clause is the sequence of the terms its text joins with OR; a   *)
(* term is the set of rows that satisfy it.  AND binds tighter than OR, so *)
(* writing "AND" between two clauses joins one term of each.               *)
(***************************************************************************)
EXTENDS Naturals, FiniteSets, FiniteSetsExt, SequencesExt

CONSTANTS
  Tasks,
  Rows,          (* rows the service ever has                               *)
  Filters,       (* where clauses callers write                             *)
  SampleSize,    (* n of head_gdf and sample_gdf                            *)
  MaxLayers      (* bound: FeatureLayer objects there are                   *)

(* where="1=1" *)
EveryRow == <<>>

ASSUME LayerAssumption ==
  /\ IsFiniteSet(Rows)
  /\ Filters \subseteq Seq(SUBSET Rows) \ {EveryRow}
  /\ {SampleSize, MaxLayers} \subseteq Nat \ {0}
  /\ Tasks \cap Nat = {}

(* Where a layer keeps its answer: one slot each.  gdf is modelled; each   *)
(* entry of uniquevalues, valuecounts and nestedcount is such a slot too,  *)
(* and none of them looks at another.                                      *)
Slots == 1..MaxLayers

VARIABLES
  present,   (* rows of the service now                                     *)
  layers,    (* the objects there are, the first one built by from_url      *)
  filled,    (* slots of the objects that hold an answer                    *)
  frames,    (* the frame in each slot, and the one each task was handed    *)
  pc,        (* the await each task is suspended at                         *)
  op,        (* the method it called                                        *)
  asked,     (* the layer it called it on, or is reading now                *)
  draft,     (* the layer it is refining                                    *)
  held       (* where the frame it was handed lives                         *)

vars == <<present, layers, filled, frames, pc, op, asked, draft, held>>

Clauses == Seq(SUBSET Rows)
Frame(rows) == [rows |-> rows, intact |-> TRUE]

(* A layer with its "where", and the rows its caller meant by it.          *)
Layer(where, meant) == [where |-> where, meant |-> meant]
NoLayer == Layer(EveryRow, {})

Selects(where) == IF where = EveryRow THEN Rows ELSE UNION ToSet(where)

TypeOK ==
  /\ present \subseteq Rows
  /\ layers \in Seq([where : Clauses, meant : SUBSET Rows])
  /\ Len(layers) \in 1..MaxLayers
  /\ filled \subseteq 1..Len(layers)
  /\ frames \in [Slots \cup Tasks -> [rows : SUBSET Rows, intact : BOOLEAN]]
  /\ pc \in [Tasks -> {"idle", "listing", "refining", "reading", "holding"}]
  /\ op \in [Tasks -> {"get", "where", "head"}]
  /\ asked \in [Tasks -> 1..Len(layers)]
  /\ draft \in [Tasks -> [where : Clauses, meant : SUBSET Rows]]
  /\ held \in [Tasks -> Slots \cup Tasks]

Init ==
  /\ present \in SUBSET Rows
  /\ \E where \in Filters \cup {EveryRow} :
       layers = <<Layer(where, Selects(where))>>
  /\ filled = {}
  /\ frames = [x \in Slots \cup Tasks |-> Frame({})]
  /\ pc = [t \in Tasks |-> "idle"]
  /\ op = [t \in Tasks |-> "get"]
  /\ asked = [t \in Tasks |-> 1]
  /\ draft = [t \in Tasks |-> NoLayer]
  /\ held = [t \in Tasks |-> t]

-----------------------------------------------------------------------------

Matching(where) == Selects(where) \cap present

(* Mutant: the new filter replaces the old one. *)
Refined_Replaces(where, filter) == filter

(* wherestr_plus: the two texts with " AND " between them, unless the old  *)
(* one is "1=1".                                                           *)
Refined(where, filter) ==
  IF where = EveryRow
  THEN filter
  ELSE Front(where) \o <<Last(where) \cap Head(filter)>> \o Tail(filter)

(* Mutant: the cached frame itself is handed out. *)
HandOut_Uncopied(t, slot, frame) ==
  /\ pc' = [pc EXCEPT ![t] = "holding"]
  /\ held' = [held EXCEPT ![t] = slot]

(* The caller gets a copy of the frame in the slot. *)
HandOut(t, slot, frame) ==
  /\ pc' = [pc EXCEPT ![t] = "holding"]
  /\ held' = [held EXCEPT ![t] = t]

(* The method returns or raises: its locals are gone. *)
Idle(t) ==
  /\ pc' = [pc EXCEPT ![t] = "idle"]
  /\ frames' = [frames EXCEPT ![t] = Frame({})]
  /\ op' = [op EXCEPT ![t] = "get"]
  /\ asked' = [asked EXCEPT ![t] = 1]
  /\ draft' = [draft EXCEPT ![t] = NoLayer]
  /\ held' = [held EXCEPT ![t] = t]
  /\ UNCHANGED <<present, filled>>

-----------------------------------------------------------------------------

(* Mutant: the answer is read anew each time. *)
Get_Always(t, slot) ==
  /\ pc[t] = "idle"
  /\ slot <= Len(layers)
  /\ op' = [op EXCEPT ![t] = "get"]
  /\ asked' = [asked EXCEPT ![t] = slot]
  /\ pc' = [pc EXCEPT ![t] = "reading"]
  /\ UNCHANGED <<present, layers, filled, frames, draft, held>>

(* get_gdf, get_unique_values, get_value_counts, get_nested_count: from    *)
(* the cache, or by a request.                                             *)
Get(t, slot) ==
  /\ pc[t] = "idle"
  /\ slot <= Len(layers)
  /\ op' = [op EXCEPT ![t] = "get"]
  /\ asked' = [asked EXCEPT ![t] = slot]
  /\ \/ /\ slot \in filled
        /\ HandOut(t, slot, frames[slot])
        /\ frames' = [frames EXCEPT ![t] = frames[slot]]
     \/ /\ slot \notin filled
        /\ pc' = [pc EXCEPT ![t] = "reading"]
        /\ UNCHANGED <<frames, held>>
  /\ UNCHANGED <<present, layers, filled, draft>>

(* The answer: it is stored, whatever the slot holds by now, and a copy    *)
(* handed out.  The rows are those of one moment; Pagination has the reads *)
(* that take several.                                                      *)
ReadEnds(t) ==
  /\ pc[t] = "reading"
  /\ LET slot == asked[t]
         answer == Frame(Matching(layers[slot].where))
     IN  /\ filled' = filled \cup {slot}
         /\ frames' = [frames EXCEPT ![slot] = answer, ![t] = answer]
         /\ HandOut(t, slot, answer)
  /\ UNCHANGED <<present, layers, op, asked, draft>>

(* where: the refined layer is there once its count has come. *)
Refine(t, i, filter) ==
  /\ pc[t] = "idle"
  /\ i <= Len(layers)
  /\ op' = [op EXCEPT ![t] = "where"]
  /\ asked' = [asked EXCEPT ![t] = i]
  /\ draft' = [draft EXCEPT ![t] =
       Layer(Refined(layers[i].where, filter),
             layers[i].meant \cap Selects(filter))]
  /\ pc' = [pc EXCEPT ![t] = "refining"]
  /\ UNCHANGED <<present, layers, filled, frames, held>>

(* Mutant: the refined layer is read before it exists. *)
RefineEnds_Unbuilt(t) ==
  /\ pc[t] = "refining"
  /\ Len(layers) < MaxLayers
  /\ UNCHANGED layers
  /\ \/ op[t] = "where" /\ Idle(t)
     \/ /\ op[t] = "head"
        /\ pc' = [pc EXCEPT ![t] = "reading"]
        /\ asked' = [asked EXCEPT ![t] = Len(layers) + 1]
        /\ draft' = [draft EXCEPT ![t] = NoLayer]
        /\ UNCHANGED <<present, filled, frames, op, held>>

(* The count came.  head_gdf and sample_gdf go on with get_gdf on the new  *)
(* layer.                                                                  *)
RefineEnds(t) ==
  /\ pc[t] = "refining"
  /\ Len(layers) < MaxLayers
  /\ layers' = Append(layers, draft[t])
  /\ \/ op[t] = "where" /\ Idle(t)
     \/ /\ op[t] = "head"
        /\ pc' = [pc EXCEPT ![t] = "reading"]
        /\ asked' = [asked EXCEPT ![t] = Len(layers) + 1]
        /\ draft' = [draft EXCEPT ![t] = NoLayer]
        /\ UNCHANGED <<present, filled, frames, op, held>>

(* head_gdf, sample_gdf: the object ids of the layer first. *)
Sample(t, i) ==
  /\ pc[t] = "idle"
  /\ i <= Len(layers)
  /\ op' = [op EXCEPT ![t] = "head"]
  /\ asked' = [asked EXCEPT ![t] = i]
  /\ pc' = [pc EXCEPT ![t] = "listing"]
  /\ UNCHANGED <<present, layers, filled, frames, draft, held>>

(* Mutant: one object id too many. *)
ListEnds_OneMore(t) ==
  /\ pc[t] = "listing"
  /\ LET base == layers[asked[t]]
         ids == Matching(base.where)
         n == IF Cardinality(ids) <= SampleSize
              THEN Cardinality(ids) ELSE SampleSize + 1
     IN  \E some \in kSubset(n, ids) :
           draft' = [draft EXCEPT ![t] =
             Layer(Refined(base.where, <<some>>), base.meant \cap some)]
  /\ pc' = [pc EXCEPT ![t] = "refining"]
  /\ UNCHANGED <<present, layers, filled, frames, op, asked, held>>

(* Some of the ids, n or as many as there are, become a refinement.        *)
ListEnds(t) ==
  /\ pc[t] = "listing"
  /\ LET base == layers[asked[t]]
         ids == Matching(base.where)
         n == IF Cardinality(ids) < SampleSize
              THEN Cardinality(ids) ELSE SampleSize
     IN  \E some \in kSubset(n, ids) :
           draft' = [draft EXCEPT ![t] =
             Layer(Refined(base.where, <<some>>), base.meant \cap some)]
  /\ pc' = [pc EXCEPT ![t] = "refining"]
  /\ UNCHANGED <<present, layers, filled, frames, op, asked, held>>

(* The request fails, or the task is cancelled: nothing is kept. *)
Fail(t) ==
  /\ pc[t] \in {"listing", "refining", "reading"}
  /\ Idle(t)
  /\ UNCHANGED layers

(* The caller changes the frame it was handed, or is done with it.         *)
Change(t) ==
  /\ pc[t] = "holding"
  /\ frames' = [frames EXCEPT ![held[t]].intact = FALSE]
  /\ UNCHANGED <<present, layers, filled, pc, op, asked, draft, held>>
Forget(t) == pc[t] = "holding" /\ Idle(t) /\ UNCHANGED layers

(* The service gains or loses a row. *)
Edit(r) ==
  /\ present' \in {present \cup {r}, present \ {r}}
  /\ UNCHANGED <<layers, filled, frames, pc, op, asked, draft, held>>

Call(t) ==
  \/ \E slot \in Slots : Get(t, slot)
  \/ \E i \in 1..MaxLayers :
       Sample(t, i) \/ \E filter \in Filters : Refine(t, i, filter)

Next ==
  \/ \E t \in Tasks :
       \/ Call(t)
       \/ ReadEnds(t) \/ RefineEnds(t) \/ ListEnds(t) \/ Fail(t)
       \/ Change(t) \/ Forget(t)
  \/ \E r \in Rows : Edit(r)

Spec == Init /\ [][Next]_vars

-----------------------------------------------------------------------------
(* Properties *)

Readers(slot) == {t \in Tasks : pc[t] = "reading" /\ asked[t] = slot}

(* Whatever callers do to the frames they were handed, what the layer      *)
(* keeps and hands out next is as the service answered it.                 *)
CacheIsClean == \A slot \in filled : frames[slot].intact

(* An answer once kept is never asked for again; only requests that were   *)
(* out already when it came may still replace it.                          *)
CacheSettles ==
  [][\A slot \in filled :
       /\ slot \in filled'
       /\ Readers(slot)' \subseteq Readers(slot)
       /\ Readers(slot) = {} => frames'[slot] = frames[slot]]_vars

(* Without OR in them, filters add up: a refined layer answers with rows   *)
(* that each filter on the way to it selects.                              *)
RefinementsHold ==
  \A slot \in filled :
    Len(layers[slot].where) <= 1 =>
      frames[slot].rows \subseteq layers[slot].meant

Sampled(t) == pc[t] = "holding" /\ op[t] = "head"

(* head_gdf and sample_gdf of a layer without OR in its filter hand out n  *)
(* rows at most, and only rows that the layer's caller meant.              *)
SampleIsSmall ==
  \A t \in Tasks :
    Sampled(t) /\ Len(layers[asked[t]].where) <= 1 =>
      /\ Cardinality(frames[held[t]].rows) <= SampleSize
      /\ frames[held[t]].rows \subseteq layers[asked[t]].meant

(* featurelayer.py: head_gdf will "Get the n first features", sample_gdf   *)
(* "n random features", of any layer.                                      *)
SampleHasNFeatures ==
  \A t \in Tasks :
    Sampled(t) => Cardinality(frames[held[t]].rows) <= SampleSize
=============================================================================
