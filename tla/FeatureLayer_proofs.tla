------------------------ MODULE FeatureLayer_proofs ------------------------
(***************************************************************************)
(* Proofs about FeatureLayer, for any number of tasks, rows, filters and   *)
(* layers.                                                                 *)
(***************************************************************************)
EXTENDS FeatureLayer, FiniteSetTheorems, SequenceTheorems, TLAPS

(* Every caller holds a frame of its own. *)
OwnFrames == \A t \in Tasks : held[t] = t

(* What a layer's text selects, its callers meant; so too for a layer that *)
(* is being made.                                                          *)
Honest(layer) == Len(layer.where) <= 1 => Selects(layer.where) \subseteq layer.meant
HonestLayers ==
  /\ \A i \in 1..Len(layers) : Honest(layers[i])
  /\ \A t \in Tasks : pc[t] = "refining" => Honest(draft[t])

(* Kept answers are answers to the layer's filter. *)
AnswersSelected ==
  \A slot \in filled : frames[slot].rows \subseteq Selects(layers[slot].where)

(* The layer that head_gdf or sample_gdf makes selects n rows at most.     *)
Small(rows) == IsFiniteSet(rows) /\ Cardinality(rows) <= SampleSize
SmallLayer(layer) == Len(layer.where) <= 1 => Small(Selects(layer.where))
SamplesAreSmall ==
  \A t \in Tasks : op[t] = "head" =>
    /\ pc[t] = "refining" => SmallLayer(draft[t])
    /\ pc[t] \in {"reading", "holding"} => SmallLayer(layers[asked[t]])
    /\ pc[t] = "holding" => frames[t].rows \subseteq Selects(layers[asked[t]].where)

CacheInv == TypeOK /\ OwnFrames /\ CacheIsClean
IInv == CacheInv /\ HonestLayers /\ AnswersSelected /\ SamplesAreSmall

-----------------------------------------------------------------------------

(* Joining two texts with AND gives a clause, and one without OR selects   *)
(* the rows that both select.                                              *)
LEMMA RefinedClause ==
  ASSUME NEW where \in Clauses, NEW filter \in Clauses \ {EveryRow}
  PROVE  /\ Refined(where, filter) \in Clauses
         /\ Len(Refined(where, filter)) <= 1 =>
              /\ Len(where) <= 1
              /\ Len(filter) = 1
              /\ Selects(Refined(where, filter)) \subseteq Selects(where) \cap Selects(filter)
<1>1. filter # <<>> /\ Len(filter) \in Nat /\ Len(filter) >= 1
  BY DEF Clauses, EveryRow
<1>2. CASE where = EveryRow
  <2>1. Refined(where, filter) = filter /\ Len(where) = 0 /\ Selects(where) = Rows
    BY <1>2 DEF Refined, EveryRow, Selects
  <2>2. Selects(filter) \subseteq Rows
    BY <1>1 DEF Selects, ToSet, Clauses, EveryRow
  <2>3. Refined(where, filter) \in Clauses /\ Len(where) <= 1
    BY <2>1
  <2>4. Len(Refined(where, filter)) <= 1 => Len(filter) = 1
    <3>1. Len(Refined(where, filter)) = Len(filter)
      BY <2>1
    <3>2. QED
      BY <1>1, <3>1
  <2>5. Selects(Refined(where, filter)) \subseteq Selects(where) \cap Selects(filter)
    BY <2>1, <2>2
  <2>6. QED
    BY <2>3, <2>4, <2>5
<1>3. CASE where # EveryRow
  <2>1. where # <<>> /\ Len(where) \in Nat /\ Len(where) >= 1
    BY <1>3 DEF Clauses, EveryRow
  <2> DEFINE front == Front(where)
             middle == <<Last(where) \cap Head(filter)>>
             tail == Tail(filter)
  <2>2. front \in Clauses /\ Len(front) = Len(where) - 1
    <3>1. PICK n \in Nat : Len(where) = n + 1
      BY <2>1
    <3>2. \A i \in 1..n : where[i] \in SUBSET Rows
      BY <2>1, <3>1, LenProperties DEF Clauses
    <3>3. SubSeq(where, 1, n) \in Seq(SUBSET Rows)
      BY <3>2, SubSeqProperties
    <3>4. Len(SubSeq(where, 1, n)) = n
      BY <3>2, SubSeqProperties
    <3>5. Front(where) = SubSeq(where, 1, n)
      BY <3>1 DEF Front
    <3>6. QED
      BY <3>1, <3>3, <3>4, <3>5 DEF Clauses
  <2>3. Last(where) \in SUBSET Rows /\ Head(filter) \in SUBSET Rows
    BY <1>1, <2>1 DEF Last, Clauses
  <2>4. middle \in Clauses /\ Len(middle) = 1
    BY <2>3 DEF Clauses
  <2>5. tail \in Clauses /\ Len(tail) = Len(filter) - 1
    BY <1>1 DEF Clauses
  <2> HIDE DEF front, middle, tail
  <2>6. Refined(where, filter) = front \o middle \o tail
    BY <1>3 DEF Refined, front, middle, tail
  <2>7. front \o middle \in Clauses
    BY <2>2, <2>4, ConcatProperties DEF Clauses
  <2>8. Len(front \o middle) = Len(front) + Len(middle)
    BY <2>2, <2>4, ConcatProperties DEF Clauses
  <2>11. Refined(where, filter) \in Clauses
    BY <2>5, <2>6, <2>7, ConcatProperties DEF Clauses
  <2>12. Len(Refined(where, filter)) = Len(front \o middle) + Len(tail)
    BY <2>5, <2>6, <2>7, ConcatProperties DEF Clauses
  <2>9. ASSUME Len(Refined(where, filter)) <= 1
        PROVE  /\ Len(where) <= 1 /\ Len(filter) = 1
               /\ Selects(Refined(where, filter)) \subseteq Selects(where) \cap Selects(filter)
    <3>1. Len(where) = 1 /\ Len(filter) = 1 /\ Len(front) = 0 /\ Len(tail) = 0
      BY <1>1, <2>1, <2>2, <2>4, <2>5, <2>8, <2>12, <2>9
    <3>2. front = <<>> /\ tail = <<>>
      BY <2>2, <2>5, <3>1, EmptySeq DEF Clauses
    <3>3. Refined(where, filter) = middle
      BY <2>4, <2>6, <3>2, ConcatEmptySeq DEF Clauses
    <3>4. Selects(middle) = middle[1] /\ middle[1] = where[1] \cap filter[1]
      BY <2>4, <3>1 DEF Selects, ToSet, EveryRow, Last, middle
    <3>5. Selects(where) = where[1] /\ Selects(filter) = filter[1]
      <4>1. DOMAIN where = {1} /\ DOMAIN filter = {1}
        BY <3>1 DEF Clauses
      <4>2. QED
        BY <1>1, <1>3, <4>1 DEF Selects, ToSet, EveryRow
    <3>6. Len(where) <= 1 /\ Len(filter) = 1
      BY <3>1
    <3>7. Selects(Refined(where, filter)) \subseteq Selects(where) \cap Selects(filter)
      BY <3>3, <3>4, <3>5
    <3>8. QED
      BY <3>6, <3>7
  <2>10. QED
    BY <2>11, <2>9
<1>4. QED
  BY <1>2, <1>3

(* A filter is a clause that is not "1=1"; a list of ids is one too.       *)
LEMMA FiltersAreClauses ==
  /\ EveryRow \in Clauses
  /\ Filters \subseteq Clauses \ {EveryRow}
  /\ \A some \in SUBSET Rows :
       /\ <<some>> \in Clauses \ {EveryRow}
       /\ Selects(<<some>>) = some
<1>1. Filters \subseteq Clauses \ {EveryRow}
  BY LayerAssumption DEF Clauses
<1>2. ASSUME NEW some \in SUBSET Rows
      PROVE  <<some>> \in Clauses \ {EveryRow} /\ Selects(<<some>>) = some
  <2>1. <<some>> \in Clauses /\ <<some>> # EveryRow
    BY DEF Clauses, EveryRow
  <2>2. QED
    BY <2>1 DEF Selects, ToSet
<1>3. EveryRow \in Clauses
  BY DEF Clauses, EveryRow
<1>4. QED
  BY <1>1, <1>2, <1>3

(* A clause selects rows. *)
LEMMA SelectsRows ==
  ASSUME NEW where \in Clauses PROVE Selects(where) \in SUBSET Rows
<1>1. \A i \in DOMAIN where : where[i] \in SUBSET Rows
  BY LenProperties DEF Clauses
<1>2. QED
  BY <1>1 DEF Selects, ToSet

(* Appending a layer leaves the others where they are. *)
LEMMA AppendedLayer ==
  ASSUME TypeOK, NEW layer \in [where : Clauses, meant : SUBSET Rows],
         layers' = Append(layers, layer), Len(layers) < MaxLayers
  PROVE  /\ layers' \in Seq([where : Clauses, meant : SUBSET Rows])
         /\ Len(layers)' = Len(layers) + 1
         /\ Len(layers)' \in 1..MaxLayers
         /\ \A i \in 1..Len(layers) : layers'[i] = layers[i]
         /\ layers'[Len(layers) + 1] = layer
  BY LayerAssumption, AppendProperties DEF TypeOK

(* The layers there are have slots, and slots are not tasks. *)
LEMMA SlotsAreNotTasks ==
  /\ Slots \cap Tasks = {}
  /\ TypeOK => 1..Len(layers) \subseteq Slots /\ filled \subseteq Slots
<1>1. Slots \cap Tasks = {}
  BY LayerAssumption DEF Slots
<1>2. ASSUME TypeOK PROVE 1..Len(layers) \subseteq Slots
  <2>1. Len(layers) \in 1..MaxLayers /\ MaxLayers \in Nat
    BY <1>2, LayerAssumption DEF TypeOK
  <2>2. QED
    BY <2>1 DEF Slots
<1>3. ASSUME TypeOK PROVE filled \subseteq Slots
  BY <1>2, <1>3 DEF TypeOK
<1>4. QED
  BY <1>1, <1>2, <1>3

-----------------------------------------------------------------------------

(* The first layer and no answers satisfy the invariant. *)
LEMMA InitIInv == Init => IInv
<1> SUFFICES ASSUME Init PROVE IInv
  OBVIOUS
<1>1. PICK where \in Filters \cup {EveryRow} : layers = <<Layer(where, Selects(where))>>
  BY DEF Init
<1>2. where \in Clauses
  BY <1>1, FiltersAreClauses
<1>3. Layer(where, Selects(where)) \in [where : Clauses, meant : SUBSET Rows]
  BY <1>2, SelectsRows DEF Layer
<1>4. NoLayer \in [where : Clauses, meant : SUBSET Rows]
  BY DEF NoLayer, Layer, Clauses, EveryRow
<1>5. /\ layers \in Seq([where : Clauses, meant : SUBSET Rows])
      /\ Len(layers) = 1
      /\ layers[1] = Layer(where, Selects(where))
  BY <1>1, <1>3
<1>6. TypeOK
  BY <1>4, <1>5, LayerAssumption DEF Init, TypeOK, Slots, Frame
<1>7. OwnFrames /\ CacheIsClean /\ AnswersSelected /\ SamplesAreSmall
  BY DEF Init, OwnFrames, CacheIsClean, AnswersSelected, SamplesAreSmall
<1>8. HonestLayers
  BY <1>5 DEF Init, HonestLayers, Honest, Layer
<1>9. QED
  BY <1>6, <1>7, <1>8 DEF IInv, CacheInv

(* The objects there are have the types of layers. *)
LEMMA LayersAreLayers ==
  ASSUME TypeOK, NEW i \in 1..Len(layers)
  PROVE  layers[i] \in [where : Clauses, meant : SUBSET Rows]
<1> DEFINE L == [where : Clauses, meant : SUBSET Rows]
<1>1. layers \in Seq(L)
  BY DEF TypeOK
<1> HIDE DEF L
<1>2. layers[i] \in L
  BY <1>1, LenProperties
<1>3. QED
  BY <1>2 DEF L

(* A refinement is a layer. *)
LEMMA DraftIsLayer ==
  ASSUME TypeOK, NEW i \in 1..Len(layers), NEW filter \in Clauses \ {EveryRow},
         NEW rows
  PROVE  Layer(Refined(layers[i].where, filter), layers[i].meant \cap rows)
           \in [where : Clauses, meant : SUBSET Rows]
<1>1. layers[i] \in [where : Clauses, meant : SUBSET Rows]
  BY LayersAreLayers
<1>2. QED
  BY <1>1, RefinedClause DEF Layer

(* Each step keeps the types, and every frame kept stays apart from those  *)
(* handed out.                                                             *)
LEMMA CacheStep == CacheInv /\ [Next]_vars => CacheInv'
<1> SUFFICES ASSUME CacheInv, [Next]_vars PROVE CacheInv'
  OBVIOUS
<1> USE LayerAssumption DEF CacheInv, TypeOK, OwnFrames, CacheIsClean
<1>1. ASSUME NEW t \in Tasks, NEW slot \in Slots, Get(t, slot) PROVE CacheInv'
  <2>1. filled \subseteq Slots /\ slot \notin Tasks /\ \A f \in filled : f # t
    BY SlotsAreNotTasks
  <2>2. TypeOK'
    <3>1. slot \in 1..Len(layers)
      BY <1>1 DEF Get, Slots
    <3>2. /\ present' \subseteq Rows
          /\ layers' = layers /\ filled' = filled /\ draft' = draft
          /\ op' \in [Tasks -> {"get", "where", "head"}]
          /\ asked' \in [Tasks -> 1..Len(layers)]
      BY <1>1, <3>1 DEF Get
    <3>3. pc' \in [Tasks -> {"idle", "listing", "refining", "reading", "holding"}]
      <4>1. \/ pc' = [pc EXCEPT ![t] = "holding"]
            \/ pc' = [pc EXCEPT ![t] = "reading"]
        BY <1>1 DEF Get, HandOut
      <4>2. QED
        BY <4>1
    <3>4. held' \in [Tasks -> Slots \cup Tasks]
      BY <1>1 DEF Get, HandOut
    <3>5. frames' \in [Slots \cup Tasks -> [rows : SUBSET Rows, intact : BOOLEAN]]
      BY <1>1 DEF Get
    <3>6. QED
      BY <3>2, <3>3, <3>4, <3>5
  <2>3. OwnFrames' /\ CacheIsClean'
    BY <1>1, <2>1 DEF Get, HandOut
  <2>4. QED
    BY <2>2, <2>3
<1>2. ASSUME NEW t \in Tasks, ReadEnds(t) PROVE CacheInv'
  <2> DEFINE answer == Frame(Matching(layers[asked[t]].where))
  <2>1. asked[t] \in Slots /\ t \notin Slots /\ filled \subseteq Slots
    BY SlotsAreNotTasks
  <2>2. answer \in [rows : SUBSET Rows, intact : BOOLEAN] /\ answer.intact
    BY DEF Frame, Matching
  <2> HIDE DEF answer
  <2>3. /\ frames' = [frames EXCEPT ![asked[t]] = answer, ![t] = answer]
        /\ filled' = filled \cup {asked[t]}
        /\ pc' = [pc EXCEPT ![t] = "holding"]
        /\ held' = [held EXCEPT ![t] = t]
        /\ UNCHANGED <<present, layers, op, asked, draft>>
    BY <1>2 DEF ReadEnds, HandOut, answer
  <2>4. TypeOK'
    <3>1. frames' \in [Slots \cup Tasks -> [rows : SUBSET Rows, intact : BOOLEAN]]
      BY <2>1, <2>2, <2>3
    <3>2. filled' \subseteq 1..Len(layers)
      <4>1. asked[t] \in 1..Len(layers) /\ filled \subseteq 1..Len(layers)
        OBVIOUS
      <4>2. filled' = filled \cup {asked[t]}
        BY <2>3
      <4>3. QED
        BY <4>1, <4>2
    <3>3. held' \in [Tasks -> Slots \cup Tasks]
      BY <2>3
    <3>4. pc' \in [Tasks -> {"idle", "listing", "refining", "reading", "holding"}]
      BY <2>3
    <3>5. QED
      BY <2>3, <3>1, <3>2, <3>3, <3>4
  <2>5. OwnFrames' /\ CacheIsClean'
    BY <2>1, <2>2, <2>3
  <2>6. QED
    BY <2>4, <2>5
<1>3. ASSUME NEW t \in Tasks, NEW i \in 1..MaxLayers, NEW filter \in Filters,
             Refine(t, i, filter)
      PROVE  CacheInv'
  <2>1. i \in 1..Len(layers)
    BY <1>3 DEF Refine
  <2>2. filter \in Clauses \ {EveryRow}
    BY FiltersAreClauses
  <2>3. draft' \in [Tasks -> [where : Clauses, meant : SUBSET Rows]]
    BY <1>3, <2>1, <2>2, DraftIsLayer DEF Refine
  <2>4. QED
    BY <1>3, <2>1, <2>3 DEF Refine
<1>4. ASSUME NEW t \in Tasks, RefineEnds(t) PROVE CacheInv'
  <2>1. /\ layers' \in Seq([where : Clauses, meant : SUBSET Rows])
        /\ Len(layers)' = Len(layers) + 1
        /\ Len(layers)' \in 1..MaxLayers
    BY <1>4, AppendedLayer DEF RefineEnds
  <2>2. \A f \in filled : f # t
    BY SlotsAreNotTasks
  <2>3. NoLayer \in [where : Clauses, meant : SUBSET Rows]
    BY FiltersAreClauses DEF NoLayer, Layer
  <2>4. CASE op[t] = "where" /\ Idle(t)
    <3>1. TypeOK'
      BY <1>4, <2>1, <2>3, <2>4 DEF RefineEnds, Idle, Frame, Slots
    <3>2. OwnFrames' /\ CacheIsClean'
      BY <2>2, <2>4 DEF Idle
    <3>3. QED
      BY <3>1, <3>2
  <2>5. CASE /\ op[t] = "head"
             /\ pc' = [pc EXCEPT ![t] = "reading"]
             /\ asked' = [asked EXCEPT ![t] = Len(layers) + 1]
             /\ draft' = [draft EXCEPT ![t] = NoLayer]
             /\ UNCHANGED <<present, filled, frames, op, held>>
    <3>1. Len(layers) + 1 \in 1..Len(layers)'
      BY <2>1
    <3>2. asked' \in [Tasks -> 1..Len(layers)']
      BY <2>1, <2>5, <3>1
    <3>3. filled' \subseteq 1..Len(layers)'
      BY <2>1, <2>5
    <3>4. TypeOK'
      BY <2>1, <2>3, <2>5, <3>2, <3>3
    <3>5. OwnFrames' /\ CacheIsClean'
      BY <2>5
    <3>6. QED
      BY <3>4, <3>5
  <2>6. QED
    BY <1>4, <2>4, <2>5 DEF RefineEnds
<1>5. ASSUME NEW t \in Tasks, NEW i \in 1..MaxLayers, Sample(t, i) PROVE CacheInv'
  BY <1>5 DEF Sample
<1>6. ASSUME NEW t \in Tasks, ListEnds(t) PROVE CacheInv'
  <2>1. PICK some \in SUBSET Matching(layers[asked[t]].where) :
          draft' = [draft EXCEPT ![t] =
            Layer(Refined(layers[asked[t]].where, <<some>>), layers[asked[t]].meant \cap some)]
    BY <1>6 DEF ListEnds, kSubset
  <2>2. some \in SUBSET Rows
    BY <2>1 DEF Matching
  <2>3. draft' \in [Tasks -> [where : Clauses, meant : SUBSET Rows]]
    BY <2>1, <2>2, FiltersAreClauses, DraftIsLayer
  <2>4. QED
    BY <1>6, <2>3 DEF ListEnds
<1>7. ASSUME NEW t \in Tasks, Fail(t) \/ Forget(t) PROVE CacheInv'
  <2>1. NoLayer \in [where : Clauses, meant : SUBSET Rows]
    BY FiltersAreClauses DEF NoLayer, Layer
  <2>2. \A f \in filled : f # t
    BY SlotsAreNotTasks
  <2>3. Idle(t) /\ layers' = layers
    BY <1>7 DEF Fail, Forget
  <2>4. TypeOK'
    BY <2>1, <2>3 DEF Idle, Frame
  <2>5. OwnFrames' /\ CacheIsClean'
    BY <2>2, <2>3 DEF Idle
  <2>6. QED
    BY <2>4, <2>5
<1>8. ASSUME NEW t \in Tasks, Change(t) PROVE CacheInv'
  <2>1. \A f \in filled : f # t
    BY SlotsAreNotTasks
  <2>2. frames' = [frames EXCEPT ![t].intact = FALSE]
    BY <1>8 DEF Change
  <2>3. frames' \in [Slots \cup Tasks -> [rows : SUBSET Rows, intact : BOOLEAN]]
    <3> DEFINE changed == [frames[t] EXCEPT !.intact = FALSE]
    <3>1. frames[t] \in [rows : SUBSET Rows, intact : BOOLEAN]
      OBVIOUS
    <3>2. changed \in [rows : SUBSET Rows, intact : BOOLEAN]
      BY <3>1
    <3>3. frames' = [frames EXCEPT ![t] = changed]
      BY <2>2
    <3> HIDE DEF changed
    <3>4. QED
      BY <3>2, <3>3
  <2>4. CacheIsClean'
    BY <1>8, <2>1, <2>2, SlotsAreNotTasks DEF Change
  <2>5. QED
    BY <1>8, <2>3, <2>4 DEF Change
<1>9. ASSUME NEW r \in Rows, Edit(r) PROVE CacheInv'
  BY <1>9 DEF Edit
<1>10. CASE UNCHANGED vars
  BY <1>10 DEF vars
<1>11. QED
  BY <1>1, <1>2, <1>3, <1>4, <1>5, <1>6, <1>7, <1>8, <1>9, <1>10 DEF Next, Call

(* Each step keeps layers honest: where joins filters that were meant, and *)
(* where no OR is in the text they add up.                                 *)
LEMMA HonestStep == CacheInv /\ HonestLayers /\ [Next]_vars => HonestLayers'
<1> SUFFICES ASSUME CacheInv, HonestLayers, [Next]_vars PROVE HonestLayers'
  OBVIOUS
<1> USE DEF CacheInv
<1>1. ASSUME NEW t \in Tasks, NEW i \in 1..Len(layers),
             NEW filter \in Clauses \ {EveryRow},
             draft' = [draft EXCEPT ![t] =
               Layer(Refined(layers[i].where, filter),
                     layers[i].meant \cap Selects(filter))],
             pc' = [pc EXCEPT ![t] = "refining"],
             UNCHANGED layers
      PROVE  HonestLayers'
  <2>1. layers[i].where \in Clauses
    BY LayersAreLayers
  <2>2. draft'[t] = Layer(Refined(layers[i].where, filter),
                          layers[i].meant \cap Selects(filter))
    BY <1>1 DEF TypeOK
  <2>3. Honest(draft'[t])
    BY <2>1, <2>2, RefinedClause DEF Honest, HonestLayers, Layer
  <2>4. \A u \in Tasks : pc'[u] = "refining" => Honest(draft'[u])
    BY <1>1, <2>3 DEF HonestLayers, TypeOK
  <2>5. QED
    BY <1>1, <2>4 DEF HonestLayers, Honest
<1>2. ASSUME NEW t \in Tasks, NEW i \in 1..MaxLayers, NEW filter \in Filters,
             Refine(t, i, filter)
      PROVE  HonestLayers'
  <2>1. i \in 1..Len(layers)
    BY <1>2 DEF Refine, TypeOK
  <2>2. filter \in Clauses \ {EveryRow}
    BY FiltersAreClauses
  <2>3. QED
    BY <1>1, <1>2, <2>1, <2>2 DEF Refine
<1>3. ASSUME NEW t \in Tasks, ListEnds(t) PROVE HonestLayers'
  <2>1. PICK some \in SUBSET Matching(layers[asked[t]].where) :
          draft' = [draft EXCEPT ![t] =
            Layer(Refined(layers[asked[t]].where, <<some>>), layers[asked[t]].meant \cap some)]
    BY <1>3 DEF ListEnds, kSubset
  <2>2. some \in SUBSET Rows
    BY <2>1 DEF Matching, TypeOK
  <2>3. QED
    BY <1>1, <1>3, <2>1, <2>2, FiltersAreClauses DEF ListEnds, TypeOK
<1>4. ASSUME NEW t \in Tasks, RefineEnds(t) PROVE HonestLayers'
  <2>1. /\ Len(layers)' = Len(layers) + 1
        /\ \A i \in 1..Len(layers) : layers'[i] = layers[i]
        /\ layers'[Len(layers) + 1] = draft[t]
    BY <1>4, AppendedLayer DEF RefineEnds, TypeOK
  <2>2. Honest(draft[t])
    BY <1>4 DEF RefineEnds, HonestLayers
  <2>3. \A i \in 1..Len(layers)' : Honest(layers'[i])
    <3>1. Len(layers) \in Nat
      BY DEF TypeOK
    <3>2. \A i \in 1..Len(layers)' : i \in 1..Len(layers) \/ i = Len(layers) + 1
      BY <2>1, <3>1
    <3>3. QED
      BY <2>1, <2>2, <3>2 DEF HonestLayers
  <2>4. \A u \in Tasks : pc'[u] = "refining" => pc[u] = "refining" /\ draft'[u] = draft[u]
    BY <1>4 DEF RefineEnds, Idle, TypeOK
  <2>5. QED
    BY <2>3, <2>4 DEF HonestLayers, Honest
<1>5. ASSUME UNCHANGED <<layers, draft>>,
             \A u \in Tasks : pc'[u] = "refining" => pc[u] = "refining"
      PROVE  HonestLayers'
  BY <1>5 DEF HonestLayers, Honest
<1>6. ASSUME NEW t \in Tasks, Idle(t), UNCHANGED layers PROVE HonestLayers'
  BY <1>6 DEF Idle, HonestLayers, Honest, TypeOK
<1>7. ASSUME NEW t \in Tasks,
             \/ \E slot \in Slots : Get(t, slot)
             \/ \E i \in 1..MaxLayers : Sample(t, i)
             \/ ReadEnds(t) \/ Change(t)
      PROVE  HonestLayers'
  BY <1>5, <1>7 DEF Get, Sample, ReadEnds, Change, HandOut, TypeOK
<1>8. ASSUME NEW t \in Tasks, Fail(t) \/ Forget(t) PROVE HonestLayers'
  BY <1>6, <1>8 DEF Fail, Forget
<1>9. ASSUME NEW r \in Rows, Edit(r) PROVE HonestLayers'
  BY <1>5, <1>9 DEF Edit
<1>10. CASE UNCHANGED vars
  BY <1>5, <1>10 DEF vars
<1>11. QED
  BY <1>2, <1>3, <1>4, <1>7, <1>8, <1>9, <1>10 DEF Next, Call

(* Each step keeps answers within the filter of their layer. *)
LEMMA AnswersStep == CacheInv /\ AnswersSelected /\ [Next]_vars => AnswersSelected'
<1> SUFFICES ASSUME CacheInv, AnswersSelected, [Next]_vars PROVE AnswersSelected'
  OBVIOUS
<1> USE DEF CacheInv
<1>1. \A f \in filled : f \in Slots /\ f \notin Tasks
  BY SlotsAreNotTasks
<1>2. ASSUME filled' = filled, layers' = layers,
             \A f \in filled : frames'[f].rows = frames[f].rows
      PROVE  AnswersSelected'
  BY <1>2 DEF AnswersSelected, Selects
<1>3. ASSUME NEW t \in Tasks, ReadEnds(t) PROVE AnswersSelected'
  <2> DEFINE rows == Matching(layers[asked[t]].where)
  <2>1. rows \subseteq Selects(layers[asked[t]].where)
    BY DEF Matching
  <2>2. asked[t] \in Slots /\ t \in Tasks /\ asked[t] # t
    BY SlotsAreNotTasks DEF TypeOK
  <2>3. /\ frames' = [frames EXCEPT ![asked[t]] = Frame(rows), ![t] = Frame(rows)]
        /\ filled' = filled \cup {asked[t]}
        /\ layers' = layers
    BY <1>3 DEF ReadEnds
  <2> HIDE DEF rows
  <2>4. frames'[asked[t]].rows = rows
    BY <2>2, <2>3 DEF TypeOK, Frame
  <2>5. \A f \in filled : f # asked[t] => frames'[f] = frames[f]
    BY <1>1, <2>2, <2>3 DEF TypeOK
  <2>6. QED
    BY <2>1, <2>3, <2>4, <2>5 DEF AnswersSelected
<1>4. ASSUME NEW t \in Tasks, RefineEnds(t) PROVE AnswersSelected'
  <2>1. \A i \in 1..Len(layers) : layers'[i] = layers[i]
    BY <1>4, AppendedLayer DEF RefineEnds, TypeOK
  <2>2. filled' = filled /\ \A f \in filled : frames'[f] = frames[f]
    BY <1>1, <1>4 DEF RefineEnds, Idle, TypeOK
  <2>3. QED
    BY <2>1, <2>2 DEF AnswersSelected, TypeOK
<1>5. ASSUME NEW t \in Tasks, Fail(t) \/ Forget(t) PROVE AnswersSelected'
  BY <1>1, <1>2, <1>5 DEF Fail, Forget, Idle, TypeOK
<1>6. ASSUME NEW t \in Tasks, Change(t) PROVE AnswersSelected'
  BY <1>1, <1>2, <1>6 DEF Change, OwnFrames, TypeOK
<1>7. ASSUME NEW t \in Tasks, NEW slot \in Slots, Get(t, slot) PROVE AnswersSelected'
  BY <1>1, <1>2, <1>7 DEF Get, TypeOK
<1>8. ASSUME NEW t \in Tasks, NEW i \in 1..MaxLayers,
             Sample(t, i) \/ \E filter \in Filters : Refine(t, i, filter)
      PROVE  AnswersSelected'
  BY <1>2, <1>8 DEF Sample, Refine
<1>9. ASSUME NEW t \in Tasks, ListEnds(t) PROVE AnswersSelected'
  BY <1>2, <1>9 DEF ListEnds
<1>10. ASSUME NEW r \in Rows, Edit(r) PROVE AnswersSelected'
  BY <1>2, <1>10 DEF Edit
<1>11. CASE UNCHANGED vars
  BY <1>2, <1>11 DEF vars
<1>12. QED
  BY <1>3, <1>4, <1>5, <1>6, <1>7, <1>8, <1>9, <1>10, <1>11 DEF Next, Call

(* The ids that head_gdf and sample_gdf ask for are n at most. *)
LEMMA SomeIds ==
  ASSUME TypeOK, NEW t \in Tasks, ListEnds(t)
  PROVE  \E some \in SUBSET Rows :
           /\ Small(some)
           /\ draft' = [draft EXCEPT ![t] =
                Layer(Refined(layers[asked[t]].where, <<some>>), layers[asked[t]].meant \cap some)]
<1> DEFINE ids == Matching(layers[asked[t]].where)
           n == IF Cardinality(ids) < SampleSize THEN Cardinality(ids) ELSE SampleSize
<1>1. PICK some \in kSubset(n, ids) :
        draft' = [draft EXCEPT ![t] =
          Layer(Refined(layers[asked[t]].where, <<some>>), layers[asked[t]].meant \cap some)]
  BY DEF ListEnds
<1>2. ids \in SUBSET Rows
  BY DEF Matching, TypeOK
<1>3. IsFiniteSet(ids)
  BY <1>2, LayerAssumption, FS_Subset
<1>4. Cardinality(ids) \in Nat
  BY <1>3, FS_CardinalityType
<1> HIDE DEF ids
<1>5. some \subseteq ids /\ Cardinality(some) = n
  BY <1>1 DEF kSubset
<1>6. n <= SampleSize
  BY <1>4, LayerAssumption
<1>7. IsFiniteSet(some)
  BY <1>3, <1>5, FS_Subset
<1> HIDE DEF n
<1>8. Small(some)
  BY <1>5, <1>6, <1>7 DEF Small
<1>9. QED
  BY <1>1, <1>2, <1>5, <1>8

(* Each step keeps samples small, from the ids to the frame handed out. *)
LEMMA SamplesStep == CacheInv /\ SamplesAreSmall /\ [Next]_vars => SamplesAreSmall'
<1> SUFFICES ASSUME CacheInv, SamplesAreSmall, [Next]_vars PROVE SamplesAreSmall'
  OBVIOUS
<1> USE DEF CacheInv
<1> DEFINE Sampled1(u) ==
             op[u] = "head" =>
               /\ pc[u] = "refining" => SmallLayer(draft[u])
               /\ pc[u] \in {"reading", "holding"} => SmallLayer(layers[asked[u]])
               /\ pc[u] = "holding" => frames[u].rows \subseteq Selects(layers[asked[u]].where)
<1>1. ASSUME NEW u \in Tasks, op'[u] = op[u], pc'[u] = pc[u], draft'[u] = draft[u],
             asked'[u] = asked[u], layers'[asked[u]] = layers[asked[u]],
             frames'[u].rows = frames[u].rows
      PROVE  Sampled1(u)'
  BY <1>1 DEF SamplesAreSmall, SmallLayer, Small, Selects
<1>2. ASSUME NEW u \in Tasks, op'[u] # "head" PROVE Sampled1(u)'
  BY <1>2
<1>3. ASSUME NEW t \in Tasks, NEW slot \in Slots, Get(t, slot) PROVE SamplesAreSmall'
  <2>1. ASSUME NEW u \in Tasks, u # t PROVE Sampled1(u)'
    BY <1>1, <1>3, <2>1 DEF Get, HandOut, TypeOK
  <2>2. op'[t] # "head"
    BY <1>3 DEF Get, TypeOK
  <2>3. QED
    BY <1>2, <2>1, <2>2 DEF SamplesAreSmall
<1>4. ASSUME NEW t \in Tasks, ReadEnds(t) PROVE SamplesAreSmall'
  <2> DEFINE rows == Matching(layers[asked[t]].where)
  <2>1. rows \subseteq Selects(layers[asked[t]].where)
    BY DEF Matching
  <2>2. asked[t] \in Slots /\ \A u \in Tasks : u # asked[t]
    BY SlotsAreNotTasks DEF TypeOK
  <2>3. /\ frames' = [frames EXCEPT ![asked[t]] = Frame(rows), ![t] = Frame(rows)]
        /\ pc[t] = "reading"
        /\ pc' = [pc EXCEPT ![t] = "holding"]
        /\ UNCHANGED <<layers, op, asked, draft>>
    BY <1>4 DEF ReadEnds, HandOut
  <2> HIDE DEF rows
  <2>4. frames'[t].rows = rows /\ \A u \in Tasks \ {t} : frames'[u] = frames[u]
    BY <2>2, <2>3 DEF TypeOK, Frame
  <2>5. ASSUME NEW u \in Tasks, u # t PROVE Sampled1(u)'
    BY <1>1, <2>3, <2>4, <2>5 DEF TypeOK
  <2>6. Sampled1(t)'
    BY <2>1, <2>3, <2>4 DEF TypeOK, SamplesAreSmall, SmallLayer, Small, Selects
  <2>7. QED
    BY <2>5, <2>6 DEF SamplesAreSmall
<1>5. ASSUME NEW t \in Tasks, NEW i \in 1..MaxLayers, NEW filter \in Filters,
             Refine(t, i, filter)
      PROVE  SamplesAreSmall'
  <2>1. ASSUME NEW u \in Tasks, u # t PROVE Sampled1(u)'
    BY <1>1, <1>5, <2>1 DEF Refine, TypeOK
  <2>2. op'[t] # "head"
    BY <1>5 DEF Refine, TypeOK
  <2>3. QED
    BY <1>2, <2>1, <2>2 DEF SamplesAreSmall
<1>6. ASSUME NEW t \in Tasks, RefineEnds(t) PROVE SamplesAreSmall'
  <2>1. /\ \A i \in 1..Len(layers) : layers'[i] = layers[i]
        /\ layers'[Len(layers) + 1] = draft[t]
    BY <1>6, AppendedLayer DEF RefineEnds, TypeOK
  <2>2. ASSUME NEW u \in Tasks, u # t PROVE Sampled1(u)'
    BY <1>1, <1>6, <2>1, <2>2 DEF RefineEnds, Idle, TypeOK
  <2>3. CASE op[t] = "where" /\ Idle(t)
    BY <1>2, <2>2, <2>3 DEF Idle, TypeOK, SamplesAreSmall
  <2>4. CASE /\ op[t] = "head"
             /\ pc' = [pc EXCEPT ![t] = "reading"]
             /\ asked' = [asked EXCEPT ![t] = Len(layers) + 1]
    <3>1. SmallLayer(draft[t])
      BY <1>6, <2>4 DEF RefineEnds, SamplesAreSmall
    <3>2. pc'[t] = "reading" /\ layers'[asked'[t]] = draft[t]
      BY <2>1, <2>4 DEF TypeOK
    <3>3. Sampled1(t)'
      BY <3>1, <3>2 DEF SmallLayer, Small, Selects
    <3>4. QED
      BY <2>2, <3>3 DEF SamplesAreSmall
  <2>5. QED
    BY <1>6, <2>3, <2>4 DEF RefineEnds
<1>7. ASSUME NEW t \in Tasks, NEW i \in 1..MaxLayers, Sample(t, i) PROVE SamplesAreSmall'
  <2>1. ASSUME NEW u \in Tasks, u # t PROVE Sampled1(u)'
    BY <1>1, <1>7, <2>1 DEF Sample, TypeOK
  <2>2. pc'[t] = "listing"
    BY <1>7 DEF Sample, TypeOK
  <2>3. QED
    BY <2>1, <2>2 DEF SamplesAreSmall
<1>8. ASSUME NEW t \in Tasks, ListEnds(t) PROVE SamplesAreSmall'
  <2>1. PICK some \in SUBSET Rows :
          /\ Small(some)
          /\ draft' = [draft EXCEPT ![t] =
               Layer(Refined(layers[asked[t]].where, <<some>>), layers[asked[t]].meant \cap some)]
    BY <1>8, SomeIds
  <2>2. ASSUME NEW u \in Tasks, u # t PROVE Sampled1(u)'
    BY <1>1, <1>8, <2>2 DEF ListEnds, TypeOK
  <2>3. asked[t] \in 1..Len(layers) /\ layers[asked[t]].where \in Clauses
    BY LayersAreLayers DEF TypeOK
  <2>4. <<some>> \in Clauses \ {EveryRow} /\ Selects(<<some>>) = some
    BY FiltersAreClauses
  <2>5. draft'[t].where = Refined(layers[asked[t]].where, <<some>>)
    BY <2>1 DEF TypeOK, Layer
  <2>6. Len(draft'[t].where) <= 1 => Selects(draft'[t].where) \subseteq some
    BY <2>3, <2>4, <2>5, RefinedClause
  <2>7. \A rows \in SUBSET some : Small(rows)
    <3>1. Small(some) /\ Cardinality(some) \in Nat
      BY <2>1, FS_CardinalityType DEF Small
    <3>2. ASSUME NEW rows \in SUBSET some PROVE Small(rows)
      <4>1. IsFiniteSet(rows) /\ Cardinality(rows) <= Cardinality(some)
        BY <3>1, FS_Subset DEF Small
      <4>2. Cardinality(rows) \in Nat
        BY <4>1, FS_CardinalityType
      <4>3. QED
        BY <3>1, <4>1, <4>2, LayerAssumption DEF Small
    <3>3. QED
      BY <3>2
  <2>8. pc'[t] = "refining" /\ SmallLayer(draft'[t])
    BY <1>8, <2>6, <2>7 DEF ListEnds, TypeOK, SmallLayer
  <2>9. Sampled1(t)'
    BY <2>8 DEF SmallLayer, Small, Selects
  <2>10. QED
    BY <2>2, <2>9 DEF SamplesAreSmall
<1>9. ASSUME NEW t \in Tasks, Fail(t) \/ Forget(t) PROVE SamplesAreSmall'
  <2>1. ASSUME NEW u \in Tasks, u # t PROVE Sampled1(u)'
    <3>1. Idle(t) /\ UNCHANGED layers
      BY <1>9 DEF Fail, Forget
    <3>2. /\ op'[u] = op[u] /\ pc'[u] = pc[u] /\ draft'[u] = draft[u]
          /\ asked'[u] = asked[u] /\ frames'[u] = frames[u]
      BY <2>1, <3>1 DEF Idle, TypeOK
    <3>3. QED
      BY <1>1, <3>1, <3>2
  <2>2. op'[t] # "head"
    BY <1>9 DEF Fail, Forget, Idle, TypeOK
  <2>3. QED
    BY <1>2, <2>1, <2>2 DEF SamplesAreSmall
<1>10. ASSUME NEW t \in Tasks, Change(t) PROVE SamplesAreSmall'
  <2>1. ASSUME NEW u \in Tasks PROVE frames'[u].rows = frames[u].rows
    BY <1>10 DEF Change, OwnFrames, TypeOK
  <2>2. QED
    BY <1>1, <1>10, <2>1 DEF Change, SamplesAreSmall
<1>11. ASSUME NEW r \in Rows, Edit(r) PROVE SamplesAreSmall'
  BY <1>1, <1>11 DEF Edit, SamplesAreSmall
<1>12. CASE UNCHANGED vars
  BY <1>1, <1>12 DEF vars, SamplesAreSmall
<1>13. QED
  BY <1>3, <1>4, <1>5, <1>6, <1>7, <1>8, <1>9, <1>10, <1>11, <1>12 DEF Next, Call

-----------------------------------------------------------------------------

(* Each step keeps the inductive invariant. *)
LEMMA StepIInv == IInv /\ [Next]_vars => IInv'
  BY CacheStep, HonestStep, AnswersStep, SamplesStep DEF IInv

(* The inductive invariant holds in every state. *)
LEMMA Invariant == Spec => []IInv
<1>1. QED
  BY InitIInv, StepIInv, PTL DEF Spec

(* Layers, slots, frames and awaits keep their types (featurelayer.py).    *)
THEOREM TypeCorrect == Spec => []TypeOK
<1>1. IInv => TypeOK
  BY DEF IInv, CacheInv
<1>2. QED
  BY <1>1, Invariant, PTL

(* No caller can change a kept answer: get_gdf, get_unique_values,         *)
(* get_value_counts and get_nested_count hand out copies.                  *)
THEOREM CallersCannotSpoil == Spec => []CacheIsClean
<1>1. IInv => CacheIsClean
  BY DEF IInv, CacheInv
<1>2. QED
  BY <1>1, Invariant, PTL

(* However often where was applied, a layer without OR answers only with   *)
(* rows that every filter on the way to it selects.                        *)
THEOREM FiltersAddUp == Spec => []RefinementsHold
<1>1. IInv => RefinementsHold
  BY DEF IInv, CacheInv, TypeOK, HonestLayers, Honest, AnswersSelected, RefinementsHold
<1>2. QED
  BY <1>1, Invariant, PTL

(* head_gdf and sample_gdf of a layer without OR hand out n rows at most,  *)
(* whatever happens to the service between their three requests.           *)
THEOREM SamplesFit == Spec => []SampleIsSmall
<1>1. ASSUME IInv PROVE SampleIsSmall
  <2>1. SUFFICES ASSUME NEW t \in Tasks, Sampled(t), Len(layers[asked[t]].where) <= 1
                 PROVE  /\ Cardinality(frames[t].rows) <= SampleSize
                        /\ frames[t].rows \subseteq layers[asked[t]].meant
    BY <1>1 DEF SampleIsSmall, IInv, CacheInv, OwnFrames
  <2> DEFINE selected == Selects(layers[asked[t]].where)
  <2>2. Small(selected) /\ frames[t].rows \subseteq selected
    BY <1>1, <2>1 DEF IInv, SamplesAreSmall, SmallLayer, Sampled
  <2>3. asked[t] \in 1..Len(layers)
    BY <1>1 DEF IInv, CacheInv, TypeOK
  <2>4. selected \subseteq layers[asked[t]].meant
    BY <1>1, <2>1, <2>3 DEF IInv, HonestLayers, Honest
  <2> HIDE DEF selected
  <2>5. Cardinality(frames[t].rows) <= SampleSize
    <3>1. /\ IsFiniteSet(frames[t].rows)
          /\ Cardinality(frames[t].rows) <= Cardinality(selected)
      BY <2>2, FS_Subset DEF Small
    <3>2. Cardinality(frames[t].rows) \in Nat /\ Cardinality(selected) \in Nat
      BY <2>2, <3>1, FS_CardinalityType DEF Small
    <3>3. QED
      BY <2>2, <3>1, <3>2, LayerAssumption DEF Small
  <2>6. QED
    BY <2>2, <2>4, <2>5
<1>2. QED
  BY <1>1, Invariant, PTL

(* A kept answer is never asked for again, and changes only by answers to  *)
(* requests that were out when it came: overlapping misses settle.         *)
LEMMA SettledStep ==
  ASSUME CacheInv, [Next]_vars, NEW slot \in filled
  PROVE  /\ slot \in filled'
         /\ Readers(slot)' \subseteq Readers(slot)
         /\ Readers(slot) = {} => frames'[slot] = frames[slot]
<1> USE DEF CacheInv
<1>1. slot \in 1..Len(layers) /\ slot \in Slots /\ slot \notin Tasks
  BY SlotsAreNotTasks DEF TypeOK
<1>2. ASSUME NEW t \in Tasks, NEW s \in Slots, Get(t, s)
      PROVE  slot \in filled' /\ Readers(slot)' \subseteq Readers(slot) /\ frames'[slot] = frames[slot]
  BY <1>1, <1>2 DEF Get, HandOut, Readers, TypeOK
<1>3. ASSUME NEW t \in Tasks, ReadEnds(t)
      PROVE  /\ slot \in filled'
             /\ Readers(slot)' \subseteq Readers(slot)
             /\ Readers(slot) = {} => frames'[slot] = frames[slot]
  <2>1. slot \in filled' /\ Readers(slot)' \subseteq Readers(slot)
    BY <1>3 DEF ReadEnds, HandOut, Readers, TypeOK
  <2>2. ASSUME Readers(slot) = {} PROVE frames'[slot] = frames[slot]
    <3>1. asked[t] # slot
      BY <1>3, <2>2 DEF ReadEnds, Readers
    <3>2. QED
      BY <1>1, <1>3, <3>1, SlotsAreNotTasks DEF ReadEnds, TypeOK
  <2>3. QED
    BY <2>1, <2>2
<1>4. ASSUME NEW t \in Tasks, RefineEnds(t)
      PROVE  slot \in filled' /\ Readers(slot)' \subseteq Readers(slot) /\ frames'[slot] = frames[slot]
  <2>1. slot # Len(layers) + 1
    BY <1>1 DEF TypeOK
  <2>2. QED
    BY <1>1, <1>4, <2>1 DEF RefineEnds, Idle, Readers, TypeOK
<1>5. ASSUME NEW t \in Tasks, Change(t)
      PROVE  slot \in filled' /\ Readers(slot)' \subseteq Readers(slot) /\ frames'[slot] = frames[slot]
  BY <1>1, <1>5 DEF Change, OwnFrames, Readers, TypeOK
<1>6. ASSUME NEW t \in Tasks,
             \/ Fail(t) \/ Forget(t) \/ ListEnds(t)
             \/ \E i \in 1..MaxLayers :
                  Sample(t, i) \/ \E filter \in Filters : Refine(t, i, filter)
      PROVE  slot \in filled' /\ Readers(slot)' \subseteq Readers(slot) /\ frames'[slot] = frames[slot]
  <2>1. CASE Fail(t) \/ Forget(t)
    BY <1>1, <2>1 DEF Fail, Forget, Idle, Readers, TypeOK
  <2>2. CASE ListEnds(t)
    BY <1>1, <2>2 DEF ListEnds, Readers, TypeOK
  <2>3. CASE \E i \in 1..MaxLayers :
               Sample(t, i) \/ \E filter \in Filters : Refine(t, i, filter)
    <3>1. UNCHANGED <<filled, frames>>
      BY <2>3 DEF Sample, Refine
    <3>2. pc'[t] # "reading"
      BY <2>3 DEF Sample, Refine, TypeOK
    <3>3. \A u \in Tasks \ {t} : pc'[u] = pc[u] /\ asked'[u] = asked[u]
      BY <2>3 DEF Sample, Refine, TypeOK
    <3>4. QED
      BY <3>1, <3>2, <3>3 DEF Readers
  <2>4. QED
    BY <1>6, <2>1, <2>2, <2>3
<1>7. ASSUME (\E r \in Rows : Edit(r)) \/ UNCHANGED vars
      PROVE  slot \in filled' /\ Readers(slot)' \subseteq Readers(slot) /\ frames'[slot] = frames[slot]
  BY <1>7 DEF Edit, vars, Readers
<1>8. QED
  BY <1>2, <1>3, <1>4, <1>5, <1>6, <1>7 DEF Next, Call

(* The caches of a layer settle, for any number of overlapping misses.     *)
THEOREM MissesSettle == Spec => CacheSettles
<1>1. IInv /\ [Next]_vars =>
        [\A slot \in filled :
           /\ slot \in filled'
           /\ Readers(slot)' \subseteq Readers(slot)
           /\ Readers(slot) = {} => frames'[slot] = frames[slot]]_vars
  BY SettledStep DEF IInv
<1>2. QED
  BY <1>1, Invariant, PTL DEF Spec, CacheSettles
=============================================================================
