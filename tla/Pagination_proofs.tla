-------------------------- MODULE Pagination_proofs -------------------------
(***************************************************************************)
(* Proofs about Pagination, for layers, page sizes, factors and limits of  *)
(* any size, and any edits while the read goes on.                         *)
(*                                                                         *)
(* The inductive invariant ties what was read to the plan: the batches are *)
(* disjoint and take in what they must, each row of an answered batch was  *)
(* read once, and no row of a batch that is still out was read.            *)
(***************************************************************************)
EXTENDS Pagination, Paging_proofs

(* Until the count is answered nobody edits the layer.                     *)
CountInv ==
  /\ stage = "count" => layer = 1..born /\ counted = 0 /\ snapshot = {}
  /\ stage # "count" => snapshot = 1..counted /\ counted <= born

(* Nothing is planned or read yet.                                         *)
NothingRead == plan = <<>> /\ left = {} /\ \A r \in Oids : got[r] = 0

(* The batches of a read by object ids: pages with no row in common, that  *)
(* have all rows there have been since the count.                          *)
NamedPlan ==
  /\ \A b \in DOMAIN plan :
       /\ plan[b] = Named(plan[b].oids, opts.size)
       /\ plan[b].oids \subseteq 1..born
       /\ Cardinality(plan[b].oids) <= MaxRecordCount
  /\ \A b, c \in DOMAIN plan : b # c => plan[b].oids \cap plan[c].oids = {}
  /\ \A r \in snapshot \cap layer : \E b \in DOMAIN plan : r \in plan[b].oids

Planned ==
  /\ counted <= MaxRecordCount => plan = <<Whole(opts.size)>>
  /\ SlicedRead => plan = Slices
  /\ NamedRead => NamedPlan

(* What has been read by the batches that were answered.                   *)
WholeGot ==
  counted <= MaxRecordCount =>
    /\ \A r \in Oids : got[r] <= 1 /\ (1 \in left => got[r] = 0)
    /\ Uncut /\ 1 \notin left => \A r \in snapshot \cap layer : got[r] >= 1

SlicedGot ==
  SlicedRead /\ opts.sorted /\ NothingDeleted =>
    \A r \in Oids :
      got[r] = IF \E b \in DOMAIN plan \ left : r \in Window(counted, PageSize, b)
               THEN 1 ELSE 0

NamedGot ==
  NamedRead =>
    \A r \in Oids :
      /\ got[r] <= 1
      /\ \A b \in DOMAIN plan :
           r \in plan[b].oids =>
             /\ b \in left => got[r] = 0
             /\ Uncut /\ b \notin left /\ r \in layer => got[r] >= 1

PlanInv ==
  /\ stage \in {"count", "metadata", "ids"} => NothingRead
  /\ stage = "ids" => NamedRead
  /\ stage \in {"read", "done"} => Planned /\ WholeGot /\ SlicedGot /\ NamedGot
  /\ stage = "done" => left = {}

IInv == TypeOK /\ CountInv /\ PlanInv /\ NoRowTwice /\ PlannedPagesFit

-----------------------------------------------------------------------------

(* The bounds are positive numbers, the page size of the caller may be 0. *)
LEMMA Parameters ==
  /\ MaxOid \in Nat \ {0} /\ MaxRecordCount \in Nat \ {0}
  /\ Limits \subseteq Nat \ {0} /\ Sizes \subseteq Nat
  /\ \A f \in Factors : f[1] \in Nat \ {0} /\ f[2] \in Nat \ {0}
BY PaginationAssumption

(* The options of a read. *)
LEMMA OptionTypes ==
  opts \in ReadOptions =>
    opts.size \in Nat /\ opts.limit \in Nat \ {0} /\ opts.factor \in Factors
BY Parameters DEF ReadOptions

(* No page of the plan asks for more rows than the service sends at once.  *)
LEMMA PageSizeFits ==
  opts \in ReadOptions => PageSize \in 1..MaxRecordCount
<1> SUFFICES ASSUME opts \in ReadOptions PROVE PageSize \in 1..MaxRecordCount
  OBVIOUS
<1>1. CASE opts.size > 0
  BY <1>1, Parameters, OptionTypes DEF PageSize, Lesser
<1>2. CASE ~(opts.size > 0)
  <2> DEFINE f == opts.factor
             p == MaxRecordCount * f[1]
  <2>1. f[1] \in Nat \ {0} /\ f[2] \in Nat \ {0}
    BY Parameters, OptionTypes
  <2>2. CASE f[1] < f[2]
    <3>1. p <= MaxRecordCount * f[2] /\ p \in Nat
      BY <2>1, <2>2, Parameters
    <3>2. (p \div f[2]) \in Nat /\ (p \div f[2]) * f[2] <= p
      BY <2>1, <3>1, Division
    <3>3. p \div f[2] <= MaxRecordCount
      <4> DEFINE q == p \div f[2]
      <4>1. ASSUME q >= MaxRecordCount + 1 PROVE FALSE
        <5>1. (MaxRecordCount + 1) * f[2] <= q * f[2]
              /\ (MaxRecordCount + 1) * f[2] = MaxRecordCount * f[2] + f[2]
              /\ q * f[2] \in Nat
          BY <2>1, <3>2, <4>1, Parameters
        <5>2. QED
          BY <2>1, <3>1, <3>2, <5>1, Parameters
      <4>2. QED
        BY <3>2, <4>1, Parameters
    <3>4. PageSize = Greater(1, p \div f[2])
      BY <1>2, <2>2 DEF PageSize, EffectivePageSize
    <3>5. QED
      BY <3>2, <3>3, <3>4, Parameters DEF Greater
  <2>3. CASE ~(f[1] < f[2])
    BY <1>2, <2>3, Parameters DEF PageSize, EffectivePageSize
  <2>4. QED
    BY <2>2, <2>3
<1>3. QED
  BY <1>1, <1>2

(* Sets of rows are finite. *)
LEMMA LayerIsFinite ==
  ASSUME born \in Nat, layer \subseteq 1..born
  PROVE  \A S \in SUBSET layer :
           /\ IsFiniteSet(S) /\ Cardinality(S) \in Nat
           /\ \A T \in SUBSET S : Cardinality(T) <= Cardinality(S)
                                  /\ (T # S => Cardinality(T) < Cardinality(S))
<1>1. IsFiniteSet(1..born)
  BY FS_Interval
<1>2. ASSUME NEW S \in SUBSET layer
      PROVE  IsFiniteSet(S) /\ Cardinality(S) \in Nat
  BY <1>1, FS_Subset, FS_CardinalityType
<1>3. ASSUME NEW S \in SUBSET layer, NEW T \in SUBSET S
      PROVE  /\ Cardinality(T) <= Cardinality(S)
             /\ T # S => Cardinality(T) < Cardinality(S)
  <2>1. IsFiniteSet(S) /\ T \in SUBSET S /\ T \in SUBSET layer
    BY <1>2
  <2>2. Cardinality(T) <= Cardinality(S)
        /\ (Cardinality(S) = Cardinality(T) => S = T)
    BY <2>1, FS_Subset
  <2>3. Cardinality(S) \in Nat /\ Cardinality(T) \in Nat
    BY <1>2, <2>1
  <2>4. QED
    BY <2>2, <2>3
<1>4. QED
  BY <1>2, <1>3

(* Ranks number the rows of the layer, in their order. *)
LEMMA Ranks ==
  ASSUME born \in Nat, layer \subseteq 1..born
  PROVE  /\ \A r \in layer : Rank(r) \in 1..Cardinality(layer)
         /\ \A r, q \in layer : r < q => Rank(r) < Rank(q)
<1>0. \A r \in layer : r \in Nat
  OBVIOUS
<1>1. ASSUME NEW r \in layer
      PROVE  Rank(r) \in 1..Cardinality(layer)
  <2> DEFINE below == {q \in layer : q <= r}
  <2>1. below \in SUBSET layer /\ {} \in SUBSET below /\ {} # below
    BY <1>0
  <2>2. Cardinality({}) = 0
    BY FS_EmptySet
  <2>3. Cardinality(below) <= Cardinality(layer) /\ 0 < Cardinality(below)
        /\ Cardinality(below) \in Nat /\ Cardinality(layer) \in Nat
    BY <2>1, <2>2, LayerIsFinite
  <2>4. QED
    BY <2>3 DEF Rank
<1>2. ASSUME NEW r \in layer, NEW q \in layer, r < q
      PROVE  Rank(r) < Rank(q)
  <2> DEFINE some == {p \in layer : p <= r}
             more == {p \in layer : p <= q}
  <2>1. some \in SUBSET more /\ q \in more /\ q \notin some
    <3>1. \A p \in layer : p <= r => p <= q
      BY <1>0, <1>2
    <3>2. q <= q /\ ~(q <= r)
      BY <1>0, <1>2
    <3>3. QED
      BY <3>1, <3>2
  <2>2. some # more /\ more \in SUBSET layer
    BY <2>1
  <2>3. Cardinality(some) < Cardinality(more)
    BY <2>1, <2>2, LayerIsFinite
  <2>4. QED
    BY <2>3 DEF Rank
<1>3. QED
  BY <1>1, <1>2

(* As many rows have a rank in lo..hi as there are such ranks, at most.    *)
LEMMA RankedFit ==
  ASSUME born \in Nat, layer \subseteq 1..born, NEW lo \in Nat, NEW hi \in Nat,
         lo <= hi
  PROVE  Cardinality(Ranked(lo, hi)) <= hi - lo + 1
<1> DEFINE S == Ranked(lo, hi)
           rank == [r \in S |-> Rank(r)]
<1>1. S \in SUBSET layer /\ \A r \in S : r \in Nat
  BY DEF Ranked
<1>2. IsFiniteSet(S) /\ Cardinality(S) \in Nat
  BY <1>1, LayerIsFinite
<1>3. IsFiniteSet(lo..hi) /\ Cardinality(lo..hi) = hi - lo + 1
  BY FS_Interval
<1>4. rank \in [S -> lo..hi]
  BY DEF Ranked
<1>5. \A r, q \in S : r # q => rank[r] # rank[q]
  <2> SUFFICES ASSUME NEW r \in S, NEW q \in S, r # q PROVE Rank(r) # Rank(q)
    OBVIOUS
  <2>1. r \in Nat /\ q \in Nat /\ r \in layer /\ q \in layer
    BY <1>1
  <2>2. r < q \/ q < r
    BY <2>1
  <2>3. Rank(r) \in Nat /\ Rank(q) \in Nat
    BY <2>1, Ranks
  <2>4. QED
    BY <2>1, <2>2, <2>3, Ranks
<1> HIDE DEF S, rank
<1>6. ~(hi - lo + 1 < Cardinality(S))
  BY <1>2, <1>3, <1>4, <1>5, FS_PigeonHole
<1>7. QED
  BY <1>2, <1>6 DEF S

(* An interval ends where it says. *)
LEMMA EndsOfInterval ==
  ASSUME NEW lo \in Nat, NEW hi \in Nat, lo <= hi
  PROVE  Min(lo..hi) = lo /\ Max(lo..hi) = hi
<1>1. lo \in lo..hi /\ \A y \in lo..hi : lo <= y
  OBVIOUS
<1>2. hi \in lo..hi /\ \A y \in lo..hi : hi >= y
  OBVIOUS
<1>3. \A x \in lo..hi : (\A y \in lo..hi : x <= y) => x = lo
  OBVIOUS
<1>4. \A x \in lo..hi : (\A y \in lo..hi : x >= y) => x = hi
  OBVIOUS
<1>5. QED
  BY <1>1, <1>2, <1>3, <1>4 DEF Min, Max

(* A slice asks for the rows of its window. *)
LEMMA SliceOfWindow ==
  ASSUME opts \in ReadOptions, counted \in Nat,
         NEW b \in 1..WindowCount(counted, PageSize)
  PROVE  LET batch == Slices[b]
         IN  /\ batch = Slice(Window(counted, PageSize, b))
             /\ batch.kind = "slice" /\ batch.oids = {}
             /\ batch.lo \in 1..counted /\ batch.hi \in batch.lo..counted
             /\ batch.hi < batch.lo + PageSize
             /\ batch.lo..batch.hi = Window(counted, PageSize, b)
<1> DEFINE lo == (b - 1) * PageSize + 1
           hi == Lesser(b * PageSize, counted)
<1>1. PageSize \in Nat \ {0}
  BY PageSizeFits, Parameters
<1>2. /\ lo \in 1..counted /\ hi \in lo..counted /\ hi < lo + PageSize
      /\ Window(counted, PageSize, b) = lo..hi
  BY <1>1, WindowRows
<1> HIDE DEF lo, hi
<1>3. Min(lo..hi) = lo /\ Max(lo..hi) = hi
  BY <1>2, EndsOfInterval
<1>4. Slices[b] = Slice(Window(counted, PageSize, b))
  BY DEF Slices
<1>5. Slices[b] = [kind |-> "slice", lo |-> lo, hi |-> hi, oids |-> {}]
  BY <1>2, <1>3, <1>4 DEF Slice
<1>6. QED
  BY <1>2, <1>4, <1>5

-----------------------------------------------------------------------------
(* The steps *)

(* A prefix of the rows that are all there is ranked as it is numbered. *)
LEMMA RanksOfThePrefix ==
  ASSUME born \in Nat, layer \subseteq 1..born, NEW n \in 0..born,
         1..n \subseteq layer
  PROVE  /\ \A r \in 1..n : Rank(r) = r
         /\ \A r \in layer : n < r => n < Rank(r)
<1>0. \A r \in layer : r \in Nat /\ r >= 1
  OBVIOUS
<1>1. ASSUME NEW r \in 1..n PROVE Rank(r) = r
  <2>1. {q \in layer : q <= r} = 1..r
    <3>1. \A q \in 1..r : q \in layer /\ q <= r
      BY <1>1
    <3>2. \A q \in layer : q <= r => q \in 1..r
      BY <1>0
    <3>3. QED
      BY <3>1, <3>2
  <2>2. Cardinality(1..r) = r
    BY FS_Interval
  <2>3. QED
    BY <2>1, <2>2 DEF Rank
<1>2. ASSUME NEW r \in layer, n < r PROVE n < Rank(r)
  <2> DEFINE below == {q \in layer : q <= r}
  <2>1. 1..n \in SUBSET below
    BY <1>0, <1>2
  <2>2. r \in below /\ r \notin 1..n /\ below \in SUBSET layer
    BY <1>0, <1>2
  <2>3. 1..n # below
    BY <2>2
  <2>4. Cardinality(1..n) < Cardinality(below)
    BY <2>1, <2>2, <2>3, LayerIsFinite
  <2>5. Cardinality(1..n) = n
    BY FS_Interval
  <2>6. QED
    BY <2>4, <2>5 DEF Rank
<1>3. QED
  BY <1>1, <1>2

(* So the service sends the rows of a window itself. *)
LEMMA RankedPrefix ==
  ASSUME born \in Nat, layer \subseteq 1..born, NEW n \in 0..born,
         1..n \subseteq layer, NEW lo \in 1..n, NEW hi \in lo..n
  PROVE  Ranked(lo, hi) = lo..hi
<1>1. \A r \in lo..hi : r \in 1..n /\ r \in layer
  OBVIOUS
<1>2. \A r \in lo..hi : r \in Ranked(lo, hi)
  BY <1>1, RanksOfThePrefix DEF Ranked
<1>3. ASSUME NEW r \in Ranked(lo, hi) PROVE r \in lo..hi
  <2>1. r \in layer /\ Rank(r) \in lo..hi /\ r \in 1..born
    BY DEF Ranked
  <2>2. Rank(r) <= n
    BY <2>1
  <2>3. ~(n < r)
    <3>1. n < r => n < Rank(r)
      BY <2>1, RanksOfThePrefix
    <3>2. QED
      BY <2>1, <2>2, <3>1
  <2>4. Rank(r) = r
    BY <2>1, <2>3, RanksOfThePrefix
  <2>5. QED
    BY <2>1, <2>4
<1>4. QED
  BY <1>2, <1>3

(* What every state has. *)
LEMMA Shapes ==
  ASSUME IInv
  PROVE  /\ opts \in ReadOptions /\ born \in Nat /\ counted \in Nat
         /\ layer \subseteq 1..born /\ born <= MaxOid
         /\ got \in [Oids -> Nat] /\ left \subseteq DOMAIN plan
         /\ PageSize \in 1..MaxRecordCount /\ MaxRecordCount \in Nat \ {0}
         /\ MaxOid \in Nat
BY Parameters, PageSizeFits DEF IInv, TypeOK

(* Nothing was planned or read. *)
LEMMA InitEstablishes == Init => IInv
<1> SUFFICES ASSUME Init PROVE IInv
  OBVIOUS
<1>1. TypeOK
  BY Parameters DEF Init, TypeOK
<1>2. CountInv /\ PlannedPagesFit
  BY DEF Init, CountInv, PlannedPagesFit
<1>3. NothingRead /\ NoRowTwice
  BY DEF Init, NothingRead, NoRowTwice
<1>4. PlanInv
  BY <1>3 DEF Init, PlanInv
<1>5. QED
  BY <1>1, <1>2, <1>3, <1>4 DEF IInv

(* A new row is in no plan made before it, and ranks behind all others. *)
LEMMA AddStep == IInv /\ Add => IInv'
<1> SUFFICES ASSUME IInv, Add PROVE IInv'
  OBVIOUS
<1>0. /\ stage \in {"metadata", "ids", "read"} /\ born < MaxOid
      /\ born' = born + 1 /\ layer' = layer \cup {born + 1}
      /\ opts' = opts /\ stage' = stage /\ counted' = counted
      /\ snapshot' = snapshot /\ plan' = plan /\ left' = left /\ got' = got
  BY DEF Add, Edited
<1>1. TypeOK'
  BY <1>0, Shapes DEF IInv, TypeOK
<1>2. snapshot = 1..counted /\ counted <= born
  BY <1>0 DEF IInv, CountInv
<1>3. CountInv' /\ PlannedPagesFit'
  BY <1>0, <1>2, Shapes DEF CountInv, PlannedPagesFit
<1>4. born + 1 \notin snapshot
  BY <1>2, Shapes
<1>5. NothingDeleted' = NothingDeleted /\ snapshot \cap layer' = snapshot \cap layer
  BY <1>0, <1>4 DEF NothingDeleted
<1>6. SlicedRead' = SlicedRead /\ NamedRead' = NamedRead
  BY <1>0 DEF SlicedRead, NamedRead
<1>7. NoRowTwice'
  BY <1>0, <1>5, <1>6 DEF IInv, NoRowTwice
<1>8. PlanInv'
  <2>1. NothingRead => NothingRead'
    BY <1>0 DEF NothingRead
  <2>2. PageSize' = PageSize /\ Slices' = Slices
    BY <1>0 DEF Slices, PageSize
  <2>3. NamedPlan => NamedPlan'
    <3>1. \A S : S \subseteq 1..born => S \subseteq 1..born'
      BY <1>0, Shapes
    <3>2. QED
      BY <1>0, <1>5, <3>1 DEF NamedPlan
  <2>4. Planned => Planned'
    BY <1>0, <1>6, <2>2, <2>3 DEF Planned
  <2>5. WholeGot => WholeGot'
    BY <1>0, <1>5, Shapes DEF WholeGot, Uncut, NamedRead
  <2>6. SlicedGot => SlicedGot'
    BY <1>0, <1>5, <1>6, <2>2 DEF SlicedGot
  <2>7. ASSUME Planned, NamedGot PROVE NamedGot'
    <3> SUFFICES ASSUME NamedRead, NEW r \in Oids
                 PROVE  /\ got[r] <= 1
                        /\ \A b \in DOMAIN plan :
                             r \in plan[b].oids =>
                               /\ b \in left => got[r] = 0
                               /\ Uncut /\ b \notin left /\ r \in layer' =>
                                    got[r] >= 1
      BY <1>0, <1>6 DEF NamedGot, Uncut
    <3>1. \A b \in DOMAIN plan : born + 1 \notin plan[b].oids
      BY <2>7, Shapes DEF Planned, NamedPlan
    <3>2. QED
      BY <1>0, <2>7, <3>1 DEF NamedGot
  <2>8. QED
    BY <1>0, <1>6, <2>1, <2>4, <2>5, <2>6, <2>7 DEF IInv, PlanInv
<1>9. QED
  BY <1>1, <1>3, <1>7, <1>8 DEF IInv

(* A row that is gone is owed no more. *)
LEMMA DeleteStep == ASSUME NEW r \in Oids PROVE IInv /\ Delete(r) => IInv'
<1> SUFFICES ASSUME IInv, Delete(r) PROVE IInv'
  OBVIOUS
<1>0. /\ stage \in {"metadata", "ids", "read"}
      /\ layer' = layer \ {r} /\ born' = born
      /\ opts' = opts /\ stage' = stage /\ counted' = counted
      /\ snapshot' = snapshot /\ plan' = plan /\ left' = left /\ got' = got
  BY DEF Delete, Edited
<1>1. TypeOK'
  BY <1>0, Shapes DEF IInv, TypeOK
<1>2. CountInv' /\ PlannedPagesFit'
  BY <1>0 DEF IInv, CountInv, PlannedPagesFit
<1>3. /\ NothingDeleted' => NothingDeleted
      /\ snapshot \cap layer' \subseteq snapshot \cap layer
  BY <1>0 DEF NothingDeleted
<1>4. SlicedRead' = SlicedRead /\ NamedRead' = NamedRead
  BY <1>0 DEF SlicedRead, NamedRead
<1>5. NoRowTwice'
  BY <1>0, <1>3, <1>4 DEF IInv, NoRowTwice
<1>6. PlanInv'
  <2>1. NothingRead => NothingRead'
    BY <1>0 DEF NothingRead
  <2>2. PageSize' = PageSize /\ Slices' = Slices
    BY <1>0 DEF Slices, PageSize
  <2>3. NamedPlan => NamedPlan'
    BY <1>0, <1>3 DEF NamedPlan
  <2>4. Planned => Planned'
    BY <1>0, <1>4, <2>2, <2>3 DEF Planned
  <2>5. WholeGot => WholeGot'
    BY <1>0, <1>3, Shapes DEF WholeGot, Uncut, NamedRead
  <2>6. SlicedGot => SlicedGot'
    BY <1>0, <1>3, <1>4, <2>2 DEF SlicedGot
  <2>7. NamedGot => NamedGot'
    BY <1>0, <1>4 DEF NamedGot, Uncut
  <2>8. QED
    BY <1>0, <1>4, <2>1, <2>4, <2>5, <2>6, <2>7 DEF IInv, PlanInv
<1>7. QED
  BY <1>1, <1>2, <1>5, <1>6 DEF IInv

(* The rows counted are the ones there are. *)
LEMMA CountStep == IInv /\ CountRows => IInv'
<1> SUFFICES ASSUME IInv, CountRows PROVE IInv'
  OBVIOUS
<1>0. /\ stage = "count" /\ stage' = "metadata"
      /\ counted' = Cardinality(layer) /\ snapshot' = layer
      /\ opts' = opts /\ layer' = layer /\ born' = born
      /\ plan' = plan /\ left' = left /\ got' = got
  BY DEF CountRows
<1>1. layer = 1..born /\ counted' = born /\ counted' \in Nat
  <2>1. layer = 1..born
    BY <1>0 DEF IInv, CountInv
  <2>2. Cardinality(1..born) = born
    BY Shapes, FS_Interval
  <2>3. QED
    BY <1>0, <2>1, <2>2, Shapes
<1>2. TypeOK'
  <2>1. counted' \in 0..MaxOid /\ snapshot' \subseteq Oids
    BY <1>0, <1>1, Shapes DEF Oids
  <2>2. QED
    BY <1>0, <2>1 DEF IInv, TypeOK
<1>3. CountInv' /\ PlannedPagesFit'
  BY <1>0, <1>1, Shapes DEF CountInv, PlannedPagesFit
<1>4. NothingRead
  BY <1>0 DEF IInv, PlanInv
<1>5. NothingRead' /\ NoRowTwice'
  BY <1>0, <1>4 DEF NothingRead, NoRowTwice
<1>6. PlanInv'
  BY <1>0, <1>5 DEF PlanInv
<1>7. QED
  BY <1>2, <1>3, <1>5, <1>6 DEF IInv

(* The plan is one request, sorted slices, or a read by object ids. *)
LEMMA MetadataStep == IInv /\ ReadMetadata => IInv'
<1> SUFFICES ASSUME IInv, ReadMetadata PROVE IInv'
  OBVIOUS
<1>0. /\ stage = "metadata" /\ opts' = opts /\ layer' = layer /\ born' = born
      /\ counted' = counted /\ snapshot' = snapshot /\ got' = got
  BY DEF ReadMetadata
<1>1. NothingRead
  BY <1>0 DEF IInv, PlanInv
<1>2. \A r \in Oids : got[r] = 0 /\ got'[r] = 0
  BY <1>0, <1>1 DEF NothingRead
<1>3. NoRowTwice'
  BY <1>2 DEF NoRowTwice
<1>4. SlicedRead' = SlicedRead /\ NamedRead' = NamedRead
  BY <1>0 DEF SlicedRead, NamedRead
<1>5. stage' # "count" /\ stage' # "truncated" /\ stage' # "done"
  BY DEF ReadMetadata, Set
<1>6. CountInv' /\ PlannedPagesFit'
  BY <1>0, <1>5 DEF IInv, CountInv, PlannedPagesFit
<1>7. CASE counted <= MaxRecordCount /\ Set(<<Whole(opts.size)>>)
  <2>1. stage' = "read" /\ plan' = <<Whole(opts.size)>> /\ left' = {1}
    BY <1>7 DEF Set
  <2>2. TypeOK'
    BY <1>0, <2>1 DEF IInv, TypeOK, Whole
  <2>3. ~SlicedRead' /\ ~NamedRead'
    BY <1>4, <1>7, Shapes DEF SlicedRead, NamedRead
  <2>4. Planned'
    BY <1>0, <2>1, <2>3 DEF Planned
  <2>5. WholeGot'
    BY <1>2, <2>1 DEF WholeGot
  <2>6. SlicedGot' /\ NamedGot'
    BY <2>3 DEF SlicedGot, NamedGot
  <2>7. QED
    BY <1>3, <1>6, <2>1, <2>2, <2>4, <2>5, <2>6 DEF IInv, PlanInv
<1>8. CASE counted > MaxRecordCount /\ opts.paging /\ Set(Slices)
  <2>1. stage' = "read" /\ plan' = Slices /\ left' = DOMAIN Slices
        /\ DOMAIN Slices = 1..WindowCount(counted, PageSize)
    BY <1>8 DEF Set, Slices
  <2>2. \A b \in DOMAIN Slices : Slices[b].kind = "slice" /\ Slices[b].oids = {}
    BY <2>1, SliceOfWindow, Shapes
  <2>3. TypeOK'
    BY <1>0, <2>1, <2>2 DEF IInv, TypeOK
  <2>4. ~NamedRead' /\ ~(counted' <= MaxRecordCount)
    BY <1>0, <1>8, Shapes DEF NamedRead
  <2>5. Slices' = Slices
    BY <1>0 DEF Slices, PageSize
  <2>6. Planned'
    BY <2>1, <2>4, <2>5 DEF Planned
  <2>7. WholeGot' /\ NamedGot'
    BY <2>4 DEF WholeGot, NamedGot
  <2>8. SlicedGot'
    BY <1>2, <2>1 DEF SlicedGot
  <2>9. QED
    BY <1>3, <1>6, <2>1, <2>3, <2>6, <2>7, <2>8 DEF IInv, PlanInv
<1>9. CASE /\ counted > MaxRecordCount /\ ~opts.paging
           /\ stage' = "ids" /\ UNCHANGED <<plan, left>>
  <2>1. TypeOK'
    BY <1>0, <1>9 DEF IInv, TypeOK
  <2>2. NothingRead' /\ NamedRead'
    BY <1>0, <1>1, <1>9 DEF NothingRead, NamedRead
  <2>3. PlanInv'
    BY <1>9, <2>2 DEF PlanInv
  <2>4. QED
    BY <1>3, <1>6, <2>1, <2>3 DEF IInv
<1>10. QED
  BY <1>7, <1>8, <1>9 DEF ReadMetadata

(* The pages of ids have no row in common and leave none out. *)
LEMMA ObjectIdsStep == IInv /\ ReadObjectIds => IInv'
<1> SUFFICES ASSUME IInv, ReadObjectIds PROVE IInv'
  OBVIOUS
<1> DEFINE total == Cardinality(layer)
           n == WindowCount(total, MaxRecordCount)
<1>0. /\ stage = "ids" /\ stage' = "read"
      /\ opts' = opts /\ layer' = layer /\ born' = born
      /\ counted' = counted /\ snapshot' = snapshot /\ got' = got
      /\ plan' = [i \in 1..n |-> Named(Chunk(i), opts.size)] /\ left' = 1..n
      /\ DOMAIN plan' = 1..n
  BY DEF ReadObjectIds, Set
<1>1. NothingRead /\ NamedRead
  BY <1>0 DEF IInv, PlanInv
<1>2. \A r \in Oids : got[r] = 0 /\ got'[r] = 0
  BY <1>0, <1>1 DEF NothingRead
<1>3. NoRowTwice'
  BY <1>2 DEF NoRowTwice
<1>4. total \in Nat
  BY Shapes, LayerIsFinite
<1> HIDE DEF total
<1>5. ASSUME NEW i \in 1..n
      PROVE  /\ Chunk(i) = {r \in layer : Rank(r) \in Window(total, MaxRecordCount, i)}
             /\ Chunk(i) \subseteq layer
             /\ Cardinality(Chunk(i)) <= MaxRecordCount
  <2> DEFINE first == (i - 1) * MaxRecordCount + 1
             last == Lesser(i * MaxRecordCount, total)
  <2>1. /\ first \in 1..total /\ last \in first..total
        /\ last < first + MaxRecordCount
        /\ Window(total, MaxRecordCount, i) = first..last
    BY <1>4, Shapes, WindowRows
  <2> HIDE DEF first, last
  <2>2. Chunk(i) = {r \in layer : Rank(r) \in Window(total, MaxRecordCount, i)}
    BY DEF Chunk, total
  <2>3. Chunk(i) = Ranked(first, last)
    BY <2>1, <2>2 DEF Ranked
  <2>4. first \in Nat /\ last \in Nat /\ first <= last
    BY <1>4, <2>1
  <2>5. Cardinality(Ranked(first, last)) <= last - first + 1
    BY <2>4, RankedFit, Shapes
  <2>6. Cardinality(Ranked(first, last)) \in Nat
    <3>1. Ranked(first, last) \in SUBSET layer
      BY DEF Ranked
    <3>2. QED
      BY <3>1, LayerIsFinite, Shapes
  <2>7. Cardinality(Ranked(first, last)) <= MaxRecordCount
    BY <2>1, <2>4, <2>5, <2>6, Shapes
  <2>8. QED
    BY <2>2, <2>3, <2>7
<1> HIDE DEF n
<1>6. \A i \in 1..n : plan'[i] = Named(Chunk(i), opts.size)
                     /\ plan'[i].oids = Chunk(i) /\ plan'[i].kind = "named"
  BY <1>0 DEF Named
<1>7. TypeOK'
  <2>1. \A i \in 1..n : Chunk(i) \subseteq Oids
    BY <1>5, Shapes DEF Oids
  <2>2. QED
    BY <1>0, <1>6, <2>1 DEF IInv, TypeOK
<1>8. CountInv' /\ PlannedPagesFit'
  BY <1>0 DEF IInv, CountInv, PlannedPagesFit
<1>9. NamedRead' /\ ~SlicedRead' /\ ~(counted' <= MaxRecordCount)
  BY <1>0, <1>1, Shapes DEF NamedRead, SlicedRead
<1>10. NamedPlan'
  <2>1. \A b \in DOMAIN plan' :
          /\ plan'[b] = Named(plan'[b].oids, opts'.size)
          /\ plan'[b].oids \subseteq 1..born'
          /\ Cardinality(plan'[b].oids) <= MaxRecordCount
    BY <1>0, <1>5, <1>6, Shapes
  <2>2. ASSUME NEW b \in 1..n, NEW c \in 1..n, b # c
        PROVE  plan'[b].oids \cap plan'[c].oids = {}
    <3>0. b \in Nat \ {0} /\ c \in Nat \ {0} /\ total \in Nat
      BY <1>4
    <3>1. Window(total, MaxRecordCount, b) \cap Window(total, MaxRecordCount, c) = {}
      BY <2>2, <3>0, Parameters, WindowsAreApart
    <3>2. QED
      BY <1>5, <1>6, <3>1
  <2>3. ASSUME NEW r \in layer PROVE \E b \in 1..n : r \in plan'[b].oids
    <3>1. Rank(r) \in 1..total
      BY Ranks, Shapes DEF total
    <3>2. PICK i \in 1..n : Rank(r) \in Window(total, MaxRecordCount, i)
      BY <1>4, <3>1, Shapes, SomeWindow DEF n
    <3>3. QED
      BY <1>5, <1>6, <3>2
  <2>4. QED
    BY <1>0, <2>1, <2>2, <2>3 DEF NamedPlan
<1>11. Planned' /\ WholeGot' /\ SlicedGot'
  BY <1>9, <1>10 DEF Planned, WholeGot, SlicedGot
<1>12. NamedGot'
  BY <1>0, <1>2 DEF NamedGot
<1>13. PlanInv'
  BY <1>0, <1>11, <1>12 DEF PlanInv
<1>14. QED
  BY <1>3, <1>7, <1>8, <1>13 DEF IInv

(* While the read goes on, each batch is of one of the three kinds. *)
LEMMA BatchKinds ==
  ASSUME IInv, stage = "read", NEW b \in DOMAIN plan
  PROVE  \/ /\ counted <= MaxRecordCount /\ b = 1
            /\ plan[b] = Whole(opts.size)
         \/ SlicedRead /\ b \in 1..WindowCount(counted, PageSize)
            /\ plan[b] = Slices[b]
         \/ NamedRead /\ plan[b] = Named(plan[b].oids, opts.size)
<1>1. Planned
  BY DEF IInv, PlanInv
<1>2. CASE counted <= MaxRecordCount
  <2>1. plan = <<Whole(opts.size)>>
    BY <1>1, <1>2 DEF Planned
  <2>2. QED
    BY <1>2, <2>1
<1>3. CASE SlicedRead
  <2>1. plan = Slices
    BY <1>1, <1>3 DEF Planned
  <2>2. QED
    BY <1>3, <2>1 DEF Slices
<1>4. CASE NamedRead
  BY <1>1, <1>4 DEF Planned, NamedPlan
<1>5. QED
  BY <1>2, <1>3, <1>4, Shapes DEF SlicedRead, NamedRead

(* What the service may answer a batch with. *)
LEMMA RowsOfBatch ==
  ASSUME IInv, stage = "read", NEW b \in DOMAIN plan, NEW rows \in Matches(plan[b])
  PROVE  /\ rows \subseteq layer
         /\ counted <= MaxRecordCount /\ Uncut /\ ~Exceeds(rows) => rows = layer
         /\ SlicedRead /\ opts.sorted /\ NothingDeleted =>
              rows = Window(counted, PageSize, b)
         /\ NamedRead => /\ rows \subseteq plan[b].oids
                         /\ Uncut => rows = plan[b].oids \cap layer
<1>1. CASE counted <= MaxRecordCount /\ plan[b] = Whole(opts.size)
  <2>1. ~SlicedRead /\ ~NamedRead
    BY <1>1, Shapes DEF SlicedRead, NamedRead
  <2>2. plan[b].kind = "whole" /\ plan[b].hi = opts.size
    BY <1>1 DEF Whole
  <2>3. Matches(plan[b]) =
          IF opts.size = 0 THEN {layer}
          ELSE kSubset(Lesser(opts.size, Cardinality(layer)), layer)
    BY <2>2 DEF Matches, AtMost
  <2>4. rows \subseteq layer
    BY <2>3 DEF kSubset
  <2>5. ASSUME Uncut, ~Exceeds(rows), opts.size # 0 PROVE rows = layer
    <3>1. opts.size \in Nat /\ opts.size > MaxRecordCount
      BY <2>1, <2>5, Shapes, OptionTypes DEF Uncut
    <3>2. Cardinality(rows) = Lesser(opts.size, Cardinality(layer))
      BY <2>3, <2>5 DEF kSubset
    <3>3. Cardinality(layer) \in Nat /\ Cardinality(rows) \in Nat
      BY <3>1, <3>2, LayerIsFinite, Shapes DEF Lesser
    <3>4. Cardinality(rows) <= MaxRecordCount
      BY <2>5, <3>3, Shapes, OptionTypes DEF Exceeds, Lesser
    <3>5. Cardinality(rows) = Cardinality(layer)
      BY <3>1, <3>2, <3>3, <3>4, Shapes DEF Lesser
    <3>6. rows # layer => Cardinality(rows) < Cardinality(layer)
      BY <2>4, LayerIsFinite, Shapes
    <3>7. QED
      BY <3>3, <3>5, <3>6
  <2>6. QED
    BY <2>1, <2>3, <2>4, <2>5
<1>2. CASE SlicedRead /\ b \in 1..WindowCount(counted, PageSize) /\ plan[b] = Slices[b]
  <2>1. ~(counted <= MaxRecordCount) /\ ~NamedRead
    BY <1>2, Shapes DEF SlicedRead, NamedRead
  <2>2. /\ plan[b].kind = "slice"
        /\ plan[b].lo \in 1..counted /\ plan[b].hi \in plan[b].lo..counted
        /\ plan[b].lo..plan[b].hi = Window(counted, PageSize, b)
    BY <1>2, SliceOfWindow, Shapes
  <2> DEFINE ranked == Ranked(plan[b].lo, plan[b].hi)
  <2>3. Matches(plan[b]) = IF opts.sorted THEN {ranked}
                           ELSE kSubset(Cardinality(ranked), layer)
    BY <2>2 DEF Matches
  <2>4. ranked \subseteq layer
    BY DEF Ranked
  <2>5. NothingDeleted => ranked = Window(counted, PageSize, b)
    <3> SUFFICES ASSUME NothingDeleted
                 PROVE  ranked = plan[b].lo..plan[b].hi
      BY <2>2
    <3>1. 1..counted \subseteq layer /\ counted \in 0..born
      BY Shapes DEF NothingDeleted, IInv, CountInv
    <3>2. born \in Nat /\ layer \subseteq 1..born
      BY Shapes
    <3> DEFINE lo == plan[b].lo
               hi == plan[b].hi
    <3>3. lo \in 1..counted /\ hi \in lo..counted
      BY <2>2
    <3> HIDE DEF lo, hi
    <3>4. Ranked(lo, hi) = lo..hi
      BY <3>1, <3>2, <3>3, RankedPrefix
    <3>5. QED
      BY <3>4 DEF lo, hi
  <2> HIDE DEF ranked
  <2>6. rows \subseteq layer
    BY <2>3, <2>4 DEF kSubset
  <2>7. opts.sorted => rows = ranked
    BY <2>3
  <2>8. QED
    BY <2>1, <2>5, <2>6, <2>7
<1>3. CASE NamedRead /\ plan[b] = Named(plan[b].oids, opts.size)
  <2>1. ~(counted <= MaxRecordCount) /\ ~SlicedRead
    BY <1>3, Shapes DEF SlicedRead, NamedRead
  <2> DEFINE there == plan[b].oids \cap layer
  <2>2. plan[b].kind = "named" /\ plan[b].hi = opts.size
    BY <1>3 DEF Named
  <2>3. Matches(plan[b]) =
          IF opts.size = 0 THEN {there}
          ELSE kSubset(Lesser(opts.size, Cardinality(there)), there)
    BY <2>2 DEF Matches, AtMost
  <2>4. rows \subseteq there
    BY <2>3 DEF kSubset
  <2>5. ASSUME opts.size >= MaxRecordCount, opts.size # 0 PROVE rows = there
    <3>1. there \subseteq plan[b].oids /\ there \in SUBSET layer
      OBVIOUS
    <3>2. plan[b].oids \subseteq 1..born /\ Cardinality(plan[b].oids) <= MaxRecordCount
      BY <1>3 DEF IInv, PlanInv, Planned, NamedPlan
    <3>3. Cardinality(there) \in Nat /\ Cardinality(there) <= MaxRecordCount
      <4>1. IsFiniteSet(1..born)
        BY Shapes, FS_Interval
      <4>2. IsFiniteSet(plan[b].oids) /\ Cardinality(plan[b].oids) \in Nat
        BY <3>2, <4>1, FS_Subset, FS_CardinalityType
      <4>3. IsFiniteSet(there) /\ Cardinality(there) <= Cardinality(plan[b].oids)
        BY <3>1, <4>2, FS_Subset
      <4>4. Cardinality(there) \in Nat
        BY <4>3, FS_CardinalityType
      <4>5. QED
        BY <3>2, <4>2, <4>3, <4>4, Shapes
    <3>4. opts.size \in Nat
      BY Shapes, OptionTypes
    <3>5. Lesser(opts.size, Cardinality(there)) = Cardinality(there)
      BY <2>5, <3>3, <3>4, Shapes DEF Lesser
    <3>6. Cardinality(rows) = Cardinality(there)
      BY <2>3, <2>5, <3>5 DEF kSubset
    <3>7. rows # there => Cardinality(rows) < Cardinality(there)
      BY <2>4, <3>1, LayerIsFinite, Shapes
    <3>8. QED
      BY <3>3, <3>6, <3>7
  <2>6. Uncut => rows = there
    <3>1. opts.size = 0 => rows = there
      BY <2>3
    <3>2. QED
      BY <2>5, <3>1, Shapes, OptionTypes DEF Uncut
  <2>7. QED
    BY <2>1, <2>4, <2>6
<1>4. QED
  BY <1>1, <1>2, <1>3, BatchKinds

(* A batch brings no more rows than the service sends at once, as far as   *)
(* the plan and the rows it was made for go.                               *)
LEMMA BatchesFit ==
  ASSUME IInv, stage = "read", NEW b \in DOMAIN plan, NEW rows \in Matches(plan[b]),
         born = counted
  PROVE  Cardinality(rows) \in Nat /\ Cardinality(rows) <= MaxRecordCount
<1>1. rows \in SUBSET layer
  BY RowsOfBatch
<1>2. Cardinality(rows) \in Nat
  <2>1. born \in Nat /\ layer \subseteq 1..born
    BY Shapes
  <2>2. QED
    BY <1>1, <2>1, LayerIsFinite
<1>3. CASE counted <= MaxRecordCount
  <2>0. born \in Nat
    BY Shapes
  <2>1. IsFiniteSet(1..born) /\ Cardinality(1..born) = born
    BY <2>0, FS_Interval
  <2>2. rows \in SUBSET (1..born)
    BY <1>1, Shapes
  <2>3. Cardinality(rows) <= Cardinality(1..born)
    BY <2>1, <2>2, FS_Subset
  <2>4. QED
    BY <1>2, <1>3, <2>1, <2>3, Shapes
<1>4. CASE SlicedRead /\ b \in 1..WindowCount(counted, PageSize) /\ plan[b] = Slices[b]
  <2> DEFINE lo == plan[b].lo
             hi == plan[b].hi
             ranked == Ranked(lo, hi)
  <2>1. /\ plan[b].kind = "slice"
        /\ lo \in 1..counted /\ hi \in lo..counted /\ hi < lo + PageSize
    BY <1>4, SliceOfWindow, Shapes
  <2>2. Matches(plan[b]) = IF opts.sorted THEN {ranked}
                           ELSE kSubset(Cardinality(ranked), layer)
    BY <2>1 DEF Matches
  <2>3. Cardinality(ranked) <= hi - lo + 1
    BY <2>1, RankedFit, Shapes
  <2>4. Cardinality(rows) = Cardinality(ranked)
    BY <2>2 DEF kSubset
  <2> HIDE DEF ranked, lo, hi
  <2>5. QED
    BY <1>2, <2>1, <2>3, <2>4, Shapes
<1>5. CASE NamedRead /\ plan[b] = Named(plan[b].oids, opts.size)
  <2>1. rows \subseteq plan[b].oids
    BY <1>5, RowsOfBatch
  <2>2. plan[b].oids \subseteq 1..born /\ Cardinality(plan[b].oids) <= MaxRecordCount
    BY <1>5 DEF IInv, PlanInv, Planned, NamedPlan
  <2>3. IsFiniteSet(1..born)
    BY Shapes, FS_Interval
  <2>4. IsFiniteSet(plan[b].oids) /\ Cardinality(plan[b].oids) \in Nat
    BY <2>2, <2>3, FS_Subset, FS_CardinalityType
  <2>5. rows \in SUBSET plan[b].oids
    BY <2>1
  <2>6. Cardinality(rows) <= Cardinality(plan[b].oids)
    BY <2>4, <2>5, FS_Subset
  <2>7. QED
    BY <1>2, <2>2, <2>4, <2>6, Shapes
<1>6. QED
  BY <1>3, <1>4, <1>5, BatchKinds

(* A page that is too long is longer than the plan made it. *)
LEMMA TruncatedStep ==
  ASSUME IInv, stage = "read", NEW b \in left, NEW rows \in Matches(plan[b]),
         Exceeds(rows), stage' = "truncated",
         UNCHANGED <<opts, layer, born, counted, snapshot, plan, left, got>>
  PROVE  IInv'
<1>1. TypeOK' /\ CountInv'
  BY DEF IInv, TypeOK, CountInv
<1>2. NoRowTwice'
  BY DEF IInv, NoRowTwice, SlicedRead, NothingDeleted
<1>3. PlanInv'
  BY DEF PlanInv
<1>4. PlannedPagesFit'
  <2> SUFFICES ASSUME ~(opts.limit < MaxRecordCount), ~(born > Cardinality(snapshot))
               PROVE  FALSE
    BY DEF PlannedPagesFit
  <2>1. snapshot = 1..counted /\ counted <= born
    BY DEF IInv, CountInv
  <2>2. Cardinality(1..counted) = counted
    BY Shapes, FS_Interval
  <2>3. born = counted
    BY <2>1, <2>2, Shapes
  <2>4. b \in DOMAIN plan
    BY Shapes
  <2>5. Cardinality(rows) \in Nat /\ Cardinality(rows) <= MaxRecordCount
    BY <2>3, <2>4, BatchesFit
  <2>6. opts.limit \in Nat
    BY Shapes, OptionTypes
  <2>7. QED
    BY <2>5, <2>6, Shapes DEF Exceeds, Lesser
<1>5. QED
  BY <1>1, <1>2, <1>3, <1>4 DEF IInv

(* A batch is answered: its rows, and no others, were read once more. *)
LEMMA AnsweredStep ==
  ASSUME IInv, stage = "read", NEW b \in left, NEW rows \in Matches(plan[b]),
         ~Exceeds(rows), left' = left \ {b},
         got' = [r \in Oids |-> IF r \in rows THEN got[r] + 1 ELSE got[r]],
         UNCHANGED <<stage, opts, layer, born, counted, snapshot, plan>>
  PROVE  IInv'
<1>1. b \in DOMAIN plan
  BY Shapes
<1>2. \A r \in Oids : /\ got[r] \in Nat
                      /\ got'[r] = IF r \in rows THEN got[r] + 1 ELSE got[r]
  BY Shapes
<1>3. TypeOK'
  <2>1. got' \in [Oids -> Nat]
    BY <1>2
  <2>2. left' \subseteq DOMAIN plan'
    BY Shapes
  <2>3. QED
    BY <2>1, <2>2 DEF IInv, TypeOK
<1>4. CountInv' /\ PlannedPagesFit'
  BY DEF IInv, CountInv, PlannedPagesFit
<1>5. /\ SlicedRead' = SlicedRead /\ NamedRead' = NamedRead
      /\ NothingDeleted' = NothingDeleted /\ PageSize' = PageSize
      /\ Slices' = Slices /\ NamedPlan' = NamedPlan /\ Uncut' = Uncut
  BY DEF SlicedRead, NamedRead, NothingDeleted, PageSize, Slices, NamedPlan, Uncut
<1>6. Planned /\ WholeGot /\ SlicedGot /\ NamedGot
  BY DEF IInv, PlanInv
<1>7. Planned'
  BY <1>5, <1>6 DEF Planned
<1>8. WholeGot'
  <2> SUFFICES ASSUME counted <= MaxRecordCount
               PROVE  /\ \A r \in Oids : got'[r] <= 1
                      /\ left' = {}
                      /\ Uncut =>
                           \A r \in snapshot \cap layer : got'[r] >= 1
    BY <1>5 DEF WholeGot
  <2>1. b = 1 /\ DOMAIN plan = {1}
    <3>1. plan = <<Whole(opts.size)>>
      BY <1>6 DEF Planned
    <3>2. QED
      BY <1>1, <3>1
  <2>2. \A r \in Oids : got[r] = 0
    BY <1>6, <2>1 DEF WholeGot
  <2>3. left' = {}
    BY <2>1, Shapes
  <2>4. Uncut => rows = layer
    BY <1>1, RowsOfBatch
  <2>5. layer \subseteq Oids
    BY Shapes DEF Oids
  <2>6. QED
    BY <1>2, <2>2, <2>3, <2>4, <2>5
<1>9. SlicedGot'
  <2> SUFFICES ASSUME SlicedRead, opts.sorted, NothingDeleted, NEW r \in Oids
               PROVE  got'[r] =
                        IF \E c \in DOMAIN plan \ left' :
                             r \in Window(counted, PageSize, c)
                        THEN 1 ELSE 0
    BY <1>5 DEF SlicedGot
  <2>1. rows = Window(counted, PageSize, b)
    BY <1>1, RowsOfBatch
  <2>2. got[r] = IF \E c \in DOMAIN plan \ left : r \in Window(counted, PageSize, c)
                 THEN 1 ELSE 0
    BY <1>6 DEF SlicedGot
  <2>3. DOMAIN plan \ left' = (DOMAIN plan \ left) \cup {b}
    BY <1>1
  <2>4. CASE r \in rows
    <3>1. ASSUME NEW c \in DOMAIN plan \ left
          PROVE  r \notin Window(counted, PageSize, c)
      <4>1. DOMAIN plan = 1..WindowCount(counted, PageSize)
        BY <1>6 DEF Planned, Slices
      <4>2. b \in Nat \ {0} /\ c \in Nat \ {0} /\ b # c
        BY <1>1, <4>1
      <4>3. PageSize \in Nat \ {0} /\ counted \in Nat
        BY Shapes
      <4>4. Window(counted, PageSize, b) \cap Window(counted, PageSize, c) = {}
        BY <4>2, <4>3, WindowsAreApart
      <4>5. QED
        BY <2>1, <2>4, <4>4
    <3>2. got'[r] = 1
      BY <1>2, <2>2, <2>4, <3>1
    <3>3. QED
      BY <2>1, <2>3, <2>4, <3>2
  <2>5. CASE r \notin rows
    <3>1. got'[r] = got[r]
      BY <1>2, <2>5
    <3>2. QED
      BY <2>1, <2>2, <2>3, <2>5, <3>1
  <2>6. QED
    BY <2>4, <2>5
<1>10. NamedGot'
  <2> SUFFICES ASSUME NamedRead, NEW r \in Oids
               PROVE  /\ got'[r] <= 1
                      /\ \A c \in DOMAIN plan :
                           r \in plan[c].oids =>
                             /\ c \in left' => got'[r] = 0
                             /\ Uncut /\ c \notin left' /\ r \in layer =>
                                  got'[r] >= 1
    BY <1>5 DEF NamedGot
  <2>1. rows \subseteq plan[b].oids /\ (Uncut => rows = plan[b].oids \cap layer)
    BY <1>1, RowsOfBatch
  <2>2. /\ got[r] <= 1
        /\ \A c \in DOMAIN plan :
             r \in plan[c].oids =>
               /\ c \in left => got[r] = 0
               /\ Uncut /\ c \notin left /\ r \in layer => got[r] >= 1
    BY <1>6 DEF NamedGot
  <2>3. \A c \in DOMAIN plan : c # b => plan[c].oids \cap plan[b].oids = {}
    BY <1>1, <1>6 DEF Planned, NamedPlan
  <2>4. CASE r \in rows
    <3>1. r \in plan[b].oids /\ got[r] = 0 /\ got'[r] = 1
      BY <1>1, <1>2, <2>1, <2>2, <2>4
    <3>2. \A c \in DOMAIN plan : r \in plan[c].oids => c = b
      BY <2>3, <3>1
    <3>3. QED
      BY <3>1, <3>2
  <2>5. CASE r \notin rows
    <3>1. got'[r] = got[r]
      BY <1>2, <2>5
    <3>2. Uncut /\ r \in plan[b].oids => r \notin layer
      BY <2>1, <2>5
    <3>3. QED
      BY <2>2, <3>1, <3>2
  <2>6. QED
    BY <2>4, <2>5
<1>11. PlanInv'
  BY <1>7, <1>8, <1>9, <1>10 DEF PlanInv
<1>12. NoRowTwice'
  <2> SUFFICES ASSUME SlicedRead => opts.sorted /\ NothingDeleted, NEW r \in Oids
               PROVE  got'[r] <= 1
    BY <1>5 DEF NoRowTwice
  <2>1. CASE counted <= MaxRecordCount
    BY <1>8, <2>1 DEF WholeGot
  <2>2. CASE SlicedRead
    BY <1>5, <1>9, <2>2 DEF SlicedGot
  <2>3. CASE NamedRead
    BY <1>5, <1>10, <2>3 DEF NamedGot
  <2>4. QED
    BY <2>1, <2>2, <2>3, Shapes DEF SlicedRead, NamedRead
<1>13. QED
  BY <1>3, <1>4, <1>11, <1>12 DEF IInv

(* Every answer the service may give. *)
LEMMA FetchStep == ASSUME NEW b \in DOMAIN plan PROVE IInv /\ Fetch(b) => IInv'
<1> SUFFICES ASSUME IInv, Fetch(b) PROVE IInv'
  OBVIOUS
<1>1. stage = "read" /\ b \in left
      /\ UNCHANGED <<opts, layer, born, counted, snapshot, plan>>
  BY DEF Fetch
<1>2. PICK rows \in Matches(plan[b]) :
        \/ /\ ~Exceeds(rows)
           /\ left' = left \ {b}
           /\ got' = [r \in Oids |-> IF r \in rows THEN got[r] + 1 ELSE got[r]]
           /\ UNCHANGED stage
        \/ /\ Exceeds(rows)
           /\ stage' = "truncated"
           /\ UNCHANGED <<left, got>>
  BY DEF Fetch
<1>3. QED
  BY <1>1, <1>2, AnsweredStep, TruncatedStep

(* Steps that move the read on without a row, and steps that change nothing. *)
LEMMA QuietStep ==
  ASSUME IInv, UNCHANGED <<opts, layer, born, counted, snapshot, plan, left, got>>,
         \/ stage = "read" /\ left = {} /\ stage' = "done"
         \/ stage' = "raised"
         \/ stage' = stage
  PROVE  IInv'
<1>1. TypeOK'
  BY DEF IInv, TypeOK
<1>2. NoRowTwice'
  BY DEF IInv, NoRowTwice, SlicedRead, NothingDeleted
<1>3. CountInv'
  <2>1. CASE stage' = stage
    BY <2>1 DEF IInv, CountInv
  <2>2. CASE stage = "read" /\ stage' = "done"
    BY <2>2 DEF IInv, CountInv
  <2>3. CASE stage' = "raised"
    <3>1. 0 \in Nat /\ 1..0 = {} /\ 0 <= born
      BY Shapes
    <3>2. QED
      BY <2>3, <3>1 DEF IInv, CountInv
  <2>4. QED
    BY <2>1, <2>2, <2>3
<1>4. PlannedPagesFit'
  BY DEF IInv, PlannedPagesFit
<1>5. PlanInv'
  <2>1. /\ NothingRead => NothingRead'
        /\ NamedRead => NamedRead'
        /\ Planned => Planned'
        /\ WholeGot => WholeGot'
        /\ SlicedGot => SlicedGot'
        /\ NamedGot => NamedGot'
    <3>1. /\ SlicedRead' = SlicedRead /\ NamedRead' = NamedRead
          /\ NothingDeleted' = NothingDeleted /\ PageSize' = PageSize
          /\ Slices' = Slices /\ NamedPlan' = NamedPlan /\ Uncut' = Uncut
      BY DEF SlicedRead, NamedRead, NothingDeleted, PageSize, Slices, NamedPlan,
             Uncut
    <3>2. QED
      BY <3>1 DEF NothingRead, Planned, WholeGot, SlicedGot, NamedGot
  <2>2. QED
    BY <2>1 DEF IInv, PlanInv
<1>6. QED
  BY <1>1, <1>2, <1>3, <1>4, <1>5 DEF IInv

(* Edits, requests and failures keep the invariant. *)
LEMMA Inductive == IInv /\ [Next]_vars => IInv'
<1> SUFFICES ASSUME IInv, [Next]_vars PROVE IInv'
  OBVIOUS
<1>1. CASE Add
  BY <1>1, AddStep
<1>2. ASSUME NEW r \in Oids, Delete(r) PROVE IInv'
  BY <1>2, DeleteStep
<1>3. CASE CountRows
  BY <1>3, CountStep
<1>4. CASE ReadMetadata
  BY <1>4, MetadataStep
<1>5. CASE ReadObjectIds
  BY <1>5, ObjectIdsStep
<1>6. ASSUME NEW b \in DOMAIN plan, Fetch(b) PROVE IInv'
  BY <1>6, FetchStep
<1>7. CASE Finish
  BY <1>7, QuietStep DEF Finish
<1>8. CASE RequestFails
  BY <1>8, QuietStep DEF RequestFails
<1>9. CASE UNCHANGED vars
  BY <1>9, QuietStep DEF vars
<1>10. QED
  BY <1>1, <1>2, <1>3, <1>4, <1>5, <1>6, <1>7, <1>8, <1>9 DEF Next

(* What was read agrees with the plan in every state. *)
LEMMA Invariant == Spec => []IInv
BY InitEstablishes, Inductive, PTL DEF Spec

(* Plans, counts and what was read have their types. *)
THEOREM TypesHold == Spec => []TypeOK
<1>1. IInv => TypeOK
  BY DEF IInv
<1>2. QED
  BY <1>1, Invariant, PTL

(* Whatever is added or deleted meanwhile, a read by object ids brings no  *)
(* row twice, and every row that is there from its count to its end unless *)
(* the caller's resultRecordCount is below the pages it names; so do a     *)
(* read by slices in OID order from which nothing is deleted, and a read   *)
(* in one request, unless that count cuts it short (getgdf.py:280-345).    *)
THEOREM RowsOnce == Spec => []RowsAreReadOnce
<1>1. IInv => RowsAreReadOnce
  <2> SUFFICES ASSUME IInv PROVE StableRowsAreRead
    BY DEF IInv, RowsAreReadOnce
  <2> SUFFICES ASSUME stage = "done", SlicedRead => opts.sorted /\ NothingDeleted,
                      ~SlicedRead => Uncut, NEW r \in snapshot \cap layer
               PROVE  got[r] >= 1
    BY DEF StableRowsAreRead
  <2>1. Planned /\ WholeGot /\ SlicedGot /\ NamedGot /\ left = {}
    BY DEF IInv, PlanInv
  <2>2. r \in Oids
    BY Shapes DEF Oids
  <2>3. CASE NamedRead
    <3>0. Uncut
      BY <2>3 DEF SlicedRead, NamedRead
    <3>1. PICK b \in DOMAIN plan : r \in plan[b].oids
      BY <2>1, <2>3 DEF Planned, NamedPlan
    <3>2. QED
      BY <2>1, <2>2, <2>3, <3>0, <3>1 DEF NamedGot
  <2>4. CASE SlicedRead
    <3>1. r \in 1..counted
      BY DEF IInv, CountInv
    <3>2. PICK b \in 1..WindowCount(counted, PageSize) : r \in Window(counted, PageSize, b)
      BY <3>1, SomeWindow, Shapes
    <3>3. b \in DOMAIN plan \ left
      BY <2>1, <2>4 DEF Planned, Slices
    <3>4. got[r] = 1
      BY <2>1, <2>2, <2>4, <3>2, <3>3 DEF SlicedGot
    <3>5. QED
      BY <3>4
  <2>5. CASE counted <= MaxRecordCount
    <3>1. ~SlicedRead
      BY <2>5, Shapes DEF SlicedRead
    <3>2. Uncut
      BY <3>1
    <3>3. QED
      BY <2>1, <2>5, <3>2 DEF WholeGot
  <2>6. QED
    BY <2>3, <2>4, <2>5, Shapes DEF SlicedRead, NamedRead
<1>2. QED
  BY <1>1, Invariant, PTL

(* The plan never asks for a page that is too long for the layer it was    *)
(* made for: a PaginationError means the byte limit, or rows added since   *)
(* the count (_pagination.py:95-123, getgdf.py:385-391).                   *)
THEOREM PlansFit == Spec => []PlannedPagesFit
<1>1. IInv => PlannedPagesFit
  BY DEF IInv
<1>2. QED
  BY <1>1, Invariant, PTL
=============================================================================
