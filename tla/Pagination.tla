----------------------------- MODULE Pagination -----------------------------
(***************************************************************************)
(* A layer read in batches while others edit it: get_query_data_batches    *)
(* plans the requests from a count, the metadata and, without offset       *)
(* paging, the object ids (restgdf/utils/getgdf.py, _pagination.py); each  *)
(* batch is then one request, and any of them may be sent first.           *)
(*                                                                         *)
(* Rows are object ids.  The service gives new rows the next id; a page in *)
(* OID order is taken by rank, a page in no order is any rows at all.      *)
(***************************************************************************)
EXTENDS Paging, FiniteSets, FiniteSetsExt

CONSTANTS
  MaxOid,          (* bound: object ids ever given out                      *)
  MaxRecordCount,  (* the layer's maxRecordCount                            *)
  Sizes,           (* resultRecordCount of the caller, 0 for none           *)
  Factors,         (* advertised maxRecordCountFactor <<p, q>>; <<1, 1>> is *)
                   (* also a layer that advertises none                     *)
  Limits           (* rows that fit the service's byte limit                *)

ASSUME PaginationAssumption ==
  /\ {MaxOid, MaxRecordCount} \cup Limits \subseteq Nat \ {0}
  /\ Sizes \subseteq Nat
  /\ \A f \in Factors : f[1] \in Nat \ {0} /\ f[2] \in Nat \ {0}

Oids == 1..MaxOid

(* paging: supportsPagination is True.  sorted: the batches carry          *)
(* orderByFields=<OID>; not so when the caller sorts otherwise or the OID  *)
(* field cannot be resolved.                                               *)
ReadOptions ==
  [size : Sizes, factor : Factors, paging : BOOLEAN, sorted : BOOLEAN,
   limit : Limits]

Whole(count) == [kind |-> "whole", lo |-> 1, hi |-> count, oids |-> {}]
Slice(rows) ==
  [kind |-> "slice", lo |-> Min(rows), hi |-> Max(rows), oids |-> {}]
Named(oids, count) ==
  [kind |-> "named", lo |-> 0, hi |-> count, oids |-> oids]

VARIABLES
  opts,      (* the layer and the arguments of the read                     *)
  layer,     (* rows there are                                              *)
  born,      (* the last id given out                                       *)
  stage,     (* which answer the read awaits                                *)
  counted,   (* get_feature_count's answer                                  *)
  snapshot,  (* the rows there were when it was given                       *)
  plan,      (* the batches                                                 *)
  left,      (* those not yet answered                                      *)
  got        (* how often each row was read                                 *)

vars == <<opts, layer, born, stage, counted, snapshot, plan, left, got>>

TypeOK ==
  /\ opts \in ReadOptions
  /\ layer \subseteq 1..born /\ born \in 0..MaxOid
  /\ stage \in {"count", "metadata", "ids", "read",
                "done", "truncated", "raised"}
  /\ counted \in 0..MaxOid
  /\ snapshot \subseteq Oids
  /\ \A b \in DOMAIN plan :
       /\ plan[b].kind \in {"whole", "slice", "named"}
       /\ plan[b].oids \subseteq Oids
  /\ left \subseteq DOMAIN plan
  /\ got \in [Oids -> Nat]

Init ==
  /\ opts \in ReadOptions
  /\ born \in 0..MaxOid
  /\ layer = 1..born
  /\ stage = "count"
  /\ counted = 0
  /\ snapshot = {}
  /\ plan = <<>>
  /\ left = {}
  /\ got = [r \in Oids |-> 0]

-----------------------------------------------------------------------------
(* The service *)

Rank(r) == Cardinality({q \in layer : q <= r})
Ranked(lo, hi) == {r \in layer : Rank(r) \in lo..hi}

(* At most count of the rows that match, all of them for a count of 0.     *)
AtMost(count, rows) ==
  IF count = 0 THEN {rows} ELSE kSubset(Lesser(count, Cardinality(rows)), rows)

(* The row sets the service may answer a batch with, before its limits.    *)
(* A resultRecordCount is honoured by every kind of page.                  *)
Matches(batch) ==
  CASE batch.kind = "whole" -> AtMost(batch.hi, layer)
    [] batch.kind = "slice" ->
         IF opts.sorted
         THEN {Ranked(batch.lo, batch.hi)}
         ELSE kSubset(Cardinality(Ranked(batch.lo, batch.hi)), layer)
    [] batch.kind = "named" -> AtMost(batch.hi, batch.oids \cap layer)

(* exceededTransferLimit=true: more rows than the service sends at a time. *)
Exceeds(rows) == Cardinality(rows) > Lesser(MaxRecordCount, opts.limit)

Edited == stage \in {"metadata", "ids", "read"}

Add ==
  /\ Edited /\ born < MaxOid
  /\ born' = born + 1
  /\ layer' = layer \cup {born + 1}
  /\ UNCHANGED <<opts, stage, counted, snapshot, plan, left, got>>

Delete(r) ==
  /\ Edited /\ r \in layer
  /\ layer' = layer \ {r}
  /\ UNCHANGED <<opts, born, stage, counted, snapshot, plan, left, got>>

-----------------------------------------------------------------------------
(* The read *)

(* Mutant: the batches are numbered from 0. *)
Set_FromZero(batches) ==
  /\ plan' = batches
  /\ left' = {b - 1 : b \in DOMAIN batches}
  /\ stage' = "read"

Set(batches) ==
  /\ plan' = batches
  /\ left' = DOMAIN batches
  /\ stage' = "read"

(* Mutant: the caller's page size is used as it is given. *)
PageSize_Unclamped ==
  IF opts.size > 0 THEN opts.size
  ELSE EffectivePageSize(MaxRecordCount, opts.factor)

(* The caller's page size within maxRecordCount, or the planner's.  The    *)
(* product with the factor is exact here and a float in the code, which    *)
(* may round a page down by a row.                                         *)
PageSize ==
  IF opts.size > 0
  THEN Lesser(opts.size, MaxRecordCount)
  ELSE EffectivePageSize(MaxRecordCount, opts.factor)

(* Mutant: a slice asks for maxRecordCount rows, whatever the stride. *)
Slices_LongerThanStride ==
  [i \in 1..WindowCount(counted, PageSize) |->
     Slice((i - 1) * PageSize + 1
             .. Lesser((i - 1) * PageSize + MaxRecordCount, counted))]

(* Mutant: a partial last page is forgotten. *)
Slices_NoTail ==
  [i \in 1..(counted \div PageSize) |-> Slice(Window(counted, PageSize, i))]

Slices ==
  [i \in 1..WindowCount(counted, PageSize) |->
     Slice(Window(counted, PageSize, i))]

CountRows ==
  /\ stage = "count"
  /\ stage' = "metadata"
  /\ counted' = Cardinality(layer)
  /\ snapshot' = layer
  /\ UNCHANGED <<opts, layer, born, plan, left, got>>

ReadMetadata ==
  /\ stage = "metadata"
  /\ \/ /\ counted <= MaxRecordCount
        /\ Set(<<Whole(opts.size)>>)
     \/ /\ counted > MaxRecordCount /\ opts.paging
        /\ Set(Slices)
     \/ /\ counted > MaxRecordCount /\ ~opts.paging
        /\ stage' = "ids"
        /\ UNCHANGED <<plan, left>>
  /\ UNCHANGED <<opts, layer, born, counted, snapshot, got>>

(* The ids of the i-th slice of chunk_values: it is maxRecordCount long,   *)
(* whatever page size the caller asked for.                                *)
Chunk(i) ==
  LET w == Window(Cardinality(layer), MaxRecordCount, i)
  IN  {r \in layer : Rank(r) \in w}

ReadObjectIds ==
  /\ stage = "ids"
  /\ Set([i \in 1..WindowCount(Cardinality(layer), MaxRecordCount) |->
            Named(Chunk(i), opts.size)])
  /\ UNCHANGED <<opts, layer, born, counted, snapshot, got>>

(* A batch is answered; a truncated one ends the read with an error. *)
Fetch(b) ==
  /\ stage = "read" /\ b \in left
  /\ \E rows \in Matches(plan[b]) :
       \/ /\ ~Exceeds(rows)
          /\ left' = left \ {b}
          /\ got' = [r \in Oids |-> IF r \in rows THEN got[r] + 1 ELSE got[r]]
          /\ UNCHANGED stage
       \/ /\ Exceeds(rows)
          /\ stage' = "truncated"
          /\ UNCHANGED <<left, got>>
  /\ UNCHANGED <<opts, layer, born, counted, snapshot, plan>>

Finish ==
  /\ stage = "read" /\ left = {}
  /\ stage' = "done"
  /\ UNCHANGED <<opts, layer, born, counted, snapshot, plan, left, got>>

RequestFails ==
  /\ stage \in {"count", "metadata", "ids"} \/ (stage = "read" /\ left # {})
  /\ stage' = "raised"
  /\ UNCHANGED <<opts, layer, born, counted, snapshot, plan, left, got>>

Over == stage \in {"done", "truncated", "raised"}

Next ==
  \/ Add
  \/ \E r \in Oids : Delete(r)
  \/ CountRows \/ ReadMetadata \/ ReadObjectIds
  \/ \E b \in DOMAIN plan : Fetch(b)
  \/ Finish \/ RequestFails
  \/ Over /\ UNCHANGED vars

Spec == Init /\ [][Next]_vars

-----------------------------------------------------------------------------
(* Properties *)

NamedRead == counted > MaxRecordCount /\ ~opts.paging
SlicedRead == counted > MaxRecordCount /\ opts.paging

(* No row the read counted is gone. *)
NothingDeleted == snapshot \subseteq layer

(* One request and the pages of ids carry the caller's resultRecordCount   *)
(* as it was given (getgdf.py:292-293, 337-338), and what it cuts off is   *)
(* not read.  It cuts nothing off when it is larger than what the service  *)
(* sends at a time, nor a page of ids when it is as large.                 *)
Uncut ==
  \/ opts.size = 0 \/ opts.size > MaxRecordCount
  \/ NamedRead /\ opts.size = MaxRecordCount

(* A read that ends well has every row that was there from the count to    *)
(* the end: by uncut pages of object ids whatever else was added or        *)
(* deleted, by slices when they are sorted and nothing was deleted, and in *)
(* one request if it is not cut short.                                     *)
StableRowsAreRead ==
    /\ stage = "done"
    /\ SlicedRead => opts.sorted /\ NothingDeleted
    /\ ~SlicedRead => Uncut
  => \A r \in snapshot \cap layer : got[r] >= 1

(* What CHANGELOG.md:197-199 says of a smaller resultRecordCount: it pages *)
(* the layer, to read it completely.  It does when the layer has offset    *)
(* paging and more than maxRecordCount rows; every other read keeps the    *)
(* count on pages longer than it, and the rows beyond it are lost.  Known  *)
(* to fail.                                                                *)
SmallerPagesReadAll ==
  stage = "done" /\ opts.sorted /\ NothingDeleted =>
    \A r \in snapshot : got[r] >= 1

(* No row comes twice in a read by object ids, nor in a read by sorted     *)
(* slices during which nothing was deleted, whatever was added.            *)
NoRowTwice ==
  (SlicedRead => opts.sorted /\ NothingDeleted) =>
    \A r \in Oids : got[r] <= 1

(* A batched read neither loses nor repeats a row while others edit the    *)
(* layer (getgdf.py:280-345).                                              *)
RowsAreReadOnce == StableRowsAreRead /\ NoRowTwice

(* PaginationError is raised only where the byte limit or rows added after *)
(* the count make a page too long: the plan alone never causes it.         *)
PlannedPagesFit ==
  stage = "truncated" => opts.limit < MaxRecordCount \/ born > Cardinality(snapshot)
=============================================================================
