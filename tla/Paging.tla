------------------------------- MODULE Paging -------------------------------
(***************************************************************************)
(* The arithmetic restgdf reads a layer with.  Rows are numbered from 1 in *)
(* the order the server returns them, and a request for rows is the        *)
(* interval of the rows it asks for.                                       *)
(***************************************************************************)
EXTENDS Naturals, Sequences

Lesser(a, b) == IF a < b THEN a ELSE b
Greater(a, b) == IF a < b THEN b ELSE a

(* How many steps range(0, total, size) takes. *)
WindowCount(total, size) == (total + size - 1) \div size

(* The i-th (offset, count) pair of build_pagination_plan, which is also   *)
(* the i-th slice of chunk_values.                                         *)
Window(total, size, i) == ((i - 1) * size + 1) .. Lesser(i * size, total)

(* build_pagination_plan's page size when the server advertises the factor *)
(* f[1] / f[2]: the planner's own factor of 1 is clamped to it.            *)
EffectivePageSize(maxRecordCount, f) ==
  IF f[1] < f[2]
  THEN Greater(1, (maxRecordCount * f[1]) \div f[2])
  ELSE maxRecordCount

-----------------------------------------------------------------------------
(* A node is one request of the bisection: rows lo..hi at a depth. *)

Node(lo, hi, depth) == [lo |-> lo, hi |-> hi, depth |-> depth]

NodeRows(n) == n.lo .. n.hi

(* oids[:mid] ends at this row. *)
Middle(lo, hi) == lo + ((hi - lo + 1) \div 2) - 1

(* _cap_oid_chunks: halve until a chunk holds at most cap ids. *)
CapChunks(first, last, cap, depth) ==
  LET chunks[oids \in Nat \X Nat] ==
        LET lo == oids[1]
            hi == oids[2]
        IN  IF hi < lo + cap
            THEN <<Node(lo, hi, depth)>>
            ELSE chunks[<<lo, Middle(lo, hi)>>]
                   \o chunks[<<Middle(lo, hi) + 1, hi>>]
  IN  chunks[<<first, last>>]

(* The sub-requests a truncated request for rows lo..hi is split into. *)
Bisect(lo, hi, cap, depth) ==
  CapChunks(lo, Middle(lo, hi), cap, depth)
    \o CapChunks(Middle(lo, hi) + 1, hi, cap, depth)
=============================================================================
