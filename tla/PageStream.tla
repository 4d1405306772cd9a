----------------------------- MODULE PageStream -----------------------------
(***************************************************************************)
(* One stream of pages over a layer of NumRows rows: _iter_pages_raw with  *)
(* its page tasks and the bisection of _resolve_page, or the older windows *)
(* of _feature_batch_generator and chunk_generator (restgdf/utils/getgdf). *)
(*                                                                         *)
(* The stream is an async generator: it runs only between a pull of its    *)
(* consumer and its next yield, while the page tasks run on their own.  An *)
(* action of the generator goes from one await or yield to the next.       *)
(***************************************************************************)
EXTENDS Paging, FiniteSets, SequencesExt

CONSTANTS
  NumRows,    (* rows the query matches                                     *)
  PageSize,   (* rows of one batch of get_query_data_batches                *)
  MaxWindow,  (* bound: largest max_concurrent_pages considered             *)
  MaxDepth,   (* max_split_depth, 32 in the code                            *)
  Cap         (* _SPLIT_OID_INLIST_CAP, 1000 in the code                    *)

ASSUME StreamAssumption ==
  {NumRows, PageSize, MaxWindow, MaxDepth, Cap} \subseteq Nat \ {0}

Rows == 1..NumRows
Batches == 1..WindowCount(NumRows, PageSize)
Span(b) == Window(NumRows, PageSize, b)

(* A stream of iter_pages; window 0 is max_concurrent_pages=None.  byOid:  *)
(* batches select their rows by an OID list in "where"; otherwise by       *)
(* resultOffset and resultRecordCount under the caller's "where".          *)
PageOptions ==
  [engine : {"pages"}, order : {"request", "completion"},
   window : 0..MaxWindow, onTruncation : {"raise", "ignore", "split"},
   byOid : BOOLEAN]

(* A stream of chunk_generator or row_dict_generator, windowed by          *)
(* ConcurrencyConfig.max_concurrent_requests.                              *)
ChunkOptions ==
  [engine : {"chunks"}, order : {"completion"}, window : 1..MaxWindow,
   onTruncation : {"raise"}, byOid : BOOLEAN]

VARIABLES
  opts,      (* the arguments of the stream                                 *)
  pc,        (* where the generator is suspended                            *)
  task,      (* the page task of each batch                                 *)
  clipped,   (* batches answered with exceededTransferLimit=true            *)
  arrived,   (* batches in the order their tasks finished                   *)
  awaited,   (* batches whose task the generator has awaited                *)
  ready,     (* completed_pages: awaited, not yet resolved                  *)
  todo,      (* sub-requests of the bisection still to send, depth first    *)
  cur,       (* the batch resolved last                                     *)
  seen       (* how often each row was delivered to the consumer            *)

vars == <<opts, pc, task, clipped, arrived, awaited, ready, todo, cur, seen>>

Final == {"ended", "raised", "closed"}

TypeOK ==
  /\ opts \in PageOptions \cup ChunkOptions
  /\ pc \in {"planning", "wait", "ids", "split", "yield"} \cup Final
  /\ task \in [Batches ->
                 {"unsubmitted", "running", "done", "failed", "cancelled"}]
  /\ clipped \subseteq Batches
  /\ arrived \in Seq(Batches) /\ IsInjective(arrived)
  /\ awaited \subseteq ToSet(arrived)
  /\ ready \in Seq(awaited)
  /\ \A i \in DOMAIN todo :
       NodeRows(todo[i]) \subseteq Rows /\ todo[i].depth \in 1..MaxDepth
  /\ cur \in Batches \cup {0}
  /\ seen \in [Rows -> Nat]

Init ==
  /\ opts \in PageOptions \cup ChunkOptions
  /\ pc = "planning"
  /\ task = [b \in Batches |-> "unsubmitted"]
  /\ clipped = {}
  /\ arrived = <<>>
  /\ awaited = {}
  /\ ready = <<>>
  /\ todo = <<>>
  /\ cur = 0
  /\ seen = [r \in Rows |-> 0]

-----------------------------------------------------------------------------

InState(s) == {b \in Batches : task[b] = s}
Submitted == Batches \ InState("unsubmitted")
Finished == InState("done") \cup InState("failed")

(* _submit_next, n times: the next n batches of the plan get a task. *)
Submit(n) ==
  [b \in Batches |->
     IF task[b] = "unsubmitted" /\ b <= Cardinality(Submitted) + n
     THEN "running" ELSE task[b]]

(* Mutant: the page tasks are left to themselves. *)
Cancelled_None(tasks) == tasks

(* The "finally" of the generator, on the tasks it then has. *)
Cancelled(tasks) ==
  [b \in Batches |-> IF tasks[b] = "running" THEN "cancelled" ELSE tasks[b]]

Stop(how, tasks) ==
  /\ pc' = how
  /\ task' = Cancelled(tasks)

Deliver(rows) ==
  seen' = [r \in Rows |-> IF r \in rows THEN seen[r] + 1 ELSE seen[r]]

(* _resolve_page on the page of batch b, up to its first yield or await.   *)
(* A truncated page misses its last row.  A page of the page engine may    *)
(* turn out to be an error only here, where it is parsed.                  *)
Resolve(b, tasks) ==
  /\ cur' = b
  /\ \/ /\ b \notin clipped
        /\ Deliver(Span(b))
        /\ pc' = "yield" /\ task' = tasks
     \/ /\ b \in clipped /\ opts.onTruncation = "ignore"
        /\ Deliver({r \in Span(b) : r + 1 \in Span(b)})
        /\ pc' = "yield" /\ task' = tasks
     \/ /\ opts.engine = "pages" \/ (b \in clipped /\ opts.onTruncation = "raise")
        /\ Stop("raised", tasks)
        /\ UNCHANGED seen
     \/ /\ b \in clipped /\ opts.onTruncation = "split"
        /\ pc' = "ids" /\ task' = tasks
        /\ UNCHANGED seen

-----------------------------------------------------------------------------

(* Mutant: one fetch more than the window. *)
Plan_OneMore ==
  /\ pc = "planning"
  /\ pc' = "wait"
  /\ task' = Submit(IF opts.window = 0 THEN NumRows ELSE opts.window + 1)
  /\ UNCHANGED <<opts, clipped, arrived, awaited, ready, todo, cur, seen>>

(* get_query_data_batches returned: fill the window, or schedule them all. *)
Plan ==
  /\ pc = "planning"
  /\ pc' = "wait"
  /\ task' = Submit(IF opts.window = 0 THEN NumRows ELSE opts.window)
  /\ UNCHANGED <<opts, clipped, arrived, awaited, ready, todo, cur, seen>>

PlanFails ==
  /\ pc = "planning"
  /\ pc' = "raised"
  /\ UNCHANGED <<opts, task, clipped, arrived, awaited, ready, todo, cur, seen>>

(* A page task ends on its own.  The chunk engine's tasks look at          *)
(* exceededTransferLimit themselves and raise PaginationError.             *)
FetchEnds(b) ==
  /\ task[b] = "running"
  /\ arrived' = Append(arrived, b)
  /\ \/ /\ task' = [task EXCEPT ![b] = "done"]
        /\ clipped' \in IF opts.engine = "pages"
                        THEN {clipped, clipped \cup {b}} ELSE {clipped}
     \/ /\ task' = [task EXCEPT ![b] = "failed"]
        /\ UNCHANGED clipped
  /\ UNCHANGED <<opts, pc, awaited, ready, todo, cur, seen>>

(* The generator awaited the tasks of bs, which have finished, and submits *)
(* a replacement for each; the pages come up in the order of line.  When   *)
(* one failed, the replacements are cancelled before they send anything    *)
(* and count as unsubmitted here.                                          *)
Take(bs, line) ==
  /\ awaited' = awaited \cup bs
  /\ \/ /\ bs \subseteq InState("done")
        /\ ready' = Tail(line)
        /\ Resolve(Head(line),
                   Submit(IF opts.window = 0 THEN 0 ELSE Cardinality(bs)))
     \/ /\ bs \cap InState("failed") # {}
        /\ Stop("raised", task)
        /\ UNCHANGED <<ready, cur, seen>>
  /\ UNCHANGED <<opts, clipped, arrived, todo>>

(* Mutant: order="request" takes whichever task has finished. *)
TakeInOrder_AnyDone ==
  /\ pc = "wait"
  /\ opts.order = "request"
  /\ \E b \in Finished \ awaited : Take({b}, <<b>>)

(* order="request": the oldest task, whichever has finished. *)
TakeInOrder ==
  /\ pc = "wait"
  /\ opts.order = "request"
  /\ LET b == Cardinality(awaited) + 1
     IN  b \in Finished /\ Take({b}, <<b>>)

(* order="completion" without a window: asyncio.as_completed. *)
TakeNextCompleted ==
  /\ pc = "wait"
  /\ opts.order = "completion" /\ opts.window = 0
  /\ Len(arrived) > Cardinality(awaited)
  /\ LET b == arrived[Cardinality(awaited) + 1] IN Take({b}, <<b>>)

(* order="completion" with a window: all that asyncio.wait reports.  The   *)
(* chunk engine sorts them by batch, the page engine takes a set as it is. *)
TakeRound ==
  /\ pc = "wait"
  /\ opts.order = "completion" /\ opts.window > 0
  /\ LET round == Finished \ awaited
     IN  /\ round # {}
         /\ \E line \in SetToSeqs(round) :
              /\ opts.engine = "chunks" =>
                   \A i, j \in DOMAIN line : i < j => line[i] < line[j]
              /\ Take(round, line)

(* get_object_ids under the predicate of the truncated page: with offset   *)
(* and count that is the whole query's.                                    *)
Oids(b) == IF opts.byOid THEN Span(b) ELSE Rows

(* Mutant: the depth is compared after the request, not before. *)
Split_OneDeeper(lo, hi, depth, rest) ==
  \/ /\ depth <= MaxDepth /\ lo < hi
     /\ todo' = Bisect(lo, hi, Cap, depth + 1) \o rest
     /\ pc' = "split"
     /\ UNCHANGED task
  \/ /\ depth > MaxDepth \/ lo >= hi
     /\ Stop("raised", task)
     /\ UNCHANGED todo

(* Mutant: the second half starts with the last id of the first. *)
Split_Overlaps(lo, hi, depth, rest) ==
  \/ /\ depth < MaxDepth /\ lo < hi
     /\ todo' = CapChunks(lo, Middle(lo, hi), Cap, depth + 1)
                  \o CapChunks(Middle(lo, hi), hi, Cap, depth + 1) \o rest
     /\ pc' = "split"
     /\ UNCHANGED task
  \/ /\ depth >= MaxDepth \/ lo >= hi
     /\ Stop("raised", task)
     /\ UNCHANGED todo

(* Mutant: the halves are put behind what is left, not before it. *)
Split_Behind(lo, hi, depth, rest) ==
  \/ /\ depth < MaxDepth /\ lo < hi
     /\ todo' = rest \o Bisect(lo, hi, Cap, depth + 1)
     /\ pc' = "split"
     /\ UNCHANGED task
  \/ /\ depth >= MaxDepth \/ lo >= hi
     /\ Stop("raised", task)
     /\ UNCHANGED todo

(* A truncated request whose ids are lo..hi, followed by rest. *)
Split(lo, hi, depth, rest) ==
  \/ /\ depth < MaxDepth /\ lo < hi
     /\ todo' = Bisect(lo, hi, Cap, depth + 1) \o rest
     /\ pc' = "split"
     /\ UNCHANGED task
  \/ /\ depth >= MaxDepth \/ lo >= hi
     /\ Stop("raised", task)
     /\ UNCHANGED todo

ObjectIds ==
  /\ pc = "ids"
  /\ \/ \E lo, hi \in Oids(cur) : Oids(cur) = lo..hi /\ Split(lo, hi, 0, <<>>)
     \/ Stop("raised", task) /\ UNCHANGED todo
  /\ UNCHANGED <<opts, clipped, arrived, awaited, ready, cur, seen>>

(* The answer to the next sub-request: all its rows, truncated, or an      *)
(* error.                                                                  *)
SubFetch ==
  /\ pc = "split"
  /\ LET n == Head(todo)
     IN  \/ /\ Deliver(NodeRows(n))
            /\ todo' = Tail(todo)
            /\ pc' = "yield"
            /\ UNCHANGED task
         \/ /\ Split(n.lo, n.hi, n.depth, Tail(todo))
            /\ UNCHANGED seen
         \/ /\ Stop("raised", task)
            /\ UNCHANGED <<todo, seen>>
  /\ UNCHANGED <<opts, clipped, arrived, awaited, ready, cur>>

(* Mutant: after the first page of a round the generator waits again. *)
Pull_DropsRound ==
  /\ pc = "yield"
  /\ UNCHANGED <<opts, clipped, arrived, awaited, todo>>
  /\ \/ /\ todo # <<>>
        /\ pc' = "split"
        /\ UNCHANGED <<task, ready, cur, seen>>
     \/ /\ todo = <<>>
        /\ ready' = <<>>
        /\ \/ awaited # Submitted /\ pc' = "wait" /\ UNCHANGED task
           \/ awaited = Submitted /\ Stop("ended", task)
        /\ UNCHANGED <<cur, seen>>

(* Mutant: the loop does not notice that nothing is pending. *)
Pull_WaitsForNothing ==
  /\ pc = "yield"
  /\ UNCHANGED <<opts, clipped, arrived, awaited, todo>>
  /\ \/ /\ todo # <<>>
        /\ pc' = "split"
        /\ UNCHANGED <<task, ready, cur, seen>>
     \/ /\ todo = <<>> /\ ready # <<>>
        /\ ready' = Tail(ready)
        /\ Resolve(Head(ready), task)
     \/ /\ todo = <<>> /\ ready = <<>>
        /\ pc' = "wait"
        /\ UNCHANGED <<task, ready, cur, seen>>

(* The consumer asks for the next page. *)
Pull ==
  /\ pc = "yield"
  /\ UNCHANGED <<opts, clipped, arrived, awaited, todo>>
  /\ \/ /\ todo # <<>>
        /\ pc' = "split"
        /\ UNCHANGED <<task, ready, cur, seen>>
     \/ /\ todo = <<>> /\ ready # <<>>
        /\ ready' = Tail(ready)
        /\ Resolve(Head(ready), task)
     \/ /\ todo = <<>> /\ ready = <<>>
        /\ \/ awaited # Submitted /\ pc' = "wait" /\ UNCHANGED task
           \/ awaited = Submitted /\ Stop("ended", task)
        /\ UNCHANGED <<ready, cur, seen>>

(* aclose() or a cancellation, wherever the generator is. *)
Close ==
  /\ pc \notin Final
  /\ Stop("closed", task)
  /\ UNCHANGED <<opts, clipped, arrived, awaited, ready, todo, cur, seen>>

Generator ==
  \/ Plan \/ PlanFails
  \/ TakeInOrder \/ TakeNextCompleted \/ TakeRound
  \/ ObjectIds \/ SubFetch

Stopped == pc \in Final /\ UNCHANGED vars

Next ==
  \/ Generator
  \/ Pull
  \/ Close
  \/ \E b \in Batches : FetchEnds(b)
  \/ Stopped

Spec == Init /\ [][Next]_vars

(* Requests end (default_timeout), the event loop runs what can run, and   *)
(* the consumer keeps pulling.                                             *)
FairSpec ==
  /\ Spec
  /\ WF_vars(Generator) /\ WF_vars(Pull)
  /\ \A b \in Batches : WF_vars(FetchEnds(b))

-----------------------------------------------------------------------------
(* Properties *)

(* A stream that ends normally delivered every row, unless it was told to  *)
(* ignore truncation: no page is dropped by a window, an order or a split. *)
EndedMeansComplete ==
  pc = "ended" /\ opts.onTruncation # "ignore" =>
    \A r \in Rows : seen[r] >= 1

(* No row is delivered twice where a page's predicate names its own rows.  *)
NoRowTwice ==
  opts.byOid \/ opts.onTruncation # "split" =>
    \A r \in Rows : seen[r] <= 1

(* At most window page fetches are in flight, plus one sub-request of a    *)
(* bisection.                                                              *)
InFlightBounded ==
  opts.window > 0 =>
    Cardinality(InState("running"))
      + (IF pc \in {"ids", "split"} THEN 1 ELSE 0) <= opts.window + 1
    /\ Cardinality(InState("running")) <= opts.window

(* However the stream stops, it leaves no page task running. *)
NothingLeftRunning ==
  pc \in Final => InState("running") = {}

(* A stream that ends normally has delivered every row, and none of them   *)
(* twice: windows, orders, splits and slow consumers neither drop a page   *)
(* nor repeat one (getgdf.py:944-1042).                                    *)
EveryRowOnce == EndedMeansComplete /\ NoRowTwice

(* The generator answers for the tasks it makes: never more of them than   *)
(* it was allowed, and none that outlives it (getgdf.py:944, 1043).        *)
TasksAreKept == InFlightBounded /\ NothingLeftRunning

(* order="request" takes up the pages of the plan one after the other.     *)
RequestOrder ==
  [][opts.order = "request" /\ cur' # cur => cur' = cur + 1]_vars

(* Where a page's predicate names its own rows, each row comes in one page *)
(* only; and the pages of order="request" come in the order of the plan.   *)
RowsAreNamed == opts.byOid \/ opts.onTruncation # "split"
Promise ==
  [whole |-> opts.onTruncation # "ignore", once |-> RowsAreNamed,
   inOrder |-> RowsAreNamed /\ opts.order = "request"]

Delivery == INSTANCE RowDelivery
  WITH promise <- Promise, times <- seen,
       status <- (IF pc = "ended" THEN "ended"
                  ELSE IF pc \in Final THEN "stopped" ELSE "open")

(* Seen by its consumer, a stream is RowDelivery's: rows come once and not *)
(* after an error, all of them before the end, and in request order        *)
(* (featurelayer.py:404) always the first ones of the query, also when     *)
(* pages are split.                                                        *)
ImplementsDelivery == Delivery!DeliverySpec

(* A stream whose consumer keeps pulling comes to an end. *)
StreamEnds == <>(pc \in Final)

(* docs/recipes/streaming.md: on_truncation="split" will "fetch the        *)
(* missing records by splitting the OID list": no record comes twice.      *)
SplitFetchesOnlyMissing ==
  \A r \in Rows : seen[r] <= 1

(* Page results the generator keeps alive: _iter_pages_raw holds every     *)
(* task it made in "tasks", the chunk engine drops the awaited ones.       *)
Retained ==
  IF opts.engine = "pages"
  THEN InState("done")
  ELSE (InState("done") \ awaited) \cup ToSet(ready)

(* featurelayer.py: "Pass a positive int to bound both concurrency and     *)
(* peak memory": fetched pages kept do not outgrow the window, the one in  *)
(* the consumer's hands, and the round being delivered.                    *)
PeakMemoryBounded ==
  pc \notin Final /\ opts.window > 0 =>
    Cardinality(Retained) <= 2 * opts.window + 1
=============================================================================
