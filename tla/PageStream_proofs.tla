-------------------------- MODULE PageStream_proofs --------------------------
(***************************************************************************)
(* Proofs about PageStream, for layers, pages, windows, caps and depths of *)
(* any size.                                                               *)
(*                                                                         *)
(* The first invariant, IInv, is about the tasks: which were made, which   *)
(* ended, which may still run.  The second, RowsInv, is about the rows:    *)
(* at any moment the rows of the layer are either delivered or owed, and   *)
(* those owed are the ones of the batches that wait to be resolved and of  *)
(* the sub-requests that are left of a bisection.                          *)
(***************************************************************************)
EXTENDS PageStream, Paging_proofs

TaskMaps ==
  [Batches -> {"unsubmitted", "running", "done", "failed", "cancelled"}]

(* The batches with a task, and the tasks that ended, in two moments. *)
Made(tasks) == {b \in Batches : tasks[b] # "unsubmitted"}
SameEnded(some, others) ==
  \A b \in Batches, s \in {"done", "failed"} : some[b] = s <=> others[b] = s
NoneRuns(tasks) == \A b \in Batches : tasks[b] # "running"

(* Types, but for the sub-requests of a bisection. *)
StreamTypes ==
  /\ opts \in PageOptions \cup ChunkOptions
  /\ pc \in {"planning", "wait", "ids", "split", "yield"} \cup Final
  /\ task \in TaskMaps
  /\ awaited \subseteq Finished

(* The batches that have a task are the first ones of the plan. *)
PrefixInv == Made(task) = 1..Cardinality(Made(task))

(* Tasks that were made are in the window or have been awaited. *)
WindowInv ==
  /\ pc = "planning" => Made(task) = {}
  /\ opts.window > 0 =>
       Cardinality(Made(task)) <= opts.window + Cardinality(awaited)

(* order="request" has awaited, and resolved, the batches up to cur. *)
OrderInv ==
  opts.order = "request" /\ pc \notin Final =>
    /\ ready = <<>>
    /\ cur \in Nat /\ awaited = 1..cur

IInv == StreamTypes /\ PrefixInv /\ WindowInv /\ NothingLeftRunning /\ OrderInv

-----------------------------------------------------------------------------

(* There is a whole number of batches, at least none. *)
LEMMA BatchesAreFinite ==
  /\ WindowCount(NumRows, PageSize) \in Nat
  /\ IsFiniteSet(Batches)
  /\ \A S \in SUBSET Batches : IsFiniteSet(S) /\ Cardinality(S) \in Nat
<1>1. \A a \in Nat, b \in Nat \ {0} : a \div b \in Nat
  BY SMT
<1>2. WindowCount(NumRows, PageSize) \in Nat
  BY <1>1, StreamAssumption DEF WindowCount
<1>3. IsFiniteSet(Batches)
  BY <1>2, FS_Interval DEF Batches
<1>4. QED
  BY <1>2, <1>3, FS_Subset, FS_CardinalityType

(* max_concurrent_pages is a number, 0 for no limit. *)
LEMMA WindowType == opts \in PageOptions \cup ChunkOptions => opts.window \in Nat
BY StreamAssumption DEF PageOptions, ChunkOptions

(* An interval from 1 has as many members as its end says. *)
LEMMA Count == \A n \in Nat : IsFiniteSet(1..n) /\ Cardinality(1..n) = n
BY FS_Interval

(* The sets the generator asks its tasks for. *)
LEMMA TaskSets ==
  /\ Submitted = Made(task)
  /\ InState("running") = {} <=> NoneRuns(task)
  /\ Finished \subseteq Batches
BY DEF Submitted, InState, Made, NoneRuns, Finished

(* What ended depends on which tasks are done or failed. *)
LEMMA EndedStay ==
  SameEnded(task', task) => Finished' = Finished
BY DEF SameEnded, Finished, InState

(* Submitting n batches makes n tasks at most, the next ones of the plan. *)
LEMMA SubmitNext ==
  ASSUME task \in TaskMaps, PrefixInv, NEW n \in Nat
  PROVE  /\ Submit(n) \in TaskMaps /\ SameEnded(Submit(n), task)
         /\ Made(Submit(n)) = 1..Cardinality(Made(Submit(n)))
         /\ Made(task) \subseteq Made(Submit(n))
         /\ Cardinality(Made(Submit(n))) <= Cardinality(Made(task)) + n
         /\ \/ Made(Submit(n)) = Batches
            \/ Cardinality(Made(Submit(n))) = Cardinality(Made(task)) + n
<1> DEFINE made == Submit(n)
           k == Cardinality(Made(task))
           last == WindowCount(NumRows, PageSize)
           end == IF k + n < last THEN k + n ELSE last
<1>1. k \in Nat /\ last \in Nat /\ Made(task) \subseteq Batches
  BY BatchesAreFinite DEF Made
<1>2. \A b \in Batches : made[b] = IF task[b] = "unsubmitted" /\ b <= k + n
                                   THEN "running" ELSE task[b]
  BY TaskSets DEF Submit
<1>3. Made(made) = {b \in Batches : b \in Made(task) \/ b <= k + n}
  BY <1>2 DEF Made
<1>4. Made(task) = 1..k
  BY DEF PrefixInv
<1>5. end \in Nat /\ k <= last
  <2>1. k = 0 \/ k \in Batches
    BY <1>1, <1>4
  <2>2. QED
    BY <1>1, <2>1 DEF Batches
<1>6. Made(made) = 1..end
  BY <1>1, <1>3, <1>4, <1>5 DEF Batches
<1>7. Cardinality(Made(made)) = end
  BY <1>5, <1>6, Count
<1>8. SameEnded(made, task)
  BY <1>2 DEF SameEnded
<1>9. made \in TaskMaps
  BY DEF Submit, TaskMaps
<1>10. end = last => Made(made) = Batches
  BY <1>6 DEF Batches
<1>11. Made(task) \subseteq Made(made)
  BY <1>1, <1>3
<1>12. QED
  BY <1>1, <1>5, <1>6, <1>7, <1>8, <1>9, <1>10, <1>11

(* The finally of the generator ends what runs and nothing else. *)
LEMMA CancelledEnds ==
  ASSUME NEW tasks \in TaskMaps
  PROVE  /\ Cancelled(tasks) \in TaskMaps /\ NoneRuns(Cancelled(tasks))
         /\ Made(Cancelled(tasks)) = Made(tasks)
         /\ SameEnded(Cancelled(tasks), tasks)
BY DEF Cancelled, TaskMaps, Made, SameEnded, NoneRuns

(* A page is resolved without making or ending a task, unless the stream   *)
(* ends with it.                                                           *)
LEMMA ResolveEnds ==
  ASSUME NEW b, NEW tasks \in TaskMaps, Resolve(b, tasks)
  PROVE  /\ task' \in TaskMaps /\ Made(task') = Made(tasks)
         /\ SameEnded(task', tasks)
         /\ pc' \in {"yield", "ids", "raised"} /\ cur' = b
         /\ pc' = "raised" => NoneRuns(task')
<1>1. /\ cur' = b
      /\ \/ task' = tasks /\ pc' \in {"yield", "ids"}
         \/ task' = Cancelled(tasks) /\ pc' = "raised"
  BY DEF Resolve, Stop
<1>2. SameEnded(tasks, tasks)
  BY DEF SameEnded
<1>3. QED
  BY <1>1, <1>2, CancelledEnds

(* Stop, on the present tasks. *)
LEMMA StopStep ==
  ASSUME IInv, NEW how \in Final, Stop(how, task), opts' = opts,
         awaited \subseteq awaited', awaited' \subseteq Finished
  PROVE  IInv'
<1>1. task \in TaskMaps /\ task' = Cancelled(task) /\ pc' = how
  BY DEF IInv, StreamTypes, Stop
<1>2. /\ task' \in TaskMaps /\ Made(task') = Made(task)
      /\ SameEnded(task', task) /\ NoneRuns(task')
  BY <1>1, CancelledEnds
<1>3. StreamTypes'
  BY <1>1, <1>2, EndedStay DEF IInv, StreamTypes
<1>4. /\ Cardinality(Made(task)) \in Nat
      /\ Cardinality(awaited) \in Nat /\ Cardinality(awaited') \in Nat
      /\ Cardinality(awaited) <= Cardinality(awaited')
  BY BatchesAreFinite, FS_Subset, TaskSets DEF Made
<1>5. opts.window \in Nat
  BY WindowType DEF IInv, StreamTypes
<1>6. PrefixInv' /\ WindowInv'
  BY <1>1, <1>2, <1>4, <1>5 DEF IInv, PrefixInv, WindowInv, Final
<1>7. NothingLeftRunning' /\ OrderInv'
  BY <1>1, <1>2 DEF NothingLeftRunning, OrderInv, NoneRuns, InState
<1>8. QED
  BY <1>3, <1>6, <1>7 DEF IInv

(* Nothing was made yet. *)
LEMMA InitEstablishes == Init => IInv
<1> SUFFICES ASSUME Init PROVE IInv
  OBVIOUS
<1>1. Made(task) = {} /\ NoneRuns(task) /\ task \in TaskMaps
  BY DEF Init, Made, NoneRuns, TaskMaps
<1>2. Cardinality(Made(task)) = 0 /\ Cardinality(awaited) = 0
  BY <1>1, FS_EmptySet DEF Init
<1>3. StreamTypes /\ NothingLeftRunning
  BY <1>1, TaskSets DEF Init, StreamTypes, NothingLeftRunning
<1>4. PrefixInv /\ WindowInv
  BY <1>1, <1>2, <1>3, WindowType DEF PrefixInv, WindowInv, StreamTypes
<1>5. OrderInv
  BY DEF Init, OrderInv
<1>6. QED
  BY <1>3, <1>4, <1>5 DEF IInv

-----------------------------------------------------------------------------
(* The steps *)

(* The first tasks are made. *)
LEMMA PlanStep ==
  ASSUME IInv, Plan
  PROVE  IInv'
<1> DEFINE n == IF opts.window = 0 THEN NumRows ELSE opts.window
<1>1. n \in Nat /\ opts.window \in Nat
  BY WindowType, StreamAssumption DEF IInv, StreamTypes
<1>2. /\ task' = Submit(n) /\ pc = "planning" /\ pc' = "wait"
      /\ UNCHANGED <<opts, awaited, ready, cur>>
  BY DEF Plan
<1>3. Made(task) = {} /\ Cardinality(Made(task)) = 0
  BY <1>2, FS_EmptySet DEF IInv, WindowInv
<1>4. /\ task' \in TaskMaps /\ SameEnded(task', task) /\ PrefixInv'
      /\ Cardinality(Made(task')) <= n
  BY <1>1, <1>2, <1>3, SubmitNext DEF IInv, StreamTypes, PrefixInv
<1>5. StreamTypes'
  BY <1>2, <1>4, EndedStay DEF IInv, StreamTypes
<1>6. Cardinality(Made(task')) \in Nat /\ Cardinality(awaited) \in Nat
  BY BatchesAreFinite, TaskSets DEF Made, IInv, StreamTypes
<1>7. WindowInv'
  BY <1>1, <1>2, <1>4, <1>6 DEF WindowInv
<1>8. NothingLeftRunning' /\ OrderInv'
  BY <1>2 DEF IInv, NothingLeftRunning, OrderInv, Final
<1>9. QED
  BY <1>4, <1>5, <1>7, <1>8 DEF IInv

(* No task was made. *)
LEMMA PlanFailsStep ==
  ASSUME IInv, PlanFails
  PROVE  IInv'
<1>1. pc = "planning" /\ pc' = "raised" /\ UNCHANGED <<opts, task, awaited>>
  BY DEF PlanFails
<1>2. Made(task) = {}
  BY <1>1 DEF IInv, WindowInv
<1>3. NothingLeftRunning'
  BY <1>1, <1>2 DEF NothingLeftRunning, Made, InState
<1>4. StreamTypes' /\ PrefixInv' /\ WindowInv' /\ OrderInv'
  BY <1>1 DEF IInv, StreamTypes, PrefixInv, WindowInv, OrderInv, Final,
     Finished, InState
<1>5. QED
  BY <1>3, <1>4 DEF IInv

(* A task ends; nobody awaits it yet. *)
LEMMA FetchEndsStep ==
  ASSUME IInv, NEW b \in Batches, FetchEnds(b)
  PROVE  IInv'
<1>1. /\ task[b] = "running" /\ UNCHANGED <<opts, pc, awaited, ready, cur>>
      /\ \E s \in {"done", "failed"} : task' = [task EXCEPT ![b] = s]
  BY DEF FetchEnds
<1>2. /\ task' \in TaskMaps /\ Made(task') = Made(task)
      /\ Finished \subseteq Finished'
      /\ InState("running")' \subseteq InState("running")
  BY <1>1 DEF Made, Finished, InState, IInv, StreamTypes, TaskMaps
<1>3. StreamTypes'
  BY <1>1, <1>2 DEF IInv, StreamTypes
<1>4. PrefixInv' /\ WindowInv' /\ NothingLeftRunning' /\ OrderInv'
  BY <1>1, <1>2 DEF IInv, PrefixInv, WindowInv, NothingLeftRunning, OrderInv
<1>5. QED
  BY <1>3, <1>4 DEF IInv

(* The tasks of bs have finished and are awaited now: either all are done  *)
(* and as many are made, or the stream stops.                              *)
LEMMA TakeStep ==
  ASSUME IInv, pc = "wait", NEW bs \in SUBSET Finished, NEW line,
         Take(bs, line),
         opts.window > 0 => bs \cap awaited = {},
         opts.order = "request" => bs = {cur + 1} /\ line = <<cur + 1>>
  PROVE  IInv'
<1> DEFINE n == IF opts.window = 0 THEN 0 ELSE Cardinality(bs)
           made == Submit(n)
<1>1. opts' = opts /\ awaited' = awaited \cup bs
  BY DEF Take
<1>2. bs \in SUBSET Batches /\ awaited \in SUBSET Batches /\ task \in TaskMaps
      /\ awaited' \subseteq Finished
  BY <1>1, TaskSets DEF IInv, StreamTypes
<1>3. CASE Stop("raised", task)
  BY <1>1, <1>2, <1>3, StopStep DEF Final
<1>4. CASE ready' = Tail(line) /\ Resolve(Head(line), made)
  <2>1. n \in Nat /\ opts.window \in Nat
    BY <1>2, BatchesAreFinite, WindowType DEF IInv, StreamTypes
  <2>2. /\ made \in TaskMaps /\ SameEnded(made, task)
        /\ Made(made) = 1..Cardinality(Made(made))
        /\ Cardinality(Made(made)) <= Cardinality(Made(task)) + n
    BY <1>2, <2>1, SubmitNext DEF IInv
  <2>3. /\ task' \in TaskMaps /\ Made(task') = Made(made)
        /\ SameEnded(task', made)
        /\ pc' \in {"yield", "ids", "raised"} /\ cur' = Head(line)
        /\ pc' = "raised" => NoneRuns(task')
    BY <1>4, <2>2, ResolveEnds
  <2>4. SameEnded(task', task)
    BY <2>2, <2>3 DEF SameEnded
  <2>5. StreamTypes'
    BY <1>1, <1>2, <2>3, <2>4, EndedStay DEF IInv, StreamTypes, Final
  <2>6. PrefixInv'
    BY <2>2, <2>3 DEF PrefixInv
  <2>7. opts.window > 0 =>
          Cardinality(awaited') = Cardinality(awaited) + Cardinality(bs)
    <3>1. IsFiniteSet(awaited) /\ IsFiniteSet(bs) /\ Cardinality({}) = 0
      BY <1>2, BatchesAreFinite, FS_EmptySet
    <3>2. Cardinality(bs \cup awaited) =
            Cardinality(bs) + Cardinality(awaited) - Cardinality(bs \cap awaited)
      BY <3>1, FS_Union
    <3>3. Cardinality(awaited) \in Nat /\ Cardinality(bs) \in Nat
      BY <3>1, FS_CardinalityType
    <3>4. bs \cup awaited = awaited'
      BY <1>1
    <3>5. bs \cap awaited = {} => Cardinality(bs \cap awaited) = 0
      BY <3>1, Zenon
    <3>6. Cardinality(awaited') =
            Cardinality(bs) + Cardinality(awaited) - Cardinality(bs \cap awaited)
      BY <3>2, <3>4, Zenon
    <3>7. QED
      BY <3>3, <3>5, <3>6
  <2>8. WindowInv'
    <3>1. /\ Cardinality(Made(task)) \in Nat /\ Cardinality(Made(made)) \in Nat
          /\ Cardinality(awaited) \in Nat /\ Cardinality(bs) \in Nat
      BY <1>2, BatchesAreFinite DEF Made
    <3>2. QED
      BY <1>1, <2>1, <2>2, <2>3, <2>7, <3>1 DEF IInv, WindowInv
  <2>9. NothingLeftRunning'
    BY <2>3 DEF NothingLeftRunning, NoneRuns, InState, Final
  <2>10. OrderInv'
    <3>1. SUFFICES ASSUME opts.order = "request"
                   PROVE  /\ ready' = <<>> /\ cur' \in Nat
                          /\ awaited' = 1..cur'
      BY <1>1 DEF OrderInv
    <3>2. cur \in Nat /\ awaited = 1..cur
      BY <3>1 DEF IInv, OrderInv, Final
    <3>3. bs = {cur + 1} /\ line = <<cur + 1>>
      BY <3>1
    <3>4. cur' = cur + 1 /\ ready' = <<>>
      BY <1>4, <2>3, <3>3
    <3>5. (1..cur) \cup {cur + 1} = 1..(cur + 1)
      BY <3>2
    <3>6. QED
      BY <1>1, <3>2, <3>3, <3>4, <3>5
  <2>11. QED
    BY <2>5, <2>6, <2>8, <2>9, <2>10 DEF IInv
<1>5. QED
  BY <1>3, <1>4 DEF Take

(* The three ways to await tasks: in order, the next one that ended, and a *)
(* round of all that did.                                                  *)
LEMMA TakesStep ==
  ASSUME IInv, TakeInOrder \/ TakeNextCompleted \/ TakeRound
  PROVE  IInv'
<1>1. opts.window \in Nat /\ awaited \subseteq Finished
  BY WindowType DEF IInv, StreamTypes
<1>2. CASE TakeInOrder
  <2>1. pc = "wait" /\ opts.order = "request"
    BY <1>2 DEF TakeInOrder
  <2>2. cur \in Nat /\ awaited = 1..cur
    BY <2>1 DEF IInv, OrderInv, Final
  <2>3. Cardinality(awaited) = cur
    BY <2>2, Count
  <2>4. cur + 1 \in Finished /\ Take({cur + 1}, <<cur + 1>>)
    BY <1>2, <2>3 DEF TakeInOrder
  <2>5. {cur + 1} \cap awaited = {}
    BY <2>2
  <2>6. QED
    BY <2>1, <2>4, <2>5, TakeStep
<1>3. CASE TakeNextCompleted
  <2> DEFINE b == arrived[Cardinality(awaited) + 1]
  <2>1. /\ pc = "wait" /\ opts.order = "completion" /\ opts.window = 0
        /\ Take({b}, <<b>>)
    BY <1>3 DEF TakeNextCompleted
  <2>2. b \in Finished
    BY <2>1 DEF Take, InState, Finished
  <2>3. ~(opts.window > 0) /\ opts.order # "request"
    BY <2>1
  <2> HIDE DEF b
  <2>4. QED
    BY <2>1, <2>2, <2>3, TakeStep
<1>4. CASE TakeRound
  <2>1. /\ pc = "wait" /\ opts.order = "completion"
        /\ \E line \in SetToSeqs(Finished \ awaited) :
             Take(Finished \ awaited, line)
    BY <1>4 DEF TakeRound
  <2>2. (Finished \ awaited) \in SUBSET Finished
        /\ (Finished \ awaited) \cap awaited = {}
    OBVIOUS
  <2>3. PICK line : Take(Finished \ awaited, line)
    BY <2>1
  <2>4. opts.order # "request"
    BY <2>1
  <2>5. QED
    BY <2>1, <2>2, <2>3, <2>4, TakeStep
<1>5. QED
  BY <1>2, <1>3, <1>4

(* A step that neither makes, ends nor awaits a task. *)
LEMMA QuietStep ==
  ASSUME IInv, UNCHANGED <<opts, awaited>>, task' \in TaskMaps,
         Made(task') = Made(task), SameEnded(task', task),
         pc \notin Final \cup {"planning"},
         pc' \in {"wait", "ids", "split", "yield"} \cup Final,
         pc' \in Final => NoneRuns(task'),
         opts.order = "request" /\ pc' \notin Final => UNCHANGED <<ready, cur>>
  PROVE  IInv'
<1>1. StreamTypes'
  BY EndedStay DEF IInv, StreamTypes
<1>2. PrefixInv' /\ WindowInv'
  BY DEF IInv, PrefixInv, WindowInv, Final
<1>3. NothingLeftRunning' /\ OrderInv'
  BY DEF IInv, NothingLeftRunning, OrderInv, NoneRuns, InState, Final
<1>4. QED
  BY <1>1, <1>2, <1>3 DEF IInv

(* A bisection makes no task. *)
LEMMA SplitSteps ==
  ASSUME IInv, ObjectIds \/ SubFetch
  PROVE  IInv'
<1>1. /\ UNCHANGED <<opts, awaited, ready, cur>>
      /\ pc \in {"ids", "split"}
      /\ \/ Stop("raised", task)
         \/ pc' \in {"split", "yield"} /\ task' = task
  BY DEF ObjectIds, SubFetch, Split
<1>2. CASE Stop("raised", task)
  BY <1>1, <1>2, StopStep DEF IInv, StreamTypes, Final
<1>3. CASE pc' \in {"split", "yield"} /\ task' = task
  <2>1. task' \in TaskMaps /\ SameEnded(task', task) /\ Made(task') = Made(task)
    BY <1>3 DEF IInv, StreamTypes, SameEnded
  <2>2. QED
    BY <1>1, <1>3, <2>1, QuietStep DEF Final
<1>4. QED
  BY <1>1, <1>2, <1>3

(* The consumer takes a page, and with it may end or go on with the stream. *)
LEMMA PullStep ==
  ASSUME IInv, Pull
  PROVE  IInv'
<1>1. pc = "yield" /\ UNCHANGED <<opts, awaited>> /\ task \in TaskMaps
  BY DEF Pull, IInv, StreamTypes
<1>2. SameEnded(task, task)
  BY DEF SameEnded
<1>3. CASE /\ todo # <<>> /\ pc' = "split"
           /\ UNCHANGED <<task, ready, cur, seen>>
  BY <1>1, <1>2, <1>3, QuietStep DEF Final
<1>4. CASE /\ todo = <<>> /\ ready # <<>> /\ ready' = Tail(ready)
           /\ Resolve(Head(ready), task)
  <2>1. /\ task' \in TaskMaps /\ Made(task') = Made(task)
        /\ SameEnded(task', task)
        /\ pc' \in {"yield", "ids", "raised"}
        /\ pc' = "raised" => NoneRuns(task')
    BY <1>1, <1>4, ResolveEnds
  <2>2. opts.order # "request"
    BY <1>1, <1>4 DEF IInv, OrderInv, Final
  <2>3. QED
    BY <1>1, <2>1, <2>2, QuietStep DEF Final
<1>5. CASE /\ todo = <<>> /\ ready = <<>> /\ UNCHANGED <<ready, cur, seen>>
           /\ awaited # Submitted /\ pc' = "wait" /\ UNCHANGED task
  BY <1>1, <1>2, <1>5, QuietStep DEF Final
<1>6. CASE Stop("ended", task)
  BY <1>1, <1>6, StopStep DEF IInv, StreamTypes, Final
<1>7. QED
  BY <1>3, <1>4, <1>5, <1>6 DEF Pull

(* Whatever still runs is cancelled. *)
LEMMA CloseStep ==
  ASSUME IInv, Close
  PROVE  IInv'
BY StopStep DEF Close, IInv, StreamTypes, Final

(* Each step keeps the tasks accounted for. *)
LEMMA NextPreserves == IInv /\ [Next]_vars => IInv'
<1> SUFFICES ASSUME IInv, [Next]_vars PROVE IInv'
  OBVIOUS
<1>1. CASE UNCHANGED vars
  BY <1>1 DEF vars, IInv, StreamTypes, PrefixInv, WindowInv, Made, OrderInv,
     NothingLeftRunning, Finished, InState
<1>2. CASE Next
  BY <1>1, <1>2, PlanStep, PlanFailsStep, TakesStep, SplitSteps, PullStep,
     CloseStep, FetchEndsStep
  DEF Next, Generator, Stopped
<1>3. QED
  BY <1>1, <1>2

(* The tasks are accounted for in every state. *)
LEMMA InvariantHolds == Spec => []IInv
<1>1. QED
  BY InitEstablishes, NextPreserves, PTL DEF Spec

-----------------------------------------------------------------------------
(* The results *)

(* The fetches in flight fit the window: what has a task beyond those that *)
(* were awaited is at most a window, and what runs was not awaited.        *)
LEMMA WindowHolds == IInv => InFlightBounded
<1> SUFFICES ASSUME IInv, opts.window > 0 PROVE InFlightBounded
  BY DEF InFlightBounded
<1> DEFINE running == InState("running")
<1>1. /\ running \subseteq Made(task) /\ awaited \subseteq Made(task)
      /\ running \cap awaited = {} /\ Made(task) \in SUBSET Batches
  BY DEF IInv, StreamTypes, Finished, InState, Made
<1>2. /\ IsFiniteSet(running) /\ IsFiniteSet(awaited) /\ IsFiniteSet(Made(task))
      /\ Cardinality(running) \in Nat /\ Cardinality(awaited) \in Nat
      /\ Cardinality(Made(task)) \in Nat
  BY <1>1, BatchesAreFinite
<1>3. Cardinality(running \cup awaited) =
        Cardinality(running) + Cardinality(awaited)
  <2>1. Cardinality(running \cup awaited) =
          Cardinality(running) + Cardinality(awaited)
            - Cardinality(running \cap awaited)
    BY <1>2, FS_Union
  <2>2. QED
    BY <1>1, <1>2, <2>1, FS_EmptySet
<1>4. Cardinality(running \cup awaited) <= Cardinality(Made(task))
  BY <1>1, <1>2, FS_Subset
<1>5. opts.window \in Nat
  BY WindowType DEF IInv, StreamTypes
<1>6. Cardinality(running) <= opts.window
  BY <1>2, <1>3, <1>4, <1>5 DEF IInv, WindowInv
<1>7. QED
  BY <1>2, <1>5, <1>6 DEF InFlightBounded

(* The generator keeps its tasks within the window, and leaves none behind *)
(* however it stops (getgdf.py:944, 1043).                                 *)
THEOREM TasksAreAlwaysKept == Spec => []TasksAreKept
<1>1. IInv => TasksAreKept
  BY WindowHolds DEF IInv, TasksAreKept
<1>2. QED
  BY <1>1, InvariantHolds, PTL

(* order="request" takes up the pages of the plan one after the other, for *)
(* every order in which their tasks end (getgdf.py:1019-1042).             *)
THEOREM PagesComeInOrder == Spec => RequestOrder
<1>1. ASSUME IInv, [Next]_vars, opts.order = "request", cur' # cur
      PROVE  cur' = cur + 1
  <2>1. CASE TakeInOrder
    <3>1. cur \in Nat /\ awaited = 1..cur
      BY <1>1, <2>1 DEF IInv, OrderInv, Final, TakeInOrder
    <3>2. Cardinality(awaited) = cur
      BY <3>1, Count
    <3>3. cur' \in {cur, cur + 1}
      BY <2>1, <3>2 DEF TakeInOrder, Take, Resolve
    <3>4. QED
      BY <1>1, <3>3
  <2>2. CASE Pull
    <3>1. ready = <<>>
      BY <1>1, <2>2 DEF IInv, OrderInv, Final, Pull
    <3>2. QED
      BY <1>1, <2>2, <3>1 DEF Pull
  <2>3. ~TakeNextCompleted /\ ~TakeRound
    BY <1>1 DEF TakeNextCompleted, TakeRound
  <2>4. QED
    BY <1>1, <2>1, <2>2, <2>3
    DEF Next, Generator, Plan, PlanFails, ObjectIds, SubFetch, Close,
        FetchEnds, Stopped, vars
<1>2. IInv /\ [Next]_vars =>
        [opts.order = "request" /\ cur' # cur => cur' = cur + 1]_vars
  BY <1>1
<1>3. QED
  BY <1>2, InvariantHolds, PTL DEF Spec, RequestOrder

-----------------------------------------------------------------------------
(* The rows *)

(* The batches the consumer has got, or is getting; and the rows of a      *)
(* batch being split that it has not got yet.                              *)
Resolved == awaited \ ToSet(ready)
BeingSplit ==
  IF pc = "ids" THEN Span(cur)
  ELSE IF todo = <<>> THEN {} ELSE {r \in Oids(cur) : Head(todo).lo <= r}

(* The rows that are still to be delivered.                                *)
Unresolved == {r \in Rows : \A b \in Resolved : r \notin Span(b)}
Owed == Unresolved \cup BeingSplit

(* Tasks end once, and arrived keeps their order.                          *)
ArrivalInv ==
  /\ arrived \in Seq(Batches) /\ IsInjective(arrived)
  /\ ToSet(arrived) = Finished
  /\ clipped \subseteq Batches

(* What has been awaited and waits to be resolved is no batch twice, and   *)
(* not the one resolved last.  asyncio.as_completed hands tasks out as     *)
(* they ended.                                                             *)
HandInv ==
  /\ ready \in Seq(awaited) /\ cur \in Batches \cup {0}
  /\ pc \notin Final =>
       /\ IsInjective(ready)
       /\ pc \in {"planning", "wait"} => ready = <<>>
       /\ pc \in {"ids", "split", "yield"} => cur \in Resolved
       /\ opts.order = "completion" /\ opts.window = 0 =>
            /\ Cardinality(awaited) <= Len(arrived)
            /\ awaited = {arrived[i] : i \in 1..Cardinality(awaited)}

(* The window is kept full until every batch has its task.                 *)
FullInv ==
  pc \notin Final \cup {"planning"} =>
    \/ Made(task) = Batches
    \/ /\ opts.window > 0
       /\ Cardinality(Made(task)) = opts.window + Cardinality(awaited)

(* What is left of a bisection: consecutive sub-requests, up to the last   *)
(* of the batch's ids.                                                     *)
SplitInv ==
  /\ todo \in Seq(Nodes(1..MaxDepth))
  /\ \A i \in 1..Len(todo) : NodeRows(todo[i]) \subseteq Rows
  /\ pc \notin Final =>
       /\ pc \in {"planning", "wait", "ids"} => todo = <<>>
       /\ pc = "split" => todo # <<>>
       /\ pc = "ids" \/ todo # <<>> => opts.onTruncation = "split"
       /\ todo # <<>> =>
            \E lo, hi \in Oids(cur) :
              /\ Oids(cur) = lo..hi /\ lo <= Head(todo).lo
              /\ Covers(todo, Head(todo).lo, hi, Cap, 1..MaxDepth)

(* What is not owed was delivered; where no row may come twice, what is    *)
(* owed was not.                                                           *)
DeliveryInv ==
  /\ seen \in [Rows -> Nat] /\ EveryRowOnce
  /\ pc \notin Final =>
       /\ opts.onTruncation # "ignore" => \A r \in Rows \ Owed : seen[r] >= 1
       /\ opts.byOid \/ opts.onTruncation # "split" =>
            \A r \in Owed : seen[r] = 0

RowsInv == ArrivalInv /\ HandInv /\ FullInv /\ SplitInv /\ DeliveryInv

AllInv == IInv /\ RowsInv

-----------------------------------------------------------------------------

(* A line of the tasks in S has each of them once. *)
LEMMA LinesAreWhole ==
  ASSUME NEW S, IsFiniteSet(S), NEW line \in SetToSeqs(S)
  PROVE  line \in Seq(S) /\ IsInjective(line) /\ ToSet(line) = S
<1> DEFINE n == Cardinality(S)
<1>1. n \in Nat
  BY FS_CardinalityType
<1>2. line \in [1..n -> S] /\ \A i, j \in 1..n : i # j => line[i] # line[j]
  BY DEF SetToSeqs
<1>3. line \in Seq(S) /\ DOMAIN line = 1..n
  BY <1>1, <1>2, SeqDef
<1>4. IsInjective(line)
  BY <1>2, <1>3 DEF IsInjective
<1>5. ASSUME NEW b \in S, \A i \in 1..n : line[i] # b
      PROVE  FALSE
  <2>1. IsFiniteSet(S \ {b}) /\ Cardinality(S \ {b}) = n - 1
    BY FS_RemoveElement
  <2>2. IsFiniteSet(1..n) /\ Cardinality(1..n) = n
    BY <1>1, Count
  <2>3. line \in [1..n -> S \ {b}]
    BY <1>2, <1>5
  <2>4. n - 1 < n
    BY <1>1
  <2> HIDE DEF n
  <2>5. \E i, j \in 1..n : i # j /\ line[i] = line[j]
    BY <2>1, <2>2, <2>3, <2>4, FS_PigeonHole
  <2>6. QED
    BY <1>2, <2>5
<1>6. ToSet(line) = S
  BY <1>2, <1>3, <1>5 DEF ToSet
<1>7. QED
  BY <1>3, <1>4, <1>6

(* Taking the first of a line leaves the others. *)
LEMMA FirstOfLine ==
  ASSUME NEW S, NEW line \in Seq(S), IsInjective(line), line # <<>>
  PROVE  /\ Head(line) \in S /\ Tail(line) \in Seq(S) /\ IsInjective(Tail(line))
         /\ Head(line) \in ToSet(line)
         /\ ToSet(Tail(line)) = ToSet(line) \ {Head(line)}
<1> DEFINE n == Len(line)
<1>1. n \in Nat \ {0} /\ DOMAIN line = 1..n
  BY LenProperties, EmptySeq
<1>2. /\ Head(line) = line[1] /\ Tail(line) \in Seq(S)
      /\ DOMAIN Tail(line) = 1..(n - 1)
      /\ \A i \in 1..(n - 1) : Tail(line)[i] = line[i + 1]
  BY <1>1, HeadTailProperties, LenProperties
<1>3. line[1] \in S
  BY <1>1, ElementOfSeq
<1>4. \A i, j \in 1..n : line[i] = line[j] => i = j
  BY <1>1 DEF IsInjective
<1>5. \A i \in 1..(n - 1) : i + 1 \in 1..n
  BY <1>1
<1>6. IsInjective(Tail(line))
  <2>1. \A i, j \in 1..(n - 1) : i + 1 = j + 1 => i = j
    BY <1>1
  <2>2. QED
    BY <1>2, <1>4, <1>5, <2>1 DEF IsInjective
<1>7. ToSet(line) = {line[i] : i \in 1..n}
      /\ ToSet(Tail(line)) = {line[i + 1] : i \in 1..(n - 1)}
  BY <1>1, <1>2 DEF ToSet
<1>8. ASSUME NEW x \in ToSet(line), x # line[1]
      PROVE  x \in ToSet(Tail(line))
  <2>1. PICK i \in 1..n : x = line[i]
    BY <1>7
  <2>2. i - 1 \in 1..(n - 1) /\ i = (i - 1) + 1
    BY <1>1, <1>8, <2>1
  <2>3. QED
    BY <1>7, <2>1, <2>2
<1>9. ASSUME NEW x \in ToSet(Tail(line))
      PROVE  x \in ToSet(line) /\ x # line[1]
  <2>1. PICK i \in 1..(n - 1) : x = line[i + 1]
    BY <1>7
  <2>2. i + 1 \in 1..n /\ 1 \in 1..n /\ i + 1 # 1
    BY <1>1
  <2>3. QED
    BY <1>4, <1>7, <2>1, <2>2
<1>10. QED
  BY <1>1, <1>2, <1>3, <1>6, <1>7, <1>8, <1>9

(* The bounds are positive numbers. *)
LEMMA Parameters ==
  /\ NumRows \in Nat \ {0} /\ PageSize \in Nat \ {0} /\ Cap \in Nat \ {0}
  /\ MaxDepth \in Nat \ {0} /\ MaxWindow \in Nat \ {0}
BY StreamAssumption

(* The batches share the rows among them. *)
LEMMA SpansShareRows ==
  /\ \A b \in Batches : Span(b) \subseteq Rows
  /\ \A b, c \in Batches : b # c => Span(b) \cap Span(c) = {}
  /\ \A r \in Rows : \E b \in Batches : r \in Span(b)
<1>1. ASSUME NEW b \in Batches
      PROVE  Span(b) \subseteq Rows
  <2>1. b \in 1..WindowCount(NumRows, PageSize)
    BY DEF Batches
  <2>2. PICK first, last \in 1..NumRows : Span(b) = first..last
    <3>1. Span(b) = ((b - 1) * PageSize + 1)..Lesser(b * PageSize, NumRows)
          /\ (b - 1) * PageSize + 1 \in 1..NumRows
      BY <2>1, Parameters, WindowRows DEF Span
    <3>2. Lesser(b * PageSize, NumRows)
            \in ((b - 1) * PageSize + 1)..NumRows
      BY <2>1, Parameters, WindowRows
    <3>3. QED
      BY <3>1, <3>2, Parameters
  <2>3. QED
    BY <2>2, Parameters DEF Rows
<1>2. ASSUME NEW b \in Batches, NEW c \in Batches, b # c
      PROVE  Span(b) \cap Span(c) = {}
  <2>1. b \in Nat \ {0} /\ c \in Nat \ {0}
    BY BatchesAreFinite DEF Batches
  <2>2. QED
    BY <1>2, <2>1, Parameters, WindowsAreApart DEF Span
<1>3. ASSUME NEW r \in Rows
      PROVE  \E b \in Batches : r \in Span(b)
  BY Parameters, SomeWindow DEF Rows, Batches, Span
<1>4. QED
  BY <1>1, <1>2, <1>3

(* The ids a truncated page is split by take in the page. *)
LEMMA IdsTakeInThePage ==
  ASSUME NEW b \in Batches
  PROVE  Span(b) \subseteq Oids(b) /\ Oids(b) \subseteq Rows
         /\ (opts.byOid => Oids(b) = Span(b))
BY SpansShareRows DEF Oids

(* A stream that has not begun owes every row. *)
LEMMA InitRows == Init => RowsInv
<1> SUFFICES ASSUME Init PROVE RowsInv
  OBVIOUS
<1>1. Finished = {} /\ Cardinality({}) = 0
  BY FS_EmptySet DEF Init, Finished, InState
<1>2. ArrivalInv
  BY <1>1, EmptySeq DEF Init, ArrivalInv, IsInjective, ToSet
<1>3. /\ ready = <<>> /\ awaited = {} /\ todo = <<>> /\ arrived = <<>>
      /\ pc = "planning" /\ cur = 0 /\ seen = [r \in Rows |-> 0]
  BY DEF Init
<1>4. HandInv
  <2>1. ready \in Seq(awaited) /\ IsInjective(ready)
    BY <1>3, EmptySeq DEF IsInjective
  <2>2. Cardinality(awaited) = 0 /\ Len(arrived) = 0
    BY <1>1, <1>3
  <2>3. awaited = {arrived[i] : i \in 1..0}
    BY <1>3
  <2>4. QED
    BY <1>3, <2>1, <2>2, <2>3 DEF HandInv
<1>5. FullInv
  BY <1>3 DEF FullInv
<1>6. SplitInv
  BY <1>3, EmptySeq DEF SplitInv
<1>7. Owed = Rows
  BY <1>3 DEF Owed, Unresolved, Resolved, BeingSplit
<1>8. DeliveryInv
  BY <1>3, <1>7 DEF DeliveryInv, EveryRowOnce, EndedMeansComplete, NoRowTwice
<1>9. QED
  BY <1>2, <1>4, <1>5, <1>6, <1>8 DEF RowsInv

(* What is owed depends on what was resolved and on what is being split. *)
LEMMA OwedStays ==
  ASSUME UNCHANGED <<opts, awaited, ready, cur, todo>>,
         pc = "ids" <=> pc' = "ids"
  PROVE  Resolved' = Resolved /\ Owed' = Owed
<1>1. Resolved' = Resolved /\ BeingSplit' = BeingSplit
  BY DEF Resolved, BeingSplit, Oids
<1>2. QED
  BY <1>1 DEF Owed, Unresolved

(* The stream stops: nothing more is delivered. *)
LEMMA StopRows ==
  ASSUME AllInv, NEW how \in Final, Stop(how, task),
         UNCHANGED <<opts, clipped, arrived, ready, todo, cur, seen>>,
         awaited \subseteq awaited',
         how = "ended" => EndedMeansComplete'
  PROVE  RowsInv'
<1>1. task \in TaskMaps /\ task' = Cancelled(task) /\ pc' = how
  BY DEF AllInv, IInv, StreamTypes, Stop
<1>2. Finished' = Finished
  BY <1>1, CancelledEnds, EndedStay
<1>3. ArrivalInv'
  BY <1>2 DEF AllInv, RowsInv, ArrivalInv, ToSet, IsInjective
<1>4. HandInv'
  <2>1. ready \in Seq(awaited')
    BY SeqMonotonic DEF AllInv, RowsInv, HandInv
  <2>2. QED
    BY <1>1, <2>1 DEF AllInv, RowsInv, HandInv
<1>5. FullInv' /\ SplitInv'
  BY <1>1 DEF AllInv, RowsInv, FullInv, SplitInv
<1>6. DeliveryInv'
  BY <1>1 DEF AllInv, RowsInv, DeliveryInv, EveryRowOnce, NoRowTwice,
     EndedMeansComplete
<1>7. QED
  BY <1>3, <1>4, <1>5, <1>6 DEF RowsInv

(* A step that resolves, delivers and awaits nothing. *)
LEMMA QuietRows ==
  ASSUME AllInv, UNCHANGED <<opts, clipped, arrived, awaited, ready, todo, cur,
                             seen>>,
         SameEnded(task', task), Made(task') = Made(task),
         pc \notin Final, pc' \in {"wait", "split"},
         pc \in {"split", "yield", "wait"},
         pc' = "wait" => ready = <<>> /\ todo = <<>>,
         pc' = "split" => todo # <<>> /\ pc # "wait"
  PROVE  RowsInv'
<1>1. Finished' = Finished /\ Owed' = Owed /\ Resolved' = Resolved
  BY EndedStay, OwedStays
<1>2. ArrivalInv'
  BY <1>1 DEF AllInv, RowsInv, ArrivalInv
<1>3. HandInv'
  BY <1>1 DEF AllInv, RowsInv, HandInv
<1>4. FullInv'
  BY DEF AllInv, RowsInv, FullInv, Final
<1>5. SplitInv'
  BY DEF AllInv, RowsInv, SplitInv, Oids, Final
<1>6. DeliveryInv'
  BY <1>1 DEF AllInv, RowsInv, DeliveryInv, EveryRowOnce, NoRowTwice,
     EndedMeansComplete, Final
<1>7. QED
  BY <1>2, <1>3, <1>4, <1>5, <1>6 DEF RowsInv

(* The plan owes every row. *)
LEMMA PlanRows ==
  ASSUME AllInv, Plan
  PROVE  RowsInv'
<1> DEFINE n == IF opts.window = 0 THEN NumRows ELSE opts.window
<1>1. n \in Nat /\ opts.window \in Nat
  BY WindowType, Parameters DEF AllInv, IInv, StreamTypes
<1>2. /\ task' = Submit(n) /\ pc = "planning" /\ pc' = "wait"
      /\ UNCHANGED <<opts, clipped, arrived, awaited, ready, todo, cur, seen>>
  BY DEF Plan
<1>3. Made(task) = {} /\ Cardinality(Made(task)) = 0
  BY <1>2, FS_EmptySet DEF AllInv, IInv, WindowInv
<1>4. /\ SameEnded(task', task)
      /\ Made(task') = 1..Cardinality(Made(task'))
      /\ Made(task') = Batches \/ Cardinality(Made(task')) = n
  BY <1>1, <1>2, <1>3, SubmitNext DEF AllInv, IInv, StreamTypes
<1>5. Finished' = Finished /\ Owed' = Owed /\ Resolved' = Resolved
  BY <1>2, <1>4, EndedStay, OwedStays
<1>6. awaited = {} /\ Cardinality(awaited) = 0
  BY <1>3, FS_EmptySet DEF AllInv, IInv, StreamTypes, Made, Finished, InState
<1>7. FullInv'
  <2>1. CASE opts.window = 0
    <3>1. ASSUME Made(task') = 1..NumRows
          PROVE  Made(task') = Batches
      <4>1. Made(task') \subseteq Batches
        BY DEF Made
      <4>2. WindowCount(NumRows, PageSize) \in Nat
            /\ WindowCount(NumRows, PageSize) <= NumRows
        BY Parameters, FewWindows
      <4>3. QED
        BY <3>1, <4>1, <4>2, Parameters DEF Batches
    <3>2. QED
      BY <1>2, <1>4, <2>1, <3>1 DEF FullInv
  <2>2. CASE opts.window # 0
    BY <1>1, <1>2, <1>4, <1>6, <2>2 DEF FullInv
  <2>3. QED
    BY <2>1, <2>2
<1>8. ArrivalInv'
  BY <1>2, <1>5 DEF AllInv, RowsInv, ArrivalInv
<1>9. HandInv'
  BY <1>2, <1>5 DEF AllInv, RowsInv, HandInv, Final
<1>10. SplitInv'
  BY <1>2 DEF AllInv, RowsInv, SplitInv, Oids, Final
<1>11. DeliveryInv'
  BY <1>2, <1>5 DEF AllInv, RowsInv, DeliveryInv, EveryRowOnce, NoRowTwice,
     EndedMeansComplete, Final
<1>12. QED
  BY <1>7, <1>8, <1>9, <1>10, <1>11 DEF RowsInv

(* A task that ends joins the end of the line. *)
LEMMA FetchEndsRows ==
  ASSUME AllInv, NEW b \in Batches, FetchEnds(b)
  PROVE  RowsInv'
<1>1. /\ task[b] = "running" /\ arrived' = Append(arrived, b)
      /\ UNCHANGED <<opts, pc, awaited, ready, todo, cur, seen>>
      /\ \E s \in {"done", "failed"} : task' = [task EXCEPT ![b] = s]
      /\ clipped' \subseteq clipped \cup {b}
  BY DEF FetchEnds
<1>2. /\ Made(task') = Made(task) /\ Finished' = Finished \cup {b}
      /\ b \notin Finished
  BY <1>1 DEF Made, Finished, InState, AllInv, IInv, StreamTypes, TaskMaps
<1>3. arrived \in Seq(Batches) /\ IsInjective(arrived) /\ ToSet(arrived) = Finished
      /\ clipped \subseteq Batches
  BY DEF AllInv, RowsInv, ArrivalInv
<1> DEFINE n == Len(arrived)
<1>4. /\ n \in Nat /\ DOMAIN arrived = 1..n
      /\ arrived' \in Seq(Batches) /\ DOMAIN arrived' = 1..(n + 1)
      /\ Len(arrived') = n + 1
      /\ \A i \in 1..n : arrived'[i] = arrived[i]
      /\ arrived'[n + 1] = b
  BY <1>1, <1>3, AppendProperties, LenProperties
<1> HIDE DEF n
<1>5. \A i \in 1..n : arrived[i] \in Finished
  BY <1>3, <1>4 DEF ToSet
<1>6. IsInjective(arrived')
  <2>1. \A i, j \in 1..n : arrived[i] = arrived[j] => i = j
    BY <1>3, <1>4 DEF IsInjective
  <2>2. \A i \in 1..(n + 1) : i \in 1..n \/ i = n + 1
    BY <1>4
  <2>3. QED
    BY <1>2, <1>4, <1>5, <2>1, <2>2 DEF IsInjective
<1>7. ToSet(arrived') = Finished'
  <2>1. ToSet(arrived') = {arrived'[i] : i \in 1..(n + 1)}
        /\ ToSet(arrived) = {arrived[i] : i \in 1..n}
    BY <1>4 DEF ToSet
  <2>2. 1..(n + 1) = 1..n \cup {n + 1}
    BY <1>4
  <2>3. QED
    BY <1>2, <1>3, <1>4, <2>1, <2>2
<1>8. ArrivalInv'
  BY <1>1, <1>3, <1>4, <1>6, <1>7 DEF ArrivalInv
<1>9. Resolved' = Resolved /\ Owed' = Owed
  BY <1>1, OwedStays
<1>10. HandInv'
  <2>1. ASSUME Cardinality(awaited) <= n,
               awaited = {arrived[i] : i \in 1..Cardinality(awaited)}
        PROVE  /\ Cardinality(awaited) <= n + 1
               /\ awaited = {arrived'[i] : i \in 1..Cardinality(awaited)}
    <3>1. awaited \in SUBSET Batches
      BY TaskSets DEF AllInv, IInv, StreamTypes
    <3>2. Cardinality(awaited) \in Nat
      BY <3>1, BatchesAreFinite
    <3>3. \A i \in 1..Cardinality(awaited) : i \in 1..n /\ arrived'[i] = arrived[i]
      BY <1>4, <2>1, <3>2
    <3>4. {arrived'[i] : i \in 1..Cardinality(awaited)}
            = {arrived[i] : i \in 1..Cardinality(awaited)}
      BY <3>3
    <3>5. QED
      BY <1>4, <2>1, <3>2, <3>4
  <2>2. QED
    BY <1>1, <1>4, <1>9, <2>1 DEF AllInv, RowsInv, HandInv, n
<1>11. FullInv' /\ SplitInv'
  BY <1>1, <1>2 DEF AllInv, RowsInv, FullInv, SplitInv, Oids
<1>12. DeliveryInv'
  BY <1>1, <1>9 DEF AllInv, RowsInv, DeliveryInv, EveryRowOnce, NoRowTwice,
     EndedMeansComplete
<1>13. QED
  BY <1>8, <1>10, <1>11, <1>12 DEF RowsInv

-----------------------------------------------------------------------------
(* The rows, step by step *)

(* A page that was owed is resolved: its rows are delivered, or the stream *)
(* goes on to split them, or it ends there.                                *)
LEMMA ResolveRows ==
  ASSUME AllInv, pc \in {"wait", "yield"}, todo = <<>>, todo' = todo,
         opts' = opts, NEW b \in Batches, b \notin Resolved,
         Resolved \subseteq Batches, Resolved' = Resolved \cup {b},
         NEW tasks, Resolve(b, tasks)
  PROVE  SplitInv' /\ DeliveryInv'
<1>1. /\ cur' = b
      /\ \/ pc' = "yield" /\ Deliver(Span(b))
         \/ /\ pc' = "yield" /\ opts.onTruncation = "ignore"
            /\ Deliver({r \in Span(b) : r + 1 \in Span(b)})
         \/ pc' = "raised" /\ UNCHANGED seen
         \/ pc' = "ids" /\ opts.onTruncation = "split" /\ UNCHANGED seen
  BY DEF Resolve, Stop
<1>2. SplitInv'
  BY <1>1 DEF AllInv, RowsInv, SplitInv, Final
<1>3. Span(b) \subseteq Rows /\ Span(b) \subseteq Owed
  BY SpansShareRows DEF Owed, Unresolved
<1>4. Owed = Unresolved
  BY DEF Owed, Unresolved, BeingSplit
<1>5. /\ pc' = "yield" => Owed' = Owed \ Span(b)
      /\ pc' = "ids" => Owed' = Owed
  <2>1. Owed' = (Owed \ Span(b)) \cup BeingSplit'
    BY <1>4 DEF Owed, Unresolved, Span
  <2>2. /\ pc' = "yield" => BeingSplit' = {}
        /\ pc' = "ids" => BeingSplit' = Span(b)
    BY <1>1 DEF BeingSplit, Span
  <2>3. QED
    BY <1>3, <2>1, <2>2
<1>6. /\ seen \in [Rows -> Nat] /\ EveryRowOnce
      /\ opts.onTruncation # "ignore" => \A r \in Rows \ Owed : seen[r] >= 1
      /\ opts.byOid \/ opts.onTruncation # "split" => \A r \in Owed : seen[r] = 0
  BY DEF AllInv, RowsInv, DeliveryInv, Final
<1>7. CASE pc' = "yield" /\ Deliver(Span(b))
  <2>1. \A r \in Rows : seen'[r] = IF r \in Span(b) THEN seen[r] + 1 ELSE seen[r]
    BY <1>7 DEF Deliver
  <2>2. seen' \in [Rows -> Nat]
    BY <1>6, <1>7 DEF Deliver
  <2>3. opts.onTruncation # "ignore" => \A r \in Rows \ Owed' : seen'[r] >= 1
    BY <1>5, <1>6, <1>7, <2>1
  <2>4. opts.byOid \/ opts.onTruncation # "split" => \A r \in Owed' : seen'[r] = 0
    BY <1>4, <1>5, <1>6, <1>7, <2>1 DEF Unresolved
  <2>5. EveryRowOnce'
    BY <1>3, <1>6, <1>7, <2>1 DEF EveryRowOnce, EndedMeansComplete, NoRowTwice
  <2>6. QED
    BY <1>2, <2>2, <2>3, <2>4, <2>5 DEF DeliveryInv
<1>8. CASE /\ pc' = "yield" /\ opts.onTruncation = "ignore"
           /\ Deliver({r \in Span(b) : r + 1 \in Span(b)})
  <2>1. \A r \in Rows :
          seen'[r] = IF r \in Span(b) /\ r + 1 \in Span(b)
                     THEN seen[r] + 1 ELSE seen[r]
    BY <1>8 DEF Deliver
  <2>2. seen' \in [Rows -> Nat]
    BY <1>6, <1>8 DEF Deliver
  <2>3. opts.byOid \/ opts.onTruncation # "split" => \A r \in Owed' : seen'[r] = 0
    BY <1>4, <1>5, <1>6, <1>8, <2>1 DEF Unresolved
  <2>4. EveryRowOnce'
    BY <1>3, <1>6, <1>8, <2>1 DEF EveryRowOnce, EndedMeansComplete, NoRowTwice
  <2>5. QED
    BY <1>2, <1>8, <2>2, <2>3, <2>4 DEF DeliveryInv
<1>9. CASE pc' = "raised" /\ UNCHANGED seen
  BY <1>2, <1>6, <1>9 DEF DeliveryInv, EveryRowOnce, EndedMeansComplete,
     NoRowTwice, Final
<1>10. CASE /\ pc' = "ids" /\ opts.onTruncation = "split" /\ UNCHANGED seen
  BY <1>2, <1>5, <1>6, <1>10 DEF DeliveryInv, EveryRowOnce,
     EndedMeansComplete, NoRowTwice, Final
<1>11. QED
  BY <1>1, <1>2, <1>7, <1>8, <1>9, <1>10

(* The tasks of bs are awaited and come up in the order of line. *)
LEMMA TakeRows ==
  ASSUME AllInv, pc = "wait", NEW bs \in SUBSET Finished, bs \cap awaited = {},
         NEW line \in Seq(bs), IsInjective(line), ToSet(line) = bs,
         line # <<>>, Take(bs, line),
         opts.order = "completion" /\ opts.window = 0 =>
           /\ Cardinality(awaited) < Len(arrived)
           /\ bs = {arrived[Cardinality(awaited) + 1]}
  PROVE  RowsInv'
<1> DEFINE n == IF opts.window = 0 THEN 0 ELSE Cardinality(bs)
           made == Submit(n)
           b == Head(line)
<1>1. opts' = opts /\ awaited' = awaited \cup bs
      /\ UNCHANGED <<clipped, arrived, todo>>
  BY DEF Take
<1>2. bs \in SUBSET Batches /\ awaited \in SUBSET Batches /\ task \in TaskMaps
  BY TaskSets DEF AllInv, IInv, StreamTypes
<1>3. CASE Stop("raised", task) /\ UNCHANGED <<ready, cur, seen>>
  BY <1>1, <1>3, StopRows DEF Final
<1>4. CASE ready' = Tail(line) /\ Resolve(b, made)
  <2>1. n \in Nat /\ opts.window \in Nat
    BY <1>2, BatchesAreFinite, WindowType DEF AllInv, IInv, StreamTypes
  <2>2. /\ made \in TaskMaps /\ SameEnded(made, task)
        /\ Made(task) \subseteq Made(made)
        /\ Made(made) = Batches \/ Cardinality(Made(made)) = Cardinality(Made(task)) + n
    BY <1>2, <2>1, SubmitNext DEF AllInv, IInv
  <2> HIDE DEF n, made
  <2>3. /\ Made(task') = Made(made) /\ SameEnded(task', made)
        /\ pc' \in {"yield", "ids", "raised"} /\ cur' = b
    BY <1>4, <2>2, ResolveEnds
  <2>4. Finished' = Finished
    <3>1. SameEnded(task', task)
      BY <2>2, <2>3 DEF SameEnded
    <3>2. QED
      BY <3>1, EndedStay
  <2>5. /\ b \in bs /\ ready' \in Seq(bs) /\ IsInjective(ready')
        /\ ToSet(ready') = bs \ {b}
    BY <1>4, FirstOfLine
  <2>6. ready = <<>> /\ todo = <<>>
    BY DEF AllInv, RowsInv, HandInv, SplitInv, Final
  <2>7. Resolved = awaited /\ Resolved' = Resolved \cup {b} /\ b \notin Resolved
    <3>1. ToSet(ready) = {}
      BY <2>6 DEF ToSet
    <3>2. Resolved = awaited
      BY <3>1 DEF Resolved
    <3>3. Resolved' = (awaited \cup bs) \ (bs \ {b})
      BY <1>1, <2>5 DEF Resolved
    <3>4. QED
      BY <2>5, <3>2, <3>3
  <2> HIDE DEF b
  <2>8. SplitInv' /\ DeliveryInv'
    BY <1>1, <1>2, <1>4, <2>5, <2>6, <2>7, ResolveRows
  <2>9. ArrivalInv'
    BY <1>1, <2>4 DEF AllInv, RowsInv, ArrivalInv
  <2>10. Cardinality(awaited') = Cardinality(awaited) + Cardinality(bs)
         /\ Cardinality(awaited) \in Nat /\ Cardinality(bs) \in Nat
    <3>1. IsFiniteSet(awaited) /\ IsFiniteSet(bs)
      BY <1>2, BatchesAreFinite
    <3>2. Cardinality(awaited \cup bs) =
            Cardinality(awaited) + Cardinality(bs) - Cardinality(awaited \cap bs)
      BY <3>1, FS_Union
    <3>3. awaited \cap bs = {}
      OBVIOUS
    <3>4. Cardinality(awaited \cap bs) = 0
      BY <3>3, FS_EmptySet, Zenon
    <3>5. Cardinality(awaited) \in Nat /\ Cardinality(bs) \in Nat
      BY <3>1, FS_CardinalityType
    <3>6. QED
      BY <1>1, <3>2, <3>4, <3>5
  <2>11. opts.order = "completion" /\ opts.window = 0 =>
           /\ Cardinality(awaited') <= Len(arrived)
           /\ awaited' = {arrived[i] : i \in 1..Cardinality(awaited')}
    <3> SUFFICES ASSUME opts.order = "completion", opts.window = 0
                 PROVE  /\ Cardinality(awaited') <= Len(arrived)
                        /\ awaited' = {arrived[i] : i \in 1..Cardinality(awaited')}
      OBVIOUS
    <3> DEFINE m == Cardinality(awaited)
    <3>1. Len(arrived) \in Nat
      BY LenProperties DEF AllInv, RowsInv, ArrivalInv
    <3>2. Cardinality(bs) = 1
      BY FS_Singleton
    <3>3. Cardinality(awaited') = m + 1 /\ m \in Nat
      BY <2>10, <3>2
    <3>4. awaited = {arrived[i] : i \in 1..m}
      BY DEF AllInv, RowsInv, HandInv, Final
    <3>5. m < Len(arrived) /\ bs = {arrived[m + 1]}
      OBVIOUS
    <3> HIDE DEF m
    <3>6. 1..(m + 1) = 1..m \cup {m + 1}
      BY <3>3
    <3>7. awaited' = {arrived[i] : i \in 1..(m + 1)}
      BY <1>1, <3>4, <3>5, <3>6
    <3>8. QED
      BY <3>1, <3>3, <3>5, <3>7
  <2>12. HandInv'
    <3>1. bs \subseteq awaited'
      BY <1>1
    <3>2. ready' \in Seq(awaited')
      BY <2>5, <3>1, SeqMonotonic
    <3>3. cur' \in Batches /\ cur' \in Resolved'
      BY <1>2, <2>3, <2>5, <2>7
    <3>4. QED
      BY <1>1, <2>3, <2>5, <2>11, <3>2, <3>3 DEF HandInv
  <2>13. FullInv'
    <3>1. CASE Made(task) = Batches
      BY <2>2, <2>3, <3>1 DEF FullInv, Made
    <3>2. CASE /\ opts.window > 0
               /\ Cardinality(Made(task)) = opts.window + Cardinality(awaited)
      <4>1. n = Cardinality(bs)
        BY <2>1, <3>2 DEF n
      <4>2. \/ Made(task') = Batches
            \/ Cardinality(Made(task')) = opts.window + Cardinality(awaited')
        BY <2>1, <2>2, <2>3, <2>10, <3>2, <4>1
      <4>3. QED
        BY <1>1, <3>2, <4>2 DEF FullInv
    <3>3. QED
      BY <3>1, <3>2 DEF AllInv, RowsInv, FullInv, Final
  <2>14. QED
    BY <2>8, <2>9, <2>12, <2>13 DEF RowsInv
<1>5. QED
  BY <1>3, <1>4 DEF Take

(* The three ways to await tasks. *)
LEMMA TakesRows ==
  ASSUME AllInv, TakeInOrder \/ TakeNextCompleted \/ TakeRound
  PROVE  RowsInv'
<1>1. awaited \in SUBSET Batches /\ awaited \subseteq Finished
      /\ Finished \subseteq Batches
  BY TaskSets DEF AllInv, IInv, StreamTypes
<1>2. ASSUME NEW b \in Finished
      PROVE  /\ <<b>> \in Seq({b}) /\ IsInjective(<<b>>) /\ ToSet(<<b>>) = {b}
             /\ <<b>> # <<>>
  BY DEF IsInjective, ToSet
<1>3. CASE TakeInOrder
  <2>1. pc = "wait" /\ opts.order = "request"
    BY <1>3 DEF TakeInOrder
  <2>2. cur \in Nat /\ awaited = 1..cur
    BY <2>1 DEF AllInv, IInv, OrderInv, Final
  <2>3. Cardinality(awaited) = cur
    BY <2>2, Count
  <2>4. cur + 1 \in Finished /\ Take({cur + 1}, <<cur + 1>>)
    BY <1>3, <2>3 DEF TakeInOrder
  <2>5. {cur + 1} \cap awaited = {} /\ opts.order # "completion"
    BY <2>1, <2>2
  <2>6. QED
    BY <1>2, <2>1, <2>4, <2>5, TakeRows
<1>4. CASE TakeNextCompleted
  <2> DEFINE m == Cardinality(awaited)
             b == arrived[m + 1]
  <2>1. /\ pc = "wait" /\ opts.order = "completion" /\ opts.window = 0
        /\ m < Len(arrived) /\ Take({b}, <<b>>)
    <3>1. Len(arrived) > m /\ Len(arrived) \in Nat /\ m \in Nat
      BY <1>1, <1>4, BatchesAreFinite, LenProperties
      DEF TakeNextCompleted, AllInv, RowsInv, ArrivalInv
    <3>2. QED
      BY <1>4, <3>1 DEF TakeNextCompleted
  <2>2. /\ m \in Nat /\ awaited = {arrived[i] : i \in 1..m}
        /\ arrived \in Seq(Batches) /\ IsInjective(arrived)
        /\ ToSet(arrived) = Finished /\ DOMAIN arrived = 1..Len(arrived)
        /\ Len(arrived) \in Nat
    BY <1>1, <2>1, BatchesAreFinite, LenProperties
    DEF AllInv, RowsInv, ArrivalInv, HandInv, Final
  <2> HIDE DEF m
  <2>3. m + 1 \in 1..Len(arrived)
    BY <2>1, <2>2
  <2>4. b \in Finished
    BY <2>2, <2>3 DEF ToSet
  <2>5. {b} \cap awaited = {}
    <3> SUFFICES ASSUME NEW i \in 1..m, b = arrived[i] PROVE FALSE
      BY <2>2
    <3>1. i \in 1..Len(arrived) /\ i # m + 1
      BY <2>1, <2>2
    <3>2. QED
      BY <2>2, <2>3, <3>1 DEF IsInjective
  <2>6. m < Len(arrived) /\ {b} = {arrived[m + 1]}
    BY <2>1
  <2> HIDE DEF b
  <2>7. QED
    BY <1>2, <2>1, <2>4, <2>5, <2>6, TakeRows DEF m
<1>5. CASE TakeRound
  <2> DEFINE round == Finished \ awaited
  <2>1. /\ pc = "wait" /\ opts.order = "completion" /\ opts.window > 0
        /\ round # {}
        /\ \E line \in SetToSeqs(round) : Take(round, line)
    BY <1>5 DEF TakeRound
  <2>2. PICK line \in SetToSeqs(round) : Take(round, line)
    BY <2>1
  <2>3. round \in SUBSET Finished /\ round \cap awaited = {} /\ IsFiniteSet(round)
    BY <1>1, BatchesAreFinite
  <2> HIDE DEF round
  <2>4. line \in Seq(round) /\ IsInjective(line) /\ ToSet(line) = round
    BY <2>3, LinesAreWhole
  <2>5. line # <<>>
    BY <2>1, <2>4 DEF ToSet
  <2>6. opts.window # 0
    BY <2>1
  <2>7. QED
    BY <2>1, <2>2, <2>3, <2>4, <2>5, <2>6, TakeRows
<1>6. QED
  BY <1>3, <1>4, <1>5

(* Sub-requests for rows of the layer, at depths that are allowed. *)
LEMMA DepthsGrow ==
  ASSUME NEW lo \in Nat, NEW hi \in Nat, NEW cap \in Nat, NEW s,
         NEW some, NEW depths, some \subseteq depths,
         Covers(s, lo, hi, cap, some)
  PROVE  Covers(s, lo, hi, cap, depths)
<1>1. Nodes(some) \subseteq Nodes(depths)
  BY DEF Nodes
<1>2. Seq(Nodes(some)) \subseteq Seq(Nodes(depths))
  BY <1>1, SeqMonotonic
<1>3. QED
  BY <1>2 DEF Covers

(* What is left of a bisection is for rows of the layer. *)
LEMMA CoveredRows ==
  ASSUME NEW lo \in Rows, NEW hi \in Rows, NEW depths, NEW s,
         Covers(s, lo, hi, Cap, depths)
  PROVE  \A i \in 1..Len(s) : NodeRows(s[i]) \subseteq Rows
<1> SUFFICES ASSUME NEW i \in 1..Len(s) PROVE NodeRows(s[i]) \subseteq Rows
  OBVIOUS
<1>1. s[i] \in Nodes(depths) /\ Within(s[i], lo, hi, Cap)
  BY ElementOfSeq DEF Covers
<1>2. QED
  BY <1>1, Parameters DEF Nodes, Within, NodeRows, Rows

(* A truncated request for rows lo..hi of a batch whose ids end at last,   *)
(* with the rest of the bisection behind it.                               *)
LEMMA SplitRows ==
  ASSUME AllInv, pc \in {"ids", "split"}, pc = "ids" => cur \in Batches,
         UNCHANGED <<opts, clipped, arrived, awaited, ready, cur, seen>>,
         NEW first \in Oids(cur), NEW last \in Oids(cur), Oids(cur) = first..last,
         Oids(cur) \subseteq Rows,
         NEW lo \in Oids(cur), NEW hi \in Oids(cur), NEW depth \in 0..MaxDepth,
         NEW rest, rest = <<>> => hi = last,
         rest # <<>> => Covers(rest, hi + 1, last, Cap, 1..MaxDepth),
         Split(lo, hi, depth, rest),
         Owed \subseteq Unresolved \cup {r \in Oids(cur) : lo <= r},
         opts.byOid => Owed = Unresolved \cup {r \in Oids(cur) : lo <= r}
  PROVE  RowsInv'
<1>1. CASE Stop("raised", task) /\ UNCHANGED todo
  BY <1>1, StopRows DEF Final
<1>2. CASE /\ depth < MaxDepth /\ lo < hi
           /\ todo' = Bisect(lo, hi, Cap, depth + 1) \o rest
           /\ pc' = "split" /\ UNCHANGED task
  <2>1. /\ lo \in Nat /\ hi \in Nat /\ first \in Nat /\ last \in Nat
        /\ first <= lo /\ hi <= last /\ lo \in Rows /\ last \in Rows
    BY Parameters DEF Rows
  <2>2. Covers(Bisect(lo, hi, Cap, depth + 1), lo, hi, Cap, {depth + 1})
    BY <1>2, <2>1, Parameters, BisectCovers
  <2>3. {depth + 1} \subseteq 1..MaxDepth
    BY <1>2, Parameters
  <2>4. Covers(Bisect(lo, hi, Cap, depth + 1), lo, hi, Cap, 1..MaxDepth)
    BY <2>1, <2>2, <2>3, Parameters, DepthsGrow
  <2>5. Covers(todo', lo, last, Cap, 1..MaxDepth)
    <3>1. CASE rest = <<>>
      <4>1. Bisect(lo, hi, Cap, depth + 1) \in Seq(Nodes(1..MaxDepth))
        BY <2>4 DEF Covers
      <4>2. todo' = Bisect(lo, hi, Cap, depth + 1)
        BY <1>2, <3>1, <4>1, ConcatEmptySeq
      <4>3. QED
        BY <2>4, <3>1, <4>2
    <3>2. CASE rest # <<>>
      <4>1. lo <= hi + 1 /\ hi <= last
        BY <1>2, <2>1
      <4>2. QED
        BY <1>2, <2>1, <2>4, <3>2, <4>1, Parameters, ConcatCovers
    <3>3. QED
      BY <3>1, <3>2
  <2>6. todo' # <<>> /\ Head(todo').lo = lo
    <3>1. ~(last < lo)
      BY <1>2, <2>1
    <3>2. todo' # <<>>
      BY <2>5, <3>1 DEF Covers
    <3>3. QED
      BY <2>1, <2>5, <3>2, Parameters, TailCovers
  <2>7. opts.onTruncation = "split" /\ cur \in Resolved
    BY DEF AllInv, RowsInv, SplitInv, HandInv, Final
  <2>8. SplitInv'
    <3>1. todo' \in Seq(Nodes(1..MaxDepth))
      BY <2>5 DEF Covers
    <3>2. \A i \in 1..Len(todo') : NodeRows(todo'[i]) \subseteq Rows
      BY <2>1, <2>5, CoveredRows
    <3>3. /\ Oids(cur)' = first..last /\ first <= Head(todo').lo
          /\ Covers(todo', Head(todo').lo, last, Cap, 1..MaxDepth)
          /\ first \in Oids(cur)' /\ last \in Oids(cur)'
      BY <2>1, <2>5, <2>6 DEF Oids
    <3>4. QED
      BY <1>2, <2>6, <2>7, <3>1, <3>2, <3>3 DEF SplitInv
  <2>9. Finished' = Finished /\ Made(task') = Made(task) /\ Resolved' = Resolved
    BY <1>2 DEF Finished, InState, Resolved
  <2>10. ArrivalInv' /\ HandInv' /\ FullInv'
    BY <1>2, <2>9 DEF AllInv, RowsInv, ArrivalInv, HandInv, FullInv, Final
  <2>11. Owed' = Unresolved \cup {r \in Oids(cur) : lo <= r}
    BY <1>2, <2>6, <2>9 DEF Owed, Unresolved, BeingSplit, Oids
  <2>12. Owed \subseteq Owed' /\ (opts.byOid => Owed' = Owed)
    BY <2>11
  <2>13. DeliveryInv'
    BY <1>2, <2>7, <2>12 DEF AllInv, RowsInv, DeliveryInv, EveryRowOnce,
       EndedMeansComplete, NoRowTwice, Final
  <2>14. QED
    BY <2>8, <2>10, <2>13 DEF RowsInv
<1>3. QED
  BY <1>1, <1>2 DEF Split

(* The ids are there: the first split of a page. *)
LEMMA ObjectIdsRows ==
  ASSUME AllInv, ObjectIds
  PROVE  RowsInv'
<1>1. /\ pc = "ids"
      /\ UNCHANGED <<opts, clipped, arrived, awaited, ready, cur, seen>>
  BY DEF ObjectIds
<1>2. CASE Stop("raised", task) /\ UNCHANGED todo
  BY <1>1, <1>2, StopRows DEF Final
<1>3. CASE \E lo, hi \in Oids(cur) : Oids(cur) = lo..hi /\ Split(lo, hi, 0, <<>>)
  <2>1. PICK lo \in Oids(cur), hi \in Oids(cur) :
          Oids(cur) = lo..hi /\ Split(lo, hi, 0, <<>>)
    BY <1>3
  <2>2. awaited \subseteq Batches /\ cur \in Resolved
    BY <1>1, TaskSets DEF AllInv, IInv, StreamTypes, RowsInv, HandInv, Final
  <2>3. cur \in Batches
    BY <2>2 DEF Resolved
  <2>4. /\ Span(cur) \subseteq Oids(cur) /\ Oids(cur) \subseteq Rows
        /\ opts.byOid => Oids(cur) = Span(cur)
    BY <2>3, IdsTakeInThePage
  <2>5. \A r \in Oids(cur) : lo <= r
    BY <2>1, <2>4, Parameters DEF Rows
  <2>6. Owed = Unresolved \cup Span(cur)
    BY <1>1 DEF Owed, BeingSplit
  <2>7. /\ Owed \subseteq Unresolved \cup {r \in Oids(cur) : lo <= r}
        /\ opts.byOid => Owed = Unresolved \cup {r \in Oids(cur) : lo <= r}
    BY <2>4, <2>5, <2>6
  <2>8. 0 \in 0..MaxDepth
    BY Parameters
  <2>9. QED
    BY <1>1, <2>1, <2>3, <2>4, <2>7, <2>8, SplitRows
<1>4. QED
  BY <1>2, <1>3 DEF ObjectIds

(* A sub-request is answered: its rows are delivered, or it is split again, *)
(* or the stream ends there.                                               *)
LEMMA SubFetchRows ==
  ASSUME AllInv, SubFetch
  PROVE  RowsInv'
<1> DEFINE n == Head(todo)
           rest == Tail(todo)
<1>1. /\ pc = "split"
      /\ UNCHANGED <<opts, clipped, arrived, awaited, ready, cur>>
  BY DEF SubFetch
<1>2. awaited \subseteq Batches /\ cur \in Resolved /\ todo # <<>>
  BY <1>1, TaskSets
  DEF AllInv, IInv, StreamTypes, RowsInv, HandInv, SplitInv, Final
<1>3. cur \in Batches
  BY <1>2 DEF Resolved
<1>4. /\ Span(cur) \subseteq Oids(cur) /\ Oids(cur) \subseteq Rows
      /\ opts.byOid => Oids(cur) = Span(cur)
  BY <1>3, IdsTakeInThePage
<1>5. PICK first \in Oids(cur), last \in Oids(cur) :
        /\ Oids(cur) = first..last /\ first <= n.lo
        /\ Covers(todo, n.lo, last, Cap, 1..MaxDepth)
  BY <1>1, <1>2 DEF AllInv, RowsInv, SplitInv, Final
<1>6. first \in Nat /\ last \in Nat
  BY <1>4, Parameters DEF Rows
<1>7. n.lo \in Nat /\ n.hi \in Nat /\ n.depth \in 1..MaxDepth
  <2>1. n \in Nodes(1..MaxDepth)
    BY <1>2, <1>5, HeadTailProperties DEF Covers
  <2>2. QED
    BY <2>1 DEF Nodes
<1>8. /\ n.lo <= n.hi /\ n.hi <= last
      /\ Covers(rest, n.hi + 1, last, Cap, 1..MaxDepth)
  BY <1>2, <1>5, <1>6, <1>7, Parameters, TailCovers
<1>9. Owed = Unresolved \cup {r \in Oids(cur) : n.lo <= r}
  BY <1>1, <1>2 DEF Owed, BeingSplit
<1>10. rest = <<>> => n.hi = last
  BY <1>6, <1>7, <1>8 DEF Covers
<1>11. rest # <<>> => Head(rest).lo = n.hi + 1
  <2>1. n.hi + 1 \in Nat
    BY <1>7
  <2> HIDE DEF rest
  <2>2. QED
    BY <1>6, <1>8, <2>1, Parameters, TailCovers
<1>12. n.lo \in Oids(cur) /\ n.hi \in Oids(cur) /\ n.depth \in 0..MaxDepth
  BY <1>5, <1>6, <1>7, <1>8, Parameters
<1> HIDE DEF n, rest
<1>13. CASE Stop("raised", task) /\ UNCHANGED <<todo, seen>>
  BY <1>1, <1>13, StopRows DEF Final
<1>14. CASE Split(n.lo, n.hi, n.depth, rest) /\ UNCHANGED seen
  <2>1. pc \in {"ids", "split"} /\ (pc = "ids" => cur \in Batches)
    BY <1>1
  <2>2. rest # <<>> => Covers(rest, n.hi + 1, last, Cap, 1..MaxDepth)
    BY <1>8
  <2>3. QED
    BY <1>1, <1>4, <1>5, <1>9, <1>10, <1>12, <1>14, <2>1, <2>2, SplitRows
<1>15. CASE /\ Deliver(NodeRows(n)) /\ todo' = rest /\ pc' = "yield"
            /\ UNCHANGED task
  <2>1. Finished' = Finished /\ Made(task') = Made(task) /\ Resolved' = Resolved
    BY <1>1, <1>15 DEF Finished, InState, Resolved
  <2>2. ArrivalInv' /\ HandInv' /\ FullInv'
    BY <1>1, <1>15, <2>1 DEF AllInv, RowsInv, ArrivalInv, HandInv, FullInv,
         Final
  <2>3. SplitInv'
    <3>1. rest \in Seq(Nodes(1..MaxDepth))
      BY <1>8 DEF Covers
    <3>2. \A i \in 1..Len(rest) : NodeRows(rest[i]) \subseteq Rows
      <4>1. CASE rest = <<>>
        BY <4>1
      <4>2. CASE rest # <<>>
        <5>1. n.hi + 1 <= last
          <6>1. Head(rest).lo <= Head(rest).hi /\ Head(rest).hi <= last
                /\ Head(rest) \in Nodes(1..MaxDepth)
            BY <1>6, <1>7, <1>8, <1>11, <4>2, Parameters, TailCovers
          <6>2. QED
            BY <1>6, <1>7, <1>11, <4>2, <6>1 DEF Nodes
        <5>2. n.hi + 1 \in Rows /\ last \in Rows
          BY <1>4, <1>6, <1>7, <5>1, Parameters DEF Rows
        <5>3. QED
          BY <1>8, <5>2, CoveredRows
      <4>3. QED
        BY <4>1, <4>2
    <3>3. opts.onTruncation = "split"
      BY <1>1, <1>2 DEF AllInv, RowsInv, SplitInv, Final
    <3>4. rest # <<>> =>
            /\ Oids(cur)' = first..last /\ first <= Head(rest).lo
            /\ Covers(rest, Head(rest).lo, last, Cap, 1..MaxDepth)
            /\ first \in Oids(cur)' /\ last \in Oids(cur)'
      BY <1>1, <1>5, <1>6, <1>7, <1>8, <1>11 DEF Oids
    <3>5. QED
      BY <1>1, <1>15, <3>1, <3>2, <3>3, <3>4 DEF SplitInv
  <2>4. Owed' = Unresolved \cup {r \in Oids(cur) : n.hi < r}
    <3>1. CASE rest = <<>>
      <4>1. {r \in Oids(cur) : n.hi < r} = {}
        BY <1>5, <1>6, <1>10, <3>1
      <4>2. BeingSplit' = {}
        BY <1>15, <3>1 DEF BeingSplit
      <4>3. QED
        BY <2>1, <4>1, <4>2 DEF Owed, Unresolved, Span
    <3>2. CASE rest # <<>>
      <4>1. BeingSplit' = {r \in Oids(cur) : n.hi + 1 <= r}
        BY <1>1, <1>11, <1>15, <3>2 DEF BeingSplit, Oids
      <4>2. \A r \in Oids(cur) : n.hi < r <=> n.hi + 1 <= r
        BY <1>5, <1>6, <1>7
      <4>3. QED
        BY <2>1, <4>1, <4>2 DEF Owed, Unresolved, Span
    <3>3. QED
      BY <3>1, <3>2
  <2>5. \A r \in Rows : r \in NodeRows(n) <=> r \in n.lo..n.hi
    BY DEF NodeRows
  <2>6. \A r \in Rows : seen'[r] = IF r \in n.lo..n.hi THEN seen[r] + 1 ELSE seen[r]
    BY <1>15, <2>5 DEF Deliver
  <2>7. seen \in [Rows -> Nat] /\ seen' \in [Rows -> Nat]
    BY <1>15 DEF Deliver, AllInv, RowsInv, DeliveryInv
  <2>8. n.lo..n.hi \subseteq Oids(cur) /\ n.lo..n.hi \subseteq Owed
        /\ Owed \subseteq Owed' \cup n.lo..n.hi /\ Owed' \subseteq Owed
    <3>1. n.lo..n.hi \subseteq Oids(cur)
      BY <1>5, <1>6, <1>7, <1>8
    <3>2. \A r \in Oids(cur) : r \in Nat
      BY <1>5, <1>6
    <3>3. QED
      BY <1>7, <1>8, <1>9, <2>4, <3>1, <3>2
  <2>9. opts.onTruncation # "ignore" => \A r \in Rows \ Owed' : seen'[r] >= 1
    <3>1. opts.onTruncation # "ignore" => \A r \in Rows \ Owed : seen[r] >= 1
      BY <1>1 DEF AllInv, RowsInv, DeliveryInv, Final
    <3>2. QED
      BY <2>6, <2>7, <2>8, <3>1
  <2>10. opts.onTruncation = "split"
    BY <1>1, <1>2 DEF AllInv, RowsInv, SplitInv, Final
  <2>11. opts.byOid => \A r \in Owed : seen[r] = 0
    BY <1>1 DEF AllInv, RowsInv, DeliveryInv, Final
  <2>12. opts.byOid => \A r \in Owed' : seen'[r] = 0
    <3> SUFFICES ASSUME opts.byOid, NEW r \in Owed' PROVE seen'[r] = 0
      OBVIOUS
    <3>1. r \in Owed /\ r \in Rows
      BY <1>4, <2>4, <2>8 DEF Unresolved
    <3>2. r \notin n.lo..n.hi
      <4>1. CASE r \in Unresolved
        BY <1>2, <1>4, <2>8, <4>1 DEF Unresolved
      <4>2. CASE n.hi < r
        BY <1>7, <4>2
      <4>3. QED
        BY <2>4, <4>1, <4>2
    <3>3. QED
      BY <2>6, <2>11, <3>1, <3>2
  <2>13. EveryRowOnce'
    <3>1. opts.byOid => \A r \in Rows : seen'[r] <= 1
      <4>1. opts.byOid => \A r \in Rows : seen[r] <= 1
        BY DEF AllInv, RowsInv, DeliveryInv, EveryRowOnce, NoRowTwice
      <4>2. QED
        BY <2>6, <2>7, <2>8, <2>11, <4>1
    <3>2. QED
      BY <1>1, <1>15, <2>10, <3>1
      DEF EveryRowOnce, EndedMeansComplete, NoRowTwice
  <2>14. DeliveryInv'
    BY <1>1, <1>15, <2>7, <2>9, <2>10, <2>12, <2>13 DEF DeliveryInv
  <2>15. QED
    BY <2>2, <2>3, <2>14 DEF RowsInv
<1>16. QED
  BY <1>13, <1>14, <1>15 DEF SubFetch, n, rest

(* The consumer goes on with a round, with a bisection, or to the end.     *)
LEMMA PullRows ==
  ASSUME AllInv, Pull
  PROVE  RowsInv'
<1>1. /\ pc = "yield" /\ UNCHANGED <<opts, clipped, arrived, awaited, todo>>
      /\ task \in TaskMaps /\ SameEnded(task, task)
  BY DEF Pull, AllInv, IInv, StreamTypes, SameEnded
<1>2. awaited \subseteq Batches /\ Resolved \subseteq Batches
  BY TaskSets DEF AllInv, IInv, StreamTypes, Resolved
<1>3. CASE /\ todo # <<>> /\ pc' = "split"
           /\ UNCHANGED <<task, ready, cur, seen>>
  BY <1>1, <1>3, QuietRows DEF Final
<1>4. CASE /\ todo = <<>> /\ ready # <<>> /\ ready' = Tail(ready)
           /\ Resolve(Head(ready), task)
  <2> DEFINE b == Head(ready)
  <2>1. /\ Made(task') = Made(task) /\ SameEnded(task', task)
        /\ pc' \in {"yield", "ids", "raised"} /\ cur' = b
    BY <1>1, <1>4, ResolveEnds
  <2>2. ready \in Seq(awaited) /\ IsInjective(ready)
    BY <1>1 DEF AllInv, RowsInv, HandInv, Final
  <2>3. /\ b \in awaited /\ b \in ToSet(ready)
        /\ ready' \in Seq(awaited) /\ IsInjective(ready')
        /\ ToSet(ready') = ToSet(ready) \ {b}
    BY <1>4, <2>2, FirstOfLine
  <2> HIDE DEF b
  <2>4. b \notin Resolved /\ Resolved' = Resolved \cup {b}
    BY <1>1, <2>3 DEF Resolved
  <2>5. SplitInv' /\ DeliveryInv'
    BY <1>1, <1>2, <1>4, <2>3, <2>4, ResolveRows DEF b
  <2>6. ArrivalInv'
    BY <1>1, <2>1, EndedStay DEF AllInv, RowsInv, ArrivalInv
  <2>7. HandInv'
    BY <1>1, <1>2, <2>1, <2>3, <2>4 DEF AllInv, RowsInv, HandInv, Final
  <2>8. FullInv'
    BY <1>1, <2>1 DEF AllInv, RowsInv, FullInv, Final
  <2>9. QED
    BY <2>5, <2>6, <2>7, <2>8 DEF RowsInv
<1>5. CASE /\ todo = <<>> /\ ready = <<>> /\ UNCHANGED <<ready, cur, seen>>
           /\ awaited # Submitted /\ pc' = "wait" /\ UNCHANGED task
  BY <1>1, <1>5, QuietRows DEF Final
<1>6. CASE /\ todo = <<>> /\ ready = <<>> /\ UNCHANGED <<ready, cur, seen>>
           /\ awaited = Submitted /\ Stop("ended", task)
  <2>1. awaited = Made(task)
    BY <1>6, TaskSets
  <2>2. Made(task) = Batches
    <3>1. Cardinality(awaited) \in Nat
      BY <1>2, BatchesAreFinite
    <3>2. opts.window \in Nat
      BY WindowType DEF AllInv, IInv, StreamTypes
    <3>3. ~ (/\ opts.window > 0
             /\ Cardinality(Made(task)) = opts.window + Cardinality(awaited))
      <4>1. Cardinality(Made(task)) = Cardinality(awaited)
        BY <2>1, Zenon
      <4>2. QED
        BY <3>1, <3>2, <4>1
    <3>4. QED
      BY <1>1, <3>3 DEF AllInv, RowsInv, FullInv, Final
  <2>3. Resolved = Batches
    BY <1>6, <2>1, <2>2 DEF Resolved, ToSet
  <2>4. Owed = {}
    BY <1>1, <1>6, <2>3, SpansShareRows DEF Owed, Unresolved, BeingSplit
  <2>5. EndedMeansComplete'
    BY <1>1, <1>6, <2>4
    DEF EndedMeansComplete, AllInv, RowsInv, DeliveryInv, Final
  <2>6. QED
    BY <1>1, <1>6, <2>5, StopRows DEF Final
<1>7. QED
  BY <1>3, <1>4, <1>5, <1>6 DEF Pull

(* A stream that could not plan delivers nothing. *)
LEMMA PlanFailsRows ==
  ASSUME AllInv, PlanFails
  PROVE  RowsInv'
<1>1. /\ pc = "planning" /\ pc' = "raised"
      /\ UNCHANGED <<opts, task, clipped, arrived, awaited, ready, todo, cur, seen>>
  BY DEF PlanFails
<1>2. ArrivalInv' /\ HandInv' /\ FullInv' /\ SplitInv'
  BY <1>1 DEF AllInv, RowsInv, ArrivalInv, HandInv, FullInv, SplitInv, Final,
     Finished, InState
<1>3. DeliveryInv'
  BY <1>1 DEF AllInv, RowsInv, DeliveryInv, EveryRowOnce, NoRowTwice,
     EndedMeansComplete, Final
<1>4. QED
  BY <1>2, <1>3 DEF RowsInv

(* Each step delivers rows that were owed, and only those.                 *)
LEMMA RowsPreserved == AllInv /\ [Next]_vars => RowsInv'
<1> SUFFICES ASSUME AllInv, [Next]_vars PROVE RowsInv'
  OBVIOUS
<1>1. CASE UNCHANGED vars
  <2>1. /\ UNCHANGED <<opts, pc, task, clipped, arrived, awaited, ready, todo,
                       cur, seen>>
        /\ Finished' = Finished /\ Owed' = Owed /\ Resolved' = Resolved
    BY <1>1, OwedStays DEF vars, Finished, InState
  <2>2. ArrivalInv' /\ HandInv' /\ FullInv'
    BY <2>1 DEF AllInv, RowsInv, ArrivalInv, HandInv, FullInv
  <2>3. SplitInv'
    BY <2>1 DEF AllInv, RowsInv, SplitInv, Oids
  <2>4. DeliveryInv'
    BY <2>1 DEF AllInv, RowsInv, DeliveryInv, EveryRowOnce, NoRowTwice,
       EndedMeansComplete
  <2>5. QED
    BY <2>2, <2>3, <2>4 DEF RowsInv
<1>2. CASE Generator
  BY <1>2, PlanRows, PlanFailsRows, TakesRows, ObjectIdsRows, SubFetchRows
  DEF Generator
<1>3. CASE Close
  BY <1>3, StopRows DEF Close, Final
<1>4. CASE Pull
  BY <1>4, PullRows
<1>5. ASSUME NEW b \in Batches, FetchEnds(b)
      PROVE  RowsInv'
  BY <1>5, FetchEndsRows
<1>6. QED
  BY <1>1, <1>2, <1>3, <1>4, <1>5 DEF Next, Stopped

(* Tasks and rows are accounted for in every state. *)
LEMMA AllHolds == Spec => []AllInv
<1>1. Init => AllInv
  BY InitEstablishes, InitRows DEF AllInv
<1>2. AllInv /\ [Next]_vars => AllInv'
  BY NextPreserves, RowsPreserved DEF AllInv
<1>3. QED
  BY <1>1, <1>2, PTL DEF Spec

(* In every mode, and for every order in which the fetches end, a stream   *)
(* that ends normally has delivered every row unless it ignores truncation *)
(* and no row comes twice unless a truncated page is split by the ids of   *)
(* the whole query (getgdf.py:858-1048).                                   *)
THEOREM RowsComeOnce == Spec => []EveryRowOnce
<1>1. AllInv => EveryRowOnce
  BY DEF AllInv, RowsInv, DeliveryInv
<1>2. QED
  BY <1>1, AllHolds, PTL

(* Everything the generator keeps has its type, the sub-requests of a       *)
(* bisection and their depths included.                                    *)
THEOREM TypesHold == Spec => []TypeOK
<1>1. ASSUME AllInv PROVE TypeOK
  <2>1. awaited \subseteq ToSet(arrived)
    BY <1>1 DEF AllInv, IInv, StreamTypes, RowsInv, ArrivalInv
  <2>2. \A i \in DOMAIN todo :
          NodeRows(todo[i]) \subseteq Rows /\ todo[i].depth \in 1..MaxDepth
    <3>1. /\ todo \in Seq(Nodes(1..MaxDepth)) /\ DOMAIN todo = 1..Len(todo)
          /\ \A i \in 1..Len(todo) : NodeRows(todo[i]) \subseteq Rows
      BY <1>1, LenProperties DEF AllInv, RowsInv, SplitInv
    <3>2. \A i \in 1..Len(todo) : todo[i] \in Nodes(1..MaxDepth)
      BY <3>1, ElementOfSeq
    <3>3. QED
      BY <3>1, <3>2 DEF Nodes
  <2>3. QED
    BY <1>1, <2>1, <2>2
    DEF TypeOK, TaskMaps, AllInv, IInv, StreamTypes, RowsInv, ArrivalInv,
        HandInv, DeliveryInv
<1>2. QED
  BY <1>1, AllHolds, PTL

-----------------------------------------------------------------------------
(* What the consumer sees *)

(* In request order what is owed are the last rows of the query.           *)
TailInv ==
  pc \notin Final /\ RowsAreNamed /\ opts.order = "request" =>
    \A r \in Owed, q \in Rows : r < q => q \in Owed

SeenInv == AllInv /\ TailInv

(* Later batches have later rows. *)
LEMMA SpansInOrder ==
  ASSUME NEW b \in Batches, NEW c \in Batches, b < c
  PROVE  \A r \in Span(b), q \in Span(c) : r \in Nat /\ q \in Nat /\ r < q
<1>1. b \in Nat \ {0} /\ c \in Nat \ {0}
  BY BatchesAreFinite DEF Batches
<1>2. QED
  BY <1>1, Parameters, WindowsInOrder DEF Span

(* A batch is for consecutive rows. *)
LEMMA SpansAreIntervals ==
  ASSUME NEW b \in Batches
  PROVE  \E lo, hi \in Rows : lo <= hi /\ Span(b) = lo..hi
<1>1. NumRows \in Nat /\ b \in 1..WindowCount(NumRows, PageSize)
  BY Parameters DEF Batches
<1>2. QED
  BY <1>1, Parameters, WindowsShareRows DEF Span, Rows

(* request order resolves the batches of the plan one after the other. *)
LEMMA ResolvedInOrder ==
  ASSUME AllInv, pc \notin Final, opts.order = "request"
  PROVE  /\ cur \in Nat /\ ready = <<>> /\ awaited = 1..cur
         /\ Resolved = 1..cur /\ Resolved \subseteq Batches
<1>1. cur \in Nat /\ ready = <<>> /\ awaited = 1..cur
  BY DEF AllInv, IInv, OrderInv
<1>2. ToSet(ready) = {}
  BY <1>1 DEF ToSet
<1>3. QED
  BY <1>1, <1>2, TaskSets DEF Resolved, AllInv, IInv, StreamTypes

(* A batch that is split has been resolved, and owes the last of its rows. *)
LEMMA SplitOwesTail ==
  ASSUME AllInv, pc \notin Final, RowsAreNamed
  PROVE  BeingSplit # {} =>
           /\ cur \in Resolved /\ BeingSplit \subseteq Span(cur)
           /\ \A r \in BeingSplit, q \in Span(cur) : r < q => q \in BeingSplit
<1> SUFFICES ASSUME BeingSplit # {}
             PROVE  /\ cur \in Resolved /\ BeingSplit \subseteq Span(cur)
                    /\ \A r \in BeingSplit, q \in Span(cur) : r < q => q \in BeingSplit
  OBVIOUS
<1>1. pc = "ids" \/ todo # <<>>
  BY DEF BeingSplit
<1>2. opts.onTruncation = "split" /\ pc \in {"ids", "split", "yield"}
  BY <1>1 DEF AllInv, IInv, StreamTypes, RowsInv, SplitInv
<1>3. cur \in Resolved /\ opts.byOid
  BY <1>2 DEF AllInv, RowsInv, HandInv, RowsAreNamed
<1>4. cur \in Batches
  BY <1>3, TaskSets DEF Resolved, AllInv, IInv, StreamTypes
<1>5. Oids(cur) = Span(cur) /\ Span(cur) \subseteq Rows
  BY <1>3, <1>4, IdsTakeInThePage
<1>6. CASE pc = "ids"
  BY <1>3, <1>6 DEF BeingSplit
<1>7. CASE pc # "ids"
  <2>1. todo # <<>> /\ BeingSplit = {r \in Span(cur) : Head(todo).lo <= r}
    BY <1>1, <1>5, <1>7 DEF BeingSplit
  <2>2. Head(todo).lo \in Nat
    <3>1. Head(todo) \in Nodes(1..MaxDepth)
      BY <2>1, HeadTailProperties DEF AllInv, RowsInv, SplitInv
    <3>2. QED
      BY <3>1 DEF Nodes
  <2>3. \A r \in Span(cur) : r \in Nat
    BY <1>5, Parameters DEF Rows
  <2>4. QED
    BY <1>3, <2>1, <2>2, <2>3
<1>8. QED
  BY <1>6, <1>7

LEMMA TailHolds == AllInv => TailInv
<1> SUFFICES ASSUME AllInv, pc \notin Final, RowsAreNamed,
                    opts.order = "request",
                    NEW r \in Owed, NEW q \in Rows, r < q
             PROVE  q \in Owed
  BY DEF TailInv
<1>1. /\ cur \in Nat /\ Resolved = 1..cur /\ Resolved \subseteq Batches
  BY ResolvedInOrder
<1>2. PICK c \in Batches : q \in Span(c)
  BY SpansShareRows
<1>3. c \in Nat /\ c >= 1
  BY BatchesAreFinite DEF Batches
<1>4. CASE c > cur
  <2>1. \A b \in Resolved : b # c
    BY <1>1, <1>3, <1>4
  <2>2. \A b \in Resolved : q \notin Span(b)
    BY <1>1, <1>2, <2>1, SpansShareRows
  <2>3. QED
    BY <2>2 DEF Owed, Unresolved
<1>5. CASE ~(c > cur)
  <2>1. c \in Resolved
    BY <1>1, <1>3, <1>5
  <2>2. PICK b \in Batches : r \in Span(b)
    BY <1>1, SplitOwesTail, SpansShareRows DEF Owed, Unresolved
  <2>3. b \in Nat /\ b >= 1
    BY BatchesAreFinite DEF Batches
  <2>4. ~(c < b)
    <3> SUFFICES ASSUME c < b PROVE FALSE
      OBVIOUS
    <3>1. q \in Nat /\ r \in Nat /\ q < r
      BY <1>2, <2>2, SpansInOrder
    <3>2. QED
      BY <3>1
  <2>5. b \in Resolved
    BY <1>1, <1>3, <1>5, <2>3, <2>4
  <2>6. r \in BeingSplit
    BY <2>2, <2>5 DEF Owed, Unresolved
  <2>7. b = cur
    BY <1>1, <2>2, <2>6, SplitOwesTail, SpansShareRows
  <2>8. c = b
    BY <1>1, <1>3, <1>5, <2>4, <2>7
  <2>9. QED
    BY <1>2, <2>6, <2>7, <2>8, SplitOwesTail DEF Owed
<1>6. QED
  BY <1>4, <1>5

(* Delivered and owed, in a stream that is not over. *)
LEMMA Accounts ==
  ASSUME AllInv, pc \notin Final
  PROVE  /\ seen \in [Rows -> Nat]
         /\ opts.onTruncation # "ignore" => \A r \in Rows \ Owed : seen[r] >= 1
         /\ RowsAreNamed => \A r \in Owed : seen[r] = 0
BY DEF AllInv, RowsInv, DeliveryInv, RowsAreNamed

(* A page is handed out, as it was promised. *)
LEMMA PageStep ==
  ASSUME SeenInv, SeenInv', pc \notin Final, pc' \notin Final, opts' = opts,
         NEW lo \in Rows, NEW hi \in Rows, lo <= hi, Deliver(lo..hi),
         RowsAreNamed /\ opts.order = "request" => lo..hi \subseteq Owed
  PROVE  Delivery!DeliveryNext
<1> DEFINE page == lo..hi
<1>1. page \subseteq Rows /\ \A r \in Rows : r \in Nat /\ r >= 1
  BY Parameters DEF Rows
<1>2. /\ seen \in [Rows -> Nat] /\ seen' \in [Rows -> Nat]
      /\ \A r \in Rows : seen'[r] = IF r \in page THEN seen[r] + 1 ELSE seen[r]
  BY Accounts DEF SeenInv, Deliver, AllInv, RowsInv, DeliveryInv
<1> HIDE DEF page
<1>3. Delivery!Given = {r \in Rows : seen[r] > 0}
  BY DEF Delivery!Given, Delivery!Rows, Rows
<1>4. ASSUME RowsAreNamed PROVE page \cap Delivery!Given = {}
  <2>1. \A r \in Rows : seen'[r] <= 1
    BY <1>4 DEF SeenInv, AllInv, RowsInv, DeliveryInv, EveryRowOnce, NoRowTwice,
       RowsAreNamed
  <2>2. QED
    BY <1>2, <1>3, <2>1
<1>5. ASSUME RowsAreNamed, opts.order = "request"
      PROVE  Delivery!NextPage(page)
  <2>1. page \subseteq Owed /\ \A r \in Owed : seen[r] = 0
    BY <1>5, Accounts DEF SeenInv, page
  <2>2. \A r \in Owed, q \in Rows : r < q => q \in Owed
    BY <1>5 DEF SeenInv, TailInv
  <2>3. ASSUME NEW r \in page, NEW q \in Delivery!Given PROVE q < r
    <3>1. q \in Rows /\ r \in Rows /\ q \notin Owed /\ r \in Owed
      BY <1>1, <1>3, <2>1, <2>3
    <3>2. ~(r < q) /\ r # q
      BY <2>2, <3>1
    <3>3. QED
      BY <1>1, <3>1, <3>2
  <2>4. ASSUME NEW r \in page, opts.onTruncation # "ignore", NEW q \in 1..r
        PROVE  q \in Delivery!Given \cup page
    <3>1. r \in Rows /\ q \in Rows /\ (q = r \/ q < r)
      BY <1>1, <2>4, Parameters DEF Rows
    <3>2. /\ \A x \in Rows \ Owed' : seen'[x] >= 1
          /\ \A x \in Owed' : seen'[x] = 0
      BY <1>5, <2>4 DEF SeenInv, AllInv, RowsInv, DeliveryInv, RowsAreNamed
    <3>3. \A x \in Owed', y \in Rows : x < y => y \in Owed'
      BY <1>5 DEF SeenInv, TailInv, RowsAreNamed, Final, Rows
    <3>4. r \notin Owed'
      BY <1>2, <2>4, <3>1, <3>2
    <3>5. q \notin Owed'
      BY <3>1, <3>3, <3>4
    <3>6. seen'[q] >= 1
      BY <3>1, <3>2, <3>5
    <3>7. QED
      BY <1>2, <1>3, <3>1, <3>6
  <2>5. QED
    BY <2>3, <2>4 DEF Delivery!NextPage, Promise
<1>6. Delivery!Deliver(page)
  <2>1. (IF pc = "ended" THEN "ended"
         ELSE IF pc \in Final THEN "stopped" ELSE "open") = "open"
    BY DEF Final
  <2>2. (IF pc' = "ended" THEN "ended"
         ELSE IF pc' \in Final THEN "stopped" ELSE "open") = "open"
    BY DEF Final
  <2>3. Promise' = Promise
    BY DEF Promise, RowsAreNamed
  <2>4. Promise.once = RowsAreNamed
        /\ Promise.inOrder = (RowsAreNamed /\ opts.order = "request")
    BY DEF Promise
  <2>5. seen' = [r \in Delivery!Rows |-> IF r \in page THEN seen[r] + 1 ELSE seen[r]]
    BY DEF Deliver, Delivery!Rows, Rows, page
  <2>6. QED
    BY <1>4, <1>5, <2>1, <2>2, <2>3, <2>4, <2>5 DEF Delivery!Deliver, Final
<1>7. QED
  BY <1>6 DEF Delivery!DeliveryNext, Delivery!Rows, Rows, page

(* Nothing is handed out: the stream goes on, or comes to its end.         *)
LEMMA SilentStep ==
  ASSUME SeenInv', UNCHANGED <<opts, seen>>, pc \in Final => pc' = pc
  PROVE  [Delivery!DeliveryNext]_Delivery!deliveryVars
<1>1. Promise' = Promise /\ Promise.whole = (opts.onTruncation # "ignore")
  BY DEF Promise, RowsAreNamed
<1>2. CASE pc \in Final \/ pc' \notin Final
  BY <1>1, <1>2 DEF Delivery!deliveryVars, Final
<1>3. CASE pc \notin Final /\ pc' = "ended"
  <2>1. opts.onTruncation # "ignore" => \A r \in Rows : seen[r] >= 1
    BY <1>3 DEF SeenInv, AllInv, RowsInv, DeliveryInv, EveryRowOnce,
       EndedMeansComplete
  <2>2. seen \in [Rows -> Nat]
    BY DEF SeenInv, AllInv, RowsInv, DeliveryInv
  <2>3. ASSUME opts.onTruncation # "ignore"
        PROVE  Delivery!Given = Delivery!Rows
    <3>1. \A r \in Rows : seen[r] \in Nat /\ seen[r] >= 1
      BY <2>1, <2>2, <2>3
    <3>2. \A r \in Rows : seen[r] > 0
      BY <3>1
    <3>3. QED
      BY <3>2 DEF Delivery!Given, Delivery!Rows, Rows
  <2>4. Delivery!End
    BY <1>1, <1>3, <2>3 DEF Delivery!End, Final
  <2>5. QED
    BY <2>4 DEF Delivery!DeliveryNext
<1>4. CASE pc \notin Final /\ pc' \in {"raised", "closed"}
  <2>1. Delivery!Stop
    BY <1>1, <1>4 DEF Delivery!Stop, Final
  <2>2. QED
    BY <2>1 DEF Delivery!DeliveryNext
<1>5. QED
  BY <1>2, <1>3, <1>4 DEF Final

(* The page of a batch is handed out whole, without its last row, or not.  *)
LEMMA ResolveStep ==
  ASSUME SeenInv, SeenInv', pc \notin Final, opts' = opts,
         NEW b \in Batches, NEW tasks, Resolve(b, tasks),
         RowsAreNamed /\ opts.order = "request" => Span(b) \subseteq Owed
  PROVE  [Delivery!DeliveryNext]_Delivery!deliveryVars
<1>1. PICK lo \in Rows, hi \in Rows : lo <= hi /\ Span(b) = lo..hi
  BY SpansAreIntervals
<1>2. lo \in Nat /\ hi \in Nat /\ lo >= 1 /\ hi <= NumRows /\ NumRows \in Nat
  BY Parameters DEF Rows
<1>3. CASE Deliver(Span(b)) /\ pc' = "yield"
  <2>1. Deliver(lo..hi) /\ pc' \notin Final
    BY <1>1, <1>3 DEF Final
  <2>2. Delivery!DeliveryNext
    BY <1>1, <2>1, PageStep
  <2>3. QED
    BY <2>2
<1>4. CASE Deliver({r \in Span(b) : r + 1 \in Span(b)}) /\ pc' = "yield"
  <2>1. pc' \notin Final
    BY <1>4 DEF Final
  <2>2. CASE lo < hi
    <3>1. hi - 1 \in Rows /\ lo <= hi - 1
      BY <1>2, <2>2 DEF Rows
    <3>2. {r \in Span(b) : r + 1 \in Span(b)} = lo..(hi - 1)
      <4>1. \A r \in lo..hi : r + 1 \in lo..hi <=> r <= hi - 1
        BY <1>2
      <4>2. \A r : r \in lo..(hi - 1) <=> r \in lo..hi /\ r <= hi - 1
        BY <1>2
      <4>3. QED
        BY <1>1, <4>1, <4>2
    <3>3. lo..(hi - 1) \subseteq lo..hi
      BY <1>2
    <3>4. Deliver(lo..(hi - 1))
      BY <1>4, <3>2
    <3>5. Delivery!DeliveryNext
      BY <1>1, <2>1, <3>1, <3>3, <3>4, PageStep
    <3>6. QED
      BY <3>5
  <2>3. CASE ~(lo < hi)
    <3>1. {r \in Span(b) : r + 1 \in Span(b)} = {}
      BY <1>1, <1>2, <2>3
    <3>2. Deliver({})
      BY <1>4, <3>1
    <3>3. seen' = [r \in Rows |-> seen[r]]
      BY <3>2 DEF Deliver
    <3>4. seen' = seen
      BY <3>3, Accounts DEF SeenInv
    <3>5. QED
      BY <3>4, SilentStep
  <2>4. QED
    BY <2>2, <2>3
<1>5. CASE UNCHANGED seen
  BY <1>5, SilentStep
<1>6. QED
  BY <1>3, <1>4, <1>5 DEF Resolve

(* A batch that is not resolved is owed whole. *)
LEMMA UnresolvedIsOwed ==
  ASSUME AllInv, NEW b \in Batches, b \notin Resolved
  PROVE  Span(b) \subseteq Owed
<1>1. Resolved \subseteq Batches
  BY TaskSets DEF Resolved, AllInv, IInv, StreamTypes
<1>2. QED
  BY <1>1, SpansShareRows DEF Owed, Unresolved

(* The generator takes up a page it has not resolved, or stops.            *)
LEMMA TakeSeen ==
  ASSUME SeenInv, SeenInv', pc \notin Final, NEW bs, NEW line, Take(bs, line),
         Head(line) \in Batches,
         opts.order = "request" => Head(line) \notin Resolved
  PROVE  [Delivery!DeliveryNext]_Delivery!deliveryVars
<1> DEFINE b == Head(line)
           tasks == Submit(IF opts.window = 0 THEN 0 ELSE Cardinality(bs))
<1>1. opts' = opts /\ (Resolve(b, tasks) \/ UNCHANGED seen)
  BY DEF Take
<1>2. CASE Resolve(b, tasks)
  <2>1. opts.order = "request" => Span(b) \subseteq Owed
    BY UnresolvedIsOwed DEF SeenInv
  <2> HIDE DEF b, tasks
  <2>2. b \in Batches
    BY DEF b
  <2>3. QED
    BY <1>1, <1>2, <2>1, <2>2, ResolveStep
<1>3. CASE UNCHANGED seen
  BY <1>1, <1>3, SilentStep
<1>4. QED
  BY <1>1, <1>2, <1>3

(* Whichever way tasks are awaited, the page taken up is a new one.        *)
LEMMA TakesSeen ==
  ASSUME SeenInv, SeenInv', TakeInOrder \/ TakeNextCompleted \/ TakeRound
  PROVE  [Delivery!DeliveryNext]_Delivery!deliveryVars
<1>1. /\ awaited \subseteq Finished /\ Finished \subseteq Batches
      /\ awaited \in SUBSET Batches /\ pc \notin Final
  BY TaskSets
  DEF SeenInv, AllInv, IInv, StreamTypes, TakeInOrder, TakeNextCompleted,
      TakeRound, Final
<1>2. \A b : Head(<<b>>) = b
  OBVIOUS
<1>3. CASE TakeInOrder
  <2>1. cur \in Nat /\ awaited = 1..cur /\ Resolved = 1..cur
    BY <1>1, <1>3, ResolvedInOrder DEF SeenInv, TakeInOrder
  <2>2. Cardinality(awaited) = cur
    BY <2>1, Count
  <2>3. cur + 1 \in Finished /\ Take({cur + 1}, <<cur + 1>>)
    BY <1>3, <2>2 DEF TakeInOrder
  <2>4. cur + 1 \in Batches /\ cur + 1 \notin Resolved
    BY <1>1, <2>1, <2>3
  <2>5. QED
    BY <1>1, <1>2, <2>3, <2>4, TakeSeen
<1>4. CASE TakeNextCompleted
  <2> DEFINE m == Cardinality(awaited)
             b == arrived[m + 1]
  <2>1. Take({b}, <<b>>) /\ opts.order = "completion" /\ Len(arrived) > m
    BY <1>4 DEF TakeNextCompleted
  <2>2. /\ arrived \in Seq(Batches) /\ Len(arrived) \in Nat /\ m \in Nat
    BY <1>1, BatchesAreFinite, LenProperties
    DEF SeenInv, AllInv, RowsInv, ArrivalInv
  <2> HIDE DEF m
  <2>3. m + 1 \in 1..Len(arrived)
    BY <2>1, <2>2
  <2>4. b \in Batches
    BY <2>2, <2>3, ElementOfSeq
  <2>5. opts.order # "request"
    BY <2>1
  <2> HIDE DEF b
  <2>6. QED
    BY <1>1, <1>2, <2>1, <2>4, <2>5, TakeSeen
<1>5. CASE TakeRound
  <2> DEFINE round == Finished \ awaited
  <2>1. /\ opts.order = "completion" /\ round # {}
        /\ \E line \in SetToSeqs(round) : Take(round, line)
    BY <1>5 DEF TakeRound
  <2>2. PICK line \in SetToSeqs(round) : Take(round, line)
    BY <2>1
  <2>3. round \in SUBSET Batches /\ IsFiniteSet(round)
    BY <1>1, BatchesAreFinite
  <2> HIDE DEF round
  <2>4. line \in Seq(round) /\ IsInjective(line) /\ ToSet(line) = round
    BY <2>3, LinesAreWhole
  <2>5. line # <<>>
    BY <2>1, <2>4 DEF ToSet
  <2>6. Head(line) \in Batches
    BY <2>3, <2>4, <2>5, FirstOfLine
  <2>7. opts.order # "request"
    BY <2>1
  <2>8. QED
    BY <1>1, <2>2, <2>6, <2>7, TakeSeen
<1>6. QED
  BY <1>3, <1>4, <1>5

(* The answer to a sub-request is the next of what is owed.                *)
LEMMA SubFetchSeen ==
  ASSUME SeenInv, SeenInv', SubFetch
  PROVE  [Delivery!DeliveryNext]_Delivery!deliveryVars
<1> DEFINE n == Head(todo)
<1>1. pc = "split" /\ opts' = opts
  BY DEF SubFetch
<1>2. CASE UNCHANGED seen
  BY <1>1, <1>2, SilentStep DEF Final
<1>3. CASE Deliver(NodeRows(n)) /\ pc' = "yield"
  <2>1. awaited \subseteq Batches /\ cur \in Resolved /\ todo # <<>>
    BY <1>1, TaskSets
    DEF SeenInv, AllInv, IInv, StreamTypes, RowsInv, HandInv, SplitInv, Final
  <2>2. Oids(cur) \subseteq Rows
    BY <2>1, IdsTakeInThePage DEF Resolved
  <2>3. PICK first \in Oids(cur), last \in Oids(cur) :
          /\ Oids(cur) = first..last /\ first <= n.lo
          /\ Covers(todo, n.lo, last, Cap, 1..MaxDepth)
    BY <1>1, <2>1 DEF SeenInv, AllInv, RowsInv, SplitInv, Final
  <2>4. first \in Nat /\ last \in Nat
    BY <2>2, Parameters DEF Rows
  <2>5. n.lo \in Nat /\ n.hi \in Nat
    <3>1. n \in Nodes(1..MaxDepth)
      BY <2>1, <2>3, HeadTailProperties DEF Covers
    <3>2. QED
      BY <3>1 DEF Nodes
  <2>6. n.lo <= n.hi /\ n.hi <= last
    BY <2>1, <2>3, <2>4, <2>5, Parameters, TailCovers
  <2>7. BeingSplit = {r \in Oids(cur) : n.lo <= r}
    BY <1>1, <2>1 DEF BeingSplit
  <2> HIDE DEF n
  <2>8. n.lo \in Rows /\ n.hi \in Rows
    BY <2>2, <2>3, <2>4, <2>5, <2>6
  <2>9. n.lo..n.hi \subseteq Owed
    BY <2>3, <2>4, <2>5, <2>6, <2>7 DEF Owed
  <2>10. Deliver(n.lo..n.hi) /\ pc \notin Final /\ pc' \notin Final
    BY <1>1, <1>3 DEF NodeRows, Final
  <2>11. Delivery!DeliveryNext
    BY <1>1, <2>6, <2>8, <2>9, <2>10, PageStep
  <2>12. QED
    BY <2>11
<1>4. QED
  BY <1>2, <1>3 DEF SubFetch

(* The pages of a round are handed out one by one.                         *)
LEMMA PullSeen ==
  ASSUME SeenInv, SeenInv', Pull
  PROVE  [Delivery!DeliveryNext]_Delivery!deliveryVars
<1>1. pc = "yield" /\ pc \notin Final /\ opts' = opts
  BY DEF Pull, Final
<1>2. CASE UNCHANGED seen
  BY <1>1, <1>2, SilentStep
<1>3. CASE ready # <<>> /\ Resolve(Head(ready), task)
  <2>1. ready \in Seq(awaited) /\ IsInjective(ready) /\ awaited \subseteq Batches
    BY <1>1, TaskSets
    DEF SeenInv, AllInv, IInv, StreamTypes, RowsInv, HandInv
  <2>2. Head(ready) \in Batches
    BY <1>3, <2>1, FirstOfLine
  <2>3. opts.order # "request"
    BY <1>1, <1>3, ResolvedInOrder DEF SeenInv
  <2>4. QED
    BY <1>1, <1>3, <2>2, <2>3, ResolveStep
<1>4. QED
  BY <1>2, <1>3 DEF Pull

(* Every step of a stream is one its consumer expects.                     *)
LEMMA ConsumerStep ==
  SeenInv /\ SeenInv' /\ [Next]_vars
    => [Delivery!DeliveryNext]_Delivery!deliveryVars
<1> SUFFICES ASSUME SeenInv, SeenInv', [Next]_vars
             PROVE  [Delivery!DeliveryNext]_Delivery!deliveryVars
  OBVIOUS
<1>1. CASE UNCHANGED vars
  BY <1>1, SilentStep DEF vars
<1>2. CASE Plan \/ PlanFails \/ ObjectIds \/ Close
  <2>1. UNCHANGED <<opts, seen>> /\ pc \notin Final
    BY <1>2 DEF Plan, PlanFails, ObjectIds, Close, Final
  <2>2. QED
    BY <2>1, SilentStep
<1>3. ASSUME NEW b \in Batches, FetchEnds(b)
      PROVE  [Delivery!DeliveryNext]_Delivery!deliveryVars
  <2>1. UNCHANGED <<opts, pc, seen>>
    BY <1>3 DEF FetchEnds
  <2>2. QED
    BY <2>1, SilentStep
<1>4. CASE TakeInOrder \/ TakeNextCompleted \/ TakeRound
  BY <1>4, TakesSeen
<1>5. CASE SubFetch
  BY <1>5, SubFetchSeen
<1>6. CASE Pull
  BY <1>6, PullSeen
<1>7. QED
  BY <1>1, <1>2, <1>3, <1>4, <1>5, <1>6 DEF Next, Generator, Stopped

(* A stream is what its consumer is promised: rows come in pages of        *)
(* consecutive rows while it is open, none twice and, unless truncation is *)
(* ignored, all before it ends; in request order each page goes on where   *)
(* the one before it stopped, also within a page that is split, of any     *)
(* depth (getgdf.py:858-1048, featurelayer.py:404).                        *)
THEOREM StreamImplementsDelivery == Spec => ImplementsDelivery
<1>1. Init => Delivery!DeliveryInit
  <2> SUFFICES ASSUME Init PROVE Delivery!DeliveryInit
    OBVIOUS
  <2>1. Promise \in Delivery!Promises
    BY DEF Promise, RowsAreNamed, Delivery!Promises
  <2>2. pc = "planning" /\ seen = [r \in Delivery!Rows |-> 0]
    BY DEF Init, Delivery!Rows, Rows
  <2>3. QED
    BY <2>1, <2>2 DEF Delivery!DeliveryInit, Final
<1>2. AllInv => SeenInv
  BY TailHolds DEF SeenInv
<1>3. Spec => []SeenInv
  BY <1>2, AllHolds, PTL
<1>4. SeenInv /\ SeenInv' /\ [Next]_vars
        => [Delivery!DeliveryNext]_Delivery!deliveryVars
  BY ConsumerStep
<1>5. QED
  BY <1>1, <1>3, <1>4, PTL
  DEF Spec, ImplementsDelivery, Delivery!DeliverySpec
=============================================================================
