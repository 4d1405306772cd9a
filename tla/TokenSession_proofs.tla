------------------------- MODULE TokenSession_proofs -------------------------
(***************************************************************************)
(* Proofs about TokenSession, for every set of tasks, every number of      *)
(* refresh attempts and every bound on the tokens.                         *)
(***************************************************************************)
EXTENDS TokenSession, TLAPS

(* What is known of one task at every await: where it stands in            *)
(* _call_with_auth_retry, and how its snapshot relates to the session.     *)
TaskInv(t) ==
  /\ snap[t] <= token /\ bears[t] <= token
  /\ pc[t] = "idle" => why[t] = "none"
  /\ pc[t] # "idle" => call[t] \in Calls
  /\ pc[t] \in {"queued", "posting", "backoff"} => why[t] # "none"
  /\ pc[t] = "sent" =>
       /\ why[t] # "rejected"
       /\ call[t] # "enter"
       /\ call[t] = "request" => bears[t] = snap[t]
  /\ pc[t] = "resent" =>
       /\ why[t] = "rejected"
       /\ call[t] = "request" => snap[t] < bears[t]
  /\ why[t] = "rejected" =>
       /\ call[t] \in {"request", "explicit"}
       /\ call[t] = "request" => snap[t] \in revoked
  /\ Refreshing(t) =>
       \/ why[t] = "stale" /\ (token = 0 \/ token \in aged)
       \/ why[t] = "rejected" /\ token = snap[t]
  /\ pc[t] = "backoff" => attempt[t] < MaxAttempts
  /\ result[t] = "TokenExpired" =>
       /\ pc[t] = "done"
       /\ call[t] = "request" =>
            /\ snap[t] < bears[t]
            /\ {snap[t], bears[t]} \subseteq revoked
  /\ result[t] = "AuthenticationError" =>
       pc[t] = "done" /\ why[t] = "rejected"

TasksInv == \A t \in Tasks : TaskInv(t)

IInv == TypeOK /\ SingleFlight /\ TasksInv /\ ReplacedTokenWasSpent

-----------------------------------------------------------------------------

(* The variables keep their types. *)
LEMMA TypeStep == TypeOK /\ TasksInv /\ [Next]_vars => TypeOK'
<1> SUFFICES ASSUME TypeOK, TasksInv, [Next]_vars PROVE TypeOK'
  OBVIOUS
<1> USE SessionAssumption DEF TypeOK, Tokens, Calls, Stages, Results
<1>1. ASSUME NEW t \in Tasks, Start(t) PROVE TypeOK'
  BY <1>1 DEF Start, Acquire, UnderLock, Continue, Finish, Attach
<1>2. ASSUME NEW t \in Tasks, Resume(t) PROVE TypeOK'
  BY <1>2 DEF Resume, UnderLock, Continue, Finish, Attach
<1>3. ASSUME NEW t \in Tasks, MintSucceeds(t) PROVE TypeOK'
  BY <1>3 DEF MintSucceeds, Continue, Finish, Attach
<1>4. ASSUME NEW t \in Tasks, MintRejected(t) PROVE TypeOK'
  BY <1>4 DEF MintRejected, Finish
<1>5. ASSUME NEW t \in Tasks, MintUnreachable(t) PROVE TypeOK'
  BY <1>5 DEF MintUnreachable, Finish
<1>6. ASSUME NEW t \in Tasks, BackoffEnds(t) PROVE TypeOK'
  BY <1>6 DEF BackoffEnds, TasksInv, TaskInv
<1>7. ASSUME NEW t \in Tasks, Answer(t) PROVE TypeOK'
  BY <1>7 DEF Answer, Acquire, UnderLock, Continue, Finish, Attach
<1>8. ASSUME NEW t \in Tasks, AnswerRetry(t) PROVE TypeOK'
  BY <1>8 DEF AnswerRetry, Finish
<1>9. ASSUME NEW t \in Tasks, Cancel(t) PROVE TypeOK'
  BY <1>9 DEF Cancel, Finish
<1>10. CASE Age
  BY <1>10 DEF Age
<1>11. CASE Revoke
  BY <1>11 DEF Revoke
<1>12. CASE UNCHANGED vars
  BY <1>12 DEF vars
<1>13. QED
  BY <1>1, <1>2, <1>3, <1>4, <1>5, <1>6, <1>7, <1>8, <1>9, <1>10, <1>11,
     <1>12 DEF Next, Progress, AllDone

(* The lock names the one task inside update_token. *)
LEMMA FlightStep == IInv /\ [Next]_vars => SingleFlight'
<1> SUFFICES ASSUME IInv, [Next]_vars PROVE SingleFlight'
  OBVIOUS
<1> USE SessionAssumption DEF IInv, TypeOK, SingleFlight, Refreshing
<1>1. ASSUME NEW t \in Tasks, Start(t) PROVE SingleFlight'
  BY <1>1 DEF Start, Acquire, UnderLock, Continue, Finish
<1>2. ASSUME NEW t \in Tasks, Resume(t) PROVE SingleFlight'
  BY <1>2 DEF Resume, UnderLock, Continue, Finish
<1>3. ASSUME NEW t \in Tasks, MintSucceeds(t) PROVE SingleFlight'
  BY <1>3 DEF MintSucceeds, Continue, Finish
<1>4. ASSUME NEW t \in Tasks, MintRejected(t) PROVE SingleFlight'
  BY <1>4 DEF MintRejected, Finish
<1>5. ASSUME NEW t \in Tasks, MintUnreachable(t) PROVE SingleFlight'
  BY <1>5 DEF MintUnreachable, Finish
<1>6. ASSUME NEW t \in Tasks, BackoffEnds(t) PROVE SingleFlight'
  BY <1>6 DEF BackoffEnds
<1>7. ASSUME NEW t \in Tasks, Answer(t) PROVE SingleFlight'
  BY <1>7 DEF Answer, Acquire, UnderLock, Continue, Finish
<1>8. ASSUME NEW t \in Tasks, AnswerRetry(t) PROVE SingleFlight'
  BY <1>8 DEF AnswerRetry, Finish
<1>9. ASSUME NEW t \in Tasks, Cancel(t) PROVE SingleFlight'
  BY <1>9 DEF Cancel, Finish
<1>10. CASE Age \/ Revoke \/ UNCHANGED vars
  BY <1>10 DEF Age, Revoke, vars
<1>11. QED
  BY <1>1, <1>2, <1>3, <1>4, <1>5, <1>6, <1>7, <1>8, <1>9, <1>10
     DEF Next, Progress, AllDone

(* Each task keeps what is known of it through its own steps and through   *)
(* everybody else's.                                                       *)
LEMMA TasksStep == IInv /\ [Next]_vars => TasksInv'
<1> SUFFICES ASSUME IInv, [Next]_vars, NEW u \in Tasks PROVE TaskInv(u)'
  BY DEF TasksInv
<1> TypeOK /\ SingleFlight /\ TasksInv
  BY DEF IInv
<1> TaskInv(u)
  BY DEF TasksInv
<1> USE SessionAssumption
    DEF TypeOK, SingleFlight, TaskInv, Refreshing, Tokens, Calls, Stages
<1>1. ASSUME NEW t \in Tasks, Start(t) PROVE TaskInv(u)'
  <2>1. CASE u = t
    BY <1>1, <2>1 DEF Start, Acquire, UnderLock, MustRefresh, NeedsUpdate,
                      Continue, Finish, Attach
  <2>2. CASE u # t
    BY <1>1, <2>2 DEF Start, Acquire, UnderLock, Continue, Finish, Attach
  <2>3. QED
    BY <2>1, <2>2
<1>2. ASSUME NEW t \in Tasks, Resume(t) PROVE TaskInv(u)'
  <2>1. CASE u = t
    BY <1>2, <2>1 DEF Resume, UnderLock, MustRefresh, NeedsUpdate, Continue,
                      Finish, Attach
  <2>2. CASE u # t
    BY <1>2, <2>2 DEF Resume, UnderLock, Continue, Finish, Attach
  <2>3. QED
    BY <2>1, <2>2
<1>3. ASSUME NEW t \in Tasks, MintSucceeds(t) PROVE TaskInv(u)'
  <2>1. CASE u = t
    BY <1>3, <2>1 DEF MintSucceeds, Continue, Finish, Attach
  <2>2. CASE u # t
    BY <1>3, <2>2 DEF MintSucceeds, Continue, Finish, Attach
  <2>3. QED
    BY <2>1, <2>2
<1>4. ASSUME NEW t \in Tasks, MintRejected(t) PROVE TaskInv(u)'
  BY <1>4 DEF MintRejected, Finish
<1>5. ASSUME NEW t \in Tasks, MintUnreachable(t) PROVE TaskInv(u)'
  BY <1>5 DEF MintUnreachable, Finish
<1>6. ASSUME NEW t \in Tasks, BackoffEnds(t) PROVE TaskInv(u)'
  BY <1>6 DEF BackoffEnds
<1>7. ASSUME NEW t \in Tasks, Answer(t) PROVE TaskInv(u)'
  <2>1. CASE u = t
    BY <1>7, <2>1 DEF Answer, Rejects, Acquire, UnderLock, MustRefresh,
                      Continue, Finish, Attach
  <2>2. CASE u # t
    BY <1>7, <2>2 DEF Answer, Acquire, UnderLock, Continue, Finish, Attach
  <2>3. QED
    BY <2>1, <2>2
<1>8. ASSUME NEW t \in Tasks, AnswerRetry(t) PROVE TaskInv(u)'
  BY <1>8 DEF AnswerRetry, Rejects, Finish
<1>9. ASSUME NEW t \in Tasks, Cancel(t) PROVE TaskInv(u)'
  BY <1>9 DEF Cancel, Finish
<1>10. CASE Age
  BY <1>10 DEF Age
<1>11. CASE Revoke
  BY <1>11 DEF Revoke
<1>12. CASE UNCHANGED vars
  BY <1>12 DEF vars
<1>13. QED
  BY <1>1, <1>2, <1>3, <1>4, <1>5, <1>6, <1>7, <1>8, <1>9, <1>10, <1>11,
     <1>12 DEF Next, Progress, AllDone

(* A spent token stays spent: neither the clock nor the server takes it    *)
(* back, and a rejected call keeps its snapshot.                           *)
LEMMA SpentGrows == IInv /\ [Next]_vars => Spent \subseteq Spent'
<1> SUFFICES ASSUME IInv, [Next]_vars PROVE Spent \subseteq Spent'
  OBVIOUS
<1> DEFINE Kept == \A u \in ExplicitRejected :
                     u \in ExplicitRejected' /\ snap'[u] = snap[u]
           Older == aged \subseteq aged' /\ revoked \subseteq revoked'
<1> USE DEF IInv, TypeOK, TasksInv, TaskInv, ExplicitRejected
<1>1. ASSUME NEW t \in Tasks, Start(t) PROVE Kept /\ Older
  BY <1>1 DEF Start, Acquire, UnderLock, Continue, Finish
<1>2. ASSUME NEW t \in Tasks, Resume(t) PROVE Kept /\ Older
  BY <1>2 DEF Resume, UnderLock, Continue, Finish
<1>3. ASSUME NEW t \in Tasks, MintSucceeds(t) PROVE Kept /\ Older
  BY <1>3 DEF MintSucceeds, Continue, Finish
<1>4. ASSUME NEW t \in Tasks,
             MintRejected(t) \/ MintUnreachable(t) \/ BackoffEnds(t)
      PROVE Kept /\ Older
  BY <1>4 DEF MintRejected, MintUnreachable, BackoffEnds
<1>5. ASSUME NEW t \in Tasks, Answer(t) PROVE Kept /\ Older
  BY <1>5 DEF Answer, Acquire, UnderLock, Continue, Finish
<1>6. ASSUME NEW t \in Tasks, AnswerRetry(t) \/ Cancel(t)
      PROVE Kept /\ Older
  BY <1>6 DEF AnswerRetry, Cancel
<1>7. ASSUME Age \/ Revoke \/ UNCHANGED vars PROVE Kept /\ Older
  BY <1>7 DEF Age, Revoke, vars
<1>8. Kept /\ Older
  BY <1>1, <1>2, <1>3, <1>4, <1>5, <1>6, <1>7 DEF Next, Progress, AllDone
<1>9. ASSUME NEW k \in Spent PROVE k \in Spent'
  <2>1. CASE k \in aged \cup revoked
    BY <1>8, <2>1 DEF Spent
  <2>2. CASE \E u \in ExplicitRejected : k = snap[u]
    <3>1. PICK u \in ExplicitRejected : k = snap[u]
      BY <2>2
    <3>2. u \in ExplicitRejected' /\ k = snap'[u]
      BY <1>8, <3>1
    <3>3. QED
      BY <3>2 DEF Spent
  <2>3. QED
    BY <1>9, <2>1, <2>2 DEF Spent
<1>10. QED
  BY <1>9

(* The task inside update_token is there because the held token is missing *)
(* or spent.                                                               *)
LEMMA NeededFromIInv == IInv => RefreshIsNeeded
  BY DEF IInv, TasksInv, TaskInv, RefreshIsNeeded, Spent, ExplicitRejected

(* Only update_token changes self.token. *)
LEMMA TokenStep ==
  IInv /\ [Next]_vars =>
    \/ token' = token
    \/ token' = token + 1 /\ \E t \in Tasks : Refreshing(t)
<1> SUFFICES ASSUME IInv, [Next]_vars
             PROVE \/ token' = token
                   \/ token' = token + 1 /\ \E t \in Tasks : Refreshing(t)
  OBVIOUS
<1>1. ASSUME NEW t \in Tasks, MintSucceeds(t)
      PROVE token' = token + 1 /\ Refreshing(t)
  BY <1>1 DEF MintSucceeds, Refreshing
<1>2. ASSUME NEW t \in Tasks,
             \/ Start(t) \/ Resume(t) \/ MintRejected(t)
             \/ MintUnreachable(t) \/ BackoffEnds(t) \/ Answer(t)
             \/ AnswerRetry(t) \/ Cancel(t)
      PROVE token' = token
  BY <1>2 DEF Start, Resume, MintRejected, MintUnreachable, BackoffEnds,
              Answer, AnswerRetry, Cancel
<1>3. CASE Age \/ Revoke \/ UNCHANGED vars
  BY <1>3 DEF Age, Revoke, vars
<1>4. QED
  BY <1>1, <1>2, <1>3 DEF Next, Progress, AllDone

(* A token is only ever replaced once it is spent. *)
LEMMA ReplacedStep == IInv /\ [Next]_vars => ReplacedTokenWasSpent'
<1> SUFFICES ASSUME IInv, [Next]_vars, NEW k \in 1..token', k < token'
             PROVE k \in Spent'
  BY DEF ReplacedTokenWasSpent
<1>1. token \in Nat
  BY SessionAssumption DEF IInv, TypeOK, Tokens
<1>2. CASE k < token
  <2>1. k \in 1..token
    BY <1>1, <1>2
  <2>2. k \in Spent
    BY <1>2, <2>1 DEF IInv, ReplacedTokenWasSpent
  <2>3. QED
    BY <2>2, SpentGrows
<1>3. CASE ~(k < token)
  <2>1. k = token /\ \E t \in Tasks : Refreshing(t)
    BY <1>1, <1>3, TokenStep
  <2>2. token \in Spent
    BY <1>1, <2>1, NeededFromIInv DEF RefreshIsNeeded
  <2>3. QED
    BY <2>1, <2>2, SpentGrows
<1>4. QED
  BY <1>2, <1>3

(* A session as __init__ leaves it satisfies the inductive invariant. *)
LEMMA InitIInv == Init => IInv
  BY SessionAssumption
     DEF Init, IInv, TypeOK, Tokens, Calls, Stages, Results, SingleFlight,
         Refreshing, TasksInv, TaskInv, ReplacedTokenWasSpent

(* The inductive invariant holds in every state a session can reach,       *)
(* whatever the number of tasks, tokens and attempts.                      *)
THEOREM Invariance == Spec => []IInv
<1>1. IInv /\ [Next]_vars => IInv'
  BY TypeStep, FlightStep, TasksStep, ReplacedStep DEF IInv
<1>2. QED
  BY InitIInv, <1>1, PTL DEF Spec

-----------------------------------------------------------------------------
(* The variables keep their types, whatever the tasks, the server and the  *)
(* clock do.                                                               *)
THEOREM TypeCorrect == Spec => []TypeOK
<1>1. IInv => TypeOK
  BY DEF IInv
<1>2. QED
  BY Invariance, <1>1, PTL

(* At most one task is inside update_token, and it holds the lock.         *)
THEOREM OneRefreshAtATime == Spec => []SingleFlight
<1>1. IInv => SingleFlight
  BY DEF IInv
<1>2. QED
  BY Invariance, <1>1, PTL

(* No number of concurrent callers makes the session discard a token that  *)
(* was still good.                                                         *)
THEOREM NoGoodTokenDiscarded == Spec => []ReplacedTokenWasSpent
<1>1. IInv => ReplacedTokenWasSpent
  BY DEF IInv
<1>2. QED
  BY Invariance, <1>1, PTL

(* A /generateToken request is only ever in flight for a missing or spent  *)
(* token.                                                                  *)
THEOREM RefreshesAreNeeded == Spec => []RefreshIsNeeded
  BY Invariance, NeededFromIInv, PTL

(* The retry that follows a 498 carries a token newer than the rejected    *)
(* one.                                                                    *)
THEOREM RetryIsRenewed == Spec => []RetryBearsNewToken
<1>1. IInv => RetryBearsNewToken
  BY DEF IInv, TasksInv, TaskInv, RetryBearsNewToken
<1>2. QED
  BY Invariance, <1>1, PTL

(* TokenExpiredError reports two rejected tokens, never one seen twice.    *)
THEOREM ExpiryReportsTwoTokens == Spec => []ExpiredMeansTwoRejections
<1>1. IInv => ExpiredMeansTwoRejections
  BY DEF IInv, TasksInv, TaskInv, ExpiredMeansTwoRejections
<1>2. QED
  BY Invariance, <1>1, PTL

(* A session without credentials fails a call for want of them only after  *)
(* the server rejected its token.                                          *)
THEOREM AnonymousOutlivesAgeing == Spec => []AnonymousFailsOnlyWhenRejected
<1>1. IInv => AnonymousFailsOnlyWhenRejected
  BY DEF IInv, TasksInv, TaskInv, AnonymousFailsOnlyWhenRejected
<1>2. QED
  BY Invariance, <1>1, PTL

-----------------------------------------------------------------------------
(* The step simulation behind ImplementsLifecycle. *)

Renewing == \E t \in Tasks : Refreshing(t)

(* update_token runs somewhere exactly when the refresh lock is held. *)
LEMMA RenewingIsLocked ==
  TypeOK /\ SingleFlight => (Renewing <=> lock # NoTask)
  BY SessionAssumption DEF TypeOK, SingleFlight, Renewing

(* Spent depends on nothing but these three. *)
LEMMA SameSpent ==
  ASSUME UNCHANGED <<aged, revoked>>, ExplicitRejected' = ExplicitRejected,
         \A u \in ExplicitRejected : snap'[u] = snap[u]
  PROVE  Spent' = Spent
<1>1. {snap'[u] : u \in ExplicitRejected'} = {snap[u] : u \in ExplicitRejected}
  OBVIOUS
<1>2. QED
  BY <1>1 DEF Spent

(* Steps before the first answer, or after the lock, move no token into    *)
(* Spent.                                                                  *)
LEMMA SpentUnmoved ==
  ASSUME IInv, NEW t \in Tasks,
         \/ Start(t) \/ Resume(t) \/ MintSucceeds(t) \/ MintRejected(t)
         \/ MintUnreachable(t) \/ BackoffEnds(t) \/ AnswerRetry(t)
         \/ Cancel(t)
  PROVE  Spent' = Spent
<1> USE DEF IInv, TypeOK, TasksInv, TaskInv, ExplicitRejected
<1> DEFINE Same ==
      /\ UNCHANGED <<aged, revoked>>
      /\ ExplicitRejected' = ExplicitRejected
      /\ \A u \in ExplicitRejected : snap'[u] = snap[u]
<1>1. CASE Start(t)
  <2>1. Same
    BY <1>1 DEF Start, Acquire, UnderLock, Continue, Finish
  <2>2. QED
    BY <2>1, SameSpent
<1>2. CASE Resume(t)
  <2>1. Same
    BY <1>2 DEF Resume, UnderLock, Continue, Finish
  <2>2. QED
    BY <2>1, SameSpent
<1>3. CASE MintSucceeds(t)
  <2>1. Same
    BY <1>3 DEF MintSucceeds, Continue, Finish
  <2>2. QED
    BY <2>1, SameSpent
<1>4. CASE \/ MintRejected(t) \/ MintUnreachable(t) \/ BackoffEnds(t)
           \/ AnswerRetry(t) \/ Cancel(t)
  <2>1. Same
    BY <1>4 DEF MintRejected, MintUnreachable, BackoffEnds, AnswerRetry, Cancel
  <2>2. QED
    BY <2>1, SameSpent
<1>5. QED
  BY <1>1, <1>2, <1>3, <1>4

(* A 498 adds at most the snapshot of its task, and a refresh it starts is *)
(* for that token.                                                         *)
LEMMA AnswerSpends ==
  ASSUME IInv, NEW t \in Tasks, Answer(t)
  PROVE  /\ Spent' = Spent \/ Spent' = Spent \cup {snap[t]}
         /\ lock' # lock => /\ lock = NoTask /\ lock' = t
                            /\ token = snap[t] /\ token \in Spent'
<1> USE DEF IInv, TypeOK, TasksInv, TaskInv
<1> DEFINE Same == /\ UNCHANGED <<aged, revoked>>
                   /\ \A u \in ExplicitRejected : snap'[u] = snap[u]
<1>1. Same
  BY DEF Answer, Acquire, UnderLock, Continue, Finish, ExplicitRejected
<1>2. ASSUME ExplicitRejected' = ExplicitRejected PROVE Spent' = Spent
  BY <1>1, <1>2, SameSpent
<1>3. ASSUME ExplicitRejected' # ExplicitRejected
      PROVE Spent' = Spent \cup {snap[t]}
  <2>1. ExplicitRejected' = ExplicitRejected \cup {t}
    BY <1>3 DEF Answer, Acquire, UnderLock, Continue, Finish, ExplicitRejected
  <2>2. snap'[t] = snap[t]
    BY <1>3 DEF Answer, Acquire, UnderLock, Continue, Finish
  <2>3. {snap'[u] : u \in ExplicitRejected'}
          = {snap[u] : u \in ExplicitRejected} \cup {snap[t]}
    BY <1>1, <2>1, <2>2
  <2>4. QED
    BY <1>1, <2>3 DEF Spent
<1>4. ASSUME lock' # lock
      PROVE /\ lock = NoTask /\ lock' = t
            /\ token = snap[t] /\ token \in Spent'
  <2>1. lock = NoTask /\ lock' = t /\ token = snap[t] /\ Rejects(t)
        /\ why' = [why EXCEPT ![t] = "rejected"] /\ snap' = snap
    BY <1>4 DEF Answer, Acquire, UnderLock, MustRefresh, Continue, Finish
  <2>2. CASE call[t] = "explicit"
    <3>1. t \in ExplicitRejected' /\ snap'[t] = token
      BY <2>1, <2>2 DEF ExplicitRejected, Answer
    <3>2. QED
      BY <2>1, <3>1 DEF Spent
  <2>3. CASE call[t] # "explicit"
    <3>1. token \in revoked
      BY <2>1, <2>3 DEF Rejects, Answer, Calls
    <3>2. QED
      BY <1>1, <2>1, <3>1 DEF Spent
  <2>4. QED
    BY <2>1, <2>2, <2>3
<1>5. QED
  BY <1>2, <1>3, <1>4

(* Every step of the session is a step of the lifecycle or invisible. *)
LEMMA LifecycleStep ==
  IInv /\ [Next]_vars => [Lifecycle!LifecycleNext]_<<token, Spent, Renewing>>
<1> SUFFICES ASSUME IInv, [Next]_vars
             PROVE [Lifecycle!LifecycleNext]_<<token, Spent, Renewing>>
  OBVIOUS
<1> DEFINE Mapped == [Lifecycle!LifecycleNext]_<<token, Spent, Renewing>>
<1>1. Renewing \in BOOLEAN /\ (Renewing <=> lock # NoTask)
  BY RenewingIsLocked DEF IInv, Renewing
<1>2. Renewing' \in BOOLEAN /\ (Renewing' <=> lock' # NoTask)
  <2>1. TypeOK' /\ SingleFlight'
    BY TypeStep, FlightStep DEF IInv
  <2>2. QED
    BY <2>1, SessionAssumption DEF TypeOK, SingleFlight, Renewing
<1>3. token \in Nat /\ snap \in [Tasks -> Nat]
      /\ \A t \in Tasks : snap[t] <= token
  BY SessionAssumption DEF IInv, TypeOK, Tokens, TasksInv, TaskInv
<1>4. ASSUME NEW t \in Tasks, Start(t) \/ Resume(t) PROVE Mapped
  <2>1. Spent' = Spent /\ token' = token
    BY <1>4, SpentUnmoved DEF Start, Resume
  <2>2. CASE lock' = lock
    <3>1. Renewing' = Renewing
      BY <1>1, <1>2, <2>2
    <3>2. QED
      BY <2>1, <3>1
  <2>3. CASE lock' # lock
    <3>1. lock = NoTask /\ lock' = t
      BY <1>4, <2>3 DEF Start, Resume, Acquire, UnderLock
    <3>2. Renewing' = TRUE /\ Renewing = FALSE
      BY <1>1, <1>2, <3>1, SessionAssumption
    <3>3. token = 0 \/ token \in Spent
      <4>1. Refreshing(t)'
        BY <1>4, <2>3 DEF Start, Resume, Acquire, UnderLock, Refreshing,
                          IInv, TypeOK
      <4>2. RefreshIsNeeded'
        BY TypeStep, FlightStep, TasksStep, ReplacedStep, NeededFromIInv
           DEF IInv, TasksInv, TaskInv, RefreshIsNeeded, Spent,
               ExplicitRejected
      <4>3. QED
        BY <2>1, <4>1, <4>2 DEF RefreshIsNeeded
    <3>4. Lifecycle!Begin
      BY <2>1, <3>2, <3>3 DEF Lifecycle!Begin, Renewing
    <3>5. QED
      BY <3>4 DEF Lifecycle!LifecycleNext
  <2>4. QED
    BY <2>2, <2>3
<1>5. ASSUME NEW t \in Tasks, MintSucceeds(t) PROVE Mapped
  <2>1. Spent' = Spent /\ token' = token + 1 /\ lock' = NoTask
    BY <1>5, SpentUnmoved DEF MintSucceeds
  <2>2. Renewing = TRUE /\ Renewing' = FALSE
    BY <1>2, <1>5, <2>1 DEF MintSucceeds, Renewing, Refreshing
  <2>3. Lifecycle!Renew
    BY <2>1, <2>2 DEF Lifecycle!Renew, Renewing
  <2>4. QED
    BY <2>3 DEF Lifecycle!LifecycleNext
<1>6. ASSUME NEW t \in Tasks,
             \/ MintRejected(t) \/ MintUnreachable(t) \/ BackoffEnds(t)
             \/ AnswerRetry(t) \/ Cancel(t)
      PROVE Mapped
  <2>1. Spent' = Spent /\ token' = token /\ lock' \in {lock, NoTask}
    BY <1>6, SpentUnmoved
       DEF MintRejected, MintUnreachable, BackoffEnds, AnswerRetry, Cancel
  <2>2. CASE Renewing' = Renewing
    BY <2>1, <2>2
  <2>3. CASE Renewing' # Renewing
    <3>1. Renewing = TRUE /\ Renewing' = FALSE
      BY <1>1, <1>2, <2>1, <2>3
    <3>2. Lifecycle!GiveUp
      BY <2>1, <3>1 DEF Lifecycle!GiveUp, Renewing
    <3>3. QED
      BY <3>2 DEF Lifecycle!LifecycleNext
  <2>4. QED
    BY <2>2, <2>3
<1>7. ASSUME NEW t \in Tasks, Answer(t) PROVE Mapped
  <2>1. token' = token
    BY <1>7 DEF Answer
  <2>2. Spent' = Spent \/ Spent' = Spent \cup {snap[t]}
    BY <1>7, AnswerSpends
  <2>3. CASE lock' = lock
    <3>1. Renewing' = Renewing
      BY <1>1, <1>2, <2>3
    <3>2. snap[t] \in 0..token
      BY <1>3
    <3>3. Spent' = Spent \/ Lifecycle!Spend
      BY <2>1, <2>2, <3>1, <3>2 DEF Lifecycle!Spend, Renewing
    <3>4. QED
      BY <2>1, <3>1, <3>3 DEF Lifecycle!LifecycleNext
  <2>4. CASE lock' # lock
    <3>1. lock = NoTask /\ lock' = t /\ token = snap[t] /\ token \in Spent'
      BY <1>7, <2>4, AnswerSpends
    <3>2. Renewing' = TRUE /\ Renewing = FALSE
      BY <1>1, <1>2, <3>1, SessionAssumption
    <3>3. Lifecycle!Begin
      BY <2>1, <2>2, <3>1, <3>2 DEF Lifecycle!Begin, Renewing
    <3>4. QED
      BY <3>3 DEF Lifecycle!LifecycleNext
  <2>5. QED
    BY <2>3, <2>4
<1>8. ASSUME Age \/ Revoke PROVE Mapped
  <2>1. token' = token /\ lock' = lock
    BY <1>8 DEF Age, Revoke
  <2>2. \E k \in 0..token : Spent' = Spent \cup {k}
    <3>1. ExplicitRejected' = ExplicitRejected /\ snap' = snap
      BY <1>8 DEF Age, Revoke, ExplicitRejected
    <3>2. PICK k \in 1..token :
            aged' \cup revoked' = (aged \cup revoked) \cup {k}
      BY <1>3, <1>8 DEF Age, Revoke
    <3>3. Spent' = Spent \cup {k}
      BY <3>1, <3>2 DEF Spent
    <3>4. QED
      BY <1>3, <3>3
  <2>3. Renewing' = Renewing
    BY <1>1, <1>2, <2>1
  <2>4. Lifecycle!Spend
    BY <2>1, <2>2, <2>3 DEF Lifecycle!Spend, Renewing
  <2>5. QED
    BY <2>4 DEF Lifecycle!LifecycleNext
<1>9. ASSUME UNCHANGED vars PROVE Mapped
  BY <1>9 DEF vars, Spent, ExplicitRejected, Renewing, Refreshing
<1>10. QED
  BY <1>4, <1>5, <1>6, <1>7, <1>8, <1>9 DEF Next, Progress, AllDone

(* The session implements TokenLifecycle. *)
THEOREM SessionImplementsLifecycle == Spec => ImplementsLifecycle
<1>1. Init => Lifecycle!LifecycleInit
  <2> SUFFICES ASSUME Init PROVE Lifecycle!LifecycleInit
    OBVIOUS
  <2>1. ExplicitRejected = {}
    BY DEF Init, ExplicitRejected
  <2>2. Spent = aged
    BY <2>1 DEF Init, Spent
  <2>3. ~Renewing
    BY DEF Init, Renewing, Refreshing
  <2>4. QED
    BY <2>2, <2>3 DEF Init, Lifecycle!LifecycleInit, Renewing
<1>2. IInv /\ [Next]_vars
        => [Lifecycle!LifecycleNext]_Lifecycle!lifecycleVars
  BY LifecycleStep DEF Lifecycle!lifecycleVars, Renewing
<1>3. QED
  BY Invariance, <1>1, <1>2, PTL
     DEF Spec, ImplementsLifecycle, Lifecycle!LifecycleSpec
=============================================================================
