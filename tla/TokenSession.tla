---------------------------- MODULE TokenSession ----------------------------
(***************************************************************************)
(* ArcGISTokenSession (restgdf/utils/token.py): asyncio tasks share one    *)
(* session.  Every call first makes sure the token is usable, sends its    *)
(* request, and reacts to a 498 answer by refreshing and sending once      *)
(* more.  Refreshes are serialised by one asyncio.Lock.                    *)
(*                                                                         *)
(* An action runs from one await of a task to its next one: asyncio runs   *)
(* nothing else in between.  Tokens are numbered in the order the session  *)
(* receives them, 0 standing for "no token"; the server never issues the   *)
(* same token twice.                                                       *)
(***************************************************************************)
EXTENDS Naturals

CONSTANTS
  Tasks,           (* asyncio tasks; each makes one call on the session     *)
  NoTask,          (* not a task: the lock is free                          *)
  MaxToken,        (* bound: the highest token the session may be handed    *)
  MaxAttempts      (* _MAX_TOKEN_RETRIES, 3 in the code                     *)

ASSUME SessionAssumption ==
  /\ NoTask \notin Tasks
  /\ MaxToken \in Nat \ {0}
  /\ MaxAttempts \in Nat \ {0}

VARIABLES
  credentials, (* whether self.credentials is not None; never assigned      *)
  token,    (* self.token                                                   *)
  aged,     (* tokens whose remaining life fell below the refresh threshold *)
  revoked,  (* tokens the server rejects                                    *)
  lock,     (* the task inside "async with self._refresh_lock", or NoTask   *)
  pc,       (* the await each task is suspended at                          *)
  call,     (* what each task asked for                                     *)
  why,      (* which block took the lock last: proactive or reactive        *)
  snap,     (* tok_before                                                   *)
  bears,    (* the session token the task's last request carried            *)
  attempt,  (* update_token's loop variable, 0 outside of it                *)
  result    (* what the call returned or raised                             *)

vars == <<credentials, token, aged, revoked, lock, pc, call, why, snap, bears,
          attempt, result>>

Tokens == 0..MaxToken

(* get/post, get/post with a "token" in the payload, "async with session".  *)
Calls == {"request", "explicit", "enter"}

Stages == {"idle", "queued", "posting", "backoff", "sent", "resent", "done"}

Results == {"none", "entered", "response", "response499", "transport",
            "AuthNotAttached", "TokenExpired", "AuthenticationError",
            "RefreshRejected", "TokenRefreshFailed", "cancelled"}

TypeOK ==
  /\ credentials \in BOOLEAN
  /\ token \in Tokens
  /\ aged \subseteq 1..token
  /\ revoked \subseteq 1..token
  /\ lock \in Tasks \cup {NoTask}
  /\ pc \in [Tasks -> Stages]
  /\ call \in [Tasks -> Calls \cup {"none"}]
  /\ why \in [Tasks -> {"none", "stale", "rejected"}]
  /\ snap \in [Tasks -> Tokens]
  /\ bears \in [Tasks -> Tokens]
  /\ attempt \in [Tasks -> 0..MaxAttempts]
  /\ result \in [Tasks -> Results]

(* The session is built without a token, or with the caller's own one,     *)
(* which counts as aged when its "expires" is missing or near.             *)
Init ==
  /\ credentials \in BOOLEAN
  /\ token \in {0, 1}
  /\ aged \in SUBSET (1..token)
  /\ revoked = {}
  /\ lock = NoTask
  /\ pc = [t \in Tasks |-> "idle"]
  /\ call = [t \in Tasks |-> "none"]
  /\ why = [t \in Tasks |-> "none"]
  /\ snap = [t \in Tasks |-> 0]
  /\ bears = [t \in Tasks |-> 0]
  /\ attempt = [t \in Tasks |-> 0]
  /\ result = [t \in Tasks |-> "none"]

-----------------------------------------------------------------------------

(* Mutant: credentials are not looked at. *)
NeedsUpdate_Anyone == token = 0 \/ token \in aged

(* token_needs_update *)
NeedsUpdate == credentials /\ (token = 0 \/ token \in aged)

(* Mutants: one of the two tests under the lock is missing. *)
MustRefresh_NoSnapshot(t, reason) ==
  IF reason = "stale" THEN NeedsUpdate ELSE TRUE
MustRefresh_NoSecondLook(t, reason) ==
  IF reason = "stale" THEN credentials ELSE token = snap[t]

(* The test repeated once the lock is held: token_needs_update on the      *)
(* proactive path, self.token == tok_before on the reactive one.           *)
MustRefresh(t, reason) ==
  IF reason = "stale" THEN NeedsUpdate ELSE token = snap[t]

Waiting == {t \in Tasks : pc[t] = "queued"}

Finish(t, r) ==
  /\ pc' = [pc EXCEPT ![t] = "done"]
  /\ result' = [result EXCEPT ![t] = r]

(* Mutant: the retry is sent with the headers of the first request. *)
Attach_NotRebuilt(t, c) ==
  IF why'[t] = "rejected"
  THEN UNCHANGED bears
  ELSE bears' = [bears EXCEPT ![t] = IF c = "request" THEN token' ELSE 0]

(* update_headers and update_dict: a request with a token of its own never *)
(* carries the session's.                                                  *)
Attach(t, c) ==
  bears' = [bears EXCEPT ![t] = IF c = "request" THEN token' ELSE 0]

(* What follows the lock: the first request with its snapshot, the retry   *)
(* with rebuilt auth, or the body of "async with session".                 *)
Continue(t, c, reason) ==
  \/ /\ reason = "rejected"
     /\ pc' = [pc EXCEPT ![t] = "resent"]
     /\ Attach(t, c)
     /\ UNCHANGED <<snap, result>>
  \/ /\ reason = "stale"
     /\ c # "enter"
     /\ pc' = [pc EXCEPT ![t] = "sent"]
     /\ snap' = [snap EXCEPT ![t] = token']
     /\ Attach(t, c)
     /\ UNCHANGED result
  \/ /\ reason = "stale"
     /\ c = "enter"
     /\ Finish(t, "entered")
     /\ UNCHANGED <<snap, bears>>

(* The body of "async with self._refresh_lock" up to its first await;      *)
(* update_token without credentials raises before it awaits anything.      *)
UnderLock(t, c, reason) ==
  \/ /\ MustRefresh(t, reason)
     /\ credentials
     /\ lock' = t
     /\ pc' = [pc EXCEPT ![t] = "posting"]
     /\ attempt' = [attempt EXCEPT ![t] = 1]
     /\ UNCHANGED <<snap, bears, result>>
  \/ /\ MustRefresh(t, reason)
     /\ ~credentials
     /\ Finish(t, "AuthenticationError")
     /\ UNCHANGED <<lock, snap, bears, attempt>>
  \/ /\ ~MustRefresh(t, reason)
     /\ Continue(t, c, reason)
     /\ UNCHANGED <<lock, attempt>>

(* Mutant: no lock is taken. *)
Acquire_Unlocked(t, c, reason) ==
  /\ why' = [why EXCEPT ![t] = reason]
  /\ UnderLock(t, c, reason)

(* asyncio.Lock.acquire: at once when it is free and nobody waits.         *)
Acquire(t, c, reason) ==
  /\ why' = [why EXCEPT ![t] = reason]
  /\ \/ /\ lock = NoTask /\ Waiting = {}
        /\ UnderLock(t, c, reason)
     \/ /\ lock # NoTask \/ Waiting # {}
        /\ pc' = [pc EXCEPT ![t] = "queued"]
        /\ UNCHANGED <<lock, snap, bears, attempt, result>>

-----------------------------------------------------------------------------

Start(t) ==
  /\ pc[t] = "idle"
  /\ \E c \in Calls :
       /\ call' = [call EXCEPT ![t] = c]
       /\ UNCHANGED <<credentials, token, aged, revoked>>
       /\ \/ /\ NeedsUpdate
             /\ Acquire(t, c, "stale")
          \/ /\ ~NeedsUpdate
             /\ UNCHANGED <<lock, why, attempt>>
             /\ Continue(t, c, "stale")

(* A waiter resumes once the lock was released.  asyncio wakes waiters in  *)
(* order of arrival; any order is allowed here.                            *)
Resume(t) ==
  /\ pc[t] = "queued"
  /\ lock = NoTask
  /\ UNCHANGED <<credentials, token, aged, revoked, call, why>>
  /\ UnderLock(t, call[t], why[t])

MintSucceeds(t) ==
  /\ pc[t] = "posting"
  /\ token < MaxToken
  /\ token' = token + 1
  /\ lock' = NoTask
  /\ attempt' = [attempt EXCEPT ![t] = 0]
  /\ UNCHANGED <<credentials, aged, revoked, call, why>>
  /\ Continue(t, call[t], why[t])

(* Mutant: the lock stays taken when the refresh raises. *)
MintRejected_LockKept(t) ==
  /\ pc[t] = "posting"
  /\ attempt' = [attempt EXCEPT ![t] = 0]
  /\ Finish(t, "RefreshRejected")
  /\ UNCHANGED <<credentials, token, aged, revoked, lock, call, why, snap,
                 bears>>

(* A RestgdfError (rejected credentials, a non-2xx status, an answer that  *)
(* does not parse) or any exception that is not a transient one.           *)
MintRejected(t) ==
  /\ pc[t] = "posting"
  /\ lock' = NoTask
  /\ attempt' = [attempt EXCEPT ![t] = 0]
  /\ Finish(t, "RefreshRejected")
  /\ UNCHANGED <<credentials, token, aged, revoked, call, why, snap, bears>>

(* Mutants: one attempt too many; the lock is let go during the backoff.    *)
MintUnreachable_OneMore(t) ==
  /\ pc[t] = "posting"
  /\ attempt[t] <= MaxAttempts
  /\ pc' = [pc EXCEPT ![t] = "backoff"]
  /\ UNCHANGED <<credentials, token, aged, revoked, lock, call, why, snap,
                 bears, attempt, result>>
MintUnreachable_Unlocks(t) ==
  /\ pc[t] = "posting"
  /\ attempt[t] < MaxAttempts
  /\ pc' = [pc EXCEPT ![t] = "backoff"]
  /\ lock' = NoTask
  /\ UNCHANGED <<credentials, token, aged, revoked, call, why, snap, bears,
                 attempt, result>>

(* OSError, asyncio.TimeoutError or ConnectionError. *)
MintUnreachable(t) ==
  /\ pc[t] = "posting"
  /\ \/ /\ attempt[t] < MaxAttempts
        /\ pc' = [pc EXCEPT ![t] = "backoff"]
        /\ UNCHANGED <<lock, attempt, result>>
     \/ /\ attempt[t] = MaxAttempts
        /\ lock' = NoTask
        /\ attempt' = [attempt EXCEPT ![t] = 0]
        /\ Finish(t, "TokenRefreshFailed")
  /\ UNCHANGED <<credentials, token, aged, revoked, call, why, snap, bears>>

BackoffEnds(t) ==
  /\ pc[t] = "backoff"
  /\ pc' = [pc EXCEPT ![t] = "posting"]
  /\ attempt' = [attempt EXCEPT ![t] = @ + 1]
  /\ UNCHANGED <<credentials, token, aged, revoked, lock, call, why, snap,
                 bears, result>>

(* The server answers 498 exactly to the tokens it rejects; it judges an   *)
(* explicit token as it likes, and a gateway on the way may answer 499.    *)
Rejects(t) == call[t] = "explicit" \/ bears[t] \in revoked
Accepts(t) == call[t] = "explicit" \/ bears[t] \notin revoked

Answer(t) ==
  /\ pc[t] = "sent"
  /\ UNCHANGED <<credentials, token, aged, revoked, call>>
  /\ \/ /\ \/ Accepts(t) /\ Finish(t, "response")
           \/ Finish(t, "AuthNotAttached")
           \/ Finish(t, "transport")
        /\ UNCHANGED <<lock, why, snap, bears, attempt>>
     \/ /\ Rejects(t)
        /\ Acquire(t, call[t], "rejected")

(* Mutant: every refusal of the retry is reported as an expired token. *)
AnswerRetry_AnyRefusal(t) ==
  /\ pc[t] = "resent"
  /\ \/ Accepts(t) /\ Finish(t, "response")
     \/ Finish(t, "TokenExpired")
  /\ UNCHANGED <<credentials, token, aged, revoked, lock, call, why, snap,
                 bears, attempt>>

AnswerRetry(t) ==
  /\ pc[t] = "resent"
  /\ \/ Accepts(t) /\ Finish(t, "response")
     \/ Rejects(t) /\ Finish(t, "TokenExpired")
     \/ Finish(t, "response499")
     \/ Finish(t, "transport")
  /\ UNCHANGED <<credentials, token, aged, revoked, lock, call, why, snap,
                 bears, attempt>>

(* Task.cancel at any await; leaving the lock's block releases it. *)
Cancel(t) ==
  /\ pc[t] \notin {"idle", "done"}
  /\ Finish(t, "cancelled")
  /\ lock' = IF lock = t THEN NoTask ELSE lock
  /\ attempt' = [attempt EXCEPT ![t] = 0]
  /\ UNCHANGED <<credentials, token, aged, revoked, call, why, snap, bears>>

(* The clock brings the held token within the refresh threshold. *)
Age ==
  /\ token > 0
  /\ aged' = aged \cup {token}
  /\ UNCHANGED <<credentials, token, revoked, lock, pc, call, why, snap,
                 bears, attempt, result>>

(* The server stops accepting a token it issued. *)
Revoke ==
  /\ \E k \in 1..token : revoked' = revoked \cup {k}
  /\ UNCHANGED <<credentials, token, aged, lock, pc, call, why, snap, bears,
                 attempt, result>>

(* Steps of the task itself, or of the server answering it. *)
Progress(t) ==
  \/ Resume(t)
  \/ MintSucceeds(t) \/ MintRejected(t) \/ MintUnreachable(t)
  \/ BackoffEnds(t)
  \/ Answer(t) \/ AnswerRetry(t)

AllDone ==
  /\ \A t \in Tasks : pc[t] = "done"
  /\ UNCHANGED vars

Next ==
  \/ \E t \in Tasks : Start(t) \/ Progress(t) \/ Cancel(t)
  \/ Age
  \/ Revoke
  \/ AllDone

Spec == Init /\ [][Next]_vars

(* A task that can run is run by the event loop, and every request ends:   *)
(* each one carries default_timeout().                                     *)
FairSpec == Spec /\ \A t \in Tasks : WF_vars(Progress(t))

-----------------------------------------------------------------------------
(* Properties *)

Refreshing(t) == pc[t] \in {"posting", "backoff"}

(* Calls that carried their own token and were answered 498.               *)
ExplicitRejected ==
  {t \in Tasks : call[t] = "explicit" /\ why[t] = "rejected"}

(* A token is spent when the clock or the server has put an end to it, or  *)
(* when it was held while an explicit token was answered 498: the code     *)
(* blames the session's token for that answer.                             *)
Spent == aged \cup revoked \cup {snap[t] : t \in ExplicitRejected}

(* Single flight: update_token runs in one task at a time, the one inside  *)
(* "async with self._refresh_lock".                                        *)
SingleFlight ==
  \A t \in Tasks : Refreshing(t) <=> lock = t

(* However many tasks see an expired or rejected token, it is replaced     *)
(* once: no refresh ever discards a token that was still good.             *)
ReplacedTokenWasSpent ==
  \A k \in 1..token : k < token => k \in Spent

(* A refresh in flight is for a session that has no good token, even when  *)
(* its task waited for the lock while another one refreshed.               *)
RefreshIsNeeded ==
  \A t \in Tasks : Refreshing(t) => token = 0 \/ token \in Spent

(* The retry after a 498 never carries the token that was just rejected.   *)
RetryBearsNewToken ==
  \A t \in Tasks :
    pc[t] = "resent" /\ call[t] = "request" => snap[t] < bears[t]

(* TokenExpiredError on a call without a token of its own means the server *)
(* rejected two different tokens, the second handed out after the first.   *)
ExpiredMeansTwoRejections ==
  \A t \in Tasks :
    result[t] = "TokenExpired" /\ call[t] = "request" =>
      /\ snap[t] < bears[t]
      /\ {snap[t], bears[t]} \subseteq revoked

(* Without credentials the session works as it was given: a call fails for *)
(* want of credentials only when the server rejected its token.            *)
AnonymousFailsOnlyWhenRejected ==
  \A t \in Tasks :
    result[t] = "AuthenticationError" =>
      /\ why[t] = "rejected"
      /\ call[t] = "request" => snap[t] \in revoked

(* Every call on the session returns or raises, also when refreshes fail   *)
(* or the task holding the lock is cancelled.                              *)
EveryCallEnds ==
  \A t \in Tasks : pc[t] # "idle" ~> pc[t] = "done"

(* The promise to callers, with "spent" and "renewing" read off the tasks. *)
Lifecycle == INSTANCE TokenLifecycle
  WITH spent <- Spent,
       renewing <- (\E t \in Tasks : Refreshing(t))

(* Seen from outside, the session is TokenLifecycle's: one renewal at a    *)
(* time, only of a missing or spent token, by the next one.                *)
ImplementsLifecycle == Lifecycle!LifecycleSpec

(* token.py:480 "**499** (Token Required): raise AuthNotAttachedError      *)
(* immediately": no caller is handed a 499 response.                       *)
No499Returned ==
  \A t \in Tasks : result[t] # "response499"
=============================================================================
