----------------------------- MODULE Resilience -----------------------------
(***************************************************************************)
(* Requests of one ResilientSession (restgdf/resilience/_retry.py): each   *)
(* is a loop of attempts, and every attempt waits out the 429 cooldown of  *)
(* its key, takes a token of the key's bucket, and sends                   *)
(* (_limiter.py).  The key is the service root or the host.                *)
(*                                                                         *)
(* Time is counted in ticks.  A deadline is kept as the ticks left to it,  *)
(* 0 when it has passed or none is set.  A sleep of n ticks ends after n   *)
(* ticks or later, as the event loop gets to it; an answer may take any    *)
(* time.                                                                   *)
(*                                                                         *)
(* No name here is one of Requests', so that a module can extend both.     *)
(***************************************************************************)
EXTENDS Naturals

CONSTANTS
  Callers,
  Service,       (* the service root each task asks                         *)
  ByHost,        (* limiter_key = "host": all services here share one host  *)
  MaxAttempts,   (* max_attempts                                            *)
  Budget,        (* retry_budget_s                                          *)
  MaxBackoff,    (* wait_max_s                                              *)
  RetryAfters,   (* what a 429 may say, 0 for nothing usable                *)
  MaxHonoured,   (* respect_retry_after_max_s                               *)
  Fallback,      (* fallback_retry_after_seconds                            *)
  Capacity,      (* tokens of a full bucket                                 *)
  Period         (* ticks in which a full bucket drains                     *)

ASSUME ResilienceAssumption ==
  /\ ByHost \in BOOLEAN
  /\ {MaxAttempts, Budget, MaxHonoured, Fallback, Capacity, Period}
       \subseteq Nat \ {0}
  /\ MaxBackoff \in Nat
  /\ RetryAfters \subseteq Nat

Lower(a, b) == IF a < b THEN a ELSE b
Sooner(a, ticks) == IF a < ticks THEN 0 ELSE a - ticks

Host == "host"
LimiterKeys == IF ByHost THEN {Host} ELSE {Service[t] : t \in Callers}

(* key_fn: _host or _service_root. *)
Key(t) == IF ByHost THEN Host ELSE Service[t]

Cooldowns == 1..(IF MaxHonoured < Fallback THEN Fallback ELSE MaxHonoured)

VARIABLES
  pc,        (* where a request is suspended, or how it ended               *)
  attempt,   (* stamina's attempt number                                    *)
  elapsed,   (* ticks since the first attempt, counted up to Budget         *)
  sleep,     (* ticks left of the request's current sleep                   *)
  fresh,     (* no 429 set a deadline since the attempt read its own        *)
  cool,      (* the deadline of each key in CooldownRegistry                *)
  level,     (* of each key's bucket, a token being Period                  *)
  told,      (* the deadline the last 429 of the key asked for              *)
  owed,      (* of it, what was left when the attempt began                 *)
  burst      (* requests sent under the key in this tick                    *)

program == <<pc, attempt, elapsed, sleep, fresh, cool, level>>
ghosts == <<told, owed, burst>>
resilienceVars == <<program, ghosts>>

Failures == {"rate_limited", "server_error", "transport", "timeout"}
Ended == Failures \cup {"ok", "error", "cancelled"}

ResilienceTypeOK ==
  /\ pc \in [Callers -> {"begin", "cooling", "limiter", "sent", "backoff"}
                        \cup Ended]
  /\ attempt \in [Callers -> 1..MaxAttempts]
  /\ elapsed \in [Callers -> 0..Budget]
  /\ sleep \in [Callers -> Nat]
  /\ fresh \in [Callers -> BOOLEAN]
  /\ cool \in [LimiterKeys -> {0} \cup Cooldowns]
  /\ level \in [LimiterKeys -> 0..Capacity * Period]
  /\ told \in [LimiterKeys -> {0} \cup Cooldowns]
  /\ owed \in [Callers -> {0} \cup Cooldowns]
  /\ burst \in [LimiterKeys -> Nat]

ResilienceInit ==
  /\ pc = [t \in Callers |-> "begin"]
  /\ attempt = [t \in Callers |-> 1]
  /\ elapsed = [t \in Callers |-> 0]
  /\ sleep = [t \in Callers |-> 0]
  /\ fresh = [t \in Callers |-> TRUE]
  /\ cool = [k \in LimiterKeys |-> 0]
  /\ level = [k \in LimiterKeys |-> 0]
  /\ told = [k \in LimiterKeys |-> 0]
  /\ owed = [t \in Callers |-> 0]
  /\ burst = [k \in LimiterKeys |-> 0]

-----------------------------------------------------------------------------

(* An attempt begins: wait_if_cooling up to its sleep, or past it.         *)
Begin(t) ==
  /\ pc[t] = "begin"
  /\ \/ /\ cool[Key(t)] > 0
        /\ pc' = [pc EXCEPT ![t] = "cooling"]
        /\ sleep' = [sleep EXCEPT ![t] = cool[Key(t)]]
        /\ fresh' = [fresh EXCEPT ![t] = TRUE]
     \/ /\ cool[Key(t)] = 0
        /\ pc' = [pc EXCEPT ![t] = "limiter"]
        /\ UNCHANGED <<sleep, fresh>>
  /\ owed' = [owed EXCEPT ![t] = told[Key(t)]]
  /\ UNCHANGED <<attempt, elapsed, cool, level, told, burst>>

(* Mutant: the waiter clears whatever deadline it finds. *)
WakeUp_ClearsAny(t) ==
  /\ pc[t] = "cooling" /\ sleep[t] = 0
  /\ pc' = [pc EXCEPT ![t] = "limiter"]
  /\ cool' = [cool EXCEPT ![Key(t)] = 0]
  /\ UNCHANGED <<attempt, elapsed, sleep, fresh, level, ghosts>>

(* The cooldown sleep ends; a deadline that is still the one read is       *)
(* popped, a newer one left for the next attempt.                          *)
WakeUp(t) ==
  /\ pc[t] = "cooling" /\ sleep[t] = 0
  /\ pc' = [pc EXCEPT ![t] = "limiter"]
  /\ cool' = [cool EXCEPT ![Key(t)] = IF fresh[t] THEN 0 ELSE @]
  /\ UNCHANGED <<attempt, elapsed, sleep, fresh, level, ghosts>>

(* Mutant: only the first attempt of a request takes a token. *)
Send_RetriesFree(t) ==
  /\ pc[t] = "limiter"
  /\ \/ /\ attempt[t] > 1
        /\ UNCHANGED level
     \/ /\ attempt[t] = 1
        /\ level[Key(t)] + Period <= Capacity * Period
        /\ level' = [level EXCEPT ![Key(t)] = @ + Period]
  /\ pc' = [pc EXCEPT ![t] = "sent"]
  /\ burst' = [burst EXCEPT ![Key(t)] = @ + 1]
  /\ UNCHANGED <<attempt, elapsed, sleep, fresh, cool, told, owed>>

(* AsyncLimiter.acquire, and the dispatch, without an await between them. *)
Send(t) ==
  /\ pc[t] = "limiter"
  /\ level[Key(t)] + Period <= Capacity * Period
  /\ level' = [level EXCEPT ![Key(t)] = @ + Period]
  /\ pc' = [pc EXCEPT ![t] = "sent"]
  /\ burst' = [burst EXCEPT ![Key(t)] = @ + 1]
  /\ UNCHANGED <<attempt, elapsed, sleep, fresh, cool, told, owed>>

(* stamina gives up after an attempt, never during one. *)
Exhausted(t) == attempt[t] = MaxAttempts \/ elapsed[t] = Budget

(* The attempt failed in a way that is retried; outcome is what the last   *)
(* failure is mapped to.                                                   *)
Fail(t, outcome) ==
  \/ /\ Exhausted(t)
     /\ pc' = [pc EXCEPT ![t] = outcome]
     /\ UNCHANGED sleep
  \/ /\ ~Exhausted(t)
     /\ pc' = [pc EXCEPT ![t] = "backoff"]
     /\ \E n \in 0..MaxBackoff : sleep' = [sleep EXCEPT ![t] = n]

(* Mutant: respect_retry_after_max_s is not applied. *)
CooldownFor_Uncapped(retryAfter) ==
  IF retryAfter = 0 THEN Fallback ELSE retryAfter

CooldownFor(retryAfter) ==
  IF retryAfter = 0 THEN Fallback ELSE Lower(retryAfter, MaxHonoured)

(* 429: set_cooldown, then the attempt fails. *)
TooManyRequests(t) ==
  /\ pc[t] = "sent"
  /\ \E retryAfter \in RetryAfters :
       /\ cool' = [cool EXCEPT ![Key(t)] = CooldownFor(retryAfter)]
       /\ told' = [told EXCEPT ![Key(t)] = CooldownFor(retryAfter)]
  /\ fresh' = [u \in Callers |-> fresh[u] /\ Key(u) # Key(t)]
  /\ Fail(t, "rate_limited")
  /\ UNCHANGED <<attempt, elapsed, level, owed, burst>>

(* 500, 502, 503, 504, a read timeout, a lost connection or payload. *)
OtherFailure(t) ==
  /\ pc[t] = "sent"
  /\ \E outcome \in Failures \ {"rate_limited"} : Fail(t, outcome)
  /\ UNCHANGED <<attempt, elapsed, fresh, cool, level, ghosts>>

(* Any other answer or exception, or the caller's cancellation at an await. *)
Settle(t) ==
  /\ \/ /\ pc[t] = "sent"
        /\ \E outcome \in {"ok", "error"} :
             pc' = [pc EXCEPT ![t] = outcome]
     \/ /\ pc[t] \notin Ended
        /\ pc' = [pc EXCEPT ![t] = "cancelled"]
  /\ UNCHANGED <<attempt, elapsed, sleep, fresh, cool, level, ghosts>>

(* Mutant: every retry starts a retry context of its own. *)
Retry_StartsOver(t) ==
  /\ pc[t] = "backoff" /\ sleep[t] = 0
  /\ pc' = [pc EXCEPT ![t] = "begin"]
  /\ elapsed' = [elapsed EXCEPT ![t] = 0]
  /\ UNCHANGED <<attempt, sleep, fresh, cool, level, ghosts>>

Retry(t) ==
  /\ pc[t] = "backoff" /\ sleep[t] = 0
  /\ pc' = [pc EXCEPT ![t] = "begin"]
  /\ attempt' = [attempt EXCEPT ![t] = @ + 1]
  /\ UNCHANGED <<elapsed, sleep, fresh, cool, level, ghosts>>

Running == {t \in Callers : pc[t] \notin Ended}

Tick ==
  /\ Running # {}
  /\ elapsed' = [t \in Callers |->
                   IF t \in Running THEN Lower(elapsed[t] + 1, Budget)
                                    ELSE elapsed[t]]
  /\ sleep' = [t \in Callers |-> Sooner(sleep[t], 1)]
  /\ cool' = [k \in LimiterKeys |-> Sooner(cool[k], 1)]
  /\ told' = [k \in LimiterKeys |-> Sooner(told[k], 1)]
  /\ owed' = [t \in Callers |-> Sooner(owed[t], 1)]
  /\ level' = [k \in LimiterKeys |-> Sooner(level[k], Capacity)]
  /\ burst' = [k \in LimiterKeys |-> 0]
  /\ UNCHANGED <<pc, attempt, fresh>>

RequestStep(t) ==
  \/ Begin(t) \/ WakeUp(t) \/ Send(t) \/ Retry(t)
  \/ TooManyRequests(t) \/ OtherFailure(t) \/ Settle(t)

ResilienceNext ==
  \/ \E t \in Callers : RequestStep(t)
  \/ Tick
  \/ Running = {} /\ UNCHANGED resilienceVars

ResilienceSpec == ResilienceInit /\ [][ResilienceNext]_resilienceVars

(* Time passes, the event loop runs what can run, the bucket serves its    *)
(* waiters in turn, and a request sent is answered (the session's          *)
(* timeout).                                                               *)
FairResilienceSpec ==
  /\ ResilienceSpec
  /\ WF_resilienceVars(Tick)
  /\ \A t \in Callers : WF_resilienceVars(RequestStep(t))

-----------------------------------------------------------------------------
(* Properties *)

(* No attempt sends before the deadline the last 429 of its key had set    *)
(* when the attempt began, whichever waiters woke and cleared deadlines    *)
(* meanwhile (CooldownRegistry.wait_if_cooling).                           *)
DeadlineIsWaitedOut ==
  [][\A t \in Callers :
       pc[t] = "limiter" /\ pc'[t] = "sent" => owed[t] = 0]_resilienceVars

(* However many waiters a cooldown releases at once, and retries           *)
(* included, no more than a bucketful is sent under a key in one tick.     *)
BurstBounded ==
  \A k \in LimiterKeys : burst[k] <= Capacity

(* Every request ends: attempts, cooldown sleeps and backoffs are all      *)
(* bounded.                                                                *)
EveryRequestEnds == \A t \in Callers : <>(pc[t] \in Ended)

(* docs/recipes/tracing.md on a 429's cooldown: "subsequent requests ...   *)
(* wait until the deadline passes": another 429 does not bring it forward. *)
DeadlineNeverBroughtForward ==
  [][\A k \in LimiterKeys : told'[k] >= Sooner(told[k], 1)]_resilienceVars
=============================================================================
