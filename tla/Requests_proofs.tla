--------------------------- MODULE Requests_proofs ---------------------------
(***************************************************************************)
(* Proofs about Requests, for any number of tasks, any calls, sessions and *)
(* answers, and every limit of a URL's length; and about Resilience, the   *)
(* session that repeats the requests, for every set of callers, services,  *)
(* cooldown lengths, retry policies and bucket sizes.                      *)
(***************************************************************************)
EXTENDS Requests, Resilience, TLAPS

(* A task that sleeps between two attempts may make another, and a call    *)
(* that is not patient makes one.                                          *)
TriesInv ==
  \A t \in Tasks :
    /\ phase[t] = "asleep" => MayRetry(t)
    /\ phase[t] # "idle" => tries[t] >= 1
    /\ phase[t] # "idle" /\ ~call[t].patient => tries[t] = 1

(* What a call that has just returned a result was made of. *)
GivenInv ==
  outcome # Unset /\ outcome.end \in {"given", "incomplete"} =>
    /\ outcome.call \in Calls /\ outcome.raw \in Answers
    /\ outcome.end = End(outcome.call, outcome.raw)
    /\ Drifts(outcome.call.op.model, outcome.raw) \subseteq seen

IInv == TypeOK /\ DriftLoggedOnce /\ TriesInv /\ GivenInv /\ PatienceIsBounded

-----------------------------------------------------------------------------
(* The operators *)

LEMMA OperationType ==
  ASSUME NEW o \in Operations
  PROVE  /\ o.model \in Models
         /\ o.data \in {"merged", "token", "whole"}
<1> USE DEF Models, Strict, Permissive
<1>1. CASE o \in {Count, ObjectIds}
  BY <1>1 DEF Count, ObjectIds
<1>2. CASE o \in {UniqueValues, ValueCounts}
  BY <1>2 DEF UniqueValues, ValueCounts
<1>3. CASE o \in {NestedCount, Metadata}
  BY <1>3 DEF NestedCount, Metadata
<1>4. CASE o \in {Rows, Page}
  BY <1>4 DEF Rows, Page
<1>5. QED
  BY <1>1, <1>2, <1>3, <1>4 DEF Operations

LEMMA CallType ==
  ASSUME NEW c \in Calls
  PROVE  /\ c.op.model \in Models /\ c.op.data \in {"merged", "token", "whole"}
         /\ c.token \in BOOLEAN /\ c.patient \in BOOLEAN /\ c.flags \in BOOLEAN
         /\ c.where \in Nat \cup {Unset}
         /\ c.op.model \notin Strict => c.op.model \in Permissive
         /\ c # Unset
<1>1. c \in AllCalls /\ c # Unset
  BY RequestsAssumption
<1>2. c.op \in Operations
  BY <1>1 DEF AllCalls
<1>3. c.op.model \in Models /\ c.op.data \in {"merged", "token", "whole"}
  BY <1>2, OperationType
<1>4. QED
  BY <1>1, <1>3 DEF AllCalls, Models

(* Drift is about a permissive model and one of the places. *)
LEMMA DriftsAreKeys ==
  ASSUME NEW c \in Calls, NEW raw \in Answers
  PROVE  Drifts(c.op.model, raw) \subseteq Keys
<1>1. raw.bad \subseteq {"field", "item"}
  BY RequestsAssumption DEF AllAnswers, Payloads, OtherAnswers
<1>2. Dropped(raw) \cup Undeclared(raw) \subseteq Places
  BY <1>1 DEF Dropped, Undeclared, Places
<1>3. QED
  BY <1>2, CallType DEF Drifts, Keys

(* Logging keeps one record for each kind of drift seen, and sees them all.*)
LEMMA LogDriftOnce ==
  ASSUME DriftType, DriftLoggedOnce, NEW keys \in SUBSET Keys, LogDrift(keys)
  PROVE  DriftType' /\ DriftLoggedOnce' /\ keys \subseteq seen'
<1>1. /\ seen' = seen \cup keys
      /\ logs' = [k \in Keys |-> IF k \in keys \ seen /\ logs[k] < 2
                                 THEN logs[k] + 1 ELSE logs[k]]
  BY DEF LogDrift
<1>2. seen \subseteq Keys /\ logs \in [Keys -> 0..2]
  BY DEF DriftType
<1>3. ASSUME NEW k \in Keys
      PROVE  /\ logs'[k] \in 0..2 /\ logs'[k] <= 1
             /\ k \in seen' <=> logs'[k] = 1
  <2>1. logs[k] \in 0..2 /\ logs[k] <= 1 /\ (k \in seen <=> logs[k] = 1)
    BY <1>2 DEF DriftLoggedOnce
  <2>2. CASE k \in keys \ seen
    BY <1>1, <2>1, <2>2
  <2>3. CASE k \notin keys \ seen
    BY <1>1, <2>1, <2>3
  <2>4. QED
    BY <2>2, <2>3
<1>4. QED
  BY <1>1, <1>2, <1>3 DEF DriftType, DriftLoggedOnce

-----------------------------------------------------------------------------
(* The invariant *)

LEMMA InitEstablishes == Init => IInv
<1> SUFFICES ASSUME Init PROVE IInv
  OBVIOUS
<1>1. TypeOK
  BY RequestsAssumption DEF Init, TypeOK, DriftInit, DriftType
<1>2. DriftLoggedOnce /\ TriesInv /\ GivenInv /\ PatienceIsBounded
  BY DEF Init, DriftInit, DriftLoggedOnce, TriesInv, GivenInv,
     PatienceIsBounded
<1>3. QED
  BY <1>1, <1>2 DEF IInv

LEMMA AskStep ==
  ASSUME IInv, NEW t \in Tasks, Ask(t)
  PROVE  IInv'
<1>1. PICK c \in Calls :
        /\ call' = [call EXCEPT ![t] = c]
        /\ phase' = [phase EXCEPT ![t] = "sent"]
        /\ tries' = [tries EXCEPT ![t] = 1]
        /\ outcome' = Unset /\ UNCHANGED <<session, seen, logs>>
  BY DEF Ask, drift
<1>2. c # Unset /\ MaxTries \in Nat \ {0}
  BY CallType, RequestsAssumption
<1>3. TypeOK'
  BY <1>1, <1>2 DEF IInv, TypeOK, DriftType
<1>4. TriesInv'
  BY <1>1 DEF IInv, TypeOK, TriesInv, MayRetry
<1>5. DriftLoggedOnce' /\ GivenInv' /\ PatienceIsBounded'
  BY <1>1 DEF IInv, DriftLoggedOnce, GivenInv, PatienceIsBounded
<1>6. QED
  BY <1>3, <1>4, <1>5 DEF IInv

(* Steps within a call. *)
LEMMA WaitStep ==
  ASSUME IInv, NEW t \in Tasks, Responds(t) \/ BacksOff(t) \/ TriesAgain(t)
  PROVE  IInv'
<1>1. outcome' = Unset /\ UNCHANGED <<session, call, seen, logs>>
  BY DEF Responds, BacksOff, TriesAgain, drift
<1>2. phase[t] # "idle"
  BY DEF Responds, BacksOff, TriesAgain
<1>3. PICK p \in {"sent", "reading", "asleep"} :
        /\ phase' = [phase EXCEPT ![t] = p]
        /\ p = "asleep" => MayRetry(t) /\ tries' = tries
        /\ \/ tries' = tries
           \/ /\ MayRetry(t) /\ p = "sent"
              /\ tries' = [tries EXCEPT ![t] = @ + 1]
  <2>1. CASE Responds(t)
    BY <2>1 DEF Responds
  <2>2. CASE BacksOff(t)
    BY <2>2 DEF BacksOff
  <2>3. CASE TriesAgain(t)
    BY <2>3 DEF TriesAgain, IInv, TriesInv
  <2>4. QED
    BY <2>1, <2>2, <2>3
<1>4. TypeOK'
  <2>1. tries' \in [Tasks -> 0..MaxTries]
    BY <1>3, RequestsAssumption DEF MayRetry, IInv, TypeOK
  <2>2. phase' \in [Tasks -> {"idle", "sent", "reading", "asleep"}]
    BY <1>3 DEF IInv, TypeOK
  <2>3. \A u \in Tasks : call'[u] = Unset <=> phase'[u] = "idle"
    BY <1>1, <1>2, <1>3 DEF IInv, TypeOK
  <2>4. QED
    BY <1>1, <2>1, <2>2, <2>3 DEF IInv, TypeOK, DriftType
<1>5. TriesInv'
  <2> SUFFICES ASSUME NEW u \in Tasks
               PROVE  /\ phase'[u] = "asleep" => MayRetry(u)'
                      /\ phase'[u] # "idle" => tries'[u] >= 1
                      /\ phase'[u] # "idle" /\ ~call'[u].patient =>
                           tries'[u] = 1
    BY DEF TriesInv
  <2>1. CASE u # t
    <3>1. phase'[u] = phase[u] /\ tries'[u] = tries[u] /\ call'[u] = call[u]
      BY <1>1, <1>3, <2>1 DEF IInv, TypeOK
    <3>2. QED
      BY <3>1 DEF IInv, TriesInv, MayRetry
  <2>2. CASE u = t
    <3>1. tries[t] \in 0..MaxTries /\ phase'[t] = p /\ call'[t] = call[t]
      BY <1>1, <1>3 DEF IInv, TypeOK
    <3>2. /\ tries[t] >= 1
          /\ ~call[t].patient => tries[t] = 1
      BY <1>2 DEF IInv, TriesInv
    <3>3. CASE tries' = tries
      BY <1>1, <1>3, <2>2, <3>1, <3>2, <3>3 DEF MayRetry
    <3>4. CASE MayRetry(t) /\ p = "sent" /\ tries' = [tries EXCEPT ![t] = @ + 1]
      <4>1. tries'[t] = tries[t] + 1 /\ call[t].patient
        BY <3>4 DEF IInv, TypeOK, MayRetry
      <4>2. QED
        BY <2>2, <3>1, <3>2, <3>4, <4>1
    <3>5. QED
      BY <1>3, <3>3, <3>4
  <2>3. QED
    BY <2>1, <2>2
<1>6. DriftLoggedOnce' /\ GivenInv' /\ PatienceIsBounded'
  BY <1>1 DEF IInv, DriftLoggedOnce, GivenInv, PatienceIsBounded
<1>7. QED
  BY <1>4, <1>5, <1>6 DEF IInv

(* The end of a call leaves the task idle. *)
LEMMA EndsStep ==
  ASSUME IInv, NEW t \in Tasks, NEW end, NEW raw, Ends(t, end, raw), DriftType'
  PROVE  TypeOK' /\ TriesInv'
<1>1. /\ call' = [call EXCEPT ![t] = Unset]
      /\ phase' = [phase EXCEPT ![t] = "idle"]
      /\ tries' = [tries EXCEPT ![t] = 0] /\ session' = session
  BY DEF Ends
<1>2. TypeOK'
  BY <1>1, RequestsAssumption DEF IInv, TypeOK
<1>3. TriesInv'
  BY <1>1 DEF IInv, TypeOK, TriesInv, MayRetry
<1>4. QED
  BY <1>2, <1>3

LEMMA ParsesStep ==
  ASSUME IInv, NEW t \in Tasks, Parses(t)
  PROVE  IInv'
<1>1. PICK raw \in Answers :
        /\ LogDrift(IF Unparsed(call[t], raw) THEN {}
                    ELSE Drifts(call[t].op.model, raw))
        /\ Ends(t, End(call[t], raw), raw)
  BY DEF Parses
<1>2. call[t] \in Calls
  BY DEF Parses, IInv, TypeOK
<1> DEFINE keys == IF Unparsed(call[t], raw) THEN {}
                   ELSE Drifts(call[t].op.model, raw)
<1>3. keys \in SUBSET Keys
  BY <1>2, DriftsAreKeys
<1>4. DriftType' /\ DriftLoggedOnce' /\ keys \subseteq seen'
  BY <1>1, <1>3, LogDriftOnce DEF IInv, TypeOK
<1>5. TypeOK' /\ TriesInv'
  BY <1>1, <1>4, EndsStep
<1>6. /\ outcome'.call = call[t] /\ outcome'.raw = raw
      /\ outcome'.end = End(call[t], raw)
  BY <1>1 DEF Ends
<1>7. GivenInv'
  <2>1. End(call[t], raw) \in {"given", "incomplete"} => ~Unparsed(call[t], raw)
    BY DEF End
  <2>2. End(call[t], raw) \in {"given", "incomplete"} =>
          Drifts(call[t].op.model, raw) \subseteq seen'
    BY <1>4, <2>1
  <2>3. QED
    BY <1>2, <1>6, <2>2 DEF GivenInv
<1>8. PatienceIsBounded'
  BY <1>6 DEF PatienceIsBounded, End
<1>9. QED
  BY <1>4, <1>5, <1>7, <1>8 DEF IInv

LEMMA FailsStep ==
  ASSUME IInv, NEW t \in Tasks, Fails(t) \/ TimesOut(t)
  PROVE  IInv'
<1>1. UNCHANGED <<seen, logs>>
  BY DEF Fails, TimesOut, drift
<1>2. DriftType' /\ DriftLoggedOnce'
  BY <1>1 DEF IInv, TypeOK, DriftType, DriftLoggedOnce
<1>3. TypeOK' /\ TriesInv'
  BY <1>2, EndsStep DEF Fails, TimesOut
<1>4. outcome'.end \in {"failed", "timeout"} /\ GivenInv'
  BY DEF Fails, TimesOut, Ends, GivenInv
<1>5. PatienceIsBounded'
  <2>1. CASE Fails(t)
    BY <2>1 DEF Fails, Ends, PatienceIsBounded
  <2>2. CASE TimesOut(t)
    <3>1. /\ phase[t] # "idle" /\ ~MayRetry(t)
          /\ outcome'.call = call[t] /\ outcome'.tries = tries[t]
      BY <2>2 DEF TimesOut, Ends
    <3>2. call[t] \in Calls /\ tries[t] \in 0..MaxTries
      BY <3>1 DEF IInv, TypeOK
    <3>3. ~call[t].patient => tries[t] = 1
      BY <3>1 DEF IInv, TriesInv
    <3>4. call[t].patient => tries[t] = MaxTries
      BY <3>1, <3>2, RequestsAssumption DEF MayRetry
    <3>5. QED
      BY <3>1, <3>3, <3>4 DEF PatienceIsBounded
  <2>3. QED
    BY <2>1, <2>2
<1>6. QED
  BY <1>2, <1>3, <1>4, <1>5 DEF IInv

LEMMA ResetStep ==
  ASSUME IInv, Reset
  PROVE  IInv'
<1>1. /\ seen' = {} /\ logs' = [k \in Keys |-> 0] /\ outcome' = Unset
      /\ UNCHANGED <<session, call, phase, tries>>
  BY DEF Reset, ResetDriftCache
<1>2. QED
  BY <1>1 DEF IInv, TypeOK, DriftType, DriftLoggedOnce, TriesInv, MayRetry,
     GivenInv, PatienceIsBounded

LEMMA NextPreserves == IInv /\ [Next]_vars => IInv'
<1> SUFFICES ASSUME IInv, [Next]_vars PROVE IInv'
  OBVIOUS
<1>1. CASE UNCHANGED vars
  BY <1>1 DEF vars, drift, IInv, TypeOK, DriftType, DriftLoggedOnce, TriesInv,
     MayRetry, GivenInv, PatienceIsBounded
<1>2. CASE Next
  BY <1>2, AskStep, WaitStep, ParsesStep, FailsStep, ResetStep DEF Next, Step
<1>3. QED
  BY <1>1, <1>2

LEMMA InvariantHolds == Spec => []IInv
<1>1. QED
  BY InitEstablishes, NextPreserves, PTL DEF Spec

-----------------------------------------------------------------------------
(* The results *)

(* Sessions, calls, attempts and the drift cache keep their types, and a   *)
(* task without a call is idle.                                            *)
THEOREM TypeCorrect == Spec => []TypeOK
<1>1. IInv => TypeOK
  BY DEF IInv
<1>2. QED
  BY <1>1, InvariantHolds, PTL

(* Whatever the session is wrapped in and whatever the caller passes, what *)
(* is sent is short enough for its verb, bears one credential and none in  *)
(* the URL, and asks what the helper is called for (_http.py:144-150).     *)
THEOREM RequestsAlwaysSound == Spec => []RequestsAreSound
<1>1. ASSUME TypeOK, NEW t \in Under
      PROVE  /\ Wire(session, call[t]).verb = "GET" =>
                  /\ Wire(session, call[t]).length <= Limit
                  /\ Wire(session, call[t]).tokens = {}
             /\ call[t].token => /\ Wire(session, call[t]).tokens = {"caller"}
                                 /\ ~Wire(session, call[t]).header
             /\ ~call[t].token /\ session.transport # "plain" =>
                  (Wire(session, call[t]).header
                     <=> Wire(session, call[t]).tokens = {})
             /\ call[t].op.data = "merged" =>
                  /\ Wire(session, call[t]).asks = call[t].op.asks
                  /\ Wire(session, call[t]).where = WhereOf(call[t])
  <2>1. call[t] \in Calls
    BY <1>1 DEF Under, TypeOK
  <2> DEFINE c == call[t]
             p == Payload(c)
             w == Wire(session, c)
  <2>2. /\ p.token = c.token /\ c.token \in BOOLEAN
        /\ c.op.data = "merged" =>
             p.asks = c.op.asks /\ p.where = WhereOf(c)
    BY <2>1, CallType DEF Payload
  <2>3. /\ w.verb = Verb(session, p) /\ w.length = LengthOf(p)
        /\ w.tokens = TokensOf(session, p) /\ w.header = HeaderOf(session, p)
        /\ w.where = p.where /\ w.asks = p.asks
    BY DEF Wire
  <2>4. session.transport \in {"plain", "header", "body", "query"}
    BY <1>1, RequestsAssumption DEF TypeOK, AllSessions
  <2>5. w.verb = "GET" => w.length <= Limit /\ w.tokens = {}
    BY <2>2, <2>3 DEF Verb, ChooseVerb, TokensOf
  <2>6. c.token => w.tokens = {"caller"} /\ ~w.header
    BY <2>2, <2>3 DEF TokensOf, HeaderOf
  <2>7. ~c.token /\ session.transport # "plain" =>
          (w.header <=> w.tokens = {})
    BY <2>2, <2>3, <2>4 DEF TokensOf, HeaderOf, RequiresBody
  <2>8. QED
    BY <2>2, <2>3, <2>5, <2>6, <2>7
<1>2. IInv => RequestsAreSound
  BY <1>1 DEF IInv, RequestsAreSound, UrlsAreShortAndClean, OneCredential,
     QuestionIsKept
<1>3. QED
  BY <1>2, InvariantHolds, PTL

(* No envelope, no partial answer to a strict question and no rows cut by  *)
(* the server are ever returned as a result (_drift.py:186-222).           *)
THEOREM OnlyDataIsData == Spec => []NothingPassesForData
<1>1. ASSUME IInv, outcome # Unset, outcome.end \in {"given", "incomplete"}
      PROVE  /\ outcome.raw.shape # "envelope"
             /\ outcome.call.op.model \in Strict =>
                  outcome.raw.whole /\ outcome.raw.bad = {}
             /\ outcome.end = "given" /\ outcome.call.op.looks =>
                  ~outcome.raw.truncated
  <2>1. /\ outcome.call \in Calls /\ outcome.raw \in Answers
        /\ outcome.end = End(outcome.call, outcome.raw)
    BY <1>1 DEF IInv, GivenInv
  <2>2. ~Raises(outcome.call.op.model, outcome.raw)
    BY <1>1, <2>1 DEF End
  <2>3. QED
    BY <1>1, <2>1, <2>2 DEF Raises, Fits, IsErrorEnvelope, End
<1>2. IInv => NothingPassesForData
  BY <1>1 DEF NothingPassesForData, ErrorsAreNotData, TruncationIsSeen
<1>3. QED
  BY <1>2, InvariantHolds, PTL

(* What a parse has dropped is on record, once, before its caller gets the *)
(* result, however many tasks share the record (_drift.py:116-132).        *)
THEOREM DriftAlwaysOnRecord == Spec => []DriftIsOnRecord
<1>1. ASSUME IInv, outcome # Unset, outcome.end \in {"given", "incomplete"},
             NEW place \in Dropped(outcome.raw),
             outcome.call.op.model \in Permissive
      PROVE  logs[<<outcome.call.op.model, place>>] > 0
  <2> DEFINE model == outcome.call.op.model
             key == <<model, place>>
  <2>1. /\ outcome.call \in Calls /\ outcome.raw \in Answers
        /\ outcome.end = End(outcome.call, outcome.raw)
        /\ Drifts(model, outcome.raw) \subseteq seen
    BY <1>1 DEF IInv, GivenInv
  <2>2. model \notin Strict
    BY <1>1 DEF Strict, Permissive
  <2>3. ~IsErrorEnvelope(outcome.raw)
    BY <1>1, <2>1, <2>2 DEF End, Raises
  <2>4. key \in Drifts(model, outcome.raw)
    BY <1>1, <2>2, <2>3 DEF Drifts
  <2>5. key \in seen /\ key \in Keys
    BY <2>1, <2>4, DriftsAreKeys
  <2>6. logs[key] = 1
    BY <1>1, <2>5 DEF IInv, DriftLoggedOnce
  <2>7. QED
    BY <2>6
<1>2. IInv => LossIsLogged
  BY <1>1 DEF LossIsLogged
<1>3. IInv => DriftIsOnRecord
  BY <1>2 DEF IInv, DriftIsOnRecord
<1>4. QED
  BY <1>3, InvariantHolds, PTL

(* A call that reports a timeout has used all the attempts it had: one, or *)
(* MaxTries when it is a patient count (getinfo.py:159-181).               *)
THEOREM PatienceHasItsBound == Spec => []PatienceIsBounded
<1>1. IInv => PatienceIsBounded
  BY DEF IInv
<1>2. QED
  BY <1>1, InvariantHolds, PTL

-----------------------------------------------------------------------------
(* The resilient session *)

(* What a request knows at each await.  A sleep is as long as the         *)
(* deadline that was read; unless a 429 moved it meanwhile, the deadline   *)
(* passes no later than the sleep ends.                                    *)
WaiterInv(t) ==
  /\ pc[t] = "cooling" =>
       /\ owed[t] <= sleep[t]
       /\ fresh[t] => cool[Key(t)] <= sleep[t]
  /\ pc[t] = "limiter" => owed[t] = 0
  /\ pc[t] = "backoff" => attempt[t] < MaxAttempts

(* The registry holds what the last 429 asked for: no waiter clears a      *)
(* deadline that has not passed.                                           *)
RegistryInv == cool = told

DeadlineInv == ResilienceTypeOK /\ RegistryInv /\ \A t \in Callers : WaiterInv(t)

(* Each request sent in this tick has left its token in the bucket.        *)
BucketInv ==
  \A k \in LimiterKeys : burst[k] * Period <= level[k]

SessionInv == DeadlineInv /\ BucketInv

-----------------------------------------------------------------------------

(* A request's key is one of the limiter's. *)
LEMMA KeyInKeys == \A t \in Callers : Key(t) \in LimiterKeys
  BY DEF Key, LimiterKeys

(* A cooldown is set for at least a tick, and for no longer than the code  *)
(* honours.                                                                *)
LEMMA CooldownInRange ==
  \A retryAfter \in RetryAfters : CooldownFor(retryAfter) \in Cooldowns
  BY ResilienceAssumption DEF CooldownFor, Cooldowns, Lower

(* Ticks only lower a deadline, and keep two deadlines in their order. *)
LEMMA SoonerIsMonotone ==
  \A a, b, n \in Nat :
    /\ Sooner(a, n) \in Nat /\ Sooner(a, n) <= a
    /\ a <= b => Sooner(a, n) <= Sooner(b, n)
  BY DEF Sooner

(* A new session satisfies the inductive invariant. *)
LEMMA InitIInv == ResilienceInit => SessionInv
  BY ResilienceAssumption
     DEF ResilienceInit, SessionInv, DeadlineInv, ResilienceTypeOK,
          RegistryInv, WaiterInv, BucketInv,
         Ended, Failures, Cooldowns

(* Each step keeps the types and what the waiters know. *)
LEMMA DeadlineStep ==
  DeadlineInv /\ [ResilienceNext]_resilienceVars => DeadlineInv'
<1> SUFFICES ASSUME DeadlineInv, [ResilienceNext]_resilienceVars
             PROVE  DeadlineInv'
  OBVIOUS
<1> USE ResilienceAssumption, KeyInKeys DEF DeadlineInv, ResilienceTypeOK,
     Ended, Failures
<1>1. ASSUME NEW t \in Callers, Begin(t) PROVE DeadlineInv'
  <2>1. ResilienceTypeOK' /\ RegistryInv'
    <3>1. cool[Key(t)] \in Nat /\ told[Key(t)] \in {0} \cup Cooldowns
      BY DEF Cooldowns
    <3>2. QED
      BY <1>1, <3>1 DEF Begin, RegistryInv
  <2>2. ASSUME NEW u \in Callers PROVE WaiterInv(u)'
    <3>1. CASE u = t
      BY <1>1, <3>1 DEF Begin, RegistryInv, WaiterInv, Cooldowns
    <3>2. CASE u # t
      BY <1>1, <3>2 DEF Begin, WaiterInv
    <3>3. QED
      BY <3>1, <3>2
  <2>3. QED
    BY <2>1, <2>2
<1>2. ASSUME NEW t \in Callers, WakeUp(t) PROVE DeadlineInv'
  <2>1. cool' = cool
    BY <1>2 DEF WakeUp, WaiterInv, Cooldowns
  <2>2. QED
    BY <1>2, <2>1 DEF WakeUp, RegistryInv, WaiterInv, ghosts, Cooldowns, Key
<1>3. ASSUME NEW t \in Callers, Send(t) PROVE DeadlineInv'
  BY <1>3 DEF Send, RegistryInv, WaiterInv, Key
<1>4. ASSUME NEW t \in Callers, TooManyRequests(t) PROVE DeadlineInv'
  <2>1. PICK retryAfter \in RetryAfters :
          /\ cool' = [cool EXCEPT ![Key(t)] = CooldownFor(retryAfter)]
          /\ told' = [told EXCEPT ![Key(t)] = CooldownFor(retryAfter)]
    BY <1>4 DEF TooManyRequests
  <2>2. ResilienceTypeOK' /\ RegistryInv'
    BY <1>4, <2>1, CooldownInRange
       DEF TooManyRequests, Fail, Exhausted, RegistryInv, Cooldowns
  <2>3. ASSUME NEW u \in Callers PROVE WaiterInv(u)'
    <3>1. fresh'[u] => fresh[u] /\ cool'[Key(u)] = cool[Key(u)]
      BY <1>4, <2>1 DEF TooManyRequests
    <3>2. pc'[u] \in {"cooling", "limiter"} =>
            pc'[u] = pc[u] /\ sleep'[u] = sleep[u]
      BY <1>4 DEF TooManyRequests, Fail
    <3>3. pc'[u] = "backoff" => attempt[u] < MaxAttempts
      BY <1>4 DEF TooManyRequests, Fail, Exhausted, WaiterInv
    <3>4. QED
      BY <1>4, <3>1, <3>2, <3>3 DEF TooManyRequests, WaiterInv
  <2>4. QED
    BY <2>2, <2>3
<1>5. ASSUME NEW t \in Callers, OtherFailure(t) PROVE DeadlineInv'
  BY <1>5 DEF OtherFailure, Fail, Exhausted, RegistryInv, WaiterInv, ghosts, Key
<1>6. ASSUME NEW t \in Callers, Settle(t) PROVE DeadlineInv'
  BY <1>6 DEF Settle, RegistryInv, WaiterInv, ghosts, Key
<1>7. ASSUME NEW t \in Callers, Retry(t) PROVE DeadlineInv'
  BY <1>7 DEF Retry, RegistryInv, WaiterInv, ghosts, Key
<1>8. CASE Tick
  <2>1. ResilienceTypeOK'
    BY <1>8 DEF Tick, Cooldowns, Sooner, Lower
  <2>2. RegistryInv'
    BY <1>8 DEF Tick, RegistryInv
  <2>3. ASSUME NEW u \in Callers PROVE WaiterInv(u)'
    BY <1>8 DEF Tick, WaiterInv, Cooldowns, Sooner
  <2>4. QED
    BY <2>1, <2>2, <2>3
<1>9. CASE UNCHANGED resilienceVars
  BY <1>9 DEF resilienceVars, program, ghosts, RegistryInv, WaiterInv, Key
<1>10. QED
  BY <1>1, <1>2, <1>3, <1>4, <1>5, <1>6, <1>7, <1>8, <1>9 DEF ResilienceNext,
       RequestStep

(* Whatever is sent in a tick fits the bucket beside what was in it. *)
LEMMA BucketStep == SessionInv /\ [ResilienceNext]_resilienceVars => BucketInv'
<1> SUFFICES ASSUME SessionInv, [ResilienceNext]_resilienceVars,
                    NEW k \in LimiterKeys
             PROVE  burst'[k] * Period <= level'[k]
  BY DEF BucketInv
<1> USE ResilienceAssumption, KeyInKeys
    DEF SessionInv, DeadlineInv, ResilienceTypeOK, BucketInv, Ended, Failures
<1>1. ASSUME NEW t \in Callers, Send(t) PROVE burst'[k] * Period <= level'[k]
  <2>1. CASE k = Key(t)
    <3>1. burst'[k] = burst[k] + 1 /\ level'[k] = level[k] + Period
      BY <1>1, <2>1 DEF Send
    <3>2. (burst[k] + 1) * Period = burst[k] * Period + Period
      OBVIOUS
    <3>3. burst[k] * Period \in Nat /\ level[k] \in Nat /\ Period \in Nat
      OBVIOUS
    <3>4. QED
      BY <3>1, <3>2, <3>3
  <2>2. CASE k # Key(t)
    BY <1>1, <2>2 DEF Send
  <2>3. QED
    BY <2>1, <2>2
<1>2. CASE Tick
  BY <1>2 DEF Tick, Sooner
<1>3. ASSUME UNCHANGED <<burst, level>> PROVE burst'[k] * Period <= level'[k]
  BY <1>3
<1>4. QED
  BY <1>1, <1>2, <1>3
     DEF ResilienceNext, RequestStep, Begin, WakeUp, Retry, TooManyRequests,
          OtherFailure,
         Settle, ghosts, program, resilienceVars

(* The inductive invariant holds in every state of a resilient session.    *)
THEOREM Invariance == ResilienceSpec => []SessionInv
<1>1. SessionInv /\ [ResilienceNext]_resilienceVars => SessionInv'
  BY DeadlineStep, BucketStep DEF SessionInv
<1>2. QED
  BY InitIInv, <1>1, PTL DEF ResilienceSpec

-----------------------------------------------------------------------------

(* Attempts, sleeps, deadlines and the bucket stay within their bounds.    *)
THEOREM ResilienceTypeCorrect == ResilienceSpec => []ResilienceTypeOK
<1>1. SessionInv => ResilienceTypeOK
  BY DEF SessionInv, DeadlineInv
<1>2. QED
  BY Invariance, <1>1, PTL

(* However many 429s move the deadline of a key and however many waiters   *)
(* clear it, no attempt is sent before the deadline it found.              *)
THEOREM DeadlinesAreWaitedOut == ResilienceSpec => DeadlineIsWaitedOut
<1>1. SessionInv /\ [ResilienceNext]_resilienceVars =>
        [\A t \in Callers :
           pc[t] = "limiter" /\ pc'[t] = "sent" => owed[t] = 0]_resilienceVars
  BY DEF SessionInv, DeadlineInv, WaiterInv
<1>2. QED
  BY Invariance, <1>1, PTL DEF ResilienceSpec, DeadlineIsWaitedOut

(* No more than a bucketful is sent under a key in one tick, whatever the  *)
(* number of requests a cooldown releases.                                 *)
THEOREM BurstsFitTheBucket == ResilienceSpec => []BurstBounded
<1>1. ASSUME SessionInv, NEW k \in LimiterKeys PROVE burst[k] <= Capacity
  <2>1. burst[k] \in Nat /\ Capacity \in Nat /\ Period \in Nat \ {0}
    BY <1>1, ResilienceAssumption DEF SessionInv, DeadlineInv, ResilienceTypeOK
  <2>2. burst[k] * Period <= Capacity * Period
    BY <1>1, ResilienceAssumption
       DEF SessionInv, DeadlineInv, ResilienceTypeOK, BucketInv
  <2>3. QED
    BY <2>1, <2>2
<1>2. SessionInv => BurstBounded
  BY <1>1 DEF BurstBounded
<1>3. QED
  BY Invariance, <1>2, PTL
=============================================================================
