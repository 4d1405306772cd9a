------------------------------ MODULE Requests -------------------------------
(***************************************************************************)
(* A single request to a layer: the payload an operation builds, the verb  *)
(* and the credential it travels with (utils/_http.py, _client/request.py, *)
(* utils/_query.py, utils/_stats.py), the wait for the answer and for its  *)
(* body, the bounded retry of a count that times out, and the parse.       *)
(*                                                                         *)
(* Tasks interleave at each await; the drift cache is common to all.       *)
(***************************************************************************)
EXTENDS Responses, FiniteSets

CONSTANTS
  Tasks,
  Calls,         \* the calls that tasks make
  Answers,       \* the answers of the server
  Sessions,      \* the sessions that the process may use
  Limit,         \* _ARCGIS_URL_BODY_LIMIT
  UrlLength, OwnLength,  \* lengths of the URL and of an operation's own fields
  DefaultWhere,  \* length of the clause 1=1
  MaxTries,      \* attempts of a patient count
  Unset

\* The operations: what each asks for, the model it parses the answer with, what
\* it makes of the caller's data, and whether it looks at exceededTransferLimit.
Count == [asks |-> "count", model |-> "CountResponse", data |-> "merged",
          looks |-> FALSE]
ObjectIds == [asks |-> "ids", model |-> "ObjectIdsResponse", data |-> "merged",
              looks |-> FALSE]
UniqueValues == [asks |-> "values", model |-> "FeaturesResponse",
                 data |-> "merged", looks |-> FALSE]
ValueCounts == [asks |-> "statistics", model |-> "FeaturesResponse",
                data |-> "merged", looks |-> FALSE]
NestedCount == [asks |-> "nested", model |-> "FeaturesResponse",
                data |-> "merged", looks |-> FALSE]
Metadata == [asks |-> "metadata", model |-> "LayerMetadata", data |-> "token",
             looks |-> FALSE]
Rows == [asks |-> "rows", model |-> "FeaturesResponse", data |-> "whole",
         looks |-> TRUE]
Page == [asks |-> "page", model |-> "FeaturesResponse", data |-> "whole",
         looks |-> TRUE]

Operations == {Count, ObjectIds, UniqueValues, ValueCounts, NestedCount,
               Metadata, Rows, Page}

\* The caller's data: a where clause, kept as its length, a token, and flags
\* that would make another operation of the request.
AllCalls == [op : Operations, where : Nat \cup {Unset}, token : BOOLEAN,
             flags : BOOLEAN, patient : BOOLEAN]

\* A session inside as many wrappers, and how it sends the token that it has.
AllSessions == [wraps : Nat, transport : {"plain", "header", "body", "query"}]

ASSUME RequestsAssumption ==
  /\ Calls \subseteq AllCalls /\ Answers \subseteq AllAnswers
  /\ \A c \in Calls : c.patient => c.op = Count
  /\ Sessions \subseteq AllSessions
  /\ {Limit, UrlLength, OwnLength, DefaultWhere} \subseteq Nat
  /\ MaxTries \in Nat \ {0}
  /\ Unset \notin Nat \cup Calls

VARIABLES
  session,  \* the session in use
  call,     \* the call of each task, or Unset
  phase,    \* where it waits
  tries,    \* requests it has sent
  outcome   \* history: how a call that has just ended did end, or Unset

vars == <<session, call, phase, tries, outcome, drift>>

-----------------------------------------------------------------------------
(* The payload *)

WhereOf(c) == IF c.where = Unset THEN DefaultWhere ELSE c.where

\* Mutant: the caller's data goes over the operation's own.
Payload_CallerWins(c) ==
  [where |-> WhereOf(c), token |-> c.token,
   asks |-> IF c.flags THEN "other" ELSE c.op.asks]

\* build_conservative_query_data for the operations that merge; get_metadata
\* has no clause; pages and rows send the caller's data over DEFAULTDICT.
Payload(c) ==
  [where |-> IF c.op.data = "token" THEN 0 ELSE WhereOf(c),
   token |-> c.token,
   asks |-> IF c.flags /\ c.op.data = "whole" THEN "other" ELSE c.op.asks]

\* _session_requires_body_transport looks through any number of wrappers.
RequiresBody(s) == s.transport \in {"body", "query"}

LengthOf(p) == UrlLength + 1 + OwnLength + p.where

ChooseVerb(p) == IF LengthOf(p) <= Limit THEN "GET" ELSE "POST"

\* Mutant: wrapped sessions are not looked into.
RequiresBodyNow(s) == s.wraps = 0 /\ RequiresBody(s)
Verb_NoWalk(s, p) ==
  IF RequiresBodyNow(s) \/ p.token THEN "POST" ELSE ChooseVerb(p)

\* _arcgis_request.
Verb(s, p) == IF RequiresBody(s) \/ p.token THEN "POST" ELSE ChooseVerb(p)

\* update_dict and update_headers of a token session: the caller's token stays,
\* and keeps the session's out of the header too.
TokensOf(s, p) == IF p.token THEN {"caller"}
                  ELSE IF RequiresBody(s) THEN {"session"} ELSE {}

\* Mutant: the header is made before the payload is looked at.
HeaderOf_Always(s, p) == s.transport = "header"

HeaderOf(s, p) == s.transport = "header" /\ ~p.token

\* The request as the server gets it.
Wire(s, c) == LET p == Payload(c)
              IN [verb |-> Verb(s, p), length |-> LengthOf(p),
                  tokens |-> TokensOf(s, p), header |-> HeaderOf(s, p),
                  where |-> p.where, asks |-> p.asks]

-----------------------------------------------------------------------------
(* A call *)

Init ==
  /\ session \in Sessions
  /\ call = [t \in Tasks |-> Unset] /\ phase = [t \in Tasks |-> "idle"]
  /\ tries = [t \in Tasks |-> 0] /\ outcome = Unset
  /\ DriftInit

Ask(t) ==
  /\ phase[t] = "idle"
  /\ \E c \in Calls : call' = [call EXCEPT ![t] = c]
  /\ phase' = [phase EXCEPT ![t] = "sent"]
  /\ tries' = [tries EXCEPT ![t] = 1]
  /\ outcome' = Unset /\ UNCHANGED <<session, drift>>

\* The response is there; its body is still to be read.
Responds(t) ==
  /\ phase[t] = "sent"
  /\ phase' = [phase EXCEPT ![t] = "reading"]
  /\ outcome' = Unset /\ UNCHANGED <<session, call, tries, drift>>

Ends(t, end, raw) ==
  /\ outcome' = [call |-> call[t], tries |-> tries[t], end |-> end, raw |-> raw]
  /\ call' = [call EXCEPT ![t] = Unset]
  /\ phase' = [phase EXCEPT ![t] = "idle"]
  /\ tries' = [tries EXCEPT ![t] = 0]
  /\ UNCHANGED session

\* _fetch_page_dict refuses a body that is no mapping, before the parse.
Unparsed(c, raw) == c.op = Page /\ raw.shape = "list"

\* Mutant: nobody looks at exceededTransferLimit.
End_NoLimitCheck(c, raw) ==
  IF Unparsed(c, raw) \/ Raises(c.op.model, raw) THEN "refused" ELSE "given"

End(c, raw) ==
  IF Unparsed(c, raw) \/ Raises(c.op.model, raw) THEN "refused"
  ELSE IF c.op.looks /\ raw.truncated THEN "incomplete" ELSE "given"

Parses(t) ==
  /\ phase[t] = "reading"
  /\ \E raw \in Answers :
       /\ LogDrift(IF Unparsed(call[t], raw) THEN {}
                   ELSE Drifts(call[t].op.model, raw))
       /\ Ends(t, End(call[t], raw), raw)

\* An error that is no timeout, or the task is cancelled.
Fails(t) ==
  /\ phase[t] # "idle"
  /\ Ends(t, "failed", Unset)
  /\ UNCHANGED drift

MayRetry(t) == call[t].patient /\ tries[t] < MaxTries

\* bounded_retry_timeout, and the loop that replaces it without stamina.
TimesOut(t) ==
  /\ phase[t] \in {"sent", "reading"} /\ ~MayRetry(t)
  /\ Ends(t, "timeout", Unset)
  /\ UNCHANGED drift

BacksOff(t) ==
  /\ phase[t] \in {"sent", "reading"} /\ MayRetry(t)
  /\ phase' = [phase EXCEPT ![t] = "asleep"]
  /\ outcome' = Unset /\ UNCHANGED <<session, call, tries, drift>>

\* Mutant: the attempts are not counted.
TriesAgain_Afresh(t) ==
  /\ phase[t] = "asleep"
  /\ phase' = [phase EXCEPT ![t] = "sent"]
  /\ outcome' = Unset /\ UNCHANGED <<session, call, tries, drift>>

TriesAgain(t) ==
  /\ phase[t] = "asleep"
  /\ phase' = [phase EXCEPT ![t] = "sent"]
  /\ tries' = [tries EXCEPT ![t] = @ + 1]
  /\ outcome' = Unset /\ UNCHANGED <<session, call, drift>>

\* reset_drift_cache, by anyone at any time.
Reset == /\ ResetDriftCache /\ outcome' = Unset
         /\ UNCHANGED <<session, call, phase, tries>>

Step(t) == \/ Responds(t) \/ Parses(t) \/ Fails(t) \/ TimesOut(t)
           \/ BacksOff(t) \/ TriesAgain(t)

Next == Reset \/ \E t \in Tasks : Ask(t) \/ Step(t)

\* Every request is sent with a timeout that covers its body too.
Fairness == \A t \in Tasks : WF_vars(Step(t))

Spec == Init /\ [][Next]_vars /\ Fairness

-----------------------------------------------------------------------------
(* Properties *)

\* Every variable holds a value of its type, and a task without a call is idle.
TypeOK ==
  /\ session \in Sessions /\ DriftType
  /\ call \in [Tasks -> Calls \cup {Unset}]
  /\ phase \in [Tasks -> {"idle", "sent", "reading", "asleep"}]
  /\ tries \in [Tasks -> 0..MaxTries]
  /\ \A t \in Tasks : call[t] = Unset <=> phase[t] = "idle"

Under == {t \in Tasks : phase[t] \in {"sent", "reading"}}

\* No request is a GET longer than servers take, and no token, of the caller or
\* of the session, is ever part of a URL, whatever the session is wrapped in
\* (_http.py:144-150).
UrlsAreShortAndClean ==
  \A t \in Under : LET w == Wire(session, call[t])
                   IN w.verb = "GET" => w.length <= Limit /\ w.tokens = {}

\* Each request carries exactly one credential if there is any, and the caller's
\* wins over the session's (token.py:505-511, 305-316).
OneCredential ==
  \A t \in Under :
    LET w == Wire(session, call[t])
    IN /\ call[t].token => w.tokens = {"caller"} /\ ~w.header
       /\ ~call[t].token /\ session.transport # "plain" =>
            (w.header <=> w.tokens = {})

\* A helper asks for what it is called for: neither the flags of the caller's
\* data nor a missing clause make another question of it (request.py:43-49).
QuestionIsKept ==
  \A t \in Under :
    LET w == Wire(session, call[t])
    IN call[t].op.data = "merged" =>
         w.asks = call[t].op.asks /\ w.where = WhereOf(call[t])

\* What is on the wire while a call waits is its own question, in a request that
\* servers take, with one credential and that one not in the URL.
RequestsAreSound == UrlsAreShortAndClean /\ OneCredential /\ QuestionIsKept

\* An ArcGIS error envelope never passes for data, and a strict result is never
\* made of a partial answer (_drift.py:186-222).
ErrorsAreNotData ==
  outcome # Unset /\ outcome.end \in {"given", "incomplete"} =>
    /\ outcome.raw.shape # "envelope"
    /\ outcome.call.op.model \in Strict =>
         outcome.raw.whole /\ outcome.raw.bad = {}

\* Rows are never handed on as complete when the server has said that there are
\* more of them (getgdf.py:99, 751).
TruncationIsSeen ==
  outcome # Unset /\ outcome.end = "given" /\ outcome.call.op.looks =>
    ~outcome.raw.truncated

\* A call that returns a result returns what the server has to say on the
\* question: no error, no part of a strict answer, no silently cut rows.
NothingPassesForData == ErrorsAreNotData /\ TruncationIsSeen

\* Whatever part of an answer was dropped to accept it is on record, also when
\* another task was the first to meet such drift (_drift.py:237-256).
LossIsLogged ==
  outcome # Unset /\ outcome.end \in {"given", "incomplete"} =>
    \A place \in Dropped(outcome.raw) :
      outcome.call.op.model \in Permissive =>
        logs[<<outcome.call.op.model, place>>] > 0

\* One kind of drift is logged once, however many tasks meet it (_drift.py:118).
DriftLoggedOnce == \A k \in Keys : logs[k] <= 1 /\ (k \in seen <=> logs[k] = 1)

\* Drift is on record, exactly once, before any caller sees what was made of the
\* answer, however tasks and resets interleave (_drift.py:116-132).
DriftIsOnRecord == LossIsLogged /\ DriftLoggedOnce

\* Only a patient count is tried again, and only timeouts are: one that reports
\* a timeout has used all its attempts (getinfo.py:159-181).
PatienceIsBounded ==
  outcome # Unset /\ outcome.end = "timeout" =>
    outcome.tries = IF outcome.call.patient THEN MaxTries ELSE 1

\* Every call ends.
EveryCallEnds == \A t \in Tasks : phase[t] # "idle" ~> phase[t] = "idle"

\* _drift.py:8-10: "A top-level ArcGIS {"error": {...}} envelope is still
\* surfaced as RestgdfResponseError instead of being treated as harmless drift".
EnvelopeIsRaised ==
  outcome # Unset /\ outcome.end = "given" =>
    outcome.raw.shape \notin {"envelope", "odd"}
=============================================================================
