----------------------------- MODULE MCRequests ------------------------------
(* An instance of Requests for TLC: five kinds of call, clauses that fill    *)
(* the URL to the limit and one beyond it, and an answer of each kind.       *)
EXTENDS Requests, TLC

MakeCall(op, where, token, flags, patient) ==
  [op |-> op, where |-> where, token |-> token, flags |-> flags,
   patient |-> patient]

SomeCalls == {MakeCall(Count, 3, FALSE, TRUE, FALSE),
              MakeCall(Count, Unset, TRUE, FALSE, TRUE),
              MakeCall(Metadata, Unset, FALSE, FALSE, FALSE),
              MakeCall(Rows, 3, TRUE, FALSE, FALSE),
              MakeCall(Page, 4, FALSE, TRUE, FALSE)}

MakeAnswer(shape, bad, whole, extra, truncated) ==
  [shape |-> shape, bad |-> bad, whole |-> whole, extra |-> extra,
   truncated |-> truncated]

SomeAnswers == {MakeAnswer(s, {}, FALSE, FALSE, FALSE) : s \in {"envelope", "odd", "list"}}
         \cup {MakeAnswer("payload", {}, TRUE, FALSE, FALSE),
               MakeAnswer("payload", {"field", "item"}, TRUE, TRUE, TRUE)}

SomeSessions == {[wraps |-> 0, transport |-> "header"],
                 [wraps |-> 1, transport |-> "query"]}
=============================================================================
