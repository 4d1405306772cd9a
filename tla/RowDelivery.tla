---------------------------- MODULE RowDelivery -----------------------------
(***************************************************************************)
(* What a stream of pages promises its consumer, whatever tasks, windows   *)
(* and sub-requests it takes: rows come in pages of consecutive rows until *)
(* the stream ends or stops.  What more is promised depends on the         *)
(* arguments of the stream.                                                *)
(***************************************************************************)
EXTENDS Naturals

CONSTANT NumRows   (* rows the query matches *)

VARIABLES
  promise,   (* no row is left out; none comes twice; they come in order    *)
  status,    (* "open", "ended" after the last page, or "stopped" before    *)
  times      (* how often each row has come                                 *)

deliveryVars == <<promise, status, times>>

Rows == 1..NumRows
Promises == [whole : BOOLEAN, once : BOOLEAN, inOrder : BOOLEAN]
Given == {r \in Rows : times[r] > 0}

DeliveryInit ==
  /\ promise \in Promises
  /\ status = "open"
  /\ times = [r \in Rows |-> 0]

(* A page that is in order comes after all that came before; if no row is  *)
(* to be left out, it is the next one.                                     *)
NextPage(page) ==
  \A r \in page :
    /\ \A q \in Given : q < r
    /\ promise.whole => 1..r \subseteq Given \cup page

Deliver(page) ==
  /\ status = "open"
  /\ times' = [r \in Rows |-> IF r \in page THEN times[r] + 1 ELSE times[r]]
  /\ promise.once => page \cap Given = {}
  /\ promise.inOrder => NextPage(page)
  /\ UNCHANGED <<promise, status>>

End ==
  /\ status = "open"
  /\ promise.whole => Given = Rows
  /\ status' = "ended"
  /\ UNCHANGED <<promise, times>>

(* By an error, or by the consumer. *)
Stop ==
  /\ status = "open"
  /\ status' = "stopped"
  /\ UNCHANGED <<promise, times>>

DeliveryNext ==
  \/ \E lo, hi \in Rows : lo <= hi /\ Deliver(lo..hi)
  \/ End
  \/ Stop

DeliverySpec == DeliveryInit /\ [][DeliveryNext]_deliveryVars
=============================================================================
