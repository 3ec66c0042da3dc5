--------------------------- MODULE DeliveryStatus ---------------------------
(***************************************************************************)
(* The delivery status of an outbound message and the rule its changes     *)
(* obey: packages/contracts/src/channels/delivery-status.ts.  Spec is the  *)
(* abstract promise of the whole outbound path: once a reply exists, every *)
(* change of its status is one the rule allows.                            *)
(***************************************************************************)
EXTENDS Integers

CONSTANT Message        \* the outbound replies

VARIABLE status         \* messages.status; "NONE" before the row exists

DeliveryStatuses == {"PENDING", "SENT", "DELIVERED", "READ", "FAILED"}

\* DELIVERY_STATUS_RANKS
Rank(s) == CASE s = "PENDING" -> 0
             [] s = "SENT" -> 1
             [] s = "DELIVERED" -> 2
             [] s = "READ" -> 3
             [] s = "FAILED" -> -1

isDeliveryStatusMonotonic(from, to) ==
    \/ from = to
    \/ from # "READ" /\ to = "FAILED"
    \/ from = "FAILED" /\ to = "PENDING"
    \/ from \notin {"READ", "FAILED"} /\ to # "FAILED" /\ Rank(to) > Rank(from)

Init == status = [m \in Message |-> "NONE"]

Create(m) == /\ status[m] = "NONE"
             /\ status' = [status EXCEPT ![m] = "PENDING"]

Move(m, s) == /\ status[m] # "NONE"
              /\ isDeliveryStatusMonotonic(status[m], s)
              /\ status' = [status EXCEPT ![m] = s]

Next == \E m \in Message : Create(m) \/ \E s \in DeliveryStatuses : Move(m, s)

Spec == Init /\ [][Next]_status
=============================================================================
