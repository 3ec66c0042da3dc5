------------------------------ MODULE Handover ------------------------------
(***************************************************************************)
(* What the transactional outbox promises to the code that writes events   *)
(* into it and to the handlers behind the job queue, with workers, leases, *)
(* retries and crashes abstracted away.                                    *)
(*                                                                         *)
(* An event is requested when the transaction that created its row commits.*)
(* From then on it may be enqueued (the queue accepted a job under the     *)
(* event's key), confirmed (the row says COMPLETED) or abandoned           *)
(* (DEAD_LETTER).  The promise is that an enqueued event stays enqueued,   *)
(* that nothing is enqueued which was not requested, and that only an      *)
(* enqueued event is ever confirmed.  An event may be reopened: the        *)
(* dispatcher's status updates carry no guard, so a late one can take an   *)
(* event back from either final status.                                    *)
(***************************************************************************)
EXTENDS FiniteSets

CONSTANT Event          \* the outbox events

VARIABLES requested,    \* events whose creating transaction committed
          enqueued,     \* events for which a job was accepted at least once
          confirmed,    \* events recorded as dispatched
          abandoned     \* events given up

vars == <<requested, enqueued, confirmed, abandoned>>

Init == /\ requested = {}
        /\ enqueued = {}
        /\ confirmed = {}
        /\ abandoned = {}

Request(S) == /\ S \cap requested = {}
              /\ requested' = requested \cup S
              /\ UNCHANGED <<enqueued, confirmed, abandoned>>

Enqueue(S) == /\ S \subseteq requested
              /\ enqueued' = enqueued \cup S
              /\ UNCHANGED <<requested, confirmed, abandoned>>

Confirm(S) == /\ S \subseteq enqueued
              /\ confirmed' = confirmed \cup S
              /\ abandoned' = abandoned \ S
              /\ UNCHANGED <<requested, enqueued>>

Abandon(S) == /\ S \subseteq requested
              /\ abandoned' = abandoned \cup S
              /\ confirmed' = confirmed \ S
              /\ UNCHANGED <<requested, enqueued>>

Reopen(S) == /\ confirmed' = confirmed \ S
             /\ abandoned' = abandoned \ S
             /\ UNCHANGED <<requested, enqueued>>

Next == \E S \in SUBSET Event :
            Request(S) \/ Enqueue(S) \/ Confirm(S) \/ Abandon(S) \/ Reopen(S)

Spec == Init /\ [][Next]_vars
=============================================================================
