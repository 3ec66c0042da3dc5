------------------------------- MODULE Outbox -------------------------------
(***************************************************************************)
(* The transactional outbox: the outbox_events table                       *)
(* (packages/database/src/outbox.ts) and the worker processes that claim   *)
(* its rows and hand them to BullMQ                                        *)
(* (apps/worker/src/outbox/outbox-dispatcher.service.ts).                  *)
(*                                                                         *)
(* One database statement, one queue command, one crash is one step; any   *)
(* two workers interleave between them.  Time is abstract: a lease is      *)
(* "live" until Expire makes it "expired", which may happen at any moment, *)
(* because nothing in the dispatcher renews it or compares it with the     *)
(* duration of its batch.  Every database write may fail, and a failed     *)
(* write may nevertheless have been applied (the connection broke before   *)
(* the answer).                                                            *)
(***************************************************************************)
EXTENDS Integers, FiniteSets

CONSTANTS
    Event,                \* the outbox rows that are ever written
    Worker,               \* the worker processes
    NoEvent, NoWorker,    \* stand for NULL
    MaxDispatchAttempts,  \* MAX_DISPATCH_ATTEMPTS
    BatchSize,            \* CLAIM_BATCH_SIZE
    MaxFaults             \* bound: crashes, outages and failed calls in a behaviour

ASSUME AttemptsAssumption == MaxDispatchAttempts \in Nat \ {0}
ASSUME BatchAssumption == BatchSize \in Nat \ {0}
ASSUME FaultsAssumption == MaxFaults \in Nat
ASSUME NullAssumption == NoEvent \notin Event /\ NoWorker \notin Worker
ASSUME FiniteAssumption == IsFiniteSet(Event) /\ IsFiniteSet(Worker)

VARIABLES
    status,       \* outbox_events.status; "NONE" before the row exists
    claimedBy,    \* outbox_events.claimed_by
    lease,        \* outbox_events.claim_lease_expires_at, relative to NOW()
    retryCount,   \* outbox_events.retry_count
    pc,           \* where a worker's pollAndDispatch stands; "off" is no process
    batch,        \* claimed events the worker has not looked at yet
    cur,          \* the event between its send and its status update
    seen,         \* retryCount of the worker's claimed events as the claim returned it
    running,      \* queueService.isRunning() of the worker
    stopping,     \* isShuttingDown
    recovering,   \* runLeaseRecovery stands between its two statements
    inflight,     \* adds that timed out here and may still reach Redis
    faults,       \* how many faults happened so far
    accepted,     \* history: the queue took a job for the event at least once
    expired       \* history: a lease of the event ran out at least once

rowVars == <<status, claimedBy, lease, retryCount>>
workerVars == <<pc, batch, cur, seen, running, stopping, recovering>>
queueVars == <<inflight, accepted>>
vars == <<status, claimedBy, lease, retryCount, pc, batch, cur, seen, running,
          stopping, recovering, inflight, faults, accepted, expired>>

Status == {"NONE", "PENDING", "PROCESSING", "COMPLETED", "DEAD_LETTER"}
Lease == {"none", "live", "expired"}
PC == {"off", "idle", "loop", "sent", "failing"}

TypeOK ==
    /\ status \in [Event -> Status]
    /\ claimedBy \in [Event -> Worker \cup {NoWorker}]
    /\ lease \in [Event -> Lease]
    /\ retryCount \in [Event -> Nat]
    /\ pc \in [Worker -> PC]
    /\ batch \in [Worker -> SUBSET Event]
    /\ cur \in [Worker -> Event \cup {NoEvent}]
    /\ seen \in [Worker -> [Event -> Nat]]
    /\ running \in [Worker -> BOOLEAN]
    /\ stopping \in [Worker -> BOOLEAN]
    /\ recovering \in [Worker -> BOOLEAN]
    /\ inflight \in SUBSET Event
    /\ faults \in Nat
    /\ accepted \in SUBSET Event
    /\ expired \in SUBSET Event

Init ==
    /\ status = [e \in Event |-> "NONE"]
    /\ claimedBy = [e \in Event |-> NoWorker]
    /\ lease = [e \in Event |-> "none"]
    /\ retryCount = [e \in Event |-> 0]
    /\ pc = [w \in Worker |-> "idle"]
    /\ batch = [w \in Worker |-> {}]
    /\ cur = [w \in Worker |-> NoEvent]
    /\ seen = [w \in Worker |-> [e \in Event |-> 0]]
    /\ running = [w \in Worker |-> TRUE]
    /\ stopping = [w \in Worker |-> FALSE]
    /\ recovering = [w \in Worker |-> FALSE]
    /\ inflight = {}
    /\ faults = 0
    /\ accepted = {}
    /\ expired = {}

-----------------------------------------------------------------------------
(* Helper state formulae *)

\* The environment misbehaves once more.
Fault == /\ faults < MaxFaults
         /\ faults' = faults + 1

\* The events a worker claimed and has not finished with.
Holds(w, e) == e \in batch[w] \/ e = cur[w]

NothingSeen == [e \in Event |-> 0]

\* The for-loop of pollAndDispatch goes on, or ends and clears isProcessing.
LoopOn(w) == /\ cur' = [cur EXCEPT ![w] = NoEvent]
             /\ pc' = [pc EXCEPT ![w] = IF batch[w] = {} THEN "idle" ELSE "loop"]
             /\ seen' = [seen EXCEPT ![w] = IF batch[w] = {} THEN NothingSeen ELSE @]
             /\ UNCHANGED batch

\* The for-loop is left early; the rest of the batch is forgotten.
LeaveLoop(w) == /\ pc' = [pc EXCEPT ![w] = "idle"]
                /\ batch' = [batch EXCEPT ![w] = {}]
                /\ cur' = [cur EXCEPT ![w] = NoEvent]
                /\ seen' = [seen EXCEPT ![w] = NothingSeen]

\* Queue.add under the event's job id: BullMQ holds a job for it from now on (a
\* no-op when it held one already).
QueueAdd(e) == accepted' = accepted \cup {e}

-----------------------------------------------------------------------------
(* The producers *)

\* withTransactionalOutbox / createOutboxEvent: the row appears with the
\* commit of the business transaction, or not at all.
CreateOutboxEvent(e) ==
    /\ status[e] = "NONE"
    /\ status' = [status EXCEPT ![e] = "PENDING"]
    /\ UNCHANGED <<claimedBy, lease, retryCount, workerVars, queueVars, faults, expired>>

-----------------------------------------------------------------------------
(* pollAndDispatch *)

\* The UPDATE of claimPendingOutboxEvents.
WriteClaim(w, S) ==
    /\ status' = [e \in Event |-> IF e \in S THEN "PROCESSING" ELSE status[e]]
    /\ claimedBy' = [e \in Event |-> IF e \in S THEN w ELSE claimedBy[e]]
    /\ lease' = [e \in Event |-> IF e \in S THEN "live" ELSE lease[e]]
    /\ UNCHANGED retryCount

\* Mutant: the claim takes unfinished rows, not only PENDING ones.
ClaimUnfinished(w, S) ==
    /\ pc[w] = "idle" /\ ~stopping[w] /\ running[w]
    /\ S # {} /\ Cardinality(S) <= BatchSize
    /\ \A e \in S : status[e] \in {"PENDING", "PROCESSING"}
    /\ WriteClaim(w, S)
    /\ pc' = [pc EXCEPT ![w] = "loop"]
    /\ batch' = [batch EXCEPT ![w] = S]
    /\ seen' = [seen EXCEPT ![w] = [e \in Event |-> IF e \in S THEN retryCount[e] ELSE 0]]
    /\ UNCHANGED <<cur, running, stopping, recovering, queueVars, faults, expired>>

\* claimPendingOutboxEvents.  The statement takes at most BatchSize PENDING
\* rows and skips the ones another statement has locked at that instant, so
\* any non-empty set of that size may come back.
Claim(w, S) ==
    /\ pc[w] = "idle" /\ ~stopping[w] /\ running[w]
    /\ S # {} /\ Cardinality(S) <= BatchSize
    /\ \A e \in S : status[e] = "PENDING"
    /\ WriteClaim(w, S)
    /\ pc' = [pc EXCEPT ![w] = "loop"]
    /\ batch' = [batch EXCEPT ![w] = S]
    /\ seen' = [seen EXCEPT ![w] = [e \in Event |-> IF e \in S THEN retryCount[e] ELSE 0]]
    /\ UNCHANGED <<cur, running, stopping, recovering, queueVars, faults, expired>>

\* The statement is applied but its answer is lost: the cycle ends with nothing
\* claimed, and the rows wait for their lease to expire.
ClaimThrows(w, S) ==
    /\ pc[w] = "idle" /\ ~stopping[w] /\ running[w]
    /\ S # {} /\ Cardinality(S) <= BatchSize
    /\ \A e \in S : status[e] = "PENDING"
    /\ Fault
    /\ WriteClaim(w, S)
    /\ UNCHANGED <<workerVars, queueVars, expired>>

\* queueService.send returns: the queue took the job, or held it already.
SendAccepted(w, e) ==
    /\ pc[w] = "loop" /\ e \in batch[w] /\ ~stopping[w] /\ running[w]
    /\ QueueAdd(e)
    /\ pc' = [pc EXCEPT ![w] = "sent"]
    /\ batch' = [batch EXCEPT ![w] = @ \ {e}]
    /\ cur' = [cur EXCEPT ![w] = e]
    /\ UNCHANGED <<rowVars, seen, running, stopping, recovering, inflight, faults, expired>>

\* Mutant: the error of the send is swallowed.
SendThrowsSwallowed(w, e) ==
    /\ pc[w] = "loop" /\ e \in batch[w] /\ ~stopping[w] /\ running[w]
    /\ Fault
    /\ pc' = [pc EXCEPT ![w] = "sent"]
    /\ batch' = [batch EXCEPT ![w] = @ \ {e}]
    /\ cur' = [cur EXCEPT ![w] = e]
    /\ UNCHANGED <<rowVars, seen, running, stopping, recovering, queueVars, expired>>

\* queueService.send throws and marks the queue unresponsive; after a timeout
\* the add may still be on its way.
SendThrows(w, e) ==
    /\ pc[w] = "loop" /\ e \in batch[w] /\ ~stopping[w] /\ running[w]
    /\ Fault
    /\ \/ inflight' = inflight \cup {e}
       \/ inflight' = inflight
    /\ pc' = [pc EXCEPT ![w] = "failing"]
    /\ batch' = [batch EXCEPT ![w] = @ \ {e}]
    /\ cur' = [cur EXCEPT ![w] = e]
    /\ running' = [running EXCEPT ![w] = FALSE]
    /\ UNCHANGED <<rowVars, seen, stopping, recovering, accepted, expired>>

\* The update to COMPLETED, by id only.  claimedBy stays as it is.
WriteCompleted(e) == /\ status' = [status EXCEPT ![e] = "COMPLETED"]
                     /\ lease' = [lease EXCEPT ![e] = "none"]
                     /\ UNCHANGED <<claimedBy, retryCount>>

Complete(w) ==
    /\ pc[w] = "sent"
    /\ WriteCompleted(cur[w])
    /\ LoopOn(w)
    /\ UNCHANGED <<running, stopping, recovering, queueVars, faults, expired>>

\* The update to COMPLETED throws, applied or not: the catch block runs.
CompleteThrows(w) ==
    /\ pc[w] = "sent"
    /\ Fault
    /\ WriteCompleted(cur[w]) \/ UNCHANGED rowVars
    /\ pc' = [pc EXCEPT ![w] = "failing"]
    /\ UNCHANGED <<batch, cur, seen, running, stopping, recovering, queueVars, expired>>

\* Mutant: the attempt that just failed is counted twice.
WriteFailureEarly(w, e) ==
    /\ status' = [status EXCEPT ![e] =
                     IF seen[w][e] + 2 >= MaxDispatchAttempts THEN "DEAD_LETTER" ELSE "PENDING"]
    /\ retryCount' = [retryCount EXCEPT ![e] = @ + 1]
    /\ lease' = [lease EXCEPT ![e] = "none"]
    /\ UNCHANGED claimedBy

\* The update of the catch block, by id only: isExhausted is computed from the
\* retryCount the claim returned, the increment is made on the row.
WriteFailure(w, e) ==
    /\ status' = [status EXCEPT ![e] =
                     IF seen[w][e] + 1 >= MaxDispatchAttempts THEN "DEAD_LETTER" ELSE "PENDING"]
    /\ retryCount' = [retryCount EXCEPT ![e] = @ + 1]
    /\ lease' = [lease EXCEPT ![e] = "none"]
    /\ UNCHANGED claimedBy

RecordFailure(w) ==
    /\ pc[w] = "failing"
    /\ WriteFailure(w, cur[w])
    /\ LoopOn(w)
    /\ UNCHANGED <<running, stopping, recovering, queueVars, faults, expired>>

\* That update throws as well: the outer catch ends the cycle, and the rows of
\* the rest of the batch keep their lease until it expires.
RecordFailureThrows(w) ==
    /\ pc[w] = "failing"
    /\ Fault
    /\ WriteFailure(w, cur[w]) \/ UNCHANGED rowVars
    /\ LeaveLoop(w)
    /\ UNCHANGED <<running, stopping, recovering, queueVars, expired>>

\* releaseUnattempted: only rows this worker still holds, no attempt used.
Releasable(w) == {e \in batch[w] : status[e] = "PROCESSING" /\ claimedBy[e] = w}

\* Mutant: the release gives an attempt back that was never counted.
WriteReleaseRefund(w) ==
    /\ status' = [e \in Event |-> IF e \in Releasable(w) THEN "PENDING" ELSE status[e]]
    /\ claimedBy' = [e \in Event |-> IF e \in Releasable(w) THEN NoWorker ELSE claimedBy[e]]
    /\ lease' = [e \in Event |-> IF e \in Releasable(w) THEN "none" ELSE lease[e]]
    /\ retryCount' = [e \in Event |-> IF e \in Releasable(w) THEN retryCount[e] - 1 ELSE retryCount[e]]

WriteRelease(w) ==
    /\ status' = [e \in Event |-> IF e \in Releasable(w) THEN "PENDING" ELSE status[e]]
    /\ claimedBy' = [e \in Event |-> IF e \in Releasable(w) THEN NoWorker ELSE claimedBy[e]]
    /\ lease' = [e \in Event |-> IF e \in Releasable(w) THEN "none" ELSE lease[e]]
    /\ UNCHANGED retryCount

ReleaseUnattempted(w) ==
    /\ pc[w] = "loop" /\ (stopping[w] \/ ~running[w])
    /\ WriteRelease(w)
    /\ LeaveLoop(w)
    /\ UNCHANGED <<running, stopping, recovering, queueVars, faults, expired>>

ReleaseThrows(w) ==
    /\ pc[w] = "loop" /\ (stopping[w] \/ ~running[w])
    /\ Fault
    /\ UNCHANGED rowVars
    /\ LeaveLoop(w)
    /\ UNCHANGED <<running, stopping, recovering, queueVars, expired>>

-----------------------------------------------------------------------------
(* runLeaseRecovery: two statements, each atomic, any step in between *)

Expirable(e) == status[e] = "PROCESSING" /\ lease[e] = "expired"
\* Mutants: the first statement ignores the limit, the second is off by one.
RecoverableAlways(e) == Expirable(e)
ExhaustedAbove(e) == Expirable(e) /\ retryCount[e] > MaxDispatchAttempts
Recoverable(e) == Expirable(e) /\ retryCount[e] < MaxDispatchAttempts
Exhausted(e) == Expirable(e) /\ retryCount[e] >= MaxDispatchAttempts

\* Mutant: the lease of every expired row is cleared, the status of some.
RecoverClearsAllLeases(w) ==
    /\ pc[w] # "off" /\ ~stopping[w] /\ ~recovering[w]
    /\ status' = [e \in Event |-> IF Recoverable(e) THEN "PENDING" ELSE status[e]]
    /\ claimedBy' = [e \in Event |-> IF Recoverable(e) THEN NoWorker ELSE claimedBy[e]]
    /\ lease' = [e \in Event |-> IF Expirable(e) THEN "none" ELSE lease[e]]
    /\ retryCount' = [e \in Event |-> IF Recoverable(e) THEN retryCount[e] + 1 ELSE retryCount[e]]
    /\ recovering' = [recovering EXCEPT ![w] = TRUE]
    /\ UNCHANGED <<pc, batch, cur, seen, running, stopping, queueVars, faults, expired>>

RecoverExpiredLeases(w) ==
    /\ pc[w] # "off" /\ ~stopping[w] /\ ~recovering[w]
    /\ status' = [e \in Event |-> IF Recoverable(e) THEN "PENDING" ELSE status[e]]
    /\ claimedBy' = [e \in Event |-> IF Recoverable(e) THEN NoWorker ELSE claimedBy[e]]
    /\ lease' = [e \in Event |-> IF Recoverable(e) THEN "none" ELSE lease[e]]
    /\ retryCount' = [e \in Event |-> IF Recoverable(e) THEN retryCount[e] + 1 ELSE retryCount[e]]
    /\ recovering' = [recovering EXCEPT ![w] = TRUE]
    /\ UNCHANGED <<pc, batch, cur, seen, running, stopping, queueVars, faults, expired>>

DeadLetterExhausted(w) ==
    /\ recovering[w]
    /\ status' = [e \in Event |-> IF Exhausted(e) THEN "DEAD_LETTER" ELSE status[e]]
    /\ claimedBy' = [e \in Event |-> IF Exhausted(e) THEN NoWorker ELSE claimedBy[e]]
    /\ lease' = [e \in Event |-> IF Exhausted(e) THEN "none" ELSE lease[e]]
    /\ recovering' = [recovering EXCEPT ![w] = FALSE]
    /\ UNCHANGED <<retryCount, pc, batch, cur, seen, running, stopping, queueVars, faults, expired>>

DeadLetterThrows(w) ==
    /\ recovering[w]
    /\ Fault
    /\ recovering' = [recovering EXCEPT ![w] = FALSE]
    /\ UNCHANGED <<rowVars, pc, batch, cur, seen, running, stopping, queueVars, expired>>

-----------------------------------------------------------------------------
(* The worker process *)

\* The process is gone with everything it had in memory.
Gone(w) == /\ pc' = [pc EXCEPT ![w] = "off"]
           /\ batch' = [batch EXCEPT ![w] = {}]
           /\ cur' = [cur EXCEPT ![w] = NoEvent]
           /\ seen' = [seen EXCEPT ![w] = NothingSeen]
           /\ recovering' = [recovering EXCEPT ![w] = FALSE]
           /\ stopping' = [stopping EXCEPT ![w] = FALSE]
           /\ running' = [running EXCEPT ![w] = FALSE]
           /\ UNCHANGED <<rowVars, queueVars, expired>>

Crash(w) == pc[w] # "off" /\ Fault /\ Gone(w)

\* onModuleDestroy sets isShuttingDown and clears the timers; the process exits
\* when the poll cycle has ended or 3 s later, whatever the cycle is doing.
Shutdown(w) ==
    /\ pc[w] # "off" /\ ~stopping[w]
    /\ Fault
    /\ stopping' = [stopping EXCEPT ![w] = TRUE]
    /\ UNCHANGED <<rowVars, pc, batch, cur, seen, running, recovering, queueVars, expired>>

Exit(w) == stopping[w] /\ Gone(w) /\ UNCHANGED faults

\* A new process.  Its workerId is new, but no row of an earlier incarnation
\* is in its batch, so the model may keep the old name.
Restart(w) ==
    /\ pc[w] = "off"
    /\ pc' = [pc EXCEPT ![w] = "idle"]
    /\ UNCHANGED <<rowVars, batch, cur, seen, running, stopping, recovering, queueVars, faults, expired>>

\* A probe or a connection event changes what isRunning() answers.
QueueDown(w) ==
    /\ pc[w] # "off" /\ running[w]
    /\ Fault
    /\ running' = [running EXCEPT ![w] = FALSE]
    /\ UNCHANGED <<rowVars, pc, batch, cur, seen, stopping, recovering, queueVars, expired>>

QueueUp(w) ==
    /\ pc[w] # "off" /\ ~running[w] /\ ~stopping[w]
    /\ running' = [running EXCEPT ![w] = TRUE]
    /\ UNCHANGED <<rowVars, pc, batch, cur, seen, stopping, recovering, queueVars, faults, expired>>

-----------------------------------------------------------------------------
(* The clock and Redis *)

\* 60 s have passed since the claim.
Expire(e) ==
    /\ lease[e] = "live"
    /\ lease' = [lease EXCEPT ![e] = "expired"]
    /\ expired' = expired \cup {e}
    /\ UNCHANGED <<status, claimedBy, retryCount, workerVars, queueVars, faults>>

\* An add that timed out reaches Redis after all, or never does.
LateAdd(e) ==
    /\ e \in inflight
    /\ inflight' = inflight \ {e}
    /\ \/ QueueAdd(e)
       \/ UNCHANGED accepted
    /\ UNCHANGED <<rowVars, workerVars, faults, expired>>

-----------------------------------------------------------------------------
WorkerStep(w) ==
    \/ \E S \in SUBSET Event : Claim(w, S)
    \/ \E e \in Event : SendAccepted(w, e)
    \/ Complete(w) \/ RecordFailure(w) \/ ReleaseUnattempted(w)
    \/ RecoverExpiredLeases(w) \/ DeadLetterExhausted(w)
    \/ Exit(w) \/ Restart(w) \/ QueueUp(w)

WorkerFault(w) ==
    \/ \E S \in SUBSET Event : ClaimThrows(w, S)
    \/ \E e \in Event : SendThrows(w, e)
    \/ CompleteThrows(w) \/ RecordFailureThrows(w) \/ ReleaseThrows(w)
    \/ DeadLetterThrows(w) \/ Crash(w) \/ Shutdown(w) \/ QueueDown(w)

EventStep(e) ==
    \/ CreateOutboxEvent(e) \/ Expire(e) \/ LateAdd(e)

Next == \/ \E w \in Worker : WorkerStep(w) \/ WorkerFault(w)
        \/ \E e \in Event : EventStep(e)

\* Timers and promises of a live process go on (the event loop), a process is
\* restarted by its supervisor, the queue connection is retried for ever, and
\* time passes.  The claim takes the oldest rows first, so a row that polls
\* find PENDING again and again is claimed.  Faults are finite in number.
Fairness ==
    /\ \A w \in Worker :
         /\ \A e \in Event : SF_vars(\E S \in SUBSET Event : e \in S /\ Claim(w, S))
         /\ WF_vars(\E e \in Event : SendAccepted(w, e))
         /\ WF_vars(Complete(w)) /\ WF_vars(RecordFailure(w))
         /\ WF_vars(ReleaseUnattempted(w))
         /\ WF_vars(RecoverExpiredLeases(w)) /\ WF_vars(DeadLetterExhausted(w))
         /\ WF_vars(Exit(w)) /\ WF_vars(Restart(w)) /\ WF_vars(QueueUp(w))
    /\ \A e \in Event : WF_vars(Expire(e))

Spec == Init /\ [][Next]_vars
FairSpec == Spec /\ Fairness

-----------------------------------------------------------------------------
(* Properties *)

\* A row says COMPLETED only for an event whose job the queue took: no path
\* through a failed send, a failed update, a stale dispatcher or a crash
\* completes a row whose job never existed (docs/adr/0015, line 14).
CompletedWasAccepted ==
    \A e \in Event : status[e] = "COMPLETED" => e \in accepted

\* A PROCESSING row always carries a lease.  recoverExpiredOutboxLeases compares
\* the lease with NOW(), which a NULL never satisfies, so a PROCESSING row
\* without one would stay there for ever.
ProcessingHasLease ==
    \A e \in Event : status[e] = "PROCESSING" => lease[e] # "none" /\ claimedBy[e] # NoWorker

\* An event is given up only after the configured number of attempts, although
\* the dispatcher decides it from the retryCount its claim returned and the
\* lease recovery from the row.
DeadLetterUsedItsAttempts ==
    \A e \in Event : status[e] = "DEAD_LETTER" => retryCount[e] >= MaxDispatchAttempts

\* What a row says of its event is true: COMPLETED of its job, PROCESSING of a
\* lease that brings it back, DEAD_LETTER of the attempts that were made, with
\* several workers that overtake each other and die.
TableIsSound == CompletedWasAccepted /\ ProcessingHasLease /\ DeadLetterUsedItsAttempts

\* Two workers work on the same event only if a lease of it ran out before:
\* SKIP LOCKED claims, unguarded status updates, releases and retries never
\* hand out a row that another worker still has.
ExclusiveUntilExpiry ==
    \A e \in Event, v, w \in Worker :
        v # w /\ Holds(v, e) /\ Holds(w, e) => e \in expired

\* However many workers come back late with an old retryCount, the attempts
\* beyond the limit stay bounded: a worker whose claim saw a low count can put
\* the row back to PENDING once, and one fresh claim can follow each time.
AttemptsBounded ==
    \A e \in Event : retryCount[e] < MaxDispatchAttempts + 2 * Cardinality(Worker)

\* A row that still waits for dispatch has an attempt left.  (The comment on
\* MAX_DISPATCH_ATTEMPTS: "Dispatch attempts before an event is moved to
\* DEAD_LETTER".)
PendingHasAttemptLeft ==
    \A e \in Event : status[e] = "PENDING" => retryCount[e] < MaxDispatchAttempts

\* Every event is handed to the queue or given up in the end: with finitely many
\* faults no claim, release, expiry and recovery go round for ever.
EventuallySettled ==
    \A e \in Event : status[e] = "PENDING" ~> status[e] \in {"COMPLETED", "DEAD_LETTER"}

\* The outbox implements the promise of Handover.
H == INSTANCE Handover WITH
        requested <- {e \in Event : status[e] # "NONE"},
        enqueued <- accepted,
        confirmed <- {e \in Event : status[e] = "COMPLETED"},
        abandoned <- {e \in Event : status[e] = "DEAD_LETTER"}
HandoverSpec == H!Spec
=============================================================================
