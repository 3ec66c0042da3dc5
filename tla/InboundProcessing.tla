------------------------- MODULE InboundProcessing -------------------------
(***************************************************************************)
(* The way in: a provider's webhook call is journaled and acknowledged     *)
(* (apps/api/src/webhooks, packages/database/src/provider-events.ts), the  *)
(* outbox queues each journaled event, and a worker normalises it and      *)
(* hands the results to the Conversation Core                              *)
(* (apps/worker/src/processing/inbound-processor.service.ts).              *)
(*                                                                         *)
(* Results[e] is what normalizeInbound makes of event e: messages (the     *)
(* same provider message may come in two events), receipts for an outbound *)
(* message, and things that are ignored.  A statement or a transaction is  *)
(* one step.  The outbox's hand-over is one step here; module Outbox has   *)
(* its details, and Redispatch is what it may do twice.                    *)
(***************************************************************************)
EXTENDS Integers, Sequences, FiniteSets

CONSTANTS Event,                \* provider event keys
          Results,              \* [Event -> sequence of results]
          ChannelOf,            \* the account an event belongs to
          Connected,            \* accounts that are channels of the workspace
          Batches,              \* sets of events a webhook call may carry
          Request,              \* webhook calls in progress at the same time
          Runner,               \* concurrent runs of InboundProcessorService.process
          RetryLimit,           \* QUEUE_CONFIGS['vynor.webhooks.process'].retryLimit
          ReceiptMatchAttempts, \* RECEIPT_MATCH_ATTEMPTS
          NoRunner,             \* no run holds the job's lock
          MaxFaults             \* bound: crashes, errors, stalls, replays

ASSUME EventsAssumption ==
    /\ \A e \in Event : Results[e] \in Seq([type : {"MESSAGE", "DELIVERY_RECEIPT", "IGNORED"}, id : STRING])
    /\ Batches \subseteq SUBSET Event
    /\ NoRunner \notin Runner
\* A receipt is given up before the queue gives up the job.
ASSUME AttemptsAssumption ==
    /\ RetryLimit \in Nat /\ ReceiptMatchAttempts \in Nat /\ MaxFaults \in Nat
    /\ ReceiptMatchAttempts <= RetryLimit + 1

VARIABLES
    status,    \* provider_events.status, "NONE" when there is no row
    attempts,  \* provider_events.processing_attempts
    job,       \* the event's job in the queue
    call,      \* a webhook call: the events still to journal, and all it brought
    acked,     \* events the provider got a 200 for
    run,       \* a run of process
    rows,      \* number of messages rows of a provider message
    sent,      \* outbound messages whose send result is stored
    applied,   \* receipts that were applied
    deleted,   \* deleted channels
    faults,
    gaveUp,    \* history: receipts taken for somebody else's message
    replayed,  \* history: events an operator replayed
    overlapped \* history: events with a run that lost the job's lock and went on

rowVars == <<status, attempts>>
queueVars == <<job, overlapped>>
coreVars == <<rows, sent, applied, gaveUp>>
vars == <<status, attempts, job, call, acked, run, rows, sent, applied, deleted, faults, gaveUp, replayed, overlapped>>

ResultsOf(type) == {r \in UNION {{Results[e][i] : i \in DOMAIN Results[e]} : e \in Event} : r.type = type}
MessageId == {r.id : r \in ResultsOf("MESSAGE")}
OutboundId == {r.id : r \in ResultsOf("DELIVERY_RECEIPT")}
Carries(e, type) == {Results[e][i].id : i \in {j \in DOMAIN Results[e] : Results[e][j].type = type}}

Terminal == {"PROCESSED", "IGNORED", "FAILED"}
NoCall == [todo |-> {}, batch |-> {}]
PC == {"idle", "read", "ignore", "claim", "next", "insert", "retry", "permanent"}

TypeOK ==
    /\ status \in [Event -> {"NONE", "RECEIVED", "PROCESSING"} \cup Terminal]
    /\ attempts \in [Event -> Nat]
    /\ \A e \in Event : /\ job[e].at \in {"none", "outbox", "waiting", "active", "finished", "failed"}
                        /\ IF job[e].at = "active" THEN job[e].owner \in Runner ELSE job[e].owner = NoRunner
                        /\ job[e].made \in 0 .. RetryLimit + 1 /\ job[e].stalls \in 0 .. RetryLimit + 1
    /\ call \in [Request -> [todo : SUBSET Event, batch : SUBSET Event]]
    /\ acked \subseteq Event
    /\ \A r \in Runner : run[r].pc \in PC /\ (run[r].pc # "idle" => run[r].event \in Event)
    /\ rows \in [MessageId -> Nat]
    /\ sent \subseteq OutboundId /\ applied \subseteq OutboundId /\ gaveUp \subseteq OutboundId
    /\ faults \in 0 .. MaxFaults

NoJob == [at |-> "none", owner |-> NoRunner, made |-> 0, stalls |-> 0]
IdleRun == [pc |-> "idle", event |-> "", seen |-> 0, next |-> 1, handled |-> 0, ignored |-> 0]

Init ==
    /\ status = [e \in Event |-> "NONE"] /\ attempts = [e \in Event |-> 0]
    /\ job = [e \in Event |-> NoJob]
    /\ call = [q \in Request |-> NoCall] /\ acked = {}
    /\ run = [r \in Runner |-> IdleRun]
    /\ rows = [m \in MessageId |-> 0]
    /\ sent = {} /\ applied = {} /\ gaveUp = {} /\ replayed = {} /\ overlapped = {}
    /\ deleted = {} /\ faults = 0

Fault == faults < MaxFaults /\ faults' = faults + 1

-----------------------------------------------------------------------------
(* WebhookIngestService *)

\* A verified call with a well-formed payload.  Every other call is answered 4xx or 503 and
\* leaves no trace.  Events of accounts that are not connected here are dropped.
Receive(q, b) ==
    /\ call[q] = NoCall /\ b # {}
    /\ \E e \in b : ChannelOf[e] \in Connected \ deleted
    /\ call' = [call EXCEPT ![q] = [todo |-> {e \in b : ChannelOf[e] \in Connected \ deleted}, batch |-> b]]
    /\ UNCHANGED <<rowVars, queueVars, acked, run, coreVars, deleted, faults, replayed>>

\* Mutant: an outbox event for every event of the delivery.
EveryRow(group) == group

\* ON CONFLICT DO NOTHING: only new rows are created and get an outbox event.
NewRows(group) == {e \in group : status[e] = "NONE"}

\* journalProviderEvents: one transaction for the events of one channel.
Journal(q, c) ==
    /\ LET group == {e \in call[q].todo : ChannelOf[e] = c}
           new == NewRows(group)
       IN /\ group # {}
          /\ status' = [e \in Event |-> IF e \in new THEN "RECEIVED" ELSE status[e]]
          /\ job' = [e \in Event |-> IF e \in new THEN [NoJob EXCEPT !.at = "outbox"] ELSE job[e]]
          /\ call' = [call EXCEPT ![q].todo = @ \ group]
    /\ UNCHANGED <<attempts, overlapped, acked, run, coreVars, deleted, faults, replayed>>

\* Mutant: the call is answered before its last group is journaled.
GroupsDoneEarly(q) == call[q] # NoCall

\* The loop over the groups is over.
GroupsDone(q) == call[q] # NoCall /\ call[q].todo = {}

\* 200 { accepted, duplicates }
Respond(q) ==
    /\ GroupsDone(q)
    /\ acked' = acked \cup call[q].batch
    /\ call' = [call EXCEPT ![q] = NoCall]
    /\ UNCHANGED <<rowVars, queueVars, run, coreVars, deleted, faults, replayed>>

\* A transaction fails or the process dies: no 200, and the provider calls again.
CallFails(q) ==
    /\ call[q] # NoCall /\ Fault
    /\ call' = [call EXCEPT ![q] = NoCall]
    /\ UNCHANGED <<rowVars, queueVars, acked, run, coreVars, deleted, replayed>>

-----------------------------------------------------------------------------
(* The queue *)

Enqueue(e) ==
    /\ job[e].at = "outbox"
    /\ job' = [job EXCEPT ![e].at = "waiting"]
    /\ UNCHANGED <<rowVars, overlapped, call, acked, run, coreVars, deleted, faults, replayed>>

\* The outbox dispatches the event again after the finished job was removed, or an operator
\* returned the outbox event to PENDING.
Redispatch(e) ==
    /\ job[e].at \in {"finished", "failed"} /\ Fault
    /\ job' = [job EXCEPT ![e] = [NoJob EXCEPT !.at = "waiting"]]
    /\ UNCHANGED <<rowVars, overlapped, call, acked, run, coreVars, deleted, replayed>>

StartJob(r, e) ==
    /\ run[r].pc = "idle" /\ job[e].at = "waiting"
    /\ job' = [job EXCEPT ![e].at = "active", ![e].owner = r]
    /\ run' = [run EXCEPT ![r] = [IdleRun EXCEPT !.pc = "read", !.event = e]]
    /\ UNCHANGED <<rowVars, overlapped, call, acked, coreVars, deleted, faults, replayed>>

\* Mutant: the lock of a stalled job is not released.
StalledKeepsLock(e) == job' = [job EXCEPT ![e].at = "waiting", ![e].stalls = @ + 1]

Stalled(e) == job' = [job EXCEPT ![e].at = IF job[e].stalls < RetryLimit THEN "waiting" ELSE "failed",
                                 ![e].owner = NoRunner, ![e].stalls = @ + 1]

\* The stalled check finds the job of a worker that died.
Stall(e) ==
    /\ job[e].at = "active" /\ run[job[e].owner].event # e
    /\ Stalled(e)
    /\ UNCHANGED <<rowVars, overlapped, call, acked, run, coreVars, deleted, faults, replayed>>

\* A worker that hangs or is slow loses the lock: the job runs again next to its first run.
LoseLock(e) ==
    /\ job[e].at = "active" /\ run[job[e].owner].event = e /\ Fault
    /\ Stalled(e)
    /\ overlapped' = overlapped \cup {e}
    /\ UNCHANGED <<rowVars, call, acked, run, coreVars, deleted, replayed>>

TriesLeft(e) == job[e].made < RetryLimit

\* process() returned, or threw: only the lock's owner moves the job.
JobReturned(r) ==
    LET e == run[r].event
    IN /\ job' = IF job[e].owner = r THEN [job EXCEPT ![e].at = "finished", ![e].owner = NoRunner] ELSE job
       /\ run' = [run EXCEPT ![r] = IdleRun]
       /\ UNCHANGED overlapped

JobThrew(r) ==
    LET e == run[r].event
    IN /\ job' = IF job[e].owner = r
                 THEN [job EXCEPT ![e].at = IF TriesLeft(e) THEN "waiting" ELSE "failed",
                                  ![e].owner = NoRunner, ![e].made = @ + 1]
                 ELSE job
       /\ run' = [run EXCEPT ![r] = IdleRun]
       /\ UNCHANGED overlapped

-----------------------------------------------------------------------------
(* InboundProcessorService.process *)

\* The early return of process().
AlreadyDone(e) == status[e] \in {"PROCESSED", "IGNORED"}

ReadEvent(r) ==
    /\ run[r].pc = "read"
    /\ LET e == run[r].event
       IN \/ /\ AlreadyDone(e)
             /\ JobReturned(r)
          \/ /\ ~AlreadyDone(e)
             /\ run' = [run EXCEPT ![r].pc = IF ChannelOf[e] \in deleted THEN "ignore" ELSE "claim",
                                   ![r].seen = attempts[e]]
             /\ UNCHANGED queueVars
    /\ UNCHANGED <<rowVars, call, acked, coreVars, deleted, faults, replayed>>

IgnoreDeleted(r) ==
    /\ run[r].pc = "ignore"
    /\ status' = [status EXCEPT ![run[r].event] = "IGNORED"]
    /\ JobReturned(r)
    /\ UNCHANGED <<attempts, call, acked, coreVars, deleted, faults, replayed>>

\* Mutant: the event counts as processed as soon as it is picked up.
StatusWhenDone == "PROCESSED"

StatusWhenPicked == "PROCESSING"

\* transitionProviderEventStatus(PROCESSING, incrementAttempts), whatever the status is now.
Claim(r) ==
    /\ run[r].pc = "claim"
    /\ status' = [status EXCEPT ![run[r].event] = StatusWhenPicked]
    /\ attempts' = [attempts EXCEPT ![run[r].event] = @ + 1]
    /\ run' = [run EXCEPT ![r].pc = "next"]
    /\ UNCHANGED <<queueVars, call, acked, coreVars, deleted, faults, replayed>>

\* normalizeInbound throws a provider error that is not retryable.
NormalizeFails(r) ==
    /\ run[r].pc = "next" /\ run[r].next = 1 /\ Fault
    /\ run' = [run EXCEPT ![r].pc = "permanent"]
    /\ UNCHANGED <<rowVars, queueVars, call, acked, coreVars, deleted, replayed>>

AtResult(r, type) ==
    /\ run[r].pc = "next" /\ run[r].next <= Len(Results[run[r].event])
    /\ Results[run[r].event][run[r].next].type = type

ResultId(r) == Results[run[r].event][run[r].next].id

Handled(r) == run' = [run EXCEPT ![r].pc = "next", ![r].next = @ + 1, ![r].handled = @ + 1]

\* ingestMessage: findDuplicate ...
FindDuplicate(r) ==
    /\ AtResult(r, "MESSAGE")
    /\ IF rows[ResultId(r)] > 0 THEN Handled(r) ELSE run' = [run EXCEPT ![r].pc = "insert"]
    /\ UNCHANGED <<rowVars, queueVars, call, acked, coreVars, deleted, faults, replayed>>

\* Mutant: no unique key on the provider message id.
CountAfterInsert(n) == n + 1

\* The unique key refuses a second row.
RowsAfterInsert(n) == IF n = 0 THEN 1 ELSE n

\* ... and the transaction, which the unique key turns into a duplicate when another run was faster.
IngestMessage(r) ==
    /\ run[r].pc = "insert"
    /\ rows' = [rows EXCEPT ![ResultId(r)] = RowsAfterInsert(@)]
    /\ Handled(r)
    /\ UNCHANGED <<rowVars, queueVars, call, acked, sent, applied, gaveUp, deleted, faults, replayed>>

\* Mutant: the attempts are taken to include this one.
AttemptsLeftOneLess(r) == run[r].seen + 2 < ReceiptMatchAttempts

\* processingAttempts was read before this attempt was counted.
AttemptsLeft(r) == run[r].seen + 1 < ReceiptMatchAttempts

\* applyReceipt finds the outbound message, or throws ReceiptNotYetMatchableError: retried while
\* attempts are left, then taken for a message VYNOR did not send.
ApplyReceipt(r) ==
    /\ AtResult(r, "DELIVERY_RECEIPT")
    /\ \/ /\ ResultId(r) \in sent
          /\ applied' = applied \cup {ResultId(r)}
          /\ Handled(r)
          /\ UNCHANGED gaveUp
       \/ /\ ResultId(r) \notin sent
          /\ IF AttemptsLeft(r)
             THEN run' = [run EXCEPT ![r].pc = "retry"] /\ UNCHANGED gaveUp
             ELSE /\ run' = [run EXCEPT ![r].next = @ + 1, ![r].ignored = @ + 1]
                  /\ gaveUp' = gaveUp \cup {ResultId(r)}
          /\ UNCHANGED applied
    /\ UNCHANGED <<rowVars, queueVars, call, acked, rows, sent, deleted, faults, replayed>>

SkipIgnored(r) ==
    /\ AtResult(r, "IGNORED")
    /\ run' = [run EXCEPT ![r].next = @ + 1, ![r].ignored = @ + 1]
    /\ UNCHANGED <<rowVars, queueVars, call, acked, coreVars, deleted, faults, replayed>>

Finish(r) ==
    /\ run[r].pc = "next" /\ run[r].next > Len(Results[run[r].event])
    /\ status' = [status EXCEPT ![run[r].event] =
                    IF run[r].handled > 0 \/ run[r].ignored = 0 THEN "PROCESSED" ELSE "IGNORED"]
    /\ JobReturned(r)
    /\ UNCHANGED <<attempts, call, acked, coreVars, deleted, faults, replayed>>

\* Mutant: an error is never thrown again, so the queue takes the job for done.
Swallowed(r) == FALSE

\* The error leaves process() again.
Rethrown(r) == run[r].pc = "retry"

\* The catch block: RECEIVED and thrown again, or FAILED for good.
RecordFailure(r) ==
    /\ run[r].pc \in {"retry", "permanent"}
    /\ status' = [status EXCEPT ![run[r].event] = IF run[r].pc = "retry" THEN "RECEIVED" ELSE "FAILED"]
    /\ IF Rethrown(r) THEN JobThrew(r) ELSE JobReturned(r)
    /\ UNCHANGED <<attempts, call, acked, coreVars, deleted, faults, replayed>>

\* The database fails: inside the try block the error is caught and retried, outside it the
\* error leaves process() and the status stays as it is.
StatementThrows(r) ==
    /\ Fault
    /\ \/ /\ run[r].pc \in {"next", "insert"}
          /\ run' = [run EXCEPT ![r].pc = "retry"]
          /\ UNCHANGED queueVars
       \/ /\ run[r].pc \in {"read", "ignore", "claim", "retry", "permanent"}
          /\ JobThrew(r)
    /\ UNCHANGED <<rowVars, call, acked, coreVars, deleted, replayed>>

Crash(r) ==
    /\ run[r].pc # "idle" /\ Fault
    /\ run' = [run EXCEPT ![r] = IdleRun]
    /\ UNCHANGED <<rowVars, queueVars, call, acked, coreVars, deleted, replayed>>

-----------------------------------------------------------------------------
(* Everyone else *)

\* OutboundDispatcherService.markSent commits (module OutboundDelivery).
StoreSendResult(o) ==
    /\ o \notin sent
    /\ sent' = sent \cup {o}
    /\ UNCHANGED <<rowVars, queueVars, call, acked, run, rows, applied, gaveUp, deleted, faults, replayed>>

DeleteChannel(c) ==
    /\ c \notin deleted /\ Fault
    /\ deleted' = deleted \cup {c}
    /\ UNCHANGED <<rowVars, queueVars, call, acked, run, coreVars, replayed>>

\* replayProviderEvent resets the row; it neither queues a job nor resets the attempts.
Replay(e) ==
    /\ status[e] # "NONE" /\ Fault
    /\ status' = [status EXCEPT ![e] = "RECEIVED"]
    /\ replayed' = replayed \cup {e}
    /\ UNCHANGED <<attempts, queueVars, call, acked, run, coreVars, deleted>>

-----------------------------------------------------------------------------
CallStep(q) == \/ \E b \in Batches : Receive(q, b)
               \/ \E c \in Connected : Journal(q, c)
               \/ Respond(q) \/ CallFails(q)

RunStep(r) == \/ \E e \in Event : StartJob(r, e)
              \/ ReadEvent(r) \/ IgnoreDeleted(r) \/ Claim(r) \/ NormalizeFails(r) \/ FindDuplicate(r)
              \/ IngestMessage(r) \/ ApplyReceipt(r) \/ SkipIgnored(r) \/ Finish(r) \/ RecordFailure(r)
              \/ StatementThrows(r) \/ Crash(r)

Next == \/ \E q \in Request : CallStep(q)
        \/ \E e \in Event : Enqueue(e) \/ Redispatch(e) \/ Stall(e) \/ LoseLock(e) \/ Replay(e)
        \/ \E r \in Runner : RunStep(r)
        \/ \E o \in OutboundId : StoreSendResult(o)
        \/ \E c \in Connected : DeleteChannel(c)

Spec == Init /\ [][Next]_vars

RunGoesOn(r) == \/ ReadEvent(r) \/ IgnoreDeleted(r) \/ Claim(r) \/ FindDuplicate(r) \/ IngestMessage(r)
                \/ ApplyReceipt(r) \/ SkipIgnored(r) \/ Finish(r) \/ RecordFailure(r)

\* Workers take jobs and finish what they started; BullMQ's stalled check finds the job of a
\* worker that died; the outbox hands every event over (EventuallySettled of module Outbox).
FairSpec ==
    /\ Spec
    /\ \A e \in Event : /\ WF_vars(Enqueue(e))
                        /\ WF_vars(\E r \in Runner : StartJob(r, e))
                        /\ WF_vars(Stall(e))
    /\ \A r \in Runner : WF_vars(RunGoesOn(r))

-----------------------------------------------------------------------------
(* Properties *)

Stored(e) == \A m \in Carries(e, "MESSAGE") : rows[m] > 0

\* A provider that got its 200 may forget the events: each one of a connected channel is in the
\* journal, also when the call's groups were written by transactions that failed in between.
AckedIsJournaled == \A e \in acked : ChannelOf[e] \in Connected \ deleted => status[e] # "NONE"

\* However often a customer message is delivered, run, retried or replayed, there is one row.
OneRowPerMessage == \A m \in MessageId : rows[m] <= 1

\* An event marked PROCESSED has done its work: its messages are stored, its receipts applied
\* or given up, whatever other runs of the same event wrote in between.
ProcessedIsDone ==
    \A e \in Event : status[e] = "PROCESSED" =>
        Stored(e) /\ Carries(e, "DELIVERY_RECEIPT") \subseteq applied \cup gaveUp

\* A journaled customer message that is not stored is still on its way: its job is in the queue
\* or a run works on it, unless the event was refused (FAILED, IGNORED), the queue gave the job
\* up, an operator replayed the event by hand, or a run that had lost its lock wrote over the
\* status of the run that refused it.
NoSilentLoss ==
    \A e \in Event : status[e] \in {"RECEIVED", "PROCESSING"} /\ ~Stored(e) =>
        \/ job[e].at \in {"outbox", "waiting", "active", "failed"}
        \/ \E r \in Runner : run[r].event = e
        \/ e \in replayed \cup overlapped

\* A receipt is only taken for somebody else's message after RECEIPT_MATCH_ATTEMPTS attempts,
\* however the attempts of concurrent and crashed runs were counted.
GaveUpLate ==
    \A o \in gaveUp : \E e \in Event : /\ o \in Carries(e, "DELIVERY_RECEIPT")
                                       /\ attempts[e] >= ReceiptMatchAttempts

\* The journal tells what became of an event: what was acknowledged is in it, what is PROCESSED
\* was done, what is open is on its way, and a receipt was not given up early.
JournalIsTrue == TypeOK /\ AckedIsJournaled /\ ProcessedIsDone /\ NoSilentLoss /\ GaveUpLate

\* An event that was PROCESSED or IGNORED is never opened again by a redelivery, a retry or a
\* second dispatch: only a replay does that, or runs that overlapped because one lost its lock.
FinishedStaysFinished ==
    [][\A e \in Event : status[e] \in {"PROCESSED", "IGNORED"} /\ status'[e] # status[e] =>
          e \in replayed' \cup overlapped]_vars

\* Every journaled event comes to an end: its messages are stored, or it is refused, or the
\* queue gives its job up (or an operator took it over).
EventuallySettled ==
    \A e \in Event : status[e] # "NONE" ~>
        \/ Stored(e) /\ Carries(e, "DELIVERY_RECEIPT") \subseteq applied \cup gaveUp
        \/ status[e] \in {"FAILED", "IGNORED"} \/ job[e].at = "failed" \/ e \in replayed
=============================================================================
