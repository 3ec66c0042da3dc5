-------------------------- MODULE OutboundDelivery --------------------------
(***************************************************************************)
(* An agent's reply on its way to the customer:                            *)
(*   apps/api/src/conversations/conversations.service.ts                   *)
(*       (sendMessage, retryMessage),                                      *)
(*   apps/worker/src/processing/outbound-dispatcher.service.ts             *)
(*       (the handler of vynor.messages.outbound and the reconciler of     *)
(*       stuck replies),                                                   *)
(*   apps/worker/src/conversations/conversation-ingest.service.ts          *)
(*       (delivery receipts).                                              *)
(*                                                                         *)
(* The outbox between the API and the queue appears as its promise         *)
(* (module Handover): a requested job is enqueued at least once, or never. *)
(* BullMQ is external: a job has one owner, but a runner that stalls loses *)
(* the job to another one and goes on working; only the owner's verdict on *)
(* the job counts.  The provider is external: every copy of a reply it     *)
(* accepts reaches the customer.                                           *)
(***************************************************************************)
EXTENDS Integers

CONSTANTS
    Message,             \* the replies
    Job,                 \* the send requests (outbox events) that are ever made
    Runner,              \* concurrent executions of the queue handler
    Agent,               \* concurrent retry requests
    Receiver,            \* concurrent applications of receipts
    NoMessage, NoJob, NoRunner,
    RetryLimit,          \* QUEUE_CONFIGS[outbound].retryLimit
    MaxFaults            \* bound: crashes, stalls, outages and failed calls

ASSUME RetryAssumption == RetryLimit \in Nat
ASSUME FaultsAssumption == MaxFaults \in Nat
ASSUME NullAssumption == NoMessage \notin Message /\ NoJob \notin Job /\ NoRunner \notin Runner

VARIABLES
    status,      \* messages.status; "NONE" before the row exists
    providerId,  \* messages.provider_message_id as the number of the copy; 0 is NULL
    old,         \* replies not updated for STUCK_PENDING_MINUTES
    channel,     \* provider_accounts: "open", "disconnected" or (soft-)"deleted"
    job,         \* state of each send job
    jobMessage,  \* payload.messageId of the job
    made,        \* job.attemptsMade
    stalls,      \* how often the job was taken from a stalled owner
    owner,       \* the runner that holds the lock of the job
    rpc,         \* where a run of send() stands
    rjob,        \* its job
    final,       \* its options.finalAttempt
    copy,        \* the copy whose id sendMessage returned to it
    copies,      \* how many copies of the reply the provider accepted
    stuck,       \* replies failStuckMessages has read and not failed yet
    retrying,    \* the reply a retry request found FAILED
    receipt,     \* the receipt a receiver is about to apply
    faults,
    retried      \* history: replies that an agent sent again

messageVars == <<status, providerId, old, channel>>
jobVars == <<job, jobMessage, made, stalls, owner>>
runnerVars == <<rpc, rjob, final, copy>>
vars == <<status, providerId, old, channel, job, jobMessage, made, stalls, owner, rpc, rjob,
          final, copy, copies, stuck, retrying, receipt, faults, retried>>

D == INSTANCE DeliveryStatus

JobState == {"none", "requested", "waiting", "active", "finished"}
RunPC == {"idle", "start", "sending", "accepted", "error", "failing"}
Receipts == [message : Message, from : D!DeliveryStatuses, to : D!DeliveryStatuses]
NoReceipt == [message |-> NoMessage, from |-> "PENDING", to |-> "PENDING"]

TypeOK ==
    /\ status \in [Message -> D!DeliveryStatuses \cup {"NONE"}]
    /\ providerId \in [Message -> Nat]
    /\ old \in SUBSET Message
    /\ channel \in {"open", "disconnected", "deleted"}
    /\ job \in [Job -> JobState]
    /\ jobMessage \in [Job -> Message \cup {NoMessage}]
    /\ made \in [Job -> Nat]
    /\ stalls \in [Job -> Nat]
    /\ owner \in [Job -> Runner \cup {NoRunner}]
    /\ rpc \in [Runner -> RunPC]
    /\ rjob \in [Runner -> Job \cup {NoJob}]
    /\ final \in [Runner -> BOOLEAN]
    /\ copy \in [Runner -> Nat]
    /\ copies \in [Message -> Nat]
    /\ stuck \in SUBSET Message
    /\ retrying \in [Agent -> Message \cup {NoMessage}]
    /\ receipt \in [Receiver -> Receipts \cup {NoReceipt}]
    /\ faults \in Nat
    /\ retried \in SUBSET Message

Init ==
    /\ status = [m \in Message |-> "NONE"]
    /\ providerId = [m \in Message |-> 0]
    /\ old = {}
    /\ channel = "open"
    /\ job = [j \in Job |-> "none"]
    /\ jobMessage = [j \in Job |-> NoMessage]
    /\ made = [j \in Job |-> 0]
    /\ stalls = [j \in Job |-> 0]
    /\ owner = [j \in Job |-> NoRunner]
    /\ rpc = [r \in Runner |-> "idle"]
    /\ rjob = [r \in Runner |-> NoJob]
    /\ final = [r \in Runner |-> FALSE]
    /\ copy = [r \in Runner |-> 0]
    /\ copies = [m \in Message |-> 0]
    /\ stuck = {}
    /\ retrying = [a \in Agent |-> NoMessage]
    /\ receipt = [h \in Receiver |-> NoReceipt]
    /\ faults = 0
    /\ retried = {}

-----------------------------------------------------------------------------
(* Helper state formulae *)

Fault == faults < MaxFaults /\ faults' = faults + 1

\* Any update of the row moves messages.updated_at.
SetStatus(m, s) == /\ status' = [status EXCEPT ![m] = s]
                   /\ old' = old \ {m}

\* A new outbox event, committed with the row that asks for it.
RequestJob(j, m) == /\ job[j] = "none"
                    /\ job' = [job EXCEPT ![j] = "requested"]
                    /\ jobMessage' = [jobMessage EXCEPT ![j] = m]
                    /\ UNCHANGED <<made, stalls, owner>>

MessageOf(r) == jobMessage[rjob[r]]

RunnerIdle(r) == /\ rpc' = [rpc EXCEPT ![r] = "idle"]
                 /\ rjob' = [rjob EXCEPT ![r] = NoJob]
                 /\ final' = [final EXCEPT ![r] = FALSE]
                 /\ copy' = [copy EXCEPT ![r] = 0]

\* send() returned: the job is complete, if this run still owns it.
JobReturned(r) ==
    /\ LET j == rjob[r] IN
       /\ job' = [job EXCEPT ![j] = IF owner[j] = r THEN "finished" ELSE @]
       /\ owner' = [owner EXCEPT ![j] = IF @ = r THEN NoRunner ELSE @]
    /\ UNCHANGED <<jobMessage, made, stalls>>
    /\ RunnerIdle(r)

\* send() threw: BullMQ runs the job again after its delay while attempts are left.
JobThrew(r) ==
    /\ LET j == rjob[r]
           again == made[j] < RetryLimit
       IN /\ job' = [job EXCEPT ![j] = IF owner[j] # r THEN @
                                       ELSE IF again THEN "waiting" ELSE "finished"]
          /\ made' = [made EXCEPT ![j] = IF owner[j] = r THEN @ + 1 ELSE @]
          /\ owner' = [owner EXCEPT ![j] = IF @ = r THEN NoRunner ELSE @]
    /\ UNCHANGED <<jobMessage, stalls>>
    /\ RunnerIdle(r)

-----------------------------------------------------------------------------
(* The API *)

\* ConversationsService.sendMessage: the reply and its outbox event commit together.
SendMessage(m, j) ==
    /\ status[m] = "NONE" /\ channel = "open"
    /\ SetStatus(m, "PENDING")
    /\ RequestJob(j, m)
    /\ UNCHANGED <<providerId, channel, runnerVars, copies, stuck, retrying, receipt, faults, retried>>

\* ConversationsService.retryMessage reads the reply and checks it ...
RetryRead(a, m) ==
    /\ retrying[a] = NoMessage
    /\ status[m] = "FAILED" /\ channel = "open"
    /\ retrying' = [retrying EXCEPT ![a] = m]
    /\ UNCHANGED <<messageVars, jobVars, runnerVars, copies, stuck, receipt, faults, retried>>

\* ... and updates it by id in a transaction of its own.
RetryWrite(a, j) ==
    /\ retrying[a] # NoMessage
    /\ LET m == retrying[a] IN
       /\ SetStatus(m, "PENDING")
       /\ RequestJob(j, m)
       /\ retried' = retried \cup {m}
    /\ retrying' = [retrying EXCEPT ![a] = NoMessage]
    /\ UNCHANGED <<providerId, channel, runnerVars, copies, stuck, receipt, faults>>

\* An administrator deletes or reconnects the channel, or the worker finds its
\* credentials rejected (module Channels says when): from here it may
\* happen at any moment.
ChangeChannel ==
    /\ channel # "deleted"
    /\ channel' \in {"open", "disconnected", "deleted"} \ {channel}
    /\ UNCHANGED <<status, providerId, old, jobVars, runnerVars, copies, stuck, retrying,
                   receipt, faults, retried>>

-----------------------------------------------------------------------------
(* The queue *)

\* The outbox hands the job over.
EnqueueJob(j) ==
    /\ job[j] = "requested"
    /\ job' = [job EXCEPT ![j] = "waiting"]
    /\ UNCHANGED <<messageVars, jobMessage, made, stalls, owner, runnerVars, copies, stuck,
                   retrying, receipt, faults, retried>>

\* The outbox dispatches its event again after BullMQ removed the finished job.
EnqueueAgain(j) ==
    /\ job[j] = "finished"
    /\ Fault
    /\ job' = [job EXCEPT ![j] = "waiting"]
    /\ made' = [made EXCEPT ![j] = 0]
    /\ stalls' = [stalls EXCEPT ![j] = 0]
    /\ UNCHANGED <<messageVars, jobMessage, owner, runnerVars, copies, stuck, retrying,
                   receipt, retried>>

\* BullMQ hands the job to a runner; startWorker passes attemptsMade on.
StartJob(r, j) ==
    /\ rpc[r] = "idle" /\ job[j] = "waiting"
    /\ job' = [job EXCEPT ![j] = "active"]
    /\ owner' = [owner EXCEPT ![j] = r]
    /\ rpc' = [rpc EXCEPT ![r] = "start"]
    /\ rjob' = [rjob EXCEPT ![r] = j]
    /\ final' = [final EXCEPT ![r] = made[j] >= RetryLimit]
    /\ UNCHANGED <<messageVars, jobMessage, made, stalls, copy, copies, stuck, retrying,
                   receipt, faults, retried>>

\* The owner's lock ran out, its process dead or just slow: the job runs again,
\* or fails without a run when it stalled more than maxStalledCount times.
Stall(j) ==
    /\ job[j] = "active"
    /\ Fault
    /\ job' = [job EXCEPT ![j] = IF stalls[j] < RetryLimit THEN "waiting" ELSE "finished"]
    /\ stalls' = [stalls EXCEPT ![j] = @ + 1]
    /\ owner' = [owner EXCEPT ![j] = NoRunner]
    /\ UNCHANGED <<messageVars, jobMessage, made, runnerVars, copies, stuck, retrying,
                   receipt, retried>>

Crash(r) ==
    /\ rpc[r] # "idle"
    /\ Fault
    /\ RunnerIdle(r)
    /\ UNCHANGED <<messageVars, jobVars, copies, stuck, retrying, receipt, retried>>

-----------------------------------------------------------------------------
(* OutboundDispatcherService.send *)

\* The reply is read once; everything below relies on this read.
ReadMessage(r) ==
    /\ rpc[r] = "start"
    /\ \/ /\ status[MessageOf(r)] # "PENDING"
          /\ JobReturned(r)
       \/ /\ status[MessageOf(r)] = "PENDING"
          /\ rpc' = [rpc EXCEPT ![r] = IF channel = "deleted" THEN "failing" ELSE "sending"]
          /\ UNCHANGED <<jobVars, rjob, final, copy>>
    /\ UNCHANGED <<messageVars, copies, stuck, retrying, receipt, faults, retried>>

\* adapter.sendMessage returns, with the provider's id or (0) without one.
ProviderAccepts(r) ==
    /\ rpc[r] = "sending"
    /\ LET m == MessageOf(r) IN
       /\ copies' = [copies EXCEPT ![m] = @ + 1]
       /\ \E id \in {0, copies[m] + 1} : copy' = [copy EXCEPT ![r] = id]
    /\ rpc' = [rpc EXCEPT ![r] = "accepted"]
    /\ UNCHANGED <<messageVars, jobVars, rjob, final, stuck, retrying, receipt, faults, retried>>

\* A retryable error: rate limit, outage, or a timeout after the provider had
\* accepted the copy.
ProviderFails(r) ==
    /\ rpc[r] = "sending"
    /\ Fault
    /\ \/ UNCHANGED copies
       \/ copies' = [copies EXCEPT ![MessageOf(r)] = @ + 1]
    /\ rpc' = [rpc EXCEPT ![r] = "error"]
    /\ UNCHANGED <<messageVars, jobVars, rjob, final, copy, stuck, retrying, receipt, retried>>

\* An error that no retry can mend: closed reply window, rejected credentials,
\* content the channel cannot send.
ProviderRejects(r) ==
    /\ rpc[r] = "sending"
    /\ rpc' = [rpc EXCEPT ![r] = "failing"]
    /\ UNCHANGED <<messageVars, jobVars, rjob, final, copy, copies, stuck, retrying, receipt,
                   faults, retried>>

\* Mutants: the id that is stored is the previous or the next one.
WriteSentPreviousId(r) ==
    LET m == MessageOf(r) IN
    IF status[m] = "PENDING"
    THEN /\ SetStatus(m, "SENT")
         /\ providerId' = [providerId EXCEPT ![m] = copy[r] - 1]
         /\ UNCHANGED channel
    ELSE UNCHANGED messageVars

WriteSentNextId(r) ==
    LET m == MessageOf(r) IN
    IF status[m] = "PENDING"
    THEN /\ SetStatus(m, "SENT")
         /\ providerId' = [providerId EXCEPT ![m] = copy[r] + 1]
         /\ UNCHANGED channel
    ELSE UNCHANGED messageVars

\* markSent: only a reply that is still PENDING is updated.
WriteSent(r) ==
    LET m == MessageOf(r) IN
    IF status[m] = "PENDING"
    THEN /\ SetStatus(m, "SENT")
         /\ providerId' = [providerId EXCEPT ![m] = copy[r]]
         /\ UNCHANGED channel
    ELSE UNCHANGED messageVars

\* Mutants: markSent runs after a failed call too; an answer without an id is
\* taken for a failure.
MarkSentAlways(r) ==
    /\ rpc[r] \in {"accepted", "error"}
    /\ WriteSent(r)
    /\ JobReturned(r)
    /\ UNCHANGED <<copies, stuck, retrying, receipt, faults, retried>>

MarkSentNeedsId(r) ==
    /\ rpc[r] = "accepted"
    /\ \/ copy[r] # 0 /\ WriteSent(r) /\ JobReturned(r)
       \/ copy[r] = 0 /\ UNCHANGED messageVars /\ JobThrew(r)
    /\ UNCHANGED <<copies, stuck, retrying, receipt, faults, retried>>

MarkSent(r) ==
    /\ rpc[r] = "accepted"
    /\ WriteSent(r)
    /\ JobReturned(r)
    /\ UNCHANGED <<copies, stuck, retrying, receipt, faults, retried>>

\* A database error in markSent or in the health update after it is a TRANSIENT
\* error to the catch block, whether or not the status was written.
MarkSentThrows(r) ==
    /\ rpc[r] = "accepted"
    /\ Fault
    /\ WriteSent(r) \/ UNCHANGED messageVars
    /\ rpc' = [rpc EXCEPT ![r] = "error"]
    /\ UNCHANGED <<jobVars, rjob, final, copy, copies, stuck, retrying, receipt, retried>>

\* The catch block, for a retryable error.
CatchError(r) ==
    /\ rpc[r] = "error"
    /\ \/ /\ ~final[r]
          /\ JobThrew(r)
       \/ /\ final[r]
          /\ rpc' = [rpc EXCEPT ![r] = "failing"]
          /\ UNCHANGED <<jobVars, rjob, final, copy>>
    /\ UNCHANGED <<messageVars, copies, stuck, retrying, receipt, faults, retried>>

\* Mutant: the update is by id only.
WriteFailedById(m) == SetStatus(m, "FAILED") /\ UNCHANGED <<providerId, channel>>

\* fail(): only a reply that is still PENDING is updated.
WriteFailed(m) ==
    IF status[m] = "PENDING"
    THEN SetStatus(m, "FAILED") /\ UNCHANGED <<providerId, channel>>
    ELSE UNCHANGED messageVars

Fail(r) ==
    /\ rpc[r] = "failing"
    /\ WriteFailed(MessageOf(r))
    /\ JobReturned(r)
    /\ UNCHANGED <<copies, stuck, retrying, receipt, faults, retried>>

\* A database error in fail() or in the health update after it leaves send().
FailThrows(r) ==
    /\ rpc[r] = "failing"
    /\ Fault
    /\ WriteFailed(MessageOf(r)) \/ UNCHANGED messageVars
    /\ JobThrew(r)
    /\ UNCHANGED <<copies, stuck, retrying, receipt, retried>>

-----------------------------------------------------------------------------
(* failStuckMessages *)

\* Fifteen minutes without an update of the PENDING row.
Age(m) ==
    /\ status[m] = "PENDING" /\ m \notin old
    /\ old' = old \cup {m}
    /\ UNCHANGED <<status, providerId, channel, jobVars, runnerVars, copies, stuck, retrying,
                   receipt, faults, retried>>

\* Mutant: the reconciler looks at the replies of open channels only.
StuckReadOpen(m) ==
    /\ status[m] = "PENDING" /\ m \in old /\ m \notin stuck /\ channel = "open"
    /\ stuck' = stuck \cup {m}
    /\ UNCHANGED <<messageVars, jobVars, runnerVars, copies, retrying, receipt, faults, retried>>

StuckRead(m) ==
    /\ status[m] = "PENDING" /\ m \in old /\ m \notin stuck
    /\ stuck' = stuck \cup {m}
    /\ UNCHANGED <<messageVars, jobVars, runnerVars, copies, retrying, receipt, faults, retried>>

StuckFail(m) ==
    /\ m \in stuck
    /\ WriteFailed(m)
    /\ stuck' = stuck \ {m}
    /\ UNCHANGED <<jobVars, runnerVars, copies, retrying, receipt, faults, retried>>

\* An update throws: the replies that were read are forgotten until the next tick.
StuckThrows ==
    /\ stuck # {}
    /\ Fault
    /\ stuck' = {}
    /\ UNCHANGED <<messageVars, jobVars, runnerVars, copies, retrying, receipt, retried>>

-----------------------------------------------------------------------------
(* Receipts *)

\* The provider reports on a copy it accepted.  applyReceipt finds the reply by
\* the stored id of the copy, or by VYNOR's own message id (Custom API), and
\* reads its status; a watermark finds replies that are SENT or DELIVERED.
ReceiptRead(h, m, s) ==
    /\ receipt[h] = NoReceipt
    /\ status[m] # "NONE" /\ copies[m] > 0
    /\ status[m] # s /\ D!isDeliveryStatusMonotonic(status[m], s)
    /\ receipt' = [receipt EXCEPT ![h] = [message |-> m, from |-> status[m], to |-> s]]
    /\ UNCHANGED <<messageVars, jobVars, runnerVars, copies, stuck, retrying, faults, retried>>

\* transition: the update is guarded by the status that was read.
ReceiptWrite(h) ==
    /\ receipt[h] # NoReceipt
    /\ LET t == receipt[h] IN
       IF status[t.message] = t.from
       THEN SetStatus(t.message, t.to) /\ UNCHANGED <<providerId, channel>>
       ELSE UNCHANGED messageVars
    /\ receipt' = [receipt EXCEPT ![h] = NoReceipt]
    /\ UNCHANGED <<jobVars, runnerVars, copies, stuck, retrying, faults, retried>>

-----------------------------------------------------------------------------
ReceiptStatus == {"SENT", "DELIVERED", "READ", "FAILED"}

ApiStep ==
    \/ \E m \in Message, j \in Job : SendMessage(m, j)
    \/ \E a \in Agent : \/ \E m \in Message : RetryRead(a, m)
                        \/ \E j \in Job : RetryWrite(a, j)
    \/ ChangeChannel

QueueStep == \E j \in Job : EnqueueJob(j) \/ EnqueueAgain(j) \/ Stall(j)

RunnerStep(r) ==
    \/ \E j \in Job : StartJob(r, j)
    \/ ReadMessage(r) \/ ProviderAccepts(r) \/ ProviderFails(r) \/ ProviderRejects(r)
    \/ MarkSent(r) \/ MarkSentThrows(r) \/ CatchError(r) \/ Fail(r) \/ FailThrows(r)
    \/ Crash(r)

ReconcileStep(m) == Age(m) \/ StuckRead(m) \/ StuckFail(m) \/ StuckThrows

ReceiptStep(h) == \/ \E m \in Message, s \in ReceiptStatus : ReceiptRead(h, m, s)
                  \/ ReceiptWrite(h)

Next == \/ ApiStep
        \/ QueueStep
        \/ \E r \in Runner : RunnerStep(r)
        \/ \E m \in Message : ReconcileStep(m)
        \/ \E h \in Receiver : ReceiptStep(h)

\* Only the clock and the reconciler's timer are assumed to go on: whatever
\* becomes of the outbox event, the job and its runner.
Fairness == \A m \in Message :
    WF_vars(Age(m)) /\ WF_vars(StuckRead(m)) /\ WF_vars(StuckFail(m))

Spec == Init /\ [][Next]_vars
FairSpec == Spec /\ Fairness

-----------------------------------------------------------------------------
(* Properties *)

\* A reply shown as sent, delivered or read was accepted by the provider: no
\* stale run, retry, stuck reply or receipt marks one that never left.
SentWasAccepted ==
    \A m \in Message : status[m] \in {"SENT", "DELIVERED", "READ"} => copies[m] > 0

\* The provider id a row carries is the id of a copy of this very reply, so a
\* receipt cannot be matched to the wrong one.
ProviderIdIsACopy ==
    \A m \in Message : providerId[m] <= copies[m]

\* What a row says of its reply is true: it left, and under the id of one of its copies.
SentIsGenuine == SentWasAccepted /\ ProviderIdIsACopy

\* The customer gets a second copy only after a fault (crash, stall, timeout,
\* failed write, repeated dispatch) or because an agent sent the reply again.
DuplicateNeedsFaultOrRetry ==
    \A m \in Message : copies[m] > 1 => faults > 0 \/ m \in retried

\* Every change of a status obeys isDeliveryStatusMonotonic: reads before the
\* provider call, guarded updates, receipts out of order and retries together.
StatusMonotonic == D!Spec

\* Only a failed reply is sent again ("Only failed replies can be sent again.",
\* retryMessage): nothing else goes back to PENDING.
OnlyFailedIsRetried ==
    [][\A m \in Message : status[m] # "PENDING" /\ status'[m] = "PENDING"
                            => status[m] \in {"NONE", "FAILED"}]_status

\* No reply stays PENDING for ever, whatever became of its job: the outbox may
\* have dead-lettered it, BullMQ may have failed it after its last stall.
PendingEnds ==
    \A m \in Message : status[m] = "PENDING" ~> status[m] # "PENDING"
=============================================================================
