----------------------- MODULE OutboundDeliveryProofs -----------------------
(***************************************************************************)
(* Proofs about the outbound path, for any number of replies, jobs, runs,  *)
(* receipts and faults.                                                    *)
(***************************************************************************)
EXTENDS OutboundDelivery, TLAPS

-----------------------------------------------------------------------------
(* The inductive invariant *)

\* A job that was requested names a reply that exists.
JobInv ==
    \A j \in Job : job[j] # "none" => jobMessage[j] \in Message /\ status[jobMessage[j]] # "NONE"

\* A run that is under way has a requested job, and one whose provider call
\* returned has a copy to show for it.
RunInv ==
    \A r \in Runner :
        /\ rpc[r] # "idle" => rjob[r] \in Job /\ job[rjob[r]] # "none"
        /\ rpc[r] = "accepted" => /\ copies[MessageOf(r)] > 0
                                  /\ copy[r] <= copies[MessageOf(r)]

\* A receipt on its way is about a copy and moves the status it was read
\* against forward.
ReceiptInv ==
    \A h \in Receiver : receipt[h] # NoReceipt =>
        /\ receipt[h] \in Receipts
        /\ copies[receipt[h].message] > 0
        /\ receipt[h].from # "FAILED" /\ receipt[h].to # "PENDING"
        /\ D!isDeliveryStatusMonotonic(receipt[h].from, receipt[h].to)

IndInv ==
    /\ TypeOK
    /\ JobInv
    /\ RunInv
    /\ ReceiptInv
    /\ SentWasAccepted
    /\ ProviderIdIsACopy

-----------------------------------------------------------------------------
(* Each step preserves it; the conjuncts a step can disturb come first. *)

\* A new reply preserves the inductive invariant.
LEMMA SendMessageStep ==
    ASSUME NEW m \in Message, NEW j \in Job, IndInv, SendMessage(m, j)
    PROVE  IndInv'
<1> USE NullAssumption DEF IndInv, SendMessage, SetStatus, RequestJob, messageVars, jobVars,
        runnerVars
<1>1. TypeOK' BY DEF TypeOK, JobState, RunPC, JobInv, RunInv, MessageOf, D!DeliveryStatuses
<1>2. JobInv' BY DEF JobInv, TypeOK, RunInv, MessageOf
<1>3. RunInv' BY DEF RunInv, JobInv, MessageOf, TypeOK, RunPC
<1>4. SentWasAccepted' BY DEF SentWasAccepted, RunInv, JobInv, ReceiptInv, Receipts,
        MessageOf, TypeOK
<1>5. (ReceiptInv /\ ProviderIdIsACopy)' BY DEF ReceiptInv, ProviderIdIsACopy
<1> QED BY <1>1, <1>2, <1>3, <1>4, <1>5

\* The check of retryMessage preserves the inductive invariant.
LEMMA RetryReadStep ==
    ASSUME NEW a \in Agent, NEW m \in Message, IndInv, RetryRead(a, m)
    PROVE  IndInv'
<1> USE NullAssumption DEF IndInv, RetryRead, messageVars, jobVars, runnerVars
<1>1. TypeOK' BY DEF TypeOK, JobState, RunPC, JobInv, RunInv, MessageOf, D!DeliveryStatuses
<1>2. (JobInv /\ RunInv /\ ReceiptInv /\ SentWasAccepted /\ ProviderIdIsACopy)' BY DEF
        JobInv, RunInv, ReceiptInv, SentWasAccepted, ProviderIdIsACopy, MessageOf
<1> QED BY <1>1, <1>2

\* The update of retryMessage preserves the inductive invariant.
LEMMA RetryWriteStep ==
    ASSUME NEW a \in Agent, NEW j \in Job, IndInv, RetryWrite(a, j)
    PROVE  IndInv'
<1> USE NullAssumption DEF IndInv, RetryWrite, SetStatus, RequestJob, messageVars, jobVars,
        runnerVars
<1>1. TypeOK' BY DEF TypeOK, JobState, RunPC, JobInv, RunInv, MessageOf, D!DeliveryStatuses
<1>2. JobInv' BY DEF JobInv, TypeOK, RunInv, MessageOf
<1>3. RunInv' BY DEF RunInv, JobInv, MessageOf, TypeOK, RunPC
<1>4. SentWasAccepted' BY DEF SentWasAccepted, RunInv, JobInv, ReceiptInv, Receipts,
        MessageOf, TypeOK
<1>5. (ReceiptInv /\ ProviderIdIsACopy)' BY DEF ReceiptInv, ProviderIdIsACopy
<1> QED BY <1>1, <1>2, <1>3, <1>4, <1>5

\* A change of the channel preserves the inductive invariant.
LEMMA ChangeChannelStep ==
    ASSUME IndInv, ChangeChannel
    PROVE  IndInv'
<1> USE NullAssumption DEF IndInv, ChangeChannel, messageVars, jobVars, runnerVars
<1>1. TypeOK' BY DEF TypeOK, JobState, RunPC, JobInv, RunInv, MessageOf, D!DeliveryStatuses
<1>2. (JobInv /\ RunInv /\ ReceiptInv /\ SentWasAccepted /\ ProviderIdIsACopy)' BY DEF
        JobInv, RunInv, ReceiptInv, SentWasAccepted, ProviderIdIsACopy, MessageOf
<1> QED BY <1>1, <1>2

\* The handover of a job preserves the inductive invariant.
LEMMA EnqueueJobStep ==
    ASSUME NEW j \in Job, IndInv, EnqueueJob(j)
    PROVE  IndInv'
<1> USE NullAssumption DEF IndInv, EnqueueJob, messageVars, jobVars, runnerVars
<1>1. TypeOK' BY DEF TypeOK, JobState, RunPC, JobInv, RunInv, MessageOf, D!DeliveryStatuses
<1>2. JobInv' BY DEF JobInv, TypeOK, RunInv, MessageOf
<1>3. RunInv' BY DEF RunInv, JobInv, MessageOf, TypeOK, RunPC
<1>4. (ReceiptInv /\ SentWasAccepted /\ ProviderIdIsACopy)' BY DEF ReceiptInv,
        SentWasAccepted, ProviderIdIsACopy
<1> QED BY <1>1, <1>2, <1>3, <1>4

\* A repeated handover preserves the inductive invariant.
LEMMA EnqueueAgainStep ==
    ASSUME NEW j \in Job, IndInv, EnqueueAgain(j)
    PROVE  IndInv'
<1> USE NullAssumption DEF IndInv, EnqueueAgain, Fault, messageVars, jobVars, runnerVars
<1>1. TypeOK' BY DEF TypeOK, JobState, RunPC, JobInv, RunInv, MessageOf, D!DeliveryStatuses
<1>2. JobInv' BY DEF JobInv, TypeOK, RunInv, MessageOf
<1>3. RunInv' BY DEF RunInv, JobInv, MessageOf, TypeOK, RunPC
<1>4. (ReceiptInv /\ SentWasAccepted /\ ProviderIdIsACopy)' BY DEF ReceiptInv,
        SentWasAccepted, ProviderIdIsACopy
<1> QED BY <1>1, <1>2, <1>3, <1>4

\* A lost lock preserves the inductive invariant.
LEMMA StallStep ==
    ASSUME NEW j \in Job, IndInv, Stall(j)
    PROVE  IndInv'
<1> USE NullAssumption DEF IndInv, Stall, Fault, messageVars, jobVars, runnerVars
<1>1. TypeOK' BY DEF TypeOK, JobState, RunPC, JobInv, RunInv, MessageOf, D!DeliveryStatuses
<1>2. JobInv' BY DEF JobInv, TypeOK, RunInv, MessageOf
<1>3. RunInv' BY DEF RunInv, JobInv, MessageOf, TypeOK, RunPC
<1>4. (ReceiptInv /\ SentWasAccepted /\ ProviderIdIsACopy)' BY DEF ReceiptInv,
        SentWasAccepted, ProviderIdIsACopy
<1> QED BY <1>1, <1>2, <1>3, <1>4

\* The start of a run preserves the inductive invariant.
LEMMA StartJobStep ==
    ASSUME NEW r \in Runner, NEW j \in Job, IndInv, StartJob(r, j)
    PROVE  IndInv'
<1> USE NullAssumption DEF IndInv, StartJob, messageVars, jobVars, runnerVars
<1>1. TypeOK' BY DEF TypeOK, JobState, RunPC, JobInv, RunInv, MessageOf, D!DeliveryStatuses
<1>2. JobInv' BY DEF JobInv, TypeOK, RunInv, MessageOf
<1>3. RunInv' BY DEF RunInv, JobInv, MessageOf, TypeOK, RunPC
<1>4. (ReceiptInv /\ SentWasAccepted /\ ProviderIdIsACopy)' BY DEF ReceiptInv,
        SentWasAccepted, ProviderIdIsACopy
<1> QED BY <1>1, <1>2, <1>3, <1>4

\* The death of a run preserves the inductive invariant.
LEMMA CrashStep ==
    ASSUME NEW r \in Runner, IndInv, Crash(r)
    PROVE  IndInv'
<1> USE NullAssumption DEF IndInv, Crash, Fault, RunnerIdle, messageVars, jobVars,
        runnerVars
<1>1. TypeOK' BY DEF TypeOK, JobState, RunPC, JobInv, RunInv, MessageOf, D!DeliveryStatuses
<1>2. RunInv' BY DEF RunInv, JobInv, MessageOf, TypeOK, RunPC
<1>3. (JobInv /\ ReceiptInv /\ SentWasAccepted /\ ProviderIdIsACopy)' BY DEF JobInv,
        ReceiptInv, SentWasAccepted, ProviderIdIsACopy
<1> QED BY <1>1, <1>2, <1>3

\* The read at the start of send preserves the inductive invariant.
LEMMA ReadMessageStep ==
    ASSUME NEW r \in Runner, IndInv, ReadMessage(r)
    PROVE  IndInv'
<1> USE NullAssumption DEF IndInv, ReadMessage, JobReturned, RunnerIdle, messageVars,
        jobVars, runnerVars
<1>1. TypeOK'
  <2>1. CASE JobReturned(r)
      BY <2>1 DEF TypeOK, JobState, RunPC
  <2>2. CASE status[MessageOf(r)] = "PENDING"
      BY <2>2 DEF TypeOK, RunPC
  <2> QED BY <2>1, <2>2
<1>2. JobInv' BY DEF JobInv, TypeOK, RunInv, MessageOf
<1>3. RunInv' BY DEF RunInv, JobInv, MessageOf, TypeOK, RunPC
<1>4. (ReceiptInv /\ SentWasAccepted /\ ProviderIdIsACopy)' BY DEF ReceiptInv,
        SentWasAccepted, ProviderIdIsACopy
<1> QED BY <1>1, <1>2, <1>3, <1>4

\* An accepted copy preserves the inductive invariant.
LEMMA ProviderAcceptsStep ==
    ASSUME NEW r \in Runner, IndInv, ProviderAccepts(r)
    PROVE  IndInv'
<1> USE NullAssumption DEF IndInv, ProviderAccepts, messageVars, jobVars, runnerVars
<1>1. TypeOK' BY DEF TypeOK, JobState, RunPC, JobInv, RunInv, MessageOf, D!DeliveryStatuses
<1>2. RunInv' BY DEF RunInv, JobInv, MessageOf, TypeOK, RunPC
<1>3. ReceiptInv' BY DEF ReceiptInv, Receipts, TypeOK
<1>4. SentWasAccepted' BY DEF SentWasAccepted, RunInv, JobInv, ReceiptInv, Receipts,
        MessageOf, TypeOK
<1>5. ProviderIdIsACopy' BY DEF ProviderIdIsACopy, RunInv, JobInv, MessageOf, TypeOK
<1>6. JobInv' BY DEF JobInv
<1> QED BY <1>1, <1>2, <1>3, <1>4, <1>5, <1>6

\* A retryable provider error preserves the inductive invariant.
LEMMA ProviderFailsStep ==
    ASSUME NEW r \in Runner, IndInv, ProviderFails(r)
    PROVE  IndInv'
<1> USE NullAssumption DEF IndInv, ProviderFails, Fault, messageVars, jobVars, runnerVars
<1>1. TypeOK' BY DEF TypeOK, JobState, RunPC, JobInv, RunInv, MessageOf, D!DeliveryStatuses
<1>2. RunInv' BY DEF RunInv, JobInv, MessageOf, TypeOK, RunPC
<1>3. ReceiptInv' BY DEF ReceiptInv, Receipts, TypeOK
<1>4. SentWasAccepted' BY DEF SentWasAccepted, RunInv, JobInv, ReceiptInv, Receipts,
        MessageOf, TypeOK
<1>5. ProviderIdIsACopy' BY DEF ProviderIdIsACopy, RunInv, JobInv, MessageOf, TypeOK
<1>6. JobInv' BY DEF JobInv
<1> QED BY <1>1, <1>2, <1>3, <1>4, <1>5, <1>6

\* A permanent provider error preserves the inductive invariant.
LEMMA ProviderRejectsStep ==
    ASSUME NEW r \in Runner, IndInv, ProviderRejects(r)
    PROVE  IndInv'
<1> USE NullAssumption DEF IndInv, ProviderRejects, messageVars, jobVars, runnerVars
<1>1. TypeOK' BY DEF TypeOK, JobState, RunPC, JobInv, RunInv, MessageOf, D!DeliveryStatuses
<1>2. RunInv' BY DEF RunInv, JobInv, MessageOf, TypeOK, RunPC
<1>3. (JobInv /\ ReceiptInv /\ SentWasAccepted /\ ProviderIdIsACopy)' BY DEF JobInv,
        ReceiptInv, SentWasAccepted, ProviderIdIsACopy
<1> QED BY <1>1, <1>2, <1>3

\* markSent preserves the inductive invariant.
LEMMA MarkSentStep ==
    ASSUME NEW r \in Runner, IndInv, MarkSent(r)
    PROVE  IndInv'
<1> USE NullAssumption DEF IndInv, MarkSent, WriteSent, SetStatus, JobReturned, RunnerIdle,
        messageVars, jobVars, runnerVars
<1>1. TypeOK' BY DEF TypeOK, JobState, RunPC, JobInv, RunInv, MessageOf, D!DeliveryStatuses
<1>2. JobInv' BY DEF JobInv, TypeOK, RunInv, MessageOf
<1>3. RunInv' BY DEF RunInv, JobInv, MessageOf, TypeOK, RunPC
<1>4. SentWasAccepted' BY DEF SentWasAccepted, RunInv, JobInv, ReceiptInv, Receipts,
        MessageOf, TypeOK
<1>5. ProviderIdIsACopy' BY DEF ProviderIdIsACopy, RunInv, JobInv, MessageOf, TypeOK
<1>6. ReceiptInv' BY DEF ReceiptInv
<1> QED BY <1>1, <1>2, <1>3, <1>4, <1>5, <1>6

\* A failed markSent preserves the inductive invariant.
LEMMA MarkSentThrowsStep ==
    ASSUME NEW r \in Runner, IndInv, MarkSentThrows(r)
    PROVE  IndInv'
<1> USE NullAssumption DEF IndInv, MarkSentThrows, WriteSent, SetStatus, Fault, messageVars,
        jobVars, runnerVars
<1>1. TypeOK' BY DEF TypeOK, JobState, RunPC, JobInv, RunInv, MessageOf, D!DeliveryStatuses
<1>2. JobInv' BY DEF JobInv, TypeOK, RunInv, MessageOf
<1>3. RunInv' BY DEF RunInv, JobInv, MessageOf, TypeOK, RunPC
<1>4. SentWasAccepted' BY DEF SentWasAccepted, RunInv, JobInv, ReceiptInv, Receipts,
        MessageOf, TypeOK
<1>5. ProviderIdIsACopy' BY DEF ProviderIdIsACopy, RunInv, JobInv, MessageOf, TypeOK
<1>6. ReceiptInv' BY DEF ReceiptInv
<1> QED BY <1>1, <1>2, <1>3, <1>4, <1>5, <1>6

\* The catch block of send preserves the inductive invariant.
LEMMA CatchErrorStep ==
    ASSUME NEW r \in Runner, IndInv, CatchError(r)
    PROVE  IndInv'
<1> USE NullAssumption DEF IndInv, CatchError, JobThrew, RunnerIdle, messageVars, jobVars,
        runnerVars
<1>1. TypeOK'
  <2>1. CASE final[r]
      BY <2>1 DEF TypeOK, RunPC
  <2>2. CASE ~final[r]
    <3>1. rjob[r] \in Job
        BY DEF RunInv
    <3>2. JobThrew(r)
        BY <2>2
    <3> QED BY <3>1, <3>2 DEF TypeOK, JobState, RunPC
  <2> QED BY <2>1, <2>2
<1>2. JobInv' BY DEF JobInv, TypeOK, RunInv, MessageOf
<1>3. RunInv' BY DEF RunInv, JobInv, MessageOf, TypeOK, RunPC
<1>4. (ReceiptInv /\ SentWasAccepted /\ ProviderIdIsACopy)' BY DEF ReceiptInv,
        SentWasAccepted, ProviderIdIsACopy
<1> QED BY <1>1, <1>2, <1>3, <1>4

\* fail preserves the inductive invariant.
LEMMA FailStep ==
    ASSUME NEW r \in Runner, IndInv, Fail(r)
    PROVE  IndInv'
<1> USE NullAssumption DEF IndInv, Fail, WriteFailed, SetStatus, JobReturned, RunnerIdle,
        messageVars, jobVars, runnerVars
<1>1. TypeOK' BY DEF TypeOK, JobState, RunPC, JobInv, RunInv, MessageOf, D!DeliveryStatuses
<1>2. JobInv' BY DEF JobInv, TypeOK, RunInv, MessageOf
<1>3. RunInv' BY DEF RunInv, JobInv, MessageOf, TypeOK, RunPC
<1>4. SentWasAccepted' BY DEF SentWasAccepted, RunInv, JobInv, ReceiptInv, Receipts,
        MessageOf, TypeOK
<1>5. (ReceiptInv /\ ProviderIdIsACopy)' BY DEF ReceiptInv, ProviderIdIsACopy
<1> QED BY <1>1, <1>2, <1>3, <1>4, <1>5

\* A failed fail preserves the inductive invariant.
LEMMA FailThrowsStep ==
    ASSUME NEW r \in Runner, IndInv, FailThrows(r)
    PROVE  IndInv'
<1> USE NullAssumption DEF IndInv, FailThrows, WriteFailed, SetStatus, Fault, JobThrew,
        RunnerIdle, messageVars, jobVars, runnerVars
<1>1. MessageOf(r) \in Message /\ rjob[r] \in Job
    BY DEF RunInv, JobInv, MessageOf
<1>2. (status' = [status EXCEPT ![MessageOf(r)] = "FAILED"] /\ old' = old \ {MessageOf(r)})
        \/ UNCHANGED <<status, old>>
    OBVIOUS
<1>3. UNCHANGED <<providerId, channel, copies, stuck, retrying, receipt, retried, jobMessage>>
    OBVIOUS
<1>4. TypeOK'
  <2>1. status' \in [Message -> D!DeliveryStatuses \cup {"NONE"}] /\ old' \in SUBSET Message
      BY <1>2 DEF TypeOK, D!DeliveryStatuses
  <2>2. job' \in [Job -> JobState] /\ made' \in [Job -> Nat] /\ owner' \in [Job -> Runner \cup {NoRunner}]
      BY <1>1 DEF TypeOK, JobState
  <2> QED BY <1>3, <2>1, <2>2 DEF TypeOK, RunPC
<1>5. JobInv'
  <2>1. \A m \in Message : status[m] # "NONE" => status'[m] # "NONE"
      BY <1>2 DEF TypeOK
  <2>2. \A j \in Job : job'[j] # "none" => job[j] # "none"
      BY <1>1 DEF TypeOK, RunInv
  <2> QED BY <1>3, <2>1, <2>2 DEF JobInv
<1>6. RunInv' BY DEF RunInv, JobInv, MessageOf, TypeOK, RunPC
<1>7. SentWasAccepted' BY <1>2, <1>3 DEF SentWasAccepted, TypeOK
<1>8. (ReceiptInv /\ ProviderIdIsACopy)' BY DEF ReceiptInv, ProviderIdIsACopy
<1> QED BY <1>4, <1>5, <1>6, <1>7, <1>8

\* Time preserves the inductive invariant.
LEMMA AgeStep ==
    ASSUME NEW m \in Message, IndInv, Age(m)
    PROVE  IndInv'
<1> USE NullAssumption DEF IndInv, Age, messageVars, jobVars, runnerVars
<1>1. TypeOK' BY DEF TypeOK, JobState, RunPC, JobInv, RunInv, MessageOf, D!DeliveryStatuses
<1>2. (JobInv /\ RunInv /\ ReceiptInv /\ SentWasAccepted /\ ProviderIdIsACopy)' BY DEF
        JobInv, RunInv, ReceiptInv, SentWasAccepted, ProviderIdIsACopy, MessageOf
<1> QED BY <1>1, <1>2

\* The read of failStuckMessages preserves the inductive invariant.
LEMMA StuckReadStep ==
    ASSUME NEW m \in Message, IndInv, StuckRead(m)
    PROVE  IndInv'
<1> USE NullAssumption DEF IndInv, StuckRead, messageVars, jobVars, runnerVars
<1>1. TypeOK' BY DEF TypeOK, JobState, RunPC, JobInv, RunInv, MessageOf, D!DeliveryStatuses
<1>2. (JobInv /\ RunInv /\ ReceiptInv /\ SentWasAccepted /\ ProviderIdIsACopy)' BY DEF
        JobInv, RunInv, ReceiptInv, SentWasAccepted, ProviderIdIsACopy, MessageOf
<1> QED BY <1>1, <1>2

\* The update of failStuckMessages preserves the inductive invariant.
LEMMA StuckFailStep ==
    ASSUME NEW m \in Message, IndInv, StuckFail(m)
    PROVE  IndInv'
<1> USE NullAssumption DEF IndInv, StuckFail, WriteFailed, SetStatus, messageVars, jobVars,
        runnerVars
<1>1. TypeOK' BY DEF TypeOK, JobState, RunPC, JobInv, RunInv, MessageOf, D!DeliveryStatuses
<1>2. JobInv' BY DEF JobInv, TypeOK, RunInv, MessageOf
<1>3. SentWasAccepted' BY DEF SentWasAccepted, RunInv, JobInv, ReceiptInv, Receipts,
        MessageOf, TypeOK
<1>4. (RunInv /\ ReceiptInv /\ ProviderIdIsACopy)' BY DEF RunInv, ReceiptInv,
        ProviderIdIsACopy, MessageOf
<1> QED BY <1>1, <1>2, <1>3, <1>4

\* A failure of failStuckMessages preserves the inductive invariant.
LEMMA StuckThrowsStep ==
    ASSUME IndInv, StuckThrows
    PROVE  IndInv'
<1> USE NullAssumption DEF IndInv, StuckThrows, Fault, messageVars, jobVars, runnerVars
<1>1. TypeOK' BY DEF TypeOK
<1>2. (JobInv /\ RunInv /\ ReceiptInv /\ SentWasAccepted /\ ProviderIdIsACopy)' BY DEF
        JobInv, RunInv, ReceiptInv, SentWasAccepted, ProviderIdIsACopy, MessageOf
<1> QED BY <1>1, <1>2

\* The check of a receipt preserves the inductive invariant.
LEMMA ReceiptReadStep ==
    ASSUME NEW h \in Receiver, NEW m \in Message, NEW s \in ReceiptStatus, IndInv, ReceiptRead(h, m, s)
    PROVE  IndInv'
<1> USE NullAssumption DEF IndInv, ReceiptRead, messageVars, jobVars, runnerVars
<1>1. TypeOK' BY DEF TypeOK, JobState, RunPC, JobInv, RunInv, MessageOf, D!DeliveryStatuses,
        ReceiptInv, Receipts, NoReceipt, ReceiptStatus
<1>2. ReceiptInv' BY DEF ReceiptInv, Receipts, NoReceipt, ReceiptStatus, TypeOK,
        D!isDeliveryStatusMonotonic, D!DeliveryStatuses, D!Rank
<1>3. (JobInv /\ RunInv /\ SentWasAccepted /\ ProviderIdIsACopy)' BY DEF JobInv, RunInv,
        SentWasAccepted, ProviderIdIsACopy, MessageOf
<1> QED BY <1>1, <1>2, <1>3

\* The update of a receipt preserves the inductive invariant.
LEMMA ReceiptWriteStep ==
    ASSUME NEW h \in Receiver, IndInv, ReceiptWrite(h)
    PROVE  IndInv'
<1> USE NullAssumption DEF IndInv, ReceiptWrite, SetStatus, messageVars, jobVars, runnerVars
<1>1. TypeOK'
  <2>1. receipt[h].message \in Message /\ receipt[h].to \in D!DeliveryStatuses
      BY DEF ReceiptInv, Receipts
  <2>2. status' \in [Message -> D!DeliveryStatuses \cup {"NONE"}]
      BY <2>1 DEF TypeOK
  <2>3. receipt' \in [Receiver -> Receipts \cup {NoReceipt}]
      BY DEF TypeOK
  <2>4. old' \in SUBSET Message /\ UNCHANGED <<providerId, channel>>
    <3>1. CASE status[receipt[h].message] = receipt[h].from
        BY <3>1 DEF TypeOK
    <3>2. CASE status[receipt[h].message] # receipt[h].from
        BY <3>2 DEF TypeOK
    <3> QED BY <3>1, <3>2
  <2> QED BY <2>2, <2>3, <2>4 DEF TypeOK
<1>2. JobInv'
  <2>1. receipt[h].to # "NONE" BY DEF ReceiptInv, Receipts, D!DeliveryStatuses
  <2>2. \A m \in Message : status[m] # "NONE" => status'[m] # "NONE"
      BY <2>1 DEF TypeOK
  <2>3. UNCHANGED <<job, jobMessage>> OBVIOUS
  <2> QED BY <2>2, <2>3 DEF JobInv
<1>3. ReceiptInv' BY DEF ReceiptInv, Receipts, TypeOK
<1>4. SentWasAccepted' BY DEF SentWasAccepted, RunInv, JobInv, ReceiptInv, Receipts,
        MessageOf, TypeOK
<1>5. (RunInv /\ ProviderIdIsACopy)' BY DEF RunInv, ProviderIdIsACopy, MessageOf
<1> QED BY <1>1, <1>2, <1>3, <1>4, <1>5

-----------------------------------------------------------------------------
\* Every step of the outbound path preserves the inductive invariant.
LEMMA InductiveStep == IndInv /\ [Next]_vars => IndInv'
<1> SUFFICES ASSUME IndInv, [Next]_vars PROVE IndInv'
    OBVIOUS
<1>1. CASE UNCHANGED vars
    BY <1>1 DEF vars, IndInv, TypeOK, JobInv, RunInv, ReceiptInv, MessageOf, SentWasAccepted,
                ProviderIdIsACopy
<1>2. CASE ApiStep
    BY <1>2, SendMessageStep, RetryReadStep, RetryWriteStep, ChangeChannelStep DEF ApiStep
<1>3. CASE QueueStep
    BY <1>3, EnqueueJobStep, EnqueueAgainStep, StallStep DEF QueueStep
<1>4. ASSUME NEW r \in Runner, RunnerStep(r) PROVE IndInv'
    BY <1>4, StartJobStep, ReadMessageStep, ProviderAcceptsStep, ProviderFailsStep,
       ProviderRejectsStep, MarkSentStep, MarkSentThrowsStep, CatchErrorStep, FailStep,
       FailThrowsStep, CrashStep DEF RunnerStep
<1>5. ASSUME NEW m \in Message, ReconcileStep(m) PROVE IndInv'
    BY <1>5, AgeStep, StuckReadStep, StuckFailStep, StuckThrowsStep DEF ReconcileStep
<1>6. ASSUME NEW h \in Receiver, ReceiptStep(h) PROVE IndInv'
    BY <1>6, ReceiptReadStep, ReceiptWriteStep DEF ReceiptStep
<1> QED BY <1>1, <1>2, <1>3, <1>4, <1>5, <1>6 DEF Next

\* Before the first reply the inductive invariant holds.
LEMMA InductiveInit == Init => IndInv
BY NullAssumption
   DEF Init, IndInv, TypeOK, JobState, RunPC, Receipts, NoReceipt, JobInv, RunInv, ReceiptInv,
       MessageOf, SentWasAccepted, ProviderIdIsACopy, D!DeliveryStatuses

\* The inductive invariant holds in every state of every behaviour.
THEOREM Invariance == Spec => []IndInv
BY InductiveInit, InductiveStep, PTL DEF Spec

\* Every variable keeps its type.
THEOREM TypeCorrect == Spec => []TypeOK
<1>1. IndInv => TypeOK
    BY DEF IndInv
<1> QED BY <1>1, Invariance, PTL

\* A reply shown as sent was accepted by the provider.
THEOREM SentAfterAccepted == Spec => []SentWasAccepted
<1>1. IndInv => SentWasAccepted
    BY DEF IndInv
<1> QED BY <1>1, Invariance, PTL

\* A stored provider id belongs to a copy of its own reply.
THEOREM ProviderIdsAreCopies == Spec => []ProviderIdIsACopy
<1>1. IndInv => ProviderIdIsACopy
    BY DEF IndInv
<1> QED BY <1>1, Invariance, PTL

\* Together: a reply shown as sent left, and receipts are matched by the id of one of its copies.
THEOREM SentStaysGenuine == Spec => []SentIsGenuine
BY SentAfterAccepted, ProviderIdsAreCopies, PTL DEF SentIsGenuine

-----------------------------------------------------------------------------
(* The rule of the delivery status *)

\* A step that moves a reply forward, away from any status but FAILED.
ForwardStep ==
    \E m \in Message, s \in D!DeliveryStatuses : status[m] # "FAILED" /\ D!Move(m, s)

\* While a retry request is between its check and its update, the reply stays
\* FAILED: no run, receipt or reconciler takes a reply out of FAILED.
RetryInv ==
    \A a \in Agent : retrying[a] # NoMessage => status[retrying[a]] = "FAILED"

\* markSent moves a PENDING reply to SENT or leaves it alone.
LEMMA WriteSentForward ==
    ASSUME NEW r \in Runner, IndInv, rpc[r] # "idle", WriteSent(r)
    PROVE  ForwardStep \/ UNCHANGED status
<1>1. PICK m \in Message : m = MessageOf(r)
    BY DEF IndInv, RunInv, JobInv, MessageOf
<1>2. CASE status[m] = "PENDING"
  <2>1. D!Move(m, "SENT")
      BY <1>1, <1>2 DEF WriteSent, SetStatus, D!Move, D!isDeliveryStatusMonotonic, D!Rank
  <2> QED BY <1>2, <2>1 DEF ForwardStep, D!DeliveryStatuses
<1> QED BY <1>1, <1>2 DEF WriteSent, messageVars

\* fail moves a PENDING reply to FAILED or leaves it alone.
LEMMA WriteFailedForward ==
    ASSUME NEW m \in Message, WriteFailed(m)
    PROVE  ForwardStep \/ UNCHANGED status
<1>1. CASE status[m] = "PENDING"
  <2>1. D!Move(m, "FAILED")
      BY <1>1 DEF WriteFailed, SetStatus, D!Move, D!isDeliveryStatusMonotonic
  <2> QED BY <1>1, <2>1 DEF ForwardStep, D!DeliveryStatuses
<1> QED BY <1>1 DEF WriteFailed, messageVars

\* A receipt moves a reply forward or leaves it alone.
LEMMA ReceiptForward ==
    ASSUME NEW h \in Receiver, IndInv, ReceiptWrite(h)
    PROVE  ForwardStep \/ UNCHANGED status
<1>1. receipt[h] \in Receipts /\ receipt[h].from # "FAILED"
      /\ D!isDeliveryStatusMonotonic(receipt[h].from, receipt[h].to)
    BY DEF ReceiptWrite, IndInv, ReceiptInv
<1>2. PICK t \in Receipts : t = receipt[h]
    BY <1>1
<1>3. CASE status[t.message] = t.from
  <2>1. t.message \in Message /\ t.from \in D!DeliveryStatuses /\ t.to \in D!DeliveryStatuses
      BY DEF Receipts
  <2>2. D!Move(t.message, t.to)
      BY <1>1, <1>2, <1>3, <2>1 DEF ReceiptWrite, SetStatus, D!Move, D!DeliveryStatuses
  <2> QED BY <1>1, <1>2, <1>3, <2>1, <2>2 DEF ForwardStep
<1> QED BY <1>2, <1>3 DEF ReceiptWrite, messageVars

\* Runs, receipts, the reconciler and the queue only move replies forward.
LEMMA OnlyForward ==
    ASSUME IndInv, Next
    PROVE  \/ \E m \in Message, j \in Job : SendMessage(m, j)
           \/ \E a \in Agent, j \in Job : RetryWrite(a, j)
           \/ UNCHANGED retrying /\ (ForwardStep \/ UNCHANGED status)
           \/ UNCHANGED status /\ \E a \in Agent, m \in Message : RetryRead(a, m)
<1>1. CASE ApiStep
    BY <1>1 DEF ApiStep, RetryRead, ChangeChannel, messageVars
<1>2. CASE QueueStep
    BY <1>2 DEF QueueStep, EnqueueJob, EnqueueAgain, Stall, messageVars
<1>3. ASSUME NEW r \in Runner, RunnerStep(r)
      PROVE  UNCHANGED retrying /\ (ForwardStep \/ UNCHANGED status)
  <2>1. CASE MarkSent(r) \/ MarkSentThrows(r)
      BY <2>1, WriteSentForward DEF MarkSent, MarkSentThrows, messageVars
  <2>2. CASE Fail(r)
    <3>1. PICK m \in Message : m = MessageOf(r)
        BY <2>2 DEF Fail, IndInv, RunInv, JobInv, MessageOf
    <3>2. WriteFailed(m)
        BY <2>2, <3>1 DEF Fail, WriteFailed, SetStatus
    <3> QED BY <2>2, <3>2, WriteFailedForward DEF Fail
  <2>3. CASE \/ \E j \in Job : StartJob(r, j)
             \/ ReadMessage(r) \/ ProviderAccepts(r) \/ ProviderFails(r) \/ ProviderRejects(r)
             \/ CatchError(r) \/ Crash(r)
      BY <2>3 DEF StartJob, ReadMessage, ProviderAccepts, ProviderFails, ProviderRejects,
                  CatchError, Crash, messageVars
  <2>4. CASE FailThrows(r)
    <3>1. PICK m \in Message : m = MessageOf(r)
        BY <2>4 DEF FailThrows, IndInv, RunInv, JobInv, MessageOf
    <3>2. WriteFailed(m) \/ UNCHANGED messageVars
        BY <2>4, <3>1 DEF FailThrows, WriteFailed, SetStatus, messageVars
    <3> QED BY <2>4, <3>2, WriteFailedForward DEF FailThrows, messageVars
  <2> QED BY <1>3, <2>1, <2>2, <2>3, <2>4 DEF RunnerStep
<1>4. ASSUME NEW m \in Message, ReconcileStep(m)
      PROVE  UNCHANGED retrying /\ (ForwardStep \/ UNCHANGED status)
    BY <1>4, WriteFailedForward DEF ReconcileStep, Age, StuckRead, StuckFail, StuckThrows,
                                      messageVars
<1>5. ASSUME NEW h \in Receiver, ReceiptStep(h)
      PROVE  UNCHANGED retrying /\ (ForwardStep \/ UNCHANGED status)
  <2>1. CASE ReceiptWrite(h)
      BY <2>1, ReceiptForward DEF ReceiptWrite
  <2>2. CASE \E m \in Message, s \in ReceiptStatus : ReceiptRead(h, m, s)
      BY <2>2 DEF ReceiptRead, messageVars
  <2> QED BY <1>5, <2>1, <2>2 DEF ReceiptStep
<1> QED BY <1>1, <1>2, <1>3, <1>4, <1>5 DEF Next

\* As long as retry requests do not overlap, every change of a delivery status
\* obeys isDeliveryStatusMonotonic, for any number of replies, runs, receipts
\* and faults.  (Overlapping retries break it: run outbound_two_retries.)
THEOREM MonotonicWithOneRetry ==
    ASSUME \A a, b \in Agent : a = b
    PROVE  Spec => StatusMonotonic
<1>1. Init => RetryInv /\ D!Init
    BY DEF Init, RetryInv, D!Init
<1>2. IndInv /\ RetryInv /\ [Next]_vars => RetryInv'
  <2> SUFFICES ASSUME IndInv, RetryInv, [Next]_vars PROVE RetryInv'
      OBVIOUS
  <2>1. CASE UNCHANGED vars
      BY <2>1 DEF vars, RetryInv
  <2>2. ASSUME NEW m \in Message, NEW j \in Job, SendMessage(m, j) PROVE RetryInv'
      BY <2>2, NullAssumption DEF SendMessage, SetStatus, RetryInv, IndInv, TypeOK
  <2>3. ASSUME NEW a \in Agent, NEW j \in Job, RetryWrite(a, j) PROVE RetryInv'
      BY <2>3 DEF RetryWrite, RetryInv, IndInv, TypeOK
  <2>4. ASSUME UNCHANGED retrying, ForwardStep \/ UNCHANGED status PROVE RetryInv'
      BY <2>4 DEF ForwardStep, D!Move, RetryInv, IndInv, TypeOK
  <2>5. ASSUME UNCHANGED status, NEW a \in Agent, NEW m \in Message, RetryRead(a, m)
        PROVE  RetryInv'
      BY <2>5 DEF RetryRead, RetryInv, IndInv, TypeOK
  <2> QED BY <2>1, <2>2, <2>3, <2>4, <2>5, OnlyForward
<1>3. IndInv /\ RetryInv /\ [Next]_vars => [D!Next]_status
  <2> SUFFICES ASSUME IndInv, RetryInv, [Next]_vars PROVE [D!Next]_status
      OBVIOUS
  <2>1. CASE UNCHANGED vars
      BY <2>1 DEF vars
  <2>2. ASSUME NEW m \in Message, NEW j \in Job, SendMessage(m, j) PROVE D!Next
      BY <2>2 DEF SendMessage, SetStatus, D!Next, D!Create
  <2>3. ASSUME NEW a \in Agent, NEW j \in Job, RetryWrite(a, j) PROVE D!Next
    <3>1. PICK m \in Message : m = retrying[a]
        BY <2>3 DEF RetryWrite, IndInv, TypeOK
    <3>2. D!Move(m, "PENDING")
        BY <2>3, <3>1 DEF RetryWrite, SetStatus, RetryInv, D!Move, D!isDeliveryStatusMonotonic
    <3> QED BY <3>2 DEF D!Next, D!DeliveryStatuses
  <2>4. ASSUME ForwardStep PROVE D!Next
      BY <2>4 DEF ForwardStep, D!Next
  <2> QED BY <2>1, <2>2, <2>3, <2>4, OnlyForward
<1> QED BY <1>1, <1>2, <1>3, Invariance, PTL DEF Spec, StatusMonotonic, D!Spec

-----------------------------------------------------------------------------
(* Second copies *)

\* A send request that was not made yet names no reply.
UnusedInv == \A j \in Job : job[j] = "none" => jobMessage[j] = NoMessage

\* While nothing has failed a job runs once: whoever works on it owns it.
RunsOnce ==
    \A r \in Runner : /\ rpc[r] # "error"
                      /\ rpc[r] # "idle" => job[rjob[r]] = "active" /\ owner[rjob[r]] = r

\* A reply that nobody sent again has one job, and no copy before that job's call returned.
CopiesOf(m) ==
    /\ copies[m] <= 1
    /\ status[m] = "NONE" => copies[m] = 0
    /\ \A i, j \in Job : jobMessage[i] = m /\ jobMessage[j] = m => i = j
    /\ \A j \in Job : jobMessage[j] = m /\ job[j] \in {"requested", "waiting"} => copies[m] = 0
    /\ \A r \in Runner : rpc[r] \in {"start", "sending"} /\ MessageOf(r) = m => copies[m] = 0

QuietInv == faults = 0 => RunsOnce /\ \A m \in Message \ retried : CopiesOf(m)

CopyInv == UnusedInv /\ QuietInv

\* A step that counts a fault and requests no job leaves nothing to show.
LEMMA LoudStep ==
    ASSUME IndInv, CopyInv, Fault, jobMessage' = jobMessage,
           \A j \in Job : job'[j] = "none" => job[j] = "none"
    PROVE  CopyInv'
BY DEF IndInv, TypeOK, CopyInv, UnusedInv, QuietInv, Fault

\* A step that touches neither jobs, runs nor copies, nor creates or retries a reply.
LEMMA CopiesUntouched ==
    ASSUME IndInv, CopyInv, UNCHANGED <<jobVars, runnerVars, copies, faults, retried>>,
           \A m \in Message : status'[m] = "NONE" => status[m] = "NONE"
    PROVE  CopyInv'
<1> USE DEF jobVars, runnerVars
<1>1. UnusedInv' BY DEF CopyInv, UnusedInv
<1>2. RunsOnce => RunsOnce' BY DEF RunsOnce
<1>3. \A m \in Message : CopiesOf(m) => CopiesOf(m)' BY DEF CopiesOf, MessageOf
<1> QED BY <1>1, <1>2, <1>3 DEF CopyInv, QuietInv

\* A new reply has one job and no copy.
LEMMA NewReplyCopies ==
    ASSUME NEW m \in Message, NEW j \in Job, IndInv, CopyInv, SendMessage(m, j)
    PROVE  CopyInv'
<1> USE NullAssumption DEF IndInv, TypeOK, CopyInv, SendMessage, SetStatus, RequestJob, runnerVars
<1>1. UnusedInv' BY DEF UnusedInv
<1>2. \A r \in Runner : rpc[r] # "idle" => rjob[r] # j BY DEF RunInv
<1>3. RunsOnce => RunsOnce' BY <1>2 DEF RunsOnce
<1>4. \A i \in Job : jobMessage[i] # m BY DEF UnusedInv, JobInv
<1>5. CopiesOf(m) => CopiesOf(m)' BY <1>2, <1>4 DEF CopiesOf, MessageOf, RunInv
<1>6. \A n \in Message : n # m /\ CopiesOf(n) => CopiesOf(n)' BY <1>2 DEF CopiesOf, MessageOf
<1> QED BY <1>1, <1>3, <1>5, <1>6 DEF QuietInv

\* A reply that is sent again is left out from now on; the job is a new one.
LEMMA RetryCopies ==
    ASSUME NEW a \in Agent, NEW j \in Job, IndInv, CopyInv, RetryWrite(a, j)
    PROVE  CopyInv'
<1> USE NullAssumption DEF IndInv, TypeOK, CopyInv, RetryWrite, SetStatus, RequestJob, runnerVars
<1>1. UnusedInv' BY DEF UnusedInv
<1>2. \A r \in Runner : rpc[r] # "idle" => rjob[r] # j BY DEF RunInv
<1>3. RunsOnce => RunsOnce' BY <1>2 DEF RunsOnce
<1>4. \A n \in Message : n # retrying[a] /\ CopiesOf(n) => CopiesOf(n)' BY <1>2 DEF CopiesOf, MessageOf
<1> QED BY <1>1, <1>3, <1>4 DEF QuietInv

\* The job is handed over, and given to one runner.
LEMMA QueueCopies ==
    ASSUME NEW j \in Job, IndInv, CopyInv, EnqueueJob(j) \/ \E r \in Runner : StartJob(r, j)
    PROVE  CopyInv'
<1> USE NullAssumption DEF IndInv, TypeOK, CopyInv, messageVars, runnerVars
<1>1. UnusedInv' BY DEF UnusedInv, EnqueueJob, StartJob
<1>2. RunsOnce => RunsOnce' BY DEF RunsOnce, EnqueueJob, StartJob, RunInv
<1>3. CASE EnqueueJob(j)
  <2>1. \A m \in Message : CopiesOf(m) => CopiesOf(m)' BY <1>3 DEF CopiesOf, MessageOf, EnqueueJob
  <2> QED BY <1>1, <1>2, <1>3, <2>1 DEF QuietInv, EnqueueJob
<1>4. ASSUME NEW r \in Runner, StartJob(r, j) PROVE CopyInv'
  <2>1. \A m \in Message : CopiesOf(m) => CopiesOf(m)' BY <1>4 DEF CopiesOf, MessageOf, StartJob
  <2> QED BY <1>1, <1>2, <1>4, <2>1 DEF QuietInv, StartJob
<1> QED BY <1>3, <1>4

\* A run that returns, as its owner, finishes the job.
LEMMA ReturnCopies ==
    ASSUME NEW r \in Runner, IndInv, CopyInv, rpc[r] # "idle", JobReturned(r),
           UNCHANGED <<copies, faults, retried>>,
           \A m \in Message : status'[m] = "NONE" => status[m] = "NONE"
    PROVE  CopyInv'
<1> USE NullAssumption DEF IndInv, TypeOK, CopyInv, JobReturned, RunnerIdle
<1>1. rjob[r] \in Job BY DEF RunInv
<1>2. UnusedInv' BY <1>1 DEF UnusedInv
<1>3. RunsOnce => RunsOnce' BY <1>1 DEF RunsOnce, RunInv
<1>4. \A m \in Message : CopiesOf(m) => CopiesOf(m)' BY <1>1 DEF CopiesOf, MessageOf
<1> QED BY <1>2, <1>3, <1>4 DEF QuietInv

\* A run moves on with the same job and sends nothing.
LEMMA MoveCopies ==
    ASSUME NEW r \in Runner, NEW p \in {"sending", "failing"}, IndInv, CopyInv, rpc[r] \in {"start", "sending"},
           rpc' = [rpc EXCEPT ![r] = p], UNCHANGED <<messageVars, jobVars, rjob, copies, faults, retried>>
    PROVE  CopyInv'
<1> USE NullAssumption DEF IndInv, TypeOK, CopyInv, messageVars, jobVars
<1>1. UnusedInv' BY DEF UnusedInv
<1>2. RunsOnce => RunsOnce' BY DEF RunsOnce
<1>3. \A m \in Message : CopiesOf(m) => CopiesOf(m)' BY DEF CopiesOf, MessageOf
<1> QED BY <1>1, <1>2, <1>3 DEF QuietInv

\* The provider takes the first copy: only the owner of the one job of the reply is there to send it.
LEMMA AcceptCopies ==
    ASSUME NEW r \in Runner, IndInv, CopyInv, ProviderAccepts(r)
    PROVE  CopyInv'
<1> USE NullAssumption DEF IndInv, TypeOK, CopyInv, ProviderAccepts, messageVars, jobVars
<1>0. rjob[r] \in Job /\ MessageOf(r) \in Message /\ status[MessageOf(r)] # "NONE" BY DEF RunInv, JobInv, MessageOf
<1> PICK m \in Message : m = MessageOf(r) BY <1>0
<1>1. rjob[r] \in Job /\ m = MessageOf(r) /\ status[m] # "NONE" BY <1>0
<1>2. UnusedInv' BY DEF UnusedInv
<1>3. RunsOnce => RunsOnce' BY DEF RunsOnce
<1>4. \A n \in Message : n # m /\ CopiesOf(n) => CopiesOf(n)' BY <1>1 DEF CopiesOf, MessageOf
<1>5. ASSUME RunsOnce, CopiesOf(m) PROVE CopiesOf(m)'
  <2>1. copies[m] = 0 /\ copies'[m] = 1 BY <1>1, <1>5 DEF CopiesOf
  <2>2. \A j \in Job : jobMessage[j] = m => j = rjob[r] /\ job[j] = "active"
    BY <1>1, <1>5 DEF CopiesOf, MessageOf, RunsOnce
  <2>3. \A q \in Runner : q # r /\ rpc[q] # "idle" => MessageOf(q) # m
    BY <1>1, <1>5, <2>2 DEF RunsOnce, RunInv, MessageOf
  <2>4. \A q \in Runner : rpc'[q] \in {"start", "sending"} => q # r /\ rpc[q] # "idle" /\ MessageOf(q)' = MessageOf(q)
    BY DEF MessageOf
  <2>5. rpc' \in [Runner -> RunPC] BY DEF RunPC
  <2> QED BY <1>1, <2>1, <2>2, <2>3, <2>4, <1>5 DEF CopiesOf
<1> QED BY <1>1, <1>2, <1>3, <1>4, <1>5 DEF QuietInv

\* What a write of a status leaves alone.
LEMMA WritesKeepRows ==
    ASSUME NEW m \in Message, IndInv
    PROVE  /\ WriteFailed(m) => \A n \in Message : status'[n] = "NONE" => status[n] = "NONE"
           /\ \A r \in Runner : WriteSent(r) /\ MessageOf(r) = m
                => \A n \in Message : status'[n] = "NONE" => status[n] = "NONE"
BY DEF IndInv, TypeOK, WriteFailed, WriteSent, SetStatus, messageVars

\* Every step keeps the account of copies.
LEMMA CopyStep == IndInv /\ CopyInv /\ [Next]_vars => CopyInv'
<1> SUFFICES ASSUME IndInv, CopyInv, [Next]_vars PROVE CopyInv'
    OBVIOUS
<1> USE DEF messageVars
<1>1. CASE UNCHANGED vars BY <1>1, CopiesUntouched DEF vars, jobVars, runnerVars
<1>2. CASE ApiStep
  <2>1. ASSUME NEW a \in Agent, NEW m \in Message, RetryRead(a, m) PROVE CopyInv'
    BY <2>1, CopiesUntouched DEF RetryRead
  <2>2. CASE ChangeChannel BY <2>2, CopiesUntouched DEF ChangeChannel
  <2> QED BY <1>2, <2>1, <2>2, NewReplyCopies, RetryCopies DEF ApiStep
<1>3. CASE QueueStep
  <2>1. ASSUME NEW j \in Job, EnqueueAgain(j) \/ Stall(j) PROVE CopyInv'
    BY <2>1, LoudStep DEF EnqueueAgain, Stall, IndInv, TypeOK
  <2> QED BY <1>3, <2>1, QueueCopies DEF QueueStep
<1>4. ASSUME NEW r \in Runner, RunnerStep(r) PROVE CopyInv'
  <2>0. rpc[r] # "idle" => rjob[r] \in Job /\ MessageOf(r) \in Message BY DEF IndInv, RunInv, JobInv, MessageOf
  <2>1. ASSUME NEW j \in Job, StartJob(r, j) PROVE CopyInv' BY <2>1, QueueCopies
  <2>2. CASE ReadMessage(r)
    <3>1. CASE JobReturned(r) BY <2>2, <3>1, ReturnCopies DEF ReadMessage
    <3>2. CASE status[MessageOf(r)] = "PENDING"
      BY <2>2, <3>2, MoveCopies DEF ReadMessage
    <3> QED BY <2>2, <3>1, <3>2 DEF ReadMessage
  <2>3. CASE ProviderAccepts(r) BY <2>3, AcceptCopies
  <2>4. CASE ProviderFails(r) \/ MarkSentThrows(r) \/ Crash(r)
    BY <2>4, LoudStep DEF ProviderFails, MarkSentThrows, Crash, jobVars
  <2>5. CASE ProviderRejects(r) BY <2>5, MoveCopies DEF ProviderRejects
  <2>6. CASE MarkSent(r)
    <3>1. \A n \in Message : status'[n] = "NONE" => status[n] = "NONE" BY <2>0, <2>6, WritesKeepRows DEF MarkSent
    <3> QED BY <2>6, <3>1, ReturnCopies DEF MarkSent
  <2>7. CASE CatchError(r)
    <3>1. faults = 0 => FALSE BY <2>7 DEF CatchError, CopyInv, QuietInv, RunsOnce
    <3>2. faults' = faults /\ jobMessage' = jobMessage BY <2>7 DEF CatchError, JobThrew, jobVars
    <3>3. \A j \in Job : job'[j] = "none" => job[j] = "none"
      BY <2>7 DEF CatchError, JobThrew, jobVars, IndInv, TypeOK
    <3> QED BY <3>1, <3>2, <3>3 DEF CopyInv, QuietInv, UnusedInv
  <2>8. CASE Fail(r)
    <3>1. \A n \in Message : status'[n] = "NONE" => status[n] = "NONE" BY <2>0, <2>8, WritesKeepRows DEF Fail
    <3> QED BY <2>8, <3>1, ReturnCopies DEF Fail
  <2>9. CASE FailThrows(r)
    BY <2>9, LoudStep DEF FailThrows, JobThrew, IndInv, TypeOK
  <2> QED BY <1>4, <2>1, <2>2, <2>3, <2>4, <2>5, <2>6, <2>7, <2>8, <2>9 DEF RunnerStep
<1>5. ASSUME NEW m \in Message, ReconcileStep(m) PROVE CopyInv'
  <2>1. CASE Age(m) \/ StuckRead(m) BY <2>1, CopiesUntouched DEF Age, StuckRead
  <2>2. CASE StuckFail(m)
    <3>1. \A n \in Message : status'[n] = "NONE" => status[n] = "NONE" BY <2>2, WritesKeepRows DEF StuckFail
    <3> QED BY <2>2, <3>1, CopiesUntouched DEF StuckFail
  <2>3. CASE StuckThrows BY <2>3, LoudStep DEF StuckThrows, jobVars
  <2> QED BY <1>5, <2>1, <2>2, <2>3 DEF ReconcileStep
<1>6. ASSUME NEW h \in Receiver, ReceiptStep(h) PROVE CopyInv'
  <2>1. ASSUME NEW m \in Message, NEW s \in ReceiptStatus, ReceiptRead(h, m, s) PROVE CopyInv'
    BY <2>1, CopiesUntouched DEF ReceiptRead
  <2>2. CASE ReceiptWrite(h)
    <3>1. receipt[h] \in Receipts BY <2>2 DEF ReceiptWrite, IndInv, ReceiptInv
    <3>2. receipt[h].to # "NONE" /\ receipt[h].message \in Message
      BY <3>1 DEF Receipts, D!DeliveryStatuses
    <3>3. \A n \in Message : status'[n] = "NONE" => status[n] = "NONE"
      BY <2>2, <3>2 DEF ReceiptWrite, SetStatus, IndInv, TypeOK
    <3> QED BY <2>2, <3>3, CopiesUntouched DEF ReceiptWrite
  <2> QED BY <1>6, <2>1, <2>2 DEF ReceiptStep
<1> QED BY <1>1, <1>2, <1>3, <1>4, <1>5, <1>6 DEF Next

\* A second copy of a reply reaches the customer only after something failed or because an agent
\* sent the reply again, for any number of replies, jobs and runners.
THEOREM SecondCopyIsExplained == Spec => []DuplicateNeedsFaultOrRetry
<1>1. Init => CopyInv
  <2>1. ASSUME Init PROVE UnusedInv /\ RunsOnce BY <2>1 DEF Init, UnusedInv, RunsOnce
  <2>2. ASSUME Init, NEW m \in Message PROVE CopiesOf(m) BY <2>2, NullAssumption DEF Init, CopiesOf
  <2> QED BY <2>1, <2>2 DEF CopyInv, QuietInv
<1>2. IndInv /\ CopyInv => DuplicateNeedsFaultOrRetry
  BY DEF IndInv, TypeOK, CopyInv, QuietInv, CopiesOf, DuplicateNeedsFaultOrRetry
<1> QED BY <1>1, <1>2, CopyStep, Invariance, PTL DEF Spec

=============================================================================
