---------------------------- MODULE OutboxProofs ----------------------------
(***************************************************************************)
(* Proofs about the transactional outbox, for any number of events,        *)
(* workers, attempts and faults.                                           *)
(***************************************************************************)
EXTENDS Outbox, FiniteSetTheorems, TLAPS

-----------------------------------------------------------------------------
(* The inductive invariant *)

\* What a worker's program counter says about the event it is at.
PcInv ==
    \A w \in Worker :
        /\ pc[w] \in {"sent", "failing"} <=> cur[w] \in Event
        /\ pc[w] \in {"idle", "off"} => batch[w] = {}
        /\ cur[w] \notin batch[w]
        /\ pc[w] = "sent" => cur[w] \in accepted

\* The retryCount a worker works with is never ahead of the row's.
SeenInv ==
    \A w \in Worker, e \in Event : Holds(w, e) => seen[w][e] <= retryCount[e]

\* The history of leases covers the leases that have run out.
LeaseInv ==
    \A e \in Event : lease[e] = "expired" => e \in expired

\* While no lease of the event has run out, whoever works on it is the one the
\* row names, and the row cannot be claimed.
OwnerInv ==
    \A w \in Worker, e \in Event :
        Holds(w, e) /\ e \notin expired =>
            claimedBy[e] = w /\ status[e] \in {"PROCESSING", "COMPLETED"}

\* Only a row that was created is ever handed to the queue.
CreatedInv ==
    /\ \A w \in Worker, e \in Event : Holds(w, e) => status[e] # "NONE"
    /\ \A e \in accepted \cup inflight : status[e] # "NONE"

IndInv ==
    /\ TypeOK
    /\ PcInv
    /\ SeenInv
    /\ LeaseInv
    /\ OwnerInv
    /\ CreatedInv
    /\ CompletedWasAccepted
    /\ ProcessingHasLease
    /\ DeadLetterUsedItsAttempts

-----------------------------------------------------------------------------
(* Each step preserves it; the conjuncts a step can disturb come first. *)

\* claimPendingOutboxEvents preserves the inductive invariant.
LEMMA ClaimStep ==
    ASSUME NEW w \in Worker, NEW S \in SUBSET Event, IndInv, Claim(w, S)
    PROVE  IndInv'
<1> USE AttemptsAssumption, NullAssumption DEF IndInv, Claim, WriteClaim, rowVars, workerVars, queueVars
<1>1. TypeOK' BY DEF TypeOK, Status, Lease, PC
<1>2. PcInv' BY DEF PcInv, TypeOK, PC
<1>3. SeenInv' BY DEF SeenInv, Holds, TypeOK, PcInv
<1>4. LeaseInv' BY DEF LeaseInv, TypeOK
<1>5. OwnerInv' BY DEF OwnerInv, Holds, PcInv, LeaseInv, TypeOK
<1>6. CreatedInv' BY DEF CreatedInv, Holds, TypeOK, PcInv
<1>7. CompletedWasAccepted' BY DEF CompletedWasAccepted, PcInv, TypeOK
<1>8. ProcessingHasLease' BY DEF ProcessingHasLease, TypeOK
<1>9. DeadLetterUsedItsAttempts' BY DEF DeadLetterUsedItsAttempts, SeenInv, Holds, PcInv,
        TypeOK
<1> QED BY <1>1, <1>2, <1>3, <1>4, <1>5, <1>6, <1>7, <1>8, <1>9

\* A claim whose answer is lost preserves the inductive invariant.
LEMMA ClaimThrowsStep ==
    ASSUME NEW w \in Worker, NEW S \in SUBSET Event, IndInv, ClaimThrows(w, S)
    PROVE  IndInv'
<1> USE AttemptsAssumption, NullAssumption DEF IndInv, ClaimThrows, WriteClaim, Fault,
        rowVars, workerVars, queueVars
<1>1. TypeOK' BY DEF TypeOK, Status, Lease, PC
<1>2. PcInv' BY DEF PcInv, TypeOK, PC
<1>3. SeenInv' BY DEF SeenInv, Holds, TypeOK, PcInv
<1>4. LeaseInv' BY DEF LeaseInv, TypeOK
<1>5. OwnerInv' BY DEF OwnerInv, Holds, PcInv, LeaseInv, TypeOK
<1>6. CreatedInv' BY DEF CreatedInv, Holds, TypeOK, PcInv
<1>7. CompletedWasAccepted' BY DEF CompletedWasAccepted, PcInv, TypeOK
<1>8. ProcessingHasLease' BY DEF ProcessingHasLease, TypeOK
<1>9. DeadLetterUsedItsAttempts' BY DEF DeadLetterUsedItsAttempts, SeenInv, Holds, PcInv,
        TypeOK
<1> QED BY <1>1, <1>2, <1>3, <1>4, <1>5, <1>6, <1>7, <1>8, <1>9

\* An accepted send preserves the inductive invariant.
LEMMA SendAcceptedStep ==
    ASSUME NEW w \in Worker, NEW e \in Event, IndInv, SendAccepted(w, e)
    PROVE  IndInv'
<1> USE AttemptsAssumption, NullAssumption DEF IndInv, SendAccepted, QueueAdd, rowVars,
        workerVars, queueVars
<1>1. TypeOK' BY DEF TypeOK, Status, Lease, PC
<1>2. PcInv' BY DEF PcInv, TypeOK, PC
<1>3. SeenInv' BY DEF SeenInv, Holds, TypeOK, PcInv
<1>4. OwnerInv' BY DEF OwnerInv, Holds, PcInv, LeaseInv, TypeOK
<1>5. CreatedInv' BY DEF CreatedInv, Holds, TypeOK, PcInv
<1>6. CompletedWasAccepted' BY DEF CompletedWasAccepted, PcInv, TypeOK
<1>7. (LeaseInv /\ ProcessingHasLease /\ DeadLetterUsedItsAttempts)' BY DEF LeaseInv,
        ProcessingHasLease, DeadLetterUsedItsAttempts
<1> QED BY <1>1, <1>2, <1>3, <1>4, <1>5, <1>6, <1>7

\* A failed send preserves the inductive invariant.
LEMMA SendThrowsStep ==
    ASSUME NEW w \in Worker, NEW e \in Event, IndInv, SendThrows(w, e)
    PROVE  IndInv'
<1> USE AttemptsAssumption, NullAssumption DEF IndInv, SendThrows, Fault, rowVars,
        workerVars, queueVars
<1>1. TypeOK' BY DEF TypeOK, Status, Lease, PC
<1>2. PcInv' BY DEF PcInv, TypeOK, PC
<1>3. SeenInv' BY DEF SeenInv, Holds, TypeOK, PcInv
<1>4. OwnerInv' BY DEF OwnerInv, Holds, PcInv, LeaseInv, TypeOK
<1>5. CreatedInv' BY DEF CreatedInv, Holds, TypeOK, PcInv
<1>6. (LeaseInv /\ CompletedWasAccepted /\ ProcessingHasLease /\ DeadLetterUsedItsAttempts)'
        BY DEF LeaseInv, CompletedWasAccepted, ProcessingHasLease, DeadLetterUsedItsAttempts
<1> QED BY <1>1, <1>2, <1>3, <1>4, <1>5, <1>6

\* The update to COMPLETED preserves the inductive invariant.
LEMMA CompleteStep ==
    ASSUME NEW w \in Worker, IndInv, Complete(w)
    PROVE  IndInv'
<1> USE AttemptsAssumption, NullAssumption DEF IndInv, Complete, WriteCompleted, LoopOn,
        NothingSeen, rowVars, workerVars, queueVars
<1>1. TypeOK' BY DEF TypeOK, Status, Lease, PC, PcInv
<1>2. PcInv' BY DEF PcInv, TypeOK, PC
<1>3. SeenInv' BY DEF SeenInv, Holds, TypeOK, PcInv
<1>4. LeaseInv' BY DEF LeaseInv, TypeOK
<1>5. OwnerInv' BY DEF OwnerInv, Holds, PcInv, LeaseInv, TypeOK
<1>6. CreatedInv' BY DEF CreatedInv, Holds, TypeOK, PcInv
<1>7. CompletedWasAccepted' BY DEF CompletedWasAccepted, PcInv, TypeOK
<1>8. ProcessingHasLease' BY DEF ProcessingHasLease, TypeOK
<1>9. DeadLetterUsedItsAttempts' BY DEF DeadLetterUsedItsAttempts, SeenInv, Holds, PcInv,
        TypeOK
<1> QED BY <1>1, <1>2, <1>3, <1>4, <1>5, <1>6, <1>7, <1>8, <1>9

\* A failed update to COMPLETED preserves the inductive invariant.
LEMMA CompleteThrowsStep ==
    ASSUME NEW w \in Worker, IndInv, CompleteThrows(w)
    PROVE  IndInv'
<1> USE AttemptsAssumption, NullAssumption DEF IndInv, CompleteThrows, WriteCompleted,
        Fault, rowVars, workerVars, queueVars
<1>1. TypeOK' BY DEF TypeOK, Status, Lease, PC, PcInv
<1>2. PcInv' BY DEF PcInv, TypeOK, PC
<1>3. LeaseInv' BY DEF LeaseInv, TypeOK
<1>4. OwnerInv' BY DEF OwnerInv, Holds, PcInv, LeaseInv, TypeOK
<1>5. CreatedInv' BY DEF CreatedInv, Holds, TypeOK, PcInv
<1>6. CompletedWasAccepted' BY DEF CompletedWasAccepted, PcInv, TypeOK
<1>7. ProcessingHasLease' BY DEF ProcessingHasLease, TypeOK
<1>8. DeadLetterUsedItsAttempts' BY DEF DeadLetterUsedItsAttempts, SeenInv, Holds, PcInv,
        TypeOK
<1>9. SeenInv' BY DEF SeenInv, Holds
<1> QED BY <1>1, <1>2, <1>3, <1>4, <1>5, <1>6, <1>7, <1>8, <1>9

\* The update of the catch block preserves the inductive invariant.
LEMMA RecordFailureStep ==
    ASSUME NEW w \in Worker, IndInv, RecordFailure(w)
    PROVE  IndInv'
<1> USE AttemptsAssumption, NullAssumption DEF IndInv, RecordFailure, WriteFailure, LoopOn,
        NothingSeen, rowVars, workerVars, queueVars
<1>1. TypeOK' BY DEF TypeOK, Status, Lease, PC, PcInv
<1>2. PcInv' BY DEF PcInv, TypeOK, PC
<1>3. SeenInv' BY DEF SeenInv, Holds, TypeOK, PcInv
<1>4. LeaseInv' BY DEF LeaseInv, TypeOK
<1>5. OwnerInv' BY DEF OwnerInv, Holds, PcInv, LeaseInv, TypeOK
<1>6. CreatedInv' BY DEF CreatedInv, Holds, TypeOK, PcInv
<1>7. CompletedWasAccepted' BY DEF CompletedWasAccepted, PcInv, TypeOK
<1>8. ProcessingHasLease' BY DEF ProcessingHasLease, TypeOK
<1>9. DeadLetterUsedItsAttempts' BY DEF DeadLetterUsedItsAttempts, SeenInv, Holds, PcInv,
        TypeOK
<1> QED BY <1>1, <1>2, <1>3, <1>4, <1>5, <1>6, <1>7, <1>8, <1>9

\* A failed update of the catch block preserves the inductive invariant.
LEMMA RecordFailureThrowsStep ==
    ASSUME NEW w \in Worker, IndInv, RecordFailureThrows(w)
    PROVE  IndInv'
<1> USE AttemptsAssumption, NullAssumption DEF IndInv, RecordFailureThrows, WriteFailure,
        LeaveLoop, NothingSeen, Fault, rowVars, workerVars, queueVars
<1>1. TypeOK'
  <2>1. CASE WriteFailure(w, cur[w]) BY <2>1 DEF TypeOK, Status, Lease, PC, PcInv
  <2>2. CASE UNCHANGED rowVars BY <2>2 DEF TypeOK, PC
  <2> QED BY <2>1, <2>2
<1>2. PcInv' BY DEF PcInv, TypeOK, PC
<1>3. SeenInv' BY DEF SeenInv, Holds, TypeOK, PcInv
<1>4. LeaseInv' BY DEF LeaseInv, TypeOK
<1>5. OwnerInv' BY DEF OwnerInv, Holds, PcInv, LeaseInv, TypeOK
<1>6. CreatedInv' BY DEF CreatedInv, Holds, TypeOK, PcInv
<1>7. CompletedWasAccepted' BY DEF CompletedWasAccepted, PcInv, TypeOK
<1>8. ProcessingHasLease' BY DEF ProcessingHasLease, TypeOK
<1>9. DeadLetterUsedItsAttempts' BY DEF DeadLetterUsedItsAttempts, SeenInv, Holds, PcInv,
        TypeOK
<1> QED BY <1>1, <1>2, <1>3, <1>4, <1>5, <1>6, <1>7, <1>8, <1>9

\* releaseUnattempted preserves the inductive invariant.
LEMMA ReleaseUnattemptedStep ==
    ASSUME NEW w \in Worker, IndInv, ReleaseUnattempted(w)
    PROVE  IndInv'
<1> USE AttemptsAssumption, NullAssumption DEF IndInv, ReleaseUnattempted, WriteRelease,
        Releasable, LeaveLoop, NothingSeen, rowVars, workerVars, queueVars
<1>1. TypeOK' BY DEF TypeOK, Status, Lease, PC
<1>2. PcInv' BY DEF PcInv, TypeOK, PC
<1>3. SeenInv' BY DEF SeenInv, Holds, TypeOK, PcInv
<1>4. LeaseInv' BY DEF LeaseInv, TypeOK
<1>5. OwnerInv' BY DEF OwnerInv, Holds, PcInv, LeaseInv, TypeOK
<1>6. CreatedInv' BY DEF CreatedInv, Holds, TypeOK, PcInv
<1>7. CompletedWasAccepted' BY DEF CompletedWasAccepted, PcInv, TypeOK
<1>8. ProcessingHasLease' BY DEF ProcessingHasLease, TypeOK
<1>9. DeadLetterUsedItsAttempts' BY DEF DeadLetterUsedItsAttempts, SeenInv, Holds, PcInv,
        TypeOK
<1> QED BY <1>1, <1>2, <1>3, <1>4, <1>5, <1>6, <1>7, <1>8, <1>9

\* A failed releaseUnattempted preserves the inductive invariant.
LEMMA ReleaseThrowsStep ==
    ASSUME NEW w \in Worker, IndInv, ReleaseThrows(w)
    PROVE  IndInv'
<1> USE AttemptsAssumption, NullAssumption DEF IndInv, ReleaseThrows, LeaveLoop,
        NothingSeen, Fault, rowVars, workerVars, queueVars
<1>1. TypeOK' BY DEF TypeOK, Status, Lease, PC
<1>2. PcInv' BY DEF PcInv, TypeOK, PC
<1>3. SeenInv' BY DEF SeenInv, Holds, TypeOK, PcInv
<1>4. OwnerInv' BY DEF OwnerInv, Holds, PcInv, LeaseInv, TypeOK
<1>5. CreatedInv' BY DEF CreatedInv, Holds, TypeOK, PcInv
<1>6. (LeaseInv /\ CompletedWasAccepted /\ ProcessingHasLease /\ DeadLetterUsedItsAttempts)'
        BY DEF LeaseInv, CompletedWasAccepted, ProcessingHasLease, DeadLetterUsedItsAttempts
<1> QED BY <1>1, <1>2, <1>3, <1>4, <1>5, <1>6

\* The first statement of recoverExpiredOutboxLeases preserves the inductive invariant.
LEMMA RecoverExpiredLeasesStep ==
    ASSUME NEW w \in Worker, IndInv, RecoverExpiredLeases(w)
    PROVE  IndInv'
<1> USE AttemptsAssumption, NullAssumption DEF IndInv, RecoverExpiredLeases, Recoverable,
        Expirable, rowVars, workerVars, queueVars
<1>1. TypeOK' BY DEF TypeOK, Status, Lease, PC
<1>2. SeenInv' BY DEF SeenInv, Holds, TypeOK, PcInv
<1>3. LeaseInv' BY DEF LeaseInv, TypeOK
<1>4. OwnerInv' BY DEF OwnerInv, Holds, PcInv, LeaseInv, TypeOK
<1>5. CreatedInv' BY DEF CreatedInv, Holds, TypeOK, PcInv
<1>6. CompletedWasAccepted' BY DEF CompletedWasAccepted, PcInv, TypeOK
<1>7. ProcessingHasLease' BY DEF ProcessingHasLease, TypeOK
<1>8. DeadLetterUsedItsAttempts' BY DEF DeadLetterUsedItsAttempts, SeenInv, Holds, PcInv,
        TypeOK
<1>9. PcInv' BY DEF PcInv
<1> QED BY <1>1, <1>2, <1>3, <1>4, <1>5, <1>6, <1>7, <1>8, <1>9

\* The second statement of recoverExpiredOutboxLeases preserves the inductive invariant.
LEMMA DeadLetterExhaustedStep ==
    ASSUME NEW w \in Worker, IndInv, DeadLetterExhausted(w)
    PROVE  IndInv'
<1> USE AttemptsAssumption, NullAssumption DEF IndInv, DeadLetterExhausted, Exhausted,
        Expirable, rowVars, workerVars, queueVars
<1>1. TypeOK' BY DEF TypeOK, Status, Lease, PC
<1>2. LeaseInv' BY DEF LeaseInv, TypeOK
<1>3. OwnerInv' BY DEF OwnerInv, Holds, PcInv, LeaseInv, TypeOK
<1>4. CreatedInv' BY DEF CreatedInv, Holds, TypeOK, PcInv
<1>5. CompletedWasAccepted' BY DEF CompletedWasAccepted, PcInv, TypeOK
<1>6. ProcessingHasLease' BY DEF ProcessingHasLease, TypeOK
<1>7. DeadLetterUsedItsAttempts' BY DEF DeadLetterUsedItsAttempts, SeenInv, Holds, PcInv,
        TypeOK
<1>8. (PcInv /\ SeenInv)' BY DEF PcInv, SeenInv, Holds
<1> QED BY <1>1, <1>2, <1>3, <1>4, <1>5, <1>6, <1>7, <1>8

\* A failed second statement of recoverExpiredOutboxLeases preserves the inductive invariant.
LEMMA DeadLetterThrowsStep ==
    ASSUME NEW w \in Worker, IndInv, DeadLetterThrows(w)
    PROVE  IndInv'
<1> USE AttemptsAssumption, NullAssumption DEF IndInv, DeadLetterThrows, Fault, rowVars,
        workerVars, queueVars
<1>1. TypeOK' BY DEF TypeOK, Status, Lease, PC
<1>2. (PcInv /\ SeenInv /\ LeaseInv /\ OwnerInv /\ CreatedInv /\ CompletedWasAccepted /\
        ProcessingHasLease /\ DeadLetterUsedItsAttempts)' BY DEF PcInv, SeenInv, LeaseInv,
        OwnerInv, CreatedInv, CompletedWasAccepted, ProcessingHasLease,
        DeadLetterUsedItsAttempts, Holds
<1> QED BY <1>1, <1>2

\* The death of a worker preserves the inductive invariant.
LEMMA CrashStep ==
    ASSUME NEW w \in Worker, IndInv, Crash(w)
    PROVE  IndInv'
<1> USE AttemptsAssumption, NullAssumption DEF IndInv, Crash, Gone, NothingSeen, Fault,
        rowVars, workerVars, queueVars
<1>1. TypeOK' BY DEF TypeOK, Status, Lease, PC
<1>2. PcInv' BY DEF PcInv, TypeOK, PC
<1>3. SeenInv' BY DEF SeenInv, Holds, TypeOK, PcInv
<1>4. OwnerInv' BY DEF OwnerInv, Holds, PcInv, LeaseInv, TypeOK
<1>5. CreatedInv' BY DEF CreatedInv, Holds, TypeOK, PcInv
<1>6. (LeaseInv /\ CompletedWasAccepted /\ ProcessingHasLease /\ DeadLetterUsedItsAttempts)'
        BY DEF LeaseInv, CompletedWasAccepted, ProcessingHasLease, DeadLetterUsedItsAttempts
<1> QED BY <1>1, <1>2, <1>3, <1>4, <1>5, <1>6

\* The end of a worker that was told to stop preserves the inductive invariant.
LEMMA ExitStep ==
    ASSUME NEW w \in Worker, IndInv, Exit(w)
    PROVE  IndInv'
<1> USE AttemptsAssumption, NullAssumption DEF IndInv, Exit, Gone, NothingSeen, rowVars,
        workerVars, queueVars
<1>1. TypeOK' BY DEF TypeOK, Status, Lease, PC
<1>2. PcInv' BY DEF PcInv, TypeOK, PC
<1>3. SeenInv' BY DEF SeenInv, Holds, TypeOK, PcInv
<1>4. OwnerInv' BY DEF OwnerInv, Holds, PcInv, LeaseInv, TypeOK
<1>5. CreatedInv' BY DEF CreatedInv, Holds, TypeOK, PcInv
<1>6. (LeaseInv /\ CompletedWasAccepted /\ ProcessingHasLease /\ DeadLetterUsedItsAttempts)'
        BY DEF LeaseInv, CompletedWasAccepted, ProcessingHasLease, DeadLetterUsedItsAttempts
<1> QED BY <1>1, <1>2, <1>3, <1>4, <1>5, <1>6

\* onModuleDestroy preserves the inductive invariant.
LEMMA ShutdownStep ==
    ASSUME NEW w \in Worker, IndInv, Shutdown(w)
    PROVE  IndInv'
<1> USE AttemptsAssumption, NullAssumption DEF IndInv, Shutdown, Fault, rowVars, workerVars,
        queueVars
<1>1. TypeOK' BY DEF TypeOK, Status, Lease, PC
<1>2. (PcInv /\ SeenInv /\ LeaseInv /\ OwnerInv /\ CreatedInv /\ CompletedWasAccepted /\
        ProcessingHasLease /\ DeadLetterUsedItsAttempts)' BY DEF PcInv, SeenInv, LeaseInv,
        OwnerInv, CreatedInv, CompletedWasAccepted, ProcessingHasLease,
        DeadLetterUsedItsAttempts, Holds
<1> QED BY <1>1, <1>2

\* The start of a worker preserves the inductive invariant.
LEMMA RestartStep ==
    ASSUME NEW w \in Worker, IndInv, Restart(w)
    PROVE  IndInv'
<1> USE AttemptsAssumption, NullAssumption DEF IndInv, Restart, rowVars, workerVars,
        queueVars
<1>1. TypeOK' BY DEF TypeOK, Status, Lease, PC
<1>2. PcInv' BY DEF PcInv, TypeOK, PC
<1>3. (SeenInv /\ LeaseInv /\ OwnerInv /\ CreatedInv /\ CompletedWasAccepted /\
        ProcessingHasLease /\ DeadLetterUsedItsAttempts)' BY DEF SeenInv, LeaseInv,
        OwnerInv, CreatedInv, CompletedWasAccepted, ProcessingHasLease,
        DeadLetterUsedItsAttempts, Holds
<1> QED BY <1>1, <1>2, <1>3

\* The loss of the queue connection preserves the inductive invariant.
LEMMA QueueDownStep ==
    ASSUME NEW w \in Worker, IndInv, QueueDown(w)
    PROVE  IndInv'
<1> USE AttemptsAssumption, NullAssumption DEF IndInv, QueueDown, Fault, rowVars,
        workerVars, queueVars
<1>1. TypeOK' BY DEF TypeOK, Status, Lease, PC
<1>2. (PcInv /\ SeenInv /\ LeaseInv /\ OwnerInv /\ CreatedInv /\ CompletedWasAccepted /\
        ProcessingHasLease /\ DeadLetterUsedItsAttempts)' BY DEF PcInv, SeenInv, LeaseInv,
        OwnerInv, CreatedInv, CompletedWasAccepted, ProcessingHasLease,
        DeadLetterUsedItsAttempts, Holds
<1> QED BY <1>1, <1>2

\* The return of the queue connection preserves the inductive invariant.
LEMMA QueueUpStep ==
    ASSUME NEW w \in Worker, IndInv, QueueUp(w)
    PROVE  IndInv'
<1> USE AttemptsAssumption, NullAssumption DEF IndInv, QueueUp, rowVars, workerVars,
        queueVars
<1>1. TypeOK' BY DEF TypeOK, Status, Lease, PC
<1>2. (PcInv /\ SeenInv /\ LeaseInv /\ OwnerInv /\ CreatedInv /\ CompletedWasAccepted /\
        ProcessingHasLease /\ DeadLetterUsedItsAttempts)' BY DEF PcInv, SeenInv, LeaseInv,
        OwnerInv, CreatedInv, CompletedWasAccepted, ProcessingHasLease,
        DeadLetterUsedItsAttempts, Holds
<1> QED BY <1>1, <1>2

\* createOutboxEvent preserves the inductive invariant.
LEMMA CreateOutboxEventStep ==
    ASSUME NEW e \in Event, IndInv, CreateOutboxEvent(e)
    PROVE  IndInv'
<1> USE AttemptsAssumption, NullAssumption DEF IndInv, CreateOutboxEvent, rowVars,
        workerVars, queueVars
<1>1. TypeOK' BY DEF TypeOK, Status, Lease, PC
<1>2. OwnerInv' BY DEF OwnerInv, Holds, PcInv, LeaseInv, TypeOK
<1>3. CreatedInv' BY DEF CreatedInv, Holds, TypeOK, PcInv
<1>4. CompletedWasAccepted' BY DEF CompletedWasAccepted, PcInv, TypeOK
<1>5. ProcessingHasLease' BY DEF ProcessingHasLease, TypeOK
<1>6. DeadLetterUsedItsAttempts' BY DEF DeadLetterUsedItsAttempts, SeenInv, Holds, PcInv,
        TypeOK
<1>7. (PcInv /\ SeenInv /\ LeaseInv)' BY DEF PcInv, SeenInv, LeaseInv, Holds
<1> QED BY <1>1, <1>2, <1>3, <1>4, <1>5, <1>6, <1>7

\* The end of a lease preserves the inductive invariant.
LEMMA ExpireStep ==
    ASSUME NEW e \in Event, IndInv, Expire(e)
    PROVE  IndInv'
<1> USE AttemptsAssumption, NullAssumption DEF IndInv, Expire, rowVars, workerVars,
        queueVars
<1>1. TypeOK' BY DEF TypeOK, Status, Lease, PC
<1>2. LeaseInv' BY DEF LeaseInv, TypeOK
<1>3. OwnerInv' BY DEF OwnerInv, Holds, PcInv, LeaseInv, TypeOK
<1>4. ProcessingHasLease' BY DEF ProcessingHasLease, TypeOK
<1>5. (PcInv /\ SeenInv /\ CreatedInv /\ CompletedWasAccepted /\ DeadLetterUsedItsAttempts)'
        BY DEF PcInv, SeenInv, CreatedInv, CompletedWasAccepted, DeadLetterUsedItsAttempts,
        Holds
<1> QED BY <1>1, <1>2, <1>3, <1>4, <1>5

\* A late Queue.add preserves the inductive invariant.
LEMMA LateAddStep ==
    ASSUME NEW e \in Event, IndInv, LateAdd(e)
    PROVE  IndInv'
<1> USE AttemptsAssumption, NullAssumption DEF IndInv, LateAdd, QueueAdd, rowVars,
        workerVars, queueVars
<1>1. TypeOK' BY DEF TypeOK, Status, Lease, PC
<1>2. PcInv' BY DEF PcInv, TypeOK, PC
<1>3. CreatedInv' BY DEF CreatedInv, Holds, TypeOK, PcInv
<1>4. CompletedWasAccepted' BY DEF CompletedWasAccepted, PcInv, TypeOK
<1>5. (SeenInv /\ LeaseInv /\ OwnerInv /\ ProcessingHasLease /\ DeadLetterUsedItsAttempts)'
        BY DEF SeenInv, LeaseInv, OwnerInv, ProcessingHasLease, DeadLetterUsedItsAttempts,
        Holds
<1> QED BY <1>1, <1>2, <1>3, <1>4, <1>5

-----------------------------------------------------------------------------
\* Every step of the outbox, and every step that leaves it alone, preserves the
\* inductive invariant.
LEMMA InductiveStep == IndInv /\ [Next]_vars => IndInv'
<1> SUFFICES ASSUME IndInv, [Next]_vars PROVE IndInv'
    OBVIOUS
<1>1. CASE UNCHANGED vars
    BY <1>1 DEF vars, IndInv, TypeOK, PcInv, SeenInv, LeaseInv, OwnerInv, CreatedInv, Holds,
                CompletedWasAccepted, ProcessingHasLease, DeadLetterUsedItsAttempts
<1>2. ASSUME NEW w \in Worker, WorkerStep(w) PROVE IndInv'
    BY <1>2, ClaimStep, SendAcceptedStep, CompleteStep, RecordFailureStep,
       ReleaseUnattemptedStep, RecoverExpiredLeasesStep, DeadLetterExhaustedStep, ExitStep,
       RestartStep, QueueUpStep DEF WorkerStep
<1>3. ASSUME NEW w \in Worker, WorkerFault(w) PROVE IndInv'
    BY <1>3, ClaimThrowsStep, SendThrowsStep, CompleteThrowsStep, RecordFailureThrowsStep,
       ReleaseThrowsStep, DeadLetterThrowsStep, CrashStep, ShutdownStep, QueueDownStep
       DEF WorkerFault
<1>4. ASSUME NEW e \in Event, EventStep(e) PROVE IndInv'
    BY <1>4, CreateOutboxEventStep, ExpireStep, LateAddStep DEF EventStep
<1> QED BY <1>1, <1>2, <1>3, <1>4 DEF Next

\* The empty outbox with idle workers satisfies the inductive invariant.
LEMMA InductiveInit == Init => IndInv
BY NullAssumption, AttemptsAssumption
   DEF Init, IndInv, TypeOK, Status, Lease, PC, PcInv, SeenInv, LeaseInv, OwnerInv, CreatedInv,
       Holds, CompletedWasAccepted, ProcessingHasLease, DeadLetterUsedItsAttempts

\* The inductive invariant holds in every state of every behaviour.
THEOREM Invariance == Spec => []IndInv
BY InductiveInit, InductiveStep, PTL DEF Spec

\* Every variable keeps its type.
THEOREM TypeCorrect == Spec => []TypeOK
<1>1. IndInv => TypeOK
    BY DEF IndInv
<1> QED BY <1>1, Invariance, PTL

\* A COMPLETED row's job was accepted by the queue, for any number of workers,
\* whatever fails and whichever dispatcher comes back late.
THEOREM CompletedAfterAccepted == Spec => []CompletedWasAccepted
<1>1. IndInv => CompletedWasAccepted
    BY DEF IndInv
<1> QED BY <1>1, Invariance, PTL

\* No PROCESSING row is out of the reach of lease recovery.
THEOREM ProcessingIsRecoverable == Spec => []ProcessingHasLease
<1>1. IndInv => ProcessingHasLease
    BY DEF IndInv
<1> QED BY <1>1, Invariance, PTL

\* No event is given up before its attempts are used.
THEOREM NoEarlyDeadLetter == Spec => []DeadLetterUsedItsAttempts
<1>1. IndInv => DeadLetterUsedItsAttempts
    BY DEF IndInv
<1> QED BY <1>1, Invariance, PTL

\* Together: what a row says of its event is true.
THEOREM TableStaysSound == Spec => []TableIsSound
BY CompletedAfterAccepted, ProcessingIsRecoverable, NoEarlyDeadLetter, PTL DEF TableIsSound

\* Without an expired lease no two workers work on the same event.
THEOREM Exclusion == Spec => []ExclusiveUntilExpiry
<1>1. IndInv => ExclusiveUntilExpiry
    BY DEF IndInv, OwnerInv, ExclusiveUntilExpiry
<1> QED BY <1>1, Invariance, PTL

-----------------------------------------------------------------------------
(* The outbox implements Handover *)

\* A step that changes neither the final statuses nor the set of accepted
\* events is invisible to Handover: claims, releases, failed sends, lease
\* recovery, crashes, restarts.
LEMMA InvisibleStep ==
    ASSUME IndInv, accepted' = accepted,
           status' \in [Event -> Status],
           \A e \in Event : \/ status'[e] = status[e]
                            \/ {status[e], status'[e]} \subseteq {"PENDING", "PROCESSING"}
    PROVE  UNCHANGED H!vars
<1>1. \A e \in Event : /\ status'[e] # "NONE" <=> status[e] # "NONE"
                       /\ status'[e] = "COMPLETED" <=> status[e] = "COMPLETED"
                       /\ status'[e] = "DEAD_LETTER" <=> status[e] = "DEAD_LETTER"
    OBVIOUS
<1> QED BY <1>1 DEF H!vars

\* The update to COMPLETED confirms the event the worker has sent.
LEMMA ConfirmStep ==
    ASSUME NEW w \in Worker, IndInv, pc[w] = "sent", WriteCompleted(cur[w]), UNCHANGED accepted
    PROVE  H!Next
<1>1. cur[w] \in Event /\ cur[w] \in accepted
    BY DEF IndInv, PcInv
<1>2. status[cur[w]] # "NONE"
    BY <1>1 DEF IndInv, CreatedInv, Holds
<1>3. PICK e \in Event : e = cur[w]
    BY <1>1
<1>4. H!Confirm({e})
    BY <1>1, <1>2, <1>3 DEF H!Confirm, WriteCompleted, IndInv, TypeOK
<1> QED BY <1>4 DEF H!Next

\* The update of the catch block abandons the event or opens it again.
LEMMA FailureStep ==
    ASSUME NEW w \in Worker, IndInv, pc[w] = "failing", WriteFailure(w, cur[w]),
           UNCHANGED accepted
    PROVE  H!Next
<1>1. cur[w] \in Event
    BY DEF IndInv, PcInv
<1>2. status[cur[w]] # "NONE"
    BY <1>1 DEF IndInv, CreatedInv, Holds
<1>3. PICK e \in Event : e = cur[w]
    BY <1>1
<1>4. CASE seen[w][cur[w]] + 1 >= MaxDispatchAttempts
  <2>1. H!Abandon({e})
      BY <1>3, <1>1, <1>2, <1>4 DEF H!Abandon, WriteFailure, IndInv, TypeOK
  <2> QED BY <2>1 DEF H!Next
<1>5. CASE ~(seen[w][cur[w]] + 1 >= MaxDispatchAttempts)
  <2>1. H!Reopen({e})
      BY <1>3, <1>1, <1>2, <1>5 DEF H!Reopen, WriteFailure, IndInv, TypeOK
  <2> QED BY <2>1 DEF H!Next
<1> QED BY <1>4, <1>5

\* The second recovery statement abandons all exhausted events at once.
LEMMA AbandonStep ==
    ASSUME NEW w \in Worker, IndInv, DeadLetterExhausted(w)
    PROVE  H!Next
<1>1. PICK S \in SUBSET Event : S = {e \in Event : Exhausted(e)}
    OBVIOUS
<1>2. H!Abandon(S)
    BY <1>1 DEF H!Abandon, DeadLetterExhausted, Exhausted, Expirable, IndInv, TypeOK, queueVars
<1> QED BY <1>2 DEF H!Next

\* Every step of a worker is a step of Handover or invisible to it.
LEMMA WorkerRefines ==
    ASSUME NEW w \in Worker, IndInv, IndInv', WorkerStep(w)
    PROVE  [H!Next]_(H!vars)
<1> USE DEF IndInv, TypeOK
<1>1. ASSUME NEW S \in SUBSET Event, Claim(w, S) PROVE UNCHANGED H!vars
    BY <1>1, InvisibleStep DEF Claim, WriteClaim, queueVars
<1>2. ASSUME NEW e \in Event, SendAccepted(w, e) PROVE H!Enqueue({e})
    BY <1>2 DEF SendAccepted, QueueAdd, H!Enqueue, rowVars, CreatedInv, Holds
<1>3. CASE Complete(w)
    BY <1>3, ConfirmStep DEF Complete, queueVars
<1>4. CASE RecordFailure(w)
    BY <1>4, FailureStep DEF RecordFailure, queueVars
<1>5. CASE ReleaseUnattempted(w)
    BY <1>5, InvisibleStep DEF ReleaseUnattempted, WriteRelease, Releasable, queueVars
<1>6. CASE RecoverExpiredLeases(w)
    BY <1>6, InvisibleStep DEF RecoverExpiredLeases, Recoverable, Expirable, queueVars
<1>7. CASE DeadLetterExhausted(w)
    BY <1>7, AbandonStep
<1>8. CASE Exit(w) \/ Restart(w) \/ QueueUp(w)
    BY <1>8, InvisibleStep DEF Exit, Gone, Restart, QueueUp, rowVars, queueVars
<1>9. ASSUME NEW e \in Event, SendAccepted(w, e) PROVE H!Next
    BY <1>2, <1>9 DEF H!Next
<1> QED BY <1>1, <1>3, <1>4, <1>5, <1>6, <1>7, <1>8, <1>9 DEF WorkerStep

\* Every fault of a worker is a step of Handover or invisible to it.
LEMMA FaultRefines ==
    ASSUME NEW w \in Worker, IndInv, IndInv', WorkerFault(w)
    PROVE  [H!Next]_(H!vars)
<1> USE DEF IndInv, TypeOK
<1>1. ASSUME NEW e \in Event, SendThrows(w, e) PROVE UNCHANGED H!vars
    BY <1>1, InvisibleStep DEF SendThrows, rowVars
<1>2. CASE CompleteThrows(w)
  <2>1. CASE WriteCompleted(cur[w])
      BY <1>2, <2>1, ConfirmStep DEF CompleteThrows, queueVars
  <2>2. CASE UNCHANGED rowVars
      BY <1>2, <2>2, InvisibleStep DEF CompleteThrows, rowVars, queueVars
  <2> QED BY <1>2, <2>1, <2>2 DEF CompleteThrows
<1>3. CASE RecordFailureThrows(w)
  <2>1. CASE WriteFailure(w, cur[w])
      BY <1>3, <2>1, FailureStep DEF RecordFailureThrows, queueVars
  <2>2. CASE UNCHANGED rowVars
      BY <1>3, <2>2, InvisibleStep DEF RecordFailureThrows, rowVars, queueVars
  <2> QED BY <1>3, <2>1, <2>2 DEF RecordFailureThrows
<1>4. CASE ReleaseThrows(w) \/ DeadLetterThrows(w)
    BY <1>4, InvisibleStep DEF ReleaseThrows, DeadLetterThrows, rowVars, queueVars
<1>5. CASE Crash(w) \/ Shutdown(w) \/ QueueDown(w)
    BY <1>5, InvisibleStep DEF Crash, Gone, Shutdown, QueueDown, rowVars, queueVars
<1>6. ASSUME NEW S \in SUBSET Event, ClaimThrows(w, S) PROVE UNCHANGED H!vars
    BY <1>6, InvisibleStep DEF ClaimThrows, WriteClaim, queueVars
<1> QED BY <1>1, <1>2, <1>3, <1>4, <1>5, <1>6 DEF WorkerFault

\* Creation, expiry and late adds are steps of Handover or invisible to it.
LEMMA EventRefines ==
    ASSUME NEW e \in Event, IndInv, IndInv', EventStep(e)
    PROVE  [H!Next]_(H!vars)
<1> USE DEF IndInv, TypeOK
<1>1. CASE CreateOutboxEvent(e)
  <2>1. H!Request({e})
      BY <1>1 DEF CreateOutboxEvent, H!Request, queueVars
  <2> QED BY <2>1 DEF H!Next
<1>2. CASE Expire(e)
    BY <1>2, InvisibleStep DEF Expire, queueVars
<1>3. CASE LateAdd(e)
  <2>1. CASE QueueAdd(e)
    <3>1. H!Enqueue({e})
        BY <1>3, <2>1 DEF LateAdd, QueueAdd, H!Enqueue, rowVars, CreatedInv
    <3> QED BY <3>1 DEF H!Next
  <2>2. CASE UNCHANGED accepted
      BY <1>3, <2>2, InvisibleStep DEF LateAdd, rowVars
  <2> QED BY <1>3, <2>1, <2>2 DEF LateAdd
<1> QED BY <1>1, <1>2, <1>3 DEF EventStep

\* The outbox keeps the promise of Handover, for any number of events and
\* workers: what is confirmed was enqueued, what is enqueued was requested.
THEOREM ImplementsHandover == Spec => HandoverSpec
<1>1. Init => H!Init
    BY DEF Init, H!Init
<1>2. IndInv /\ IndInv' /\ [Next]_vars => [H!Next]_(H!vars)
  <2> SUFFICES ASSUME IndInv, IndInv', [Next]_vars PROVE [H!Next]_(H!vars)
      OBVIOUS
  <2>1. CASE UNCHANGED vars
      BY <2>1 DEF vars, H!vars
  <2> QED BY <2>1, WorkerRefines, FaultRefines, EventRefines DEF Next
<1> QED BY <1>1, <1>2, Invariance, PTL DEF Spec, HandoverSpec, H!Spec

-----------------------------------------------------------------------------
(* The attempts beyond the limit *)

\* Who works on an event, and who of them would put it back to PENDING when the send fails.
Holders(e) == {w \in Worker : Holds(w, e)}
Behind(e) == {w \in Worker : Holds(w, e) /\ seen[w][e] + 1 < MaxDispatchAttempts}

\* A PENDING row is worth one more attempt if somebody is free to claim it.
Spare(e) == IF status[e] = "PENDING" /\ Holders(e) # Worker THEN 1 ELSE 0

\* From the limit on, the attempts made and the ones that may still follow: two for a worker that
\* is behind (its own, and a fresh claim of the row it puts back), one for any other.
BudgetInv ==
    \A e \in Event : retryCount[e] >= MaxDispatchAttempts =>
        retryCount[e] + Cardinality(Behind(e)) + Cardinality(Holders(e)) + Spare(e)
          < MaxDispatchAttempts + 2 * Cardinality(Worker)

\* The last to claim a row that is still PROCESSING knows its retryCount.
ClaimantInv ==
    \A w \in Worker, e \in Event :
        status[e] = "PROCESSING" /\ claimedBy[e] = w /\ Holds(w, e) => seen[w][e] = retryCount[e]

UntriedInv == \A e \in Event : status[e] = "NONE" => retryCount[e] = 0

AttemptsInv == BudgetInv /\ ClaimantInv /\ UntriedInv

\* What a step can do to an event.
Kept(e) ==
    /\ retryCount'[e] = retryCount[e] /\ Holders(e)' = Holders(e) /\ Behind(e)' = Behind(e)
    /\ status'[e] = "PENDING" => status[e] = "PENDING" \/ retryCount[e] < MaxDispatchAttempts
LetGo(e, w) ==
    /\ retryCount'[e] = retryCount[e] /\ w \in Holders(e)
    /\ Holders(e)' = Holders(e) \ {w} /\ Behind(e)' = Behind(e) \ {w}
Taken(e, w) ==
    /\ retryCount'[e] = retryCount[e] /\ w \notin Holders(e) /\ Holders(e)' = Holders(e) \cup {w}
    /\ retryCount[e] >= MaxDispatchAttempts => Behind(e)' = Behind(e)
    /\ status[e] = "PENDING" /\ status'[e] = "PROCESSING"
Failed(e, w) ==
    /\ retryCount'[e] = retryCount[e] + 1 /\ w \in Holders(e)
    /\ Holders(e)' = Holders(e) \ {w} /\ Behind(e)' = Behind(e) \ {w}
    /\ w \notin Behind(e) => status'[e] = "DEAD_LETTER"
Recovered(e) ==
    /\ retryCount'[e] = retryCount[e] + 1 /\ retryCount[e] < MaxDispatchAttempts
    /\ Holders(e)' = Holders(e) /\ Behind(e)' = Behind(e)
    /\ retryCount[e] + 1 >= MaxDispatchAttempts => Behind(e) # Worker

StepKind(e) == \/ Kept(e) \/ Recovered(e)
               \/ \E w \in Worker : LetGo(e, w) \/ Taken(e, w) \/ Failed(e, w)

\* The sets of workers are finite, and smaller than Worker unless they are all of it.
LEMMA WorkerSets ==
    ASSUME NEW S \in SUBSET Worker
    PROVE  /\ IsFiniteSet(S) /\ Cardinality(S) \in Nat /\ Cardinality(Worker) \in Nat
           /\ Cardinality(S) <= Cardinality(Worker)
           /\ S # Worker => Cardinality(S) < Cardinality(Worker)
<1>1. IsFiniteSet(Worker) BY FiniteAssumption
<1>2. IsFiniteSet(S) /\ Cardinality(S) <= Cardinality(Worker) /\ (Cardinality(Worker) = Cardinality(S) => Worker = S)
  BY <1>1, FS_Subset
<1>3. Cardinality(S) \in Nat /\ Cardinality(Worker) \in Nat BY <1>1, <1>2, FS_CardinalityType
<1> QED BY <1>1, <1>2, <1>3

\* None of these costs more than the budget has.
LEMMA BudgetKept ==
    ASSUME IndInv, BudgetInv, NEW e \in Event, StepKind(e), retryCount'[e] >= MaxDispatchAttempts
    PROVE  retryCount'[e] + Cardinality(Behind(e)') + Cardinality(Holders(e)') + Spare(e)'
             < MaxDispatchAttempts + 2 * Cardinality(Worker)
<1> DEFINE rc == retryCount[e]
           C(S) == Cardinality(S)
<1>1. rc \in Nat /\ MaxDispatchAttempts \in Nat BY AttemptsAssumption DEF IndInv, TypeOK
<1>2. Behind(e) \in SUBSET Worker /\ Holders(e) \in SUBSET Worker /\ Behind(e) \subseteq Holders(e)
  BY DEF Behind, Holders
<1>3. /\ IsFiniteSet(Behind(e)) /\ IsFiniteSet(Holders(e))
      /\ C(Behind(e)) \in Nat /\ C(Holders(e)) \in Nat /\ C(Worker) \in Nat
      /\ C(Behind(e)) <= C(Worker) /\ C(Holders(e)) <= C(Worker)
      /\ Behind(e) # Worker => C(Behind(e)) < C(Worker)
      /\ Holders(e) # Worker => C(Holders(e)) < C(Worker)
  BY <1>2, WorkerSets
<1>4. Spare(e)' = IF status'[e] = "PENDING" /\ Holders(e)' # Worker THEN 1 ELSE 0 BY DEF Spare
<1>5. Spare(e)' \in {0, 1} /\ Spare(e) \in {0, 1} BY DEF Spare
<1>6. rc >= MaxDispatchAttempts =>
        rc + C(Behind(e)) + C(Holders(e)) + Spare(e) < MaxDispatchAttempts + 2 * C(Worker)
  BY DEF BudgetInv
<1>7. CASE Kept(e)
  <2>1. Spare(e)' <= Spare(e) BY <1>1, <1>7 DEF Kept, Spare
  <2> HIDE DEF C
  <2> QED BY <1>1, <1>3, <1>5, <1>6, <1>7, <2>1 DEF Kept, C
<1>8. CASE Recovered(e)
  <2>1. rc + 1 = MaxDispatchAttempts /\ Behind(e) # Worker BY <1>1, <1>8 DEF Recovered
  <2>2. Spare(e)' = 1 => Holders(e) # Worker BY <1>4, <1>8 DEF Recovered
  <2> QED BY <1>1, <1>3, <1>5, <1>8, <2>1, <2>2 DEF Recovered
<1>9. ASSUME NEW w \in Worker, w \in Holders(e)
      PROVE  /\ C(Holders(e) \ {w}) = C(Holders(e)) - 1
             /\ w \in Behind(e) => C(Behind(e) \ {w}) = C(Behind(e)) - 1
             /\ w \notin Behind(e) => C(Behind(e) \ {w}) = C(Behind(e))
  BY <1>3, <1>9, FS_RemoveElement
<1>10. ASSUME NEW w \in Worker, LetGo(e, w) PROVE rc + C(Behind(e)') + C(Holders(e)') + Spare(e)' < MaxDispatchAttempts + 2 * C(Worker)
  <2>1. C(Holders(e)') = C(Holders(e)) - 1 /\ C(Behind(e)') <= C(Behind(e)) BY <1>3, <1>9, <1>10 DEF LetGo
  <2>2. C(Behind(e)') \in {C(Behind(e)), C(Behind(e)) - 1} BY <1>9, <1>10 DEF LetGo
  <2>3. rc >= MaxDispatchAttempts BY <1>10 DEF LetGo
  <2> HIDE DEF C
  <2> QED BY <1>1, <1>3, <1>5, <1>6, <2>1, <2>2, <2>3
<1>11. ASSUME NEW w \in Worker, Taken(e, w) PROVE rc + C(Behind(e)') + C(Holders(e)') + Spare(e)' < MaxDispatchAttempts + 2 * C(Worker)
  <2>1. C(Holders(e)') = C(Holders(e)) + 1 BY <1>3, <1>11, FS_AddElement DEF Taken
  <2>2. rc >= MaxDispatchAttempts /\ Behind(e)' = Behind(e) BY <1>11 DEF Taken
  <2>3. Spare(e)' = 0 BY <1>4, <1>11 DEF Taken
  <2>4. Spare(e) = 1 BY <1>11 DEF Taken, Spare
  <2> HIDE DEF C
  <2> QED BY <1>1, <1>3, <1>6, <2>1, <2>2, <2>3, <2>4
<1>12. ASSUME NEW w \in Worker, Failed(e, w)
       PROVE  rc + 1 + C(Behind(e)') + C(Holders(e)') + Spare(e)' < MaxDispatchAttempts + 2 * C(Worker)
  <2>1. C(Holders(e)') = C(Holders(e)) - 1 BY <1>9, <1>12 DEF Failed
  <2>2. CASE w \in Behind(e)
    <3>1. C(Behind(e)') = C(Behind(e)) - 1 BY <1>9, <1>12, <2>2 DEF Failed
    <3>2. rc >= MaxDispatchAttempts \/ rc + 1 = MaxDispatchAttempts BY <1>1, <1>12 DEF Failed
    <3> HIDE DEF C
    <3> QED BY <1>1, <1>3, <1>5, <1>6, <2>1, <3>1, <3>2
  <2>3. CASE w \notin Behind(e)
    <3>1. C(Behind(e)') = C(Behind(e)) BY <1>9, <1>12, <2>3 DEF Failed
    <3>2. rc >= MaxDispatchAttempts \/ rc + 1 = MaxDispatchAttempts BY <1>1, <1>12 DEF Failed
    <3>3. Spare(e)' = 0 BY <1>4, <1>12, <2>3 DEF Failed
    <3> HIDE DEF C
    <3> QED BY <1>1, <1>3, <1>5, <1>6, <2>1, <3>1, <3>2, <3>3
  <2> QED BY <2>2, <2>3
<1> QED BY <1>7, <1>8, <1>10, <1>11, <1>12 DEF StepKind, LetGo, Taken, Failed

\* What changes in one worker.
OthersKeep(w) == \A v \in Worker \ {w} : batch'[v] = batch[v] /\ cur'[v] = cur[v] /\ seen'[v] = seen[v]

\* Then one worker joins or leaves those who hold the event, or none does.
LEMMA OneWorker ==
    ASSUME NEW w \in Worker, NEW e \in Event, OthersKeep(w)
    PROVE  /\ Holds(w, e) /\ ~Holds(w, e)' =>
                w \in Holders(e) /\ Holders(e)' = Holders(e) \ {w} /\ Behind(e)' = Behind(e) \ {w}
           /\ (Holds(w, e)' <=> Holds(w, e)) /\ (Holds(w, e) => seen'[w][e] = seen[w][e]) =>
                Holders(e)' = Holders(e) /\ Behind(e)' = Behind(e)
           /\ ~Holds(w, e) /\ Holds(w, e)' => w \notin Holders(e) /\ Holders(e)' = Holders(e) \cup {w}
           /\ ~Holds(w, e) /\ ~(seen'[w][e] + 1 < MaxDispatchAttempts) => Behind(e)' = Behind(e)
<1>1. \A v \in Worker \ {w} : (Holds(v, e)' <=> Holds(v, e)) /\ seen'[v][e] = seen[v][e] BY DEF OthersKeep, Holds
<1>2. Holders(e)' = {v \in Worker : Holds(v, e)'} BY DEF Holders
<1>3. Behind(e)' = {v \in Worker : Holds(v, e)' /\ seen'[v][e] + 1 < MaxDispatchAttempts} BY DEF Behind
<1> QED BY <1>1, <1>2, <1>3 DEF Holders, Behind

\* A step that leaves every worker's batch alone, and raises no count.
LEMMA KindUntouched ==
    ASSUME UNCHANGED <<batch, cur, seen>>, NEW e \in Event, retryCount'[e] = retryCount[e],
           status'[e] = "PENDING" => status[e] = "PENDING" \/ retryCount[e] < MaxDispatchAttempts
    PROVE  StepKind(e)
BY DEF StepKind, Kept, Holders, Behind, Holds

\* A worker forgets its batch.
LEMMA KindForgotten ==
    ASSUME NEW w \in Worker, OthersKeep(w), batch'[w] = {}, cur'[w] = NoEvent, NEW e \in Event,
           retryCount'[e] = retryCount[e], status'[e] = "PENDING" => Holds(w, e) \/ status[e] = "PENDING"
    PROVE  StepKind(e)
<1>1. ~Holds(w, e)' BY NullAssumption DEF Holds
<1>2. CASE Holds(w, e) BY <1>1, <1>2, OneWorker DEF StepKind, LetGo
<1>3. CASE ~Holds(w, e) BY <1>1, <1>3, OneWorker DEF StepKind, Kept
<1> QED BY <1>2, <1>3

\* A worker goes on to the next event of its batch.
LEMMA LoopOnHolds ==
    ASSUME NEW w \in Worker, IndInv, cur[w] \in Event, LoopOn(w)
    PROVE  /\ OthersKeep(w) /\ Holds(w, cur[w]) /\ cur'[w] = NoEvent /\ cur[w] \notin batch'[w]
           /\ \A e \in Event : e # cur[w] => /\ Holds(w, e)' <=> Holds(w, e)
                                             /\ Holds(w, e) => seen'[w][e] = seen[w][e]
<1> USE NullAssumption DEF IndInv, TypeOK, PcInv, LoopOn
<1>1. OthersKeep(w) BY DEF OthersKeep
<1>2. cur'[w] = NoEvent /\ batch'[w] = batch[w] /\ cur[w] \notin batch[w] OBVIOUS
<1>3. seen'[w] = IF batch[w] = {} THEN NothingSeen ELSE seen[w] OBVIOUS
<1> QED BY <1>1, <1>2, <1>3 DEF Holds

\* The row of the event at hand was completed.
LEMMA KindCompleted ==
    ASSUME NEW w \in Worker, IndInv, Complete(w), NEW e \in Event
    PROVE  StepKind(e)
<1>1. cur[w] \in Event BY DEF IndInv, PcInv, Complete
<1>2. retryCount'[e] = retryCount[e] /\ (status'[e] = "PENDING" => status[e] = "PENDING")
  BY <1>1 DEF Complete, WriteCompleted, IndInv, TypeOK
<1>3. LoopOn(w) BY DEF Complete
<1>4. CASE e = cur[w]
  <2>1. Holds(w, e) /\ ~Holds(w, e)' BY <1>1, <1>3, <1>4, LoopOnHolds, NullAssumption DEF Holds
  <2> QED BY <1>1, <1>2, <1>3, <2>1, LoopOnHolds, OneWorker DEF StepKind, LetGo
<1>5. CASE e # cur[w]
  BY <1>1, <1>2, <1>3, <1>5, LoopOnHolds, OneWorker DEF StepKind, Kept
<1> QED BY <1>4, <1>5

\* The attempt of the event at hand was counted.
LEMMA KindFailed ==
    ASSUME NEW w \in Worker, IndInv, cur[w] \in Event, WriteFailure(w, cur[w]), OthersKeep(w),
           NEW e \in Event, e = cur[w], ~Holds(w, e)'
    PROVE  StepKind(e)
<1>1. Holds(w, e) BY DEF Holds
<1>2. retryCount'[e] = retryCount[e] + 1 BY DEF WriteFailure, IndInv, TypeOK
<1>3. w \notin Behind(e) => status'[e] = "DEAD_LETTER"
  <2>1. seen[w][e] \in Nat /\ MaxDispatchAttempts \in Nat BY AttemptsAssumption DEF IndInv, TypeOK
  <2>2. w \notin Behind(e) => seen[w][e] + 1 >= MaxDispatchAttempts BY <1>1, <2>1 DEF Behind
  <2> QED BY <2>2 DEF WriteFailure, IndInv, TypeOK
<1> QED BY <1>1, <1>2, <1>3, OneWorker DEF StepKind, Failed

\* Whatever a worker or its environment does, it is one of these.
LEMMA Kinds == ASSUME IndInv, ClaimantInv, UntriedInv, Next, NEW e \in Event PROVE StepKind(e)
<1> USE NullAssumption DEF rowVars, workerVars
<1>0. MaxDispatchAttempts \in Nat /\ MaxDispatchAttempts > 0 BY AttemptsAssumption
<1>1. ASSUME NEW w \in Worker, NEW S \in SUBSET Event, Claim(w, S) PROVE StepKind(e)
  <2>1. ~Holds(w, e) BY <1>1 DEF Claim, IndInv, TypeOK, PcInv, Holds
  <2>2. OthersKeep(w) /\ (Holds(w, e)' <=> e \in S) BY <1>1 DEF Claim, OthersKeep, IndInv, TypeOK, PcInv, Holds
  <2>3. retryCount'[e] = retryCount[e] BY <1>1 DEF Claim, WriteClaim
  <2>4. CASE e \in S
    <3>1. status[e] = "PENDING" /\ status'[e] = "PROCESSING" BY <1>1, <2>4 DEF Claim, WriteClaim
    <3>2. seen'[w][e] = retryCount[e] BY <1>1, <2>4 DEF Claim, IndInv, TypeOK
    <3>3. retryCount[e] >= MaxDispatchAttempts => ~(seen'[w][e] + 1 < MaxDispatchAttempts)
      BY <1>0, <3>2 DEF IndInv, TypeOK
    <3> QED BY <2>1, <2>2, <2>3, <2>4, <3>1, <3>3, OneWorker DEF StepKind, Taken
  <2>5. CASE e \notin S
    <3>1. status'[e] = status[e] BY <1>1, <2>5 DEF Claim, WriteClaim
    <3> QED BY <2>1, <2>2, <2>3, <2>5, <3>1, OneWorker DEF StepKind, Kept
  <2> QED BY <2>4, <2>5
<1>2. ASSUME NEW w \in Worker, NEW S \in SUBSET Event, ClaimThrows(w, S) PROVE StepKind(e)
  <2>1. status'[e] = "PENDING" => status[e] = "PENDING" BY <1>2 DEF ClaimThrows, WriteClaim
  <2> QED BY <1>2, <2>1, KindUntouched DEF ClaimThrows, WriteClaim
<1>3. ASSUME NEW w \in Worker, NEW f \in Event, SendAccepted(w, f) \/ SendThrows(w, f) PROVE StepKind(e)
  <2>1. OthersKeep(w) BY <1>3 DEF SendAccepted, SendThrows, OthersKeep, IndInv, TypeOK
  <2>2. (Holds(w, e)' <=> Holds(w, e)) /\ seen' = seen
    BY <1>3 DEF SendAccepted, SendThrows, IndInv, TypeOK, PcInv, Holds
  <2>3. UNCHANGED rowVars BY <1>3 DEF SendAccepted, SendThrows
  <2> QED BY <2>1, <2>2, <2>3, OneWorker DEF StepKind, Kept
<1>4. ASSUME NEW w \in Worker, CompleteThrows(w) PROVE StepKind(e)
  <2>1. retryCount' = retryCount /\ (status'[e] = "PENDING" => status[e] = "PENDING")
    BY <1>4 DEF CompleteThrows, WriteCompleted, IndInv, TypeOK, PcInv
  <2> QED BY <1>4, <2>1, KindUntouched DEF CompleteThrows
<1>5. ASSUME NEW w \in Worker, RecordFailure(w) PROVE StepKind(e)
  <2>1. cur[w] \in Event /\ LoopOn(w) /\ WriteFailure(w, cur[w]) BY <1>5 DEF RecordFailure, IndInv, PcInv
  <2>2. CASE e = cur[w]
    <3>1. ~Holds(w, e)' BY <2>1, <2>2, LoopOnHolds DEF Holds
    <3> QED BY <2>1, <2>2, <3>1, LoopOnHolds, KindFailed
  <2>3. CASE e # cur[w]
    <3>1. retryCount'[e] = retryCount[e] /\ status'[e] = status[e] BY <2>1, <2>3 DEF WriteFailure, IndInv, TypeOK
    <3> QED BY <2>1, <2>3, <3>1, LoopOnHolds, OneWorker DEF StepKind, Kept
  <2> QED BY <2>2, <2>3
<1>6. ASSUME NEW w \in Worker, LeaveLoop(w) PROVE OthersKeep(w) /\ batch'[w] = {} /\ cur'[w] = NoEvent
  BY <1>6 DEF LeaveLoop, OthersKeep, IndInv, TypeOK
<1>7. ASSUME NEW w \in Worker, RecordFailureThrows(w) PROVE StepKind(e)
  <2>1. cur[w] \in Event /\ LeaveLoop(w) BY <1>7 DEF RecordFailureThrows, IndInv, PcInv
  <2>2. CASE WriteFailure(w, cur[w]) /\ e = cur[w]
    <3>1. ~Holds(w, e)' BY <1>6, <2>1, <2>2 DEF Holds
    <3> QED BY <1>6, <2>1, <2>2, <3>1, KindFailed
  <2>3. CASE UNCHANGED rowVars \/ e # cur[w]
    <3>1. retryCount'[e] = retryCount[e] /\ status'[e] = status[e]
      BY <1>7, <2>1, <2>3 DEF RecordFailureThrows, WriteFailure, IndInv, TypeOK
    <3> QED BY <1>6, <2>1, <3>1, KindForgotten
  <2> QED BY <1>7, <2>2, <2>3 DEF RecordFailureThrows
<1>8. ASSUME NEW w \in Worker, ReleaseUnattempted(w) \/ ReleaseThrows(w) PROVE StepKind(e)
  <2>1. LeaveLoop(w) /\ retryCount' = retryCount BY <1>8 DEF ReleaseUnattempted, ReleaseThrows, WriteRelease
  <2>2. status'[e] = status[e] \/ Holds(w, e)
    BY <1>8 DEF ReleaseUnattempted, ReleaseThrows, WriteRelease, Releasable, Holds
  <2> QED BY <1>6, <2>1, <2>2, KindForgotten
<1>9. ASSUME NEW w \in Worker, RecoverExpiredLeases(w) PROVE StepKind(e)
  <2>1. UNCHANGED <<batch, cur, seen>> BY <1>9 DEF RecoverExpiredLeases
  <2>2. CASE Recoverable(e)
    <3>1. retryCount'[e] = retryCount[e] + 1 /\ retryCount[e] < MaxDispatchAttempts
      BY <1>9, <2>2 DEF RecoverExpiredLeases, Recoverable
    <3>2. claimedBy[e] \in Worker /\ status[e] = "PROCESSING"
      BY <2>2 DEF Recoverable, Expirable, IndInv, TypeOK, ProcessingHasLease
    <3>3. retryCount[e] + 1 >= MaxDispatchAttempts => claimedBy[e] \notin Behind(e)
      BY <1>0, <3>2 DEF Behind, ClaimantInv, IndInv, TypeOK
    <3> QED BY <2>1, <3>1, <3>2, <3>3 DEF StepKind, Recovered, Holders, Behind, Holds
  <2>3. CASE ~Recoverable(e)
    <3>1. retryCount'[e] = retryCount[e] /\ status'[e] = status[e] BY <1>9, <2>3 DEF RecoverExpiredLeases
    <3> QED BY <2>1, <3>1, KindUntouched
  <2> QED BY <2>2, <2>3
<1>10. ASSUME NEW w \in Worker, DeadLetterExhausted(w) PROVE StepKind(e)
  <2>1. status'[e] = "PENDING" => status[e] = "PENDING" BY <1>10 DEF DeadLetterExhausted
  <2> QED BY <1>10, <2>1, KindUntouched DEF DeadLetterExhausted
<1>11. ASSUME NEW w \in Worker, Exit(w) \/ Crash(w) PROVE StepKind(e)
  <2>1. Gone(w) BY <1>11 DEF Exit, Crash
  <2>2. OthersKeep(w) /\ batch'[w] = {} /\ cur'[w] = NoEvent BY <2>1 DEF Gone, OthersKeep, IndInv, TypeOK
  <2> QED BY <2>1, <2>2, KindForgotten DEF Gone
<1>12. ASSUME NEW w \in Worker, Restart(w) \/ QueueUp(w) \/ DeadLetterThrows(w) \/ Shutdown(w) \/ QueueDown(w)
       PROVE StepKind(e)
  BY <1>12, KindUntouched DEF Restart, QueueUp, DeadLetterThrows, Shutdown, QueueDown
<1>13. ASSUME NEW f \in Event, EventStep(f) PROVE StepKind(e)
  <2>1. CASE CreateOutboxEvent(f)
    <3>1. retryCount' = retryCount /\ (status'[e] = "PENDING" => status[e] \in {"PENDING", "NONE"})
      BY <2>1 DEF CreateOutboxEvent, IndInv, TypeOK
    <3>2. status[e] = "NONE" => retryCount[e] < MaxDispatchAttempts BY <1>0 DEF UntriedInv
    <3> QED BY <2>1, <3>1, <3>2, KindUntouched DEF CreateOutboxEvent
  <2>2. CASE Expire(f) \/ LateAdd(f) BY <2>2, KindUntouched DEF Expire, LateAdd
  <2> QED BY <1>13, <2>1, <2>2 DEF EventStep
<1>14. ASSUME NEW w \in Worker, Complete(w) PROVE StepKind(e) BY <1>14, KindCompleted
<1>15. ASSUME NEW w \in Worker, WorkerStep(w) PROVE StepKind(e)
  BY <1>15, <1>1, <1>3, <1>5, <1>8, <1>9, <1>10, <1>11, <1>12, <1>14 DEF WorkerStep
<1>16. ASSUME NEW w \in Worker, WorkerFault(w) PROVE StepKind(e)
  BY <1>16, <1>2, <1>3, <1>4, <1>7, <1>8, <1>11, <1>12 DEF WorkerFault
<1> QED BY <1>13, <1>15, <1>16 DEF Next

\* A row that was never claimed has no attempt, and only its claimant changes what it knows.
LEMMA ClaimantStep == ASSUME IndInv, ClaimantInv, UntriedInv, Next PROVE ClaimantInv' /\ UntriedInv'
<1> USE NullAssumption DEF IndInv, TypeOK, ClaimantInv, UntriedInv, Holds, rowVars, workerVars
<1>1. ASSUME NEW w \in Worker, NEW S \in SUBSET Event, Claim(w, S) \/ ClaimThrows(w, S)
      PROVE ClaimantInv' /\ UntriedInv'
  <2>1. CASE Claim(w, S)
    <3>1. ClaimantInv'
      <4> SUFFICES ASSUME NEW v \in Worker, NEW e \in Event, status'[e] = "PROCESSING", claimedBy'[e] = v, Holds(v, e)'
                   PROVE  seen'[v][e] = retryCount'[e]
        OBVIOUS
      <4>1. /\ retryCount' = retryCount /\ (e \in S => claimedBy'[e] = w)
            /\ (e \notin S => status'[e] = status[e] /\ claimedBy'[e] = claimedBy[e])
        BY <2>1 DEF Claim, WriteClaim
      <4>2. ~Holds(w, e) BY <2>1, ZenonT(60) DEF Claim, PcInv
      <4>3. v # w => (Holds(v, e)' <=> Holds(v, e)) /\ seen'[v] = seen[v] BY <2>1 DEF Claim
      <4>4. e \in S => seen'[w][e] = retryCount[e] BY <2>1 DEF Claim
      <4>5. batch'[w] = S /\ cur'[w] = cur[w] /\ cur[w] # e BY <2>1, <4>2 DEF Claim
      <4>6. Holds(w, e)' => e \in S BY <4>5
      <4> QED BY <4>1, <4>2, <4>3, <4>4, <4>6
    <3>2. UntriedInv' BY <2>1 DEF Claim, WriteClaim, PcInv
    <3> QED BY <3>1, <3>2
  <2>2. CASE ClaimThrows(w, S)
    <3>1. ClaimantInv'
      <4> SUFFICES ASSUME NEW v \in Worker, NEW e \in Event, status'[e] = "PROCESSING", claimedBy'[e] = v, Holds(v, e)'
                   PROVE  seen'[v][e] = retryCount'[e]
        OBVIOUS
      <4>1. /\ retryCount' = retryCount /\ (e \in S => claimedBy'[e] = w)
            /\ (e \notin S => status'[e] = status[e] /\ claimedBy'[e] = claimedBy[e])
        BY <2>2 DEF ClaimThrows, WriteClaim
      <4>2. ~Holds(w, e) BY <2>2, ZenonT(60) DEF ClaimThrows, PcInv
      <4>3. v # w => (Holds(v, e)' <=> Holds(v, e)) /\ seen'[v] = seen[v] BY <2>2 DEF ClaimThrows
      <4>4. ~Holds(w, e)' BY <2>2, ZenonT(60) DEF ClaimThrows, PcInv
      <4> QED BY <4>1, <4>2, <4>3, <4>4
    <3>2. UntriedInv' BY <2>2 DEF ClaimThrows, WriteClaim, PcInv
    <3> QED BY <3>1, <3>2
  <2> QED BY <1>1, <2>1, <2>2
<1>2. ASSUME NEW w \in Worker, NEW f \in Event, SendAccepted(w, f) \/ SendThrows(w, f)
      PROVE ClaimantInv' /\ UntriedInv'
  <2>1. CASE SendAccepted(w, f)
    <3>1. ClaimantInv' BY <2>1 DEF SendAccepted
    <3>2. UntriedInv' BY <2>1 DEF SendAccepted
    <3> QED BY <3>1, <3>2
  <2>2. CASE SendThrows(w, f)
    <3>1. ClaimantInv' BY <2>2 DEF SendThrows
    <3>2. UntriedInv' BY <2>2 DEF SendThrows
    <3> QED BY <3>1, <3>2
  <2> QED BY <1>2, <2>1, <2>2
<1>3. ASSUME NEW w \in Worker, Complete(w) PROVE ClaimantInv' /\ UntriedInv'
  BY <1>3 DEF Complete, WriteCompleted, LoopOn, PcInv
<1>4. ASSUME NEW w \in Worker, CompleteThrows(w) PROVE ClaimantInv' /\ UntriedInv'
  BY <1>4 DEF CompleteThrows, WriteCompleted, PcInv
<1>5. ASSUME NEW w \in Worker, RecordFailure(w) PROVE ClaimantInv' /\ UntriedInv'
  BY <1>5 DEF RecordFailure, WriteFailure, LoopOn, PcInv
<1>6. ASSUME NEW w \in Worker, RecordFailureThrows(w)
      PROVE ClaimantInv' /\ UntriedInv'
  <2>1. cur[w] \in Event /\ LeaveLoop(w) BY <1>6 DEF RecordFailureThrows, PcInv
  <2>2. CASE UNCHANGED rowVars BY <2>1, <2>2 DEF LeaveLoop
  <2>3. CASE WriteFailure(w, cur[w])
    <3>1. ClaimantInv' BY <2>1, <2>3 DEF LeaveLoop, WriteFailure
    <3>2. UntriedInv' BY <2>1, <2>3 DEF LeaveLoop, WriteFailure
    <3> QED BY <3>1, <3>2
  <2> QED BY <1>6, <2>2, <2>3 DEF RecordFailureThrows
<1>7. ASSUME NEW w \in Worker, ReleaseUnattempted(w) \/ ReleaseThrows(w)
      PROVE ClaimantInv' /\ UntriedInv'
  <2>1. CASE ReleaseUnattempted(w)
    <3>1. ClaimantInv' BY <2>1 DEF ReleaseUnattempted, WriteRelease, LeaveLoop
    <3>2. UntriedInv' BY <2>1 DEF ReleaseUnattempted, WriteRelease, LeaveLoop
    <3> QED BY <3>1, <3>2
  <2>2. CASE ReleaseThrows(w)
    <3>1. ClaimantInv' BY <2>2 DEF ReleaseThrows, LeaveLoop
    <3>2. UntriedInv' BY <2>2 DEF ReleaseThrows, LeaveLoop
    <3> QED BY <3>1, <3>2
  <2> QED BY <1>7, <2>1, <2>2
<1>8. ASSUME NEW w \in Worker, RecoverExpiredLeases(w) \/ DeadLetterExhausted(w)
      PROVE ClaimantInv' /\ UntriedInv'
  <2>1. CASE RecoverExpiredLeases(w)
    <3>1. ClaimantInv' BY <2>1 DEF RecoverExpiredLeases, Recoverable, Expirable
    <3>2. UntriedInv' BY <2>1 DEF RecoverExpiredLeases, Recoverable, Expirable
    <3> QED BY <3>1, <3>2
  <2>2. CASE DeadLetterExhausted(w)
    <3>1. ClaimantInv' BY <2>2 DEF DeadLetterExhausted
    <3>2. UntriedInv' BY <2>2 DEF DeadLetterExhausted
    <3> QED BY <3>1, <3>2
  <2> QED BY <1>8, <2>1, <2>2
<1>9. ASSUME NEW w \in Worker, Exit(w) \/ Crash(w)
      PROVE ClaimantInv' /\ UntriedInv'
  <2>1. CASE Exit(w)
    <3>1. ClaimantInv' BY <2>1 DEF Exit, Gone
    <3>2. UntriedInv' BY <2>1 DEF Exit, Gone
    <3> QED BY <3>1, <3>2
  <2>2. CASE Crash(w)
    <3>1. ClaimantInv' BY <2>2 DEF Crash, Gone
    <3>2. UntriedInv' BY <2>2 DEF Crash, Gone
    <3> QED BY <3>1, <3>2
  <2> QED BY <1>9, <2>1, <2>2
<1>10. ASSUME NEW w \in Worker, Restart(w) \/ QueueUp(w) \/ DeadLetterThrows(w) \/ Shutdown(w) \/ QueueDown(w)
       PROVE  ClaimantInv' /\ UntriedInv'
  BY <1>10 DEF Restart, QueueUp, DeadLetterThrows, Shutdown, QueueDown
<1>11. ASSUME NEW f \in Event, EventStep(f) PROVE ClaimantInv' /\ UntriedInv'
  BY <1>11 DEF EventStep, CreateOutboxEvent, Expire, LateAdd
<1>12. ASSUME NEW w \in Worker, WorkerStep(w) \/ WorkerFault(w) PROVE ClaimantInv' /\ UntriedInv'
  <2> HIDE DEF IndInv, TypeOK, ClaimantInv, UntriedInv
  <2> QED BY <1>12, <1>1, <1>2, <1>3, <1>4, <1>5, <1>6, <1>7, <1>8, <1>9, <1>10 DEF WorkerStep, WorkerFault
<1> HIDE DEF IndInv, TypeOK, ClaimantInv, UntriedInv
<1> QED BY <1>11, <1>12 DEF Next

\* Every step keeps the budget.
LEMMA AttemptsStep == IndInv /\ AttemptsInv /\ [Next]_vars => AttemptsInv'
<1> SUFFICES ASSUME IndInv, AttemptsInv, [Next]_vars PROVE AttemptsInv'
  OBVIOUS
<1>1. CASE UNCHANGED vars
  BY <1>1 DEF vars, AttemptsInv, BudgetInv, ClaimantInv, UntriedInv, Spare, Holders, Behind, Holds
<1>2. CASE Next
  <2>1. \A e \in Event : StepKind(e) BY <1>2, Kinds DEF AttemptsInv
  <2>2. BudgetInv' BY <2>1, BudgetKept DEF AttemptsInv, BudgetInv
  <2> QED BY <1>2, <2>2, ClaimantStep DEF AttemptsInv
<1> QED BY <1>1, <1>2

\* However many workers come back late with an old retryCount, an event is attempted fewer times
\* than the limit and twice the number of workers allow: the two counts of outbox-dispatcher and
\* lease recovery disagree, but never without end.
THEOREM AttemptsStayBounded == Spec => []AttemptsBounded
<1>1. Init => AttemptsInv
  <2> SUFFICES ASSUME Init PROVE AttemptsInv OBVIOUS
  <2>1. \A e \in Event : retryCount[e] = 0 /\ status[e] = "NONE" BY DEF Init
  <2> QED BY <2>1, AttemptsAssumption DEF AttemptsInv, BudgetInv, ClaimantInv, UntriedInv
<1>2. ASSUME IndInv, AttemptsInv, NEW e \in Event
      PROVE retryCount[e] < MaxDispatchAttempts + 2 * Cardinality(Worker)
  <2>1. retryCount[e] \in Nat /\ MaxDispatchAttempts \in Nat /\ Spare(e) \in {0, 1}
    BY <1>2, AttemptsAssumption DEF IndInv, TypeOK, Spare
  <2>2. Behind(e) \in SUBSET Worker /\ Holders(e) \in SUBSET Worker BY DEF Behind, Holders
  <2>3. Cardinality(Behind(e)) \in Nat /\ Cardinality(Holders(e)) \in Nat /\ Cardinality(Worker) \in Nat
    BY <2>2, WorkerSets
  <2> QED BY <1>2, <2>1, <2>3 DEF AttemptsInv, BudgetInv
<1>3. IndInv /\ AttemptsInv => AttemptsBounded BY <1>2 DEF AttemptsBounded
<1> QED BY <1>1, <1>3, AttemptsStep, Invariance, PTL DEF Spec

=============================================================================
