---------------------------- MODULE WorkerProofs ----------------------------
(***************************************************************************)
(* Proofs about the parts of a worker process (module MCWorker), for any   *)
(* number of queues, events, callers, retries and faults.  Each part has   *)
(* its own inductive invariant; a step of one part leaves the others alone.*)
(***************************************************************************)
EXTENDS MCWorker, TLAPS

-----------------------------------------------------------------------------
(* Transactions that are retried *)

\* A caller takes effect when its COMMIT is carried out, answered or not.
TookEffect(c) == pc[c] = "done" \/ c \in unanswered

\* Rows the open transaction of a caller has written, by its position.
Written(c) == CASE pc[c] = "second" -> {Tx!FirstRow(c)}
                [] pc[c] = "commit" -> Tx!Row
                [] OTHER -> {}

TxCaller(c) ==
    /\ pc[c] \in {"start", "sleep"} => attempt[c] <= maxRetries
    /\ pc[c] \notin {"start", "sleep"} => attempt[c] >= 1
    /\ dirty[c] = Written(c)
    /\ \A r \in Tx!Row : writes[c][r] = IF TookEffect(c) THEN 1 ELSE 0
    /\ c \in unanswered => pc[c] \in {"caught", "thrown"} /\ err[c] = "other"
    /\ pc[c] = "sleep" => attempt[c] >= 1
    /\ pc[c] = "thrown" /\ err[c] = "deadlock" => attempt[c] = maxRetries + 1

\* What holds of every caller, and the types.
TxInv == Tx!TypeOK /\ \A c \in Caller : TxCaller(c)

\* The backoff is a number of milliseconds.
LEMMA BackoffType == ASSUME NEW n \in Nat, n >= 1 PROVE Tx!calculateBackoffDelay(n) \in Nat
<1>1. CASE n <= 5
  <2>1. n \in {1, 2, 3, 4, 5} BY <1>1
  <2> QED BY <1>1, <2>1 DEF Tx!calculateBackoffDelay
<1>2. CASE ~(n <= 5) BY <1>2 DEF Tx!calculateBackoffDelay
<1> QED BY <1>1, <1>2

\* Two rows, and a caller locks the one and then the other.
LEMMA TwoRows ==
    ASSUME TxInv, NEW c \in Caller
    PROVE  /\ Tx!FirstRow(c) \in Tx!Row /\ Tx!SecondRow(c) \in Tx!Row
           /\ {Tx!FirstRow(c), Tx!SecondRow(c)} = Tx!Row
<1>1. order[c] \in {"a", "b"} BY DEF TxInv, Tx!TypeOK, Tx!Row
<1>2. \E r \in {"a", "b"} : r # order[c] BY <1>1
<1>3. Tx!SecondRow(c) \in {"a", "b"} /\ Tx!SecondRow(c) # order[c] BY <1>2 DEF Tx!SecondRow, Tx!Row
<1> QED BY <1>1, <1>3 DEF Tx!FirstRow, Tx!Row

\* No step of one caller disturbs what holds of another.
LEMMA OtherCallers ==
    ASSUME TxInv, NEW c \in Caller, NEW d \in Caller, d # c,
           order' = order, attempt'[d] = attempt[d], pc'[d] = pc[d], err'[d] = err[d], dirty'[d] = dirty[d],
           writes'[d] = writes[d], d \in unanswered' <=> d \in unanswered
    PROVE  TxCaller(d)'
<1>1. TxCaller(d) BY DEF TxInv
<1>2. Written(d)' = Written(d) /\ (TookEffect(d)' <=> TookEffect(d))
  BY DEF Written, TookEffect, Tx!FirstRow
<1> QED BY <1>1, <1>2 DEF TxCaller

\* BEGIN: the next attempt.
LEMMA TxBegin ==
    ASSUME TxInv, NEW c \in Caller, Tx!Begin(c)
    PROVE  TxInv'
<1> USE LimitsAssumption DEF Tx!Begin
<1>0. TxCaller(c) /\ Tx!TypeOK BY DEF TxInv
<1>1. attempt'[c] = attempt[c] + 1 /\ pc'[c] = "first" /\ attempt[c] \in Nat /\ attempt[c] <= maxRetries
  BY <1>0 DEF TxCaller, Tx!TypeOK
<1>2. Tx!TypeOK'
  <2>1. attempt' \in [Caller -> 0 .. maxRetries + 1] BY <1>0, <1>1 DEF Tx!TypeOK
  <2>2. pc' \in [Caller -> {"start", "first", "second", "commit", "caught", "sleep", "done", "thrown"}]
    BY <1>0 DEF Tx!TypeOK
  <2> QED BY <1>0, <2>1, <2>2 DEF Tx!TypeOK
<1>3. TxCaller(c)'
  <2>1. dirty'[c] = {} /\ ~TookEffect(c) /\ c \notin unanswered BY <1>0 DEF TxCaller, Written, TookEffect
  <2> QED BY <1>0, <1>1, <2>1 DEF TxCaller, Written, TookEffect
<1>4. \A d \in Caller : d # c => TxCaller(d)' BY <1>0, OtherCallers DEF Tx!TypeOK
<1> QED BY <1>2, <1>3, <1>4 DEF TxInv

\* A row is locked and written.
LEMMA TxLockAndWrite ==
    ASSUME TxInv, NEW c \in Caller, Tx!LockAndWrite(c)
    PROVE  TxInv'
<1> USE DEF Tx!LockAndWrite
<1>0. TxCaller(c) /\ Tx!TypeOK BY DEF TxInv
<1>1. Tx!Wants(c) \in Tx!Row BY TwoRows DEF Tx!Wants
<1>2. /\ pc[c] = "first" => pc'[c] = "second" /\ dirty'[c] = {Tx!FirstRow(c)}
      /\ pc[c] = "second" => pc'[c] = "commit" /\ dirty'[c] = Tx!Row
  <2>1. dirty'[c] = dirty[c] \cup {Tx!Wants(c)} BY <1>0 DEF Tx!TypeOK
  <2>2. pc[c] = "first" => dirty'[c] = {Tx!FirstRow(c)} BY <1>0, <2>1 DEF TxCaller, Written, Tx!Wants
  <2>3. pc[c] = "second" => dirty'[c] = {Tx!FirstRow(c), Tx!SecondRow(c)}
    BY <1>0, <2>1 DEF TxCaller, Written, Tx!Wants
  <2> QED BY <1>0, <2>2, <2>3, TwoRows DEF Tx!TypeOK
<1>3. Tx!TypeOK'
  <2>1. lock' \in [Tx!Row -> Caller \cup {Tx!Free}] BY <1>0 DEF Tx!TypeOK
  <2>2. pc' \in [Caller -> {"start", "first", "second", "commit", "caught", "sleep", "done", "thrown"}]
    BY <1>0 DEF Tx!TypeOK
  <2>3. dirty' \in [Caller -> SUBSET Tx!Row] BY <1>0, <1>1 DEF Tx!TypeOK
  <2> QED BY <1>0, <2>1, <2>2, <2>3 DEF Tx!TypeOK
<1>4. TxCaller(c)'
  <2>1. dirty'[c] = Written(c)' BY <1>2 DEF Written, Tx!FirstRow
  <2>2. pc'[c] \in {"second", "commit"} /\ attempt[c] >= 1 BY <1>0, <1>2 DEF TxCaller
  <2>3. ~TookEffect(c) /\ ~TookEffect(c)' /\ c \notin unanswered' BY <1>0, <2>2 DEF TxCaller, TookEffect
  <2> QED BY <1>0, <2>1, <2>2, <2>3 DEF TxCaller
<1>5. \A d \in Caller : d # c => TxCaller(d)' BY <1>0, OtherCallers DEF Tx!TypeOK
<1> QED BY <1>3, <1>4, <1>5 DEF TxInv

\* An attempt ends with an error: nothing of it stays.
LEMMA TxAbort ==
    ASSUME TxInv, NEW c \in Caller, NEW e \in {"deadlock", "other"}, Tx!Abort(c, e),
           pc[c] \in {"first", "second", "commit"}, UNCHANGED unanswered, mishaps' \in 0 .. MaxFault
    PROVE  TxInv'
<1> USE DEF Tx!Abort
<1>0. TxCaller(c) /\ Tx!TypeOK BY DEF TxInv
<1>1. pc'[c] = "caught" /\ err'[c] = e /\ dirty'[c] = {} BY <1>0 DEF Tx!TypeOK
<1>2. Tx!TypeOK'
  <2>1. lock' \in [Tx!Row -> Caller \cup {Tx!Free}] BY <1>0 DEF Tx!TypeOK, Tx!Released
  <2>2. pc' \in [Caller -> {"start", "first", "second", "commit", "caught", "sleep", "done", "thrown"}]
    BY <1>0 DEF Tx!TypeOK
  <2>3. dirty' \in [Caller -> SUBSET Tx!Row] BY <1>0 DEF Tx!TypeOK
  <2>4. err' \in [Caller -> {"none", "deadlock", "other"}] BY <1>0 DEF Tx!TypeOK
  <2> QED BY <1>0, <2>1, <2>2, <2>3, <2>4 DEF Tx!TypeOK
<1>3. TxCaller(c)'
  <2>1. c \notin unanswered /\ ~TookEffect(c) /\ ~TookEffect(c)' /\ attempt[c] >= 1
    BY <1>0, <1>1 DEF TxCaller, TookEffect
  <2> QED BY <1>0, <1>1, <2>1 DEF TxCaller, Written
<1>4. \A d \in Caller : d # c => TxCaller(d)' BY <1>0, OtherCallers DEF Tx!TypeOK
<1> QED BY <1>2, <1>3, <1>4 DEF TxInv

\* COMMIT, with its answer or without.
LEMMA TxCommits ==
    ASSUME TxInv, NEW c \in Caller, Tx!Commit(c) \/ Tx!CommitUnanswered(c)
    PROVE  TxInv'
<1> USE LimitsAssumption DEF Tx!Commit, Tx!CommitUnanswered
<1>0. TxCaller(c) /\ Tx!TypeOK BY DEF TxInv
<1>1. pc[c] = "commit" /\ dirty[c] = Tx!Row /\ c \notin unanswered /\ attempt[c] >= 1
      /\ \A r \in Tx!Row : writes[c][r] = 0
  BY <1>0 DEF TxCaller, Written, TookEffect
<1>2. /\ dirty'[c] = {} /\ pc'[c] \in {"done", "caught"} /\ TookEffect(c)'
      /\ c \in unanswered' => pc'[c] = "caught" /\ err'[c] = "other"
      /\ \A d \in Caller : d # c => (d \in unanswered' <=> d \in unanswered)
  BY <1>0, <1>1 DEF Tx!TypeOK, TookEffect
<1> DEFINE w == [r \in Tx!Row |-> writes[c][r] + IF r \in dirty[c] THEN 1 ELSE 0]
<1>3. writes' = [writes EXCEPT ![c] = w] BY DEF Tx!Apply
<1>4. \A r \in Tx!Row : w[r] = 1 BY <1>1
<1>5. w \in [Tx!Row -> 0 .. maxRetries + 1] BY <1>4
<1> HIDE DEF w
<1>6. \A r \in Tx!Row : writes'[c][r] = 1 BY <1>0, <1>3, <1>4 DEF Tx!TypeOK
<1>7. Tx!TypeOK'
  <2>1. lock' \in [Tx!Row -> Caller \cup {Tx!Free}] BY <1>0 DEF Tx!TypeOK, Tx!Released
  <2>2. pc' \in [Caller -> {"start", "first", "second", "commit", "caught", "sleep", "done", "thrown"}]
    BY <1>0 DEF Tx!TypeOK
  <2>3. dirty' \in [Caller -> SUBSET Tx!Row] BY <1>0 DEF Tx!TypeOK
  <2>4. err' \in [Caller -> {"none", "deadlock", "other"}] BY <1>0 DEF Tx!TypeOK
  <2>5. writes' \in [Caller -> [Tx!Row -> 0 .. maxRetries + 1]] BY <1>0, <1>3, <1>5 DEF Tx!TypeOK
  <2>6. unanswered' \subseteq Caller /\ mishaps' \in 0 .. MaxFault BY <1>0 DEF Tx!TypeOK
  <2> QED BY <1>0, <2>1, <2>2, <2>3, <2>4, <2>5, <2>6 DEF Tx!TypeOK
<1>8. TxCaller(c)' BY <1>0, <1>1, <1>2, <1>6 DEF TxCaller, Written
<1>9. \A d \in Caller : d # c => TxCaller(d)' BY <1>0, <1>2, <1>3, OtherCallers DEF Tx!TypeOK
<1> QED BY <1>7, <1>8, <1>9 DEF TxInv

\* The catch block: another attempt only after a conflict, and only while attempts are left.
LEMMA TxCatch ==
    ASSUME TxInv, NEW c \in Caller, Tx!Catch(c)
    PROVE  TxInv'
<1> USE LimitsAssumption DEF Tx!Catch
<1>0. TxCaller(c) /\ Tx!TypeOK BY DEF TxInv
<1>1. /\ attempt[c] \in 0 .. maxRetries + 1 /\ attempt[c] >= 1
      /\ pc'[c] \in {"sleep", "thrown"}
      /\ pc'[c] = "sleep" => err[c] = "deadlock" /\ attempt[c] <= maxRetries
      /\ pc'[c] = "thrown" => err[c] # "deadlock" \/ attempt[c] = maxRetries + 1
  BY <1>0 DEF Tx!TypeOK, TxCaller, Tx!isRetryableTransactionError, Tx!hasRetriesLeft
<1>2. Tx!TypeOK'
  <2>1. pc' \in [Caller -> {"start", "first", "second", "commit", "caught", "sleep", "done", "thrown"}]
    BY <1>0 DEF Tx!TypeOK
  <2>2. delay' \in [Caller -> Nat]
    <3>1. Tx!calculateBackoffDelay(attempt[c]) \in Nat BY <1>1, BackoffType
    <3> QED BY <1>0, <3>1 DEF Tx!TypeOK
  <2> QED BY <1>0, <2>1, <2>2 DEF Tx!TypeOK
<1>3. TxCaller(c)'
  <2>1. Written(c) = {} /\ Written(c)' = {} BY <1>1 DEF Written
  <2>2. (TookEffect(c)' <=> TookEffect(c)) /\ (c \in unanswered => pc'[c] = "thrown")
    BY <1>0, <1>1 DEF TookEffect, TxCaller
  <2> QED BY <1>0, <1>1, <2>1, <2>2 DEF TxCaller
<1>4. \A d \in Caller : d # c => TxCaller(d)' BY <1>0, OtherCallers DEF Tx!TypeOK
<1> QED BY <1>2, <1>3, <1>4 DEF TxInv

\* After the backoff.
LEMMA TxAwake ==
    ASSUME TxInv, NEW c \in Caller, Tx!Awake(c)
    PROVE  TxInv'
<1> USE DEF Tx!Awake
<1>0. TxCaller(c) /\ Tx!TypeOK BY DEF TxInv
<1>1. pc'[c] = "start" /\ err'[c] = "none" BY <1>0 DEF Tx!TypeOK
<1>2. Tx!TypeOK'
  <2>1. pc' \in [Caller -> {"start", "first", "second", "commit", "caught", "sleep", "done", "thrown"}]
    BY <1>0 DEF Tx!TypeOK
  <2>2. err' \in [Caller -> {"none", "deadlock", "other"}] BY <1>0 DEF Tx!TypeOK
  <2> QED BY <1>0, <2>1, <2>2 DEF Tx!TypeOK
<1>3. TxCaller(c)' BY <1>0, <1>1 DEF TxCaller, Written, TookEffect
<1>4. \A d \in Caller : d # c => TxCaller(d)' BY <1>0, OtherCallers DEF Tx!TypeOK
<1> QED BY <1>2, <1>3, <1>4 DEF TxInv

\* Together.
LEMMA TxStep == ASSUME TxInv, Tx!Next PROVE TxInv'
<1>1. PICK c \in Caller :
        \/ Tx!Begin(c) \/ Tx!LockAndWrite(c) \/ Tx!Deadlock(c) \/ Tx!OtherError(c)
        \/ Tx!Commit(c) \/ Tx!CommitUnanswered(c) \/ Tx!Catch(c) \/ Tx!Awake(c)
  BY DEF Tx!Next
<1>2. ASSUME Tx!Deadlock(c) PROVE TxInv'
  <2>1. pc[c] \in {"first", "second", "commit"} /\ mishaps' \in 0 .. MaxFault
    BY <1>2 DEF Tx!Deadlock, Tx!Waiting, TxInv, Tx!TypeOK
  <2> QED BY <1>2, <2>1, TxAbort DEF Tx!Deadlock
<1>3. ASSUME Tx!OtherError(c) PROVE TxInv'
  <2>1. mishaps' \in 0 .. MaxFault BY <1>3, LimitsAssumption DEF Tx!OtherError, TxInv, Tx!TypeOK
  <2> QED BY <1>3, <2>1, TxAbort DEF Tx!OtherError
<1> QED BY <1>1, <1>2, <1>3, TxBegin, TxLockAndWrite, TxCommits, TxCatch, TxAwake

\* At the start no caller has done anything.
LEMMA TxInit == Init => TxInv
<1> SUFFICES ASSUME Tx!Init PROVE TxInv BY DEF Init
<1>1. Tx!TypeOK BY LimitsAssumption DEF Tx!Init, Tx!TypeOK
<1>2. \A c \in Caller : TxCaller(c)
  BY LimitsAssumption DEF Tx!Init, TxCaller, Written, TookEffect
<1> QED BY <1>1, <1>2 DEF TxInv

\* However often withTransaction runs a function, it takes effect once and on all of its rows,
\* for any callers, lock orders, deadlocks, errors and lost answers of COMMIT.
THEOREM TransactionsTakeEffectOnce == FairSpec => []TransactionsAtomic
<1>1. TxInv /\ [Next]_vars => TxInv'
  <2>1. ASSUME TxInv, UNCHANGED xvars PROVE TxInv'
    BY <2>1 DEF xvars, TxInv, TxCaller, Written, TookEffect, Tx!TypeOK, Tx!FirstRow
  <2> QED BY <2>1, TxStep DEF Next, vars
<1>2. TxInv => TransactionsAtomic
  <2> SUFFICES ASSUME TxInv PROVE TransactionsAtomic OBVIOUS
  <2>1. \A c \in Caller : TxCaller(c) BY DEF TxInv
  <2>2. Tx!AllOrNothing BY <2>1 DEF Tx!AllOrNothing, TxCaller, TookEffect
  <2>3. Tx!TriesAsConfigured BY <2>1, LimitsAssumption DEF Tx!TriesAsConfigured, TxCaller, TxInv, Tx!TypeOK
  <2> QED BY <2>2, <2>3 DEF TransactionsAtomic, TxInv
<1> QED BY <1>1, <1>2, TxInit, PTL DEF FairSpec

-----------------------------------------------------------------------------
(* The reconciliation *)

\* A job that was handed over is held by BullMQ or by pg-boss, or it is lost; what the check
\* looks at was handed over, and what it has found missing is lost or in pg-boss.
RecInv ==
    /\ age \in [Event -> {"none", "young", "stale", "past"}]
    /\ undone \subseteq Event /\ held \subseteq Event /\ lost \subseteq Event
    /\ candidates \subseteq Event /\ found \subseteq Event /\ alerted \subseteq Event
    /\ \A e \in Event : age[e] # "none" => e \in held \cup lost \cup Drained
    /\ \A e \in candidates : age[e] # "none"
    /\ found \cup alerted \subseteq lost \cup Drained

\* The two flags are Booleans.
RecFlags == running \in BOOLEAN /\ checking \in BOOLEAN

\* The outside world: jobs are dispatched, grow old, run and get lost.
LEMMA RecWorld ==
    ASSUME RecInv, NEW e \in Event,
           \/ Reconciliation!Dispatch(e) \/ Reconciliation!GrowsStale(e) \/ Reconciliation!LeavesLookback(e)
           \/ Reconciliation!JobRuns(e) \/ Reconciliation!LoseJob(e)
    PROVE  RecInv'
<1>1. CASE Reconciliation!Dispatch(e) BY <1>1 DEF RecInv, Reconciliation!Dispatch
<1>2. CASE Reconciliation!GrowsStale(e) BY <1>2 DEF RecInv, Reconciliation!GrowsStale
<1>3. CASE Reconciliation!LeavesLookback(e) BY <1>3 DEF RecInv, Reconciliation!LeavesLookback
<1>4. CASE Reconciliation!JobRuns(e) BY <1>4 DEF RecInv, Reconciliation!JobRuns
<1>5. CASE Reconciliation!LoseJob(e) BY <1>5 DEF RecInv, Reconciliation!LoseJob
<1> QED BY <1>1, <1>2, <1>3, <1>4, <1>5

\* findLostJobs: the candidates are selected, each is looked up, and the missing are reported.
LEMMA RecCheck ==
    ASSUME RecInv,
           \/ Reconciliation!Select \/ Reconciliation!Alert \/ Reconciliation!CheckFails
           \/ Reconciliation!RedisDown \/ Reconciliation!RedisUp \/ \E e \in Event : Reconciliation!HasJob(e)
    PROVE  RecInv'
<1>1. CASE Reconciliation!Select
  <2>1. \A e \in candidates' : e \in Event /\ age[e] = "stale"
    BY <1>1 DEF Reconciliation!Select, Reconciliation!Oldest, Reconciliation!Candidate
  <2> QED BY <1>1, <2>1 DEF RecInv, Reconciliation!Select
<1>2. CASE Reconciliation!Alert BY <1>2 DEF RecInv, Reconciliation!Alert
<1>3. CASE Reconciliation!CheckFails BY <1>3 DEF RecInv, Reconciliation!CheckFails
<1>4. CASE Reconciliation!RedisDown \/ Reconciliation!RedisUp
  BY <1>4 DEF RecInv, Reconciliation!RedisDown, Reconciliation!RedisUp
<1>5. ASSUME NEW e \in Event, Reconciliation!HasJob(e) PROVE RecInv'
  BY <1>5 DEF RecInv, Reconciliation!HasJob, Reconciliation!Missing
<1> QED BY <1>1, <1>2, <1>3, <1>4, <1>5

\* Together.
LEMMA RecStep == ASSUME RecInv, Reconciliation!Next PROVE RecInv'
BY RecWorld, RecCheck DEF Reconciliation!Next

\* The flags stay Booleans.
LEMMA RecFlagsStep == ASSUME RecFlags, Reconciliation!Next PROVE RecFlags'
BY Zenon DEF RecFlags, Reconciliation!Next, Reconciliation!Select, Reconciliation!Alert, Reconciliation!CheckFails,
   Reconciliation!RedisDown, Reconciliation!RedisUp, Reconciliation!HasJob, Reconciliation!Dispatch,
   Reconciliation!GrowsStale, Reconciliation!LeavesLookback, Reconciliation!JobRuns, Reconciliation!LoseJob

\* The reconciliation's part of ReportsAreTrue.
THEOREM AlertsAreReal == FairSpec => [](RecInv /\ RecFlags)
<1>1. Init => RecInv /\ RecFlags
  <2> SUFFICES ASSUME Reconciliation!Init PROVE RecInv /\ RecFlags BY DEF Init
  <2>1. RecInv BY DEF RecInv, Reconciliation!Init
  <2> QED BY <2>1 DEF RecFlags, Reconciliation!Init
<1>2. RecInv /\ RecFlags /\ [Next]_vars => (RecInv /\ RecFlags)'
  <2>1. ASSUME RecInv, RecFlags, UNCHANGED rvars PROVE (RecInv /\ RecFlags)'
    BY <2>1 DEF rvars, RecInv, RecFlags
  <2> QED BY <2>1, RecStep, RecFlagsStep DEF Next, vars
<1> QED BY <1>1, <1>2, PTL DEF FairSpec

-----------------------------------------------------------------------------
(* The heartbeat *)

Cap == MaxAge + PingTimeout + MaxBlocked + 1
Never == Cap + 1

\* Ages and timers within their bounds.
HbType ==
    /\ life \in {"off", "on", "stopping"}
    /\ file \in 0 .. Never /\ stamp \in 0 .. Never /\ beat \in 0 .. Never /\ served \in 0 .. Never
    /\ timer \in 0 .. Interval /\ healthyFor \in 0 .. Cap /\ blocked \in 0 .. MaxBlocked

\* A ping takes its timeout and the time the event loop was blocked; the stamp of a process that
\* runs is younger than what it stands for by no more than that.
Slack == PingTimeout + MaxBlocked - blocked
HbServed ==
    /\ life = "off" => stamp = Never /\ beat = Never
    /\ beat # Never => stamp = Never /\ beat <= Slack
    /\ life # "off" /\ stamp # Never => served # Never /\ served <= stamp + PingTimeout + MaxBlocked
    /\ life = "on" /\ file # Never => served # Never /\ served <= file + PingTimeout + MaxBlocked

\* While the worker is healthy no beat takes time, a beat started in that time has its file
\* written before time goes on, and the file is renewed every Interval.
HbHealthy ==
    /\ healthyFor > 0 => /\ life = "on" /\ queueUp /\ dbUp
                         /\ beat \in {0, Never} /\ stamp \in {0, Never}
    /\ healthyFor + timer > Interval => beat = 0 \/ stamp = 0 \/ (file # Never /\ file + timer <= Interval)
    /\ healthyFor > Interval => file # Never /\ file <= Interval

\* The dependencies are up or down.
HbFlags == queueUp \in BOOLEAN /\ dbUp \in BOOLEAN

HbInv == HbType /\ HbServed /\ HbHealthy

\* The module's own bounds.
LEMMA HbBounds ==
    /\ Heartbeat!Cap = Cap /\ Heartbeat!Never = Never /\ Cap \in Nat /\ Never \in Nat
    /\ Never = MaxAge + PingTimeout + MaxBlocked + 2 /\ Interval \in Nat /\ PingTimeout \in Nat /\ PingTimeout >= 1
    /\ MaxAge \in Nat /\ MaxBlocked \in Nat /\ Interval <= MaxAge /\ Cap = MaxAge + PingTimeout + MaxBlocked + 1
BY LimitsAssumption DEF Heartbeat!Cap, Heartbeat!Never, Cap, Never

\* Every step but the passing of time.
LEMMA HbEvents ==
    ASSUME HbInv,
           \/ Heartbeat!Boot \/ Heartbeat!BeatStarts \/ Heartbeat!PingAnswered \/ Heartbeat!PingTimedOut
           \/ Heartbeat!Renamed \/ Heartbeat!Destroy \/ Heartbeat!Exit \/ Heartbeat!Flap
    PROVE  HbInv'
<1> USE HbBounds DEF HbInv
<1>1. CASE Heartbeat!Boot
  BY <1>1 DEF HbType, HbServed, HbHealthy, Slack, Heartbeat!Boot, Heartbeat!ClearedFirst
<1>2. CASE Heartbeat!BeatStarts
  BY <1>2 DEF HbType, HbServed, HbHealthy, Slack, Heartbeat!BeatStarts, Heartbeat!NextBeat
<1>3. CASE Heartbeat!PingAnswered
  BY <1>3 DEF HbType, HbServed, HbHealthy, Slack, Heartbeat!PingAnswered
<1>4. CASE Heartbeat!PingTimedOut
  BY <1>4 DEF HbType, HbServed, HbHealthy, Slack, Heartbeat!PingTimedOut
<1>5. CASE Heartbeat!Renamed
  BY <1>5 DEF HbType, HbServed, HbHealthy, Slack, Heartbeat!Renamed
<1>6. CASE Heartbeat!Destroy
  BY <1>6 DEF HbType, HbServed, HbHealthy, Slack, Heartbeat!Destroy
<1>7. CASE Heartbeat!Exit
  BY <1>7 DEF HbType, HbServed, HbHealthy, Slack, Heartbeat!Exit
<1>8. CASE Heartbeat!Flap
  BY <1>8 DEF HbType, HbServed, HbHealthy, Slack, Heartbeat!Flap
<1> QED BY <1>1, <1>2, <1>3, <1>4, <1>5, <1>6, <1>7, <1>8

\* Time passes.
LEMMA HbTick == ASSUME HbInv, Heartbeat!Tick PROVE HbInv'
<1> USE HbBounds DEF HbInv, Heartbeat!Tick
<1>1. HbType' BY DEF HbType, Heartbeat!Older
<1>2. HbServed' BY DEF HbType, HbServed, Slack, Heartbeat!Older, Heartbeat!Busy
<1>3. HbHealthy' BY DEF HbType, HbHealthy, Heartbeat!Older, Heartbeat!Busy
<1> QED BY <1>1, <1>2, <1>3

\* The flags stay Booleans.
LEMMA HbFlagsStep == ASSUME HbFlags, Heartbeat!Next PROVE HbFlags'
BY Zenon DEF HbFlags, Heartbeat!Next, Heartbeat!Boot, Heartbeat!BeatStarts, Heartbeat!PingAnswered,
   Heartbeat!PingTimedOut, Heartbeat!Renamed, Heartbeat!Destroy, Heartbeat!Exit, Heartbeat!Flap, Heartbeat!Tick

\* The heartbeat's part of ReportsAreTrue.
THEOREM HeartbeatIsTrue == FairSpec => [](HbInv /\ HbFlags)
<1>1. Init => HbInv /\ HbFlags
  <2> SUFFICES ASSUME Heartbeat!Init PROVE HbInv /\ HbFlags BY DEF Init
  <2>1. HbInv BY HbBounds DEF HbInv, HbType, HbServed, HbHealthy, Heartbeat!Init
  <2> QED BY <2>1 DEF HbFlags, Heartbeat!Init
<1>2. HbInv /\ HbFlags /\ [Next]_vars => (HbInv /\ HbFlags)'
  <2>1. ASSUME HbInv, HbFlags, UNCHANGED hvars PROVE (HbInv /\ HbFlags)'
    BY <2>1 DEF hvars, HbInv, HbType, HbServed, HbHealthy, Slack, HbFlags
  <2>2. ASSUME HbInv, Heartbeat!Next PROVE HbInv' BY <2>2, HbEvents, HbTick DEF Heartbeat!Next
  <2> QED BY <2>1, <2>2, HbFlagsStep DEF Next, vars
<1> QED BY <1>1, <1>2, PTL DEF FairSpec

-----------------------------------------------------------------------------
(* The two job transports *)

Stages == {"idle", "timer", "connecting", "creating", "started"}
OldStates == Transports!Unfinished \cup {"done"}

TrType ==
    /\ proc \in {"boot", "on", "destroyed", "closed"}
    /\ stage \in [Transports!Transport -> Stages]
    /\ open \in [Transports!Transport -> Nat] /\ gone \in Nat
    /\ pending \in [Transports!Transport -> SUBSET Queue]
    /\ asked \subseteq Queue /\ registering \subseteq Queue /\ dropped \subseteq Queue
    /\ consumers \in [Transports!Transport -> [Queue -> Nat]]

\* A connection is open for an attempt under way and for a transport that is started; a pg-boss
\* instance also until its stop() has ended.
TrOpen ==
    /\ stage["bullmq"] # "creating"
    /\ open["bullmq"] = IF stage["bullmq"] \in {"connecting", "started"} THEN 1 ELSE 0
    /\ open["pgboss"] = gone + IF stage["pgboss"] \in {"connecting", "creating", "started"} THEN 1 ELSE 0
    /\ open["pgboss"] <= MaxOpen

\* A transport that is not started has every handler pending and no consumer; one that is
\* started has a consumer for each handler, is about to register it, or has logged the failure.
TrHandlers ==
    /\ registering \subseteq asked
    /\ \A t \in Transports!Transport :
         /\ stage[t] # "started" /\ ~Transports!Destroyed => pending[t] = asked
         /\ \A q \in Queue : /\ stage[t] # "started" \/ q \notin asked => consumers[t][q] = 0
                             /\ consumers[t][q] <= 1
    /\ stage["bullmq"] = "started" => \A q \in asked : consumers["bullmq"][q] = 1
    /\ stage["pgboss"] = "started" =>
         \A q \in asked : IF q \in registering THEN consumers["pgboss"][q] = 0
                                               ELSE consumers["pgboss"][q] = 1 \/ q \in dropped

\* The old jobs and what the monitor says of them.
TrJobs ==
    /\ old \in [OldJob -> OldStates] /\ tries \in [OldJob -> Nat]
    /\ \A j \in OldJob : tries[j] <= RetryLimit + 1 /\ (old[j] # "done" => tries[j] <= RetryLimit)
    /\ check \in {"idle", "running", "stopped"}
    /\ report \in {"none", "unknown", "degraded", "progress", "complete"}
    /\ Transports!CompleteIsFinal

\* What is up, and what the last probe said.
TrFlags == up \in [Transports!Transport -> BOOLEAN] /\ responsive \in BOOLEAN

TrLife == TrType /\ TrOpen /\ TrHandlers /\ Transports!NothingOutlivesShutdown
TrInv == TrLife /\ TrJobs /\ TrFlags

lifecycle == <<proc, stage, open, gone, pending, asked, registering, consumers, dropped>>

\* A step that leaves the transports alone keeps their invariant.
LEMMA TrLifeKept == ASSUME TrLife, UNCHANGED lifecycle PROVE TrLife'
BY DEF TrLife, TrType, TrOpen, TrHandlers, Transports!NothingOutlivesShutdown, Transports!Destroyed, lifecycle

\* A step that leaves the jobs and the checks alone keeps theirs.
LEMMA TrJobsKept == ASSUME TrJobs, UNCHANGED <<old, tries, check, report>> PROVE TrJobs'
BY DEF TrJobs, Transports!CompleteIsFinal

\* An attempt to connect fails, or is too slow.
LEMMA TrConnectFails ==
    ASSUME TrLife, NEW t \in Transports!Transport, Transports!ConnectFails(t)
    PROVE  TrLife'
<1> USE LimitsAssumption DEF Transports!ConnectFails, TrLife
<1>1. /\ t \in {"bullmq", "pgboss"} /\ stage'[t] \in {"idle", "timer"} /\ (Transports!Destroyed => stage'[t] = "idle")
      /\ \A x \in Transports!Transport : x # t => stage'[x] = stage[x]
  BY DEF TrType, Transports!Transport, Transports!AfterFailure
<1>2. TrType'
  BY <1>1 DEF TrType, TrOpen, Transports!Transport, Stages, Transports!Discarding, Transports!AfterFailure
<1>3. TrOpen' BY <1>1 DEF TrType, TrOpen, Transports!Transport, Transports!Discarding
<1>4. TrHandlers' BY <1>1 DEF TrType, TrHandlers, Transports!Transport, Transports!Destroyed
<1>5. Transports!NothingOutlivesShutdown' BY <1>1 DEF Transports!NothingOutlivesShutdown, Transports!Destroyed
<1> QED BY <1>2, <1>3, <1>4, <1>5

\* BullMQ's attempt ends.
LEMMA TrBullMqStarts == ASSUME TrLife, Transports!BullMqStarts PROVE TrLife'
<1> USE DEF Transports!BullMqStarts, TrLife
<1>0. "bullmq" \in Transports!Transport /\ "pgboss" \in Transports!Transport
      /\ \A t \in Transports!Transport : t = "bullmq" \/ t = "pgboss"
  BY DEF Transports!Transport
<1>1. CASE Transports!Destroyed
  <2>1. stage' = [stage EXCEPT !["bullmq"] = "idle"] /\ open' = [open EXCEPT !["bullmq"] = open["bullmq"] - 1]
        /\ UNCHANGED <<proc, gone, pending, asked, registering, consumers, dropped>>
    BY <1>1
  <2>2. TrType' BY <1>0, <2>1 DEF TrType, TrOpen, Stages
  <2>3. TrOpen' BY <1>0, <2>1 DEF TrType, TrOpen
  <2>4. TrHandlers' BY <1>0, <1>1, <2>1 DEF TrType, TrHandlers, Transports!Destroyed
  <2>5. Transports!NothingOutlivesShutdown'
    BY <1>0, <2>1 DEF Transports!NothingOutlivesShutdown, Transports!Destroyed, TrType
  <2> QED BY <2>2, <2>3, <2>4, <2>5
<1>2. CASE ~Transports!Destroyed
  <2>1. stage' = [stage EXCEPT !["bullmq"] = "started"] /\ pending' = [pending EXCEPT !["bullmq"] = {}]
        /\ consumers' = Transports!ConsumersAfter("bullmq", pending["bullmq"])
        /\ UNCHANGED <<proc, open, gone, asked, registering, dropped>>
    BY <1>2
  <2>2. pending["bullmq"] = asked BY <1>0, <1>2 DEF TrHandlers
  <2>3. /\ consumers' \in [Transports!Transport -> [Queue -> Nat]]
        /\ consumers'["pgboss"] = consumers["pgboss"]
        /\ \A q \in Queue : consumers'["bullmq"][q] = IF q \in asked THEN 1 ELSE 0
    <3> DEFINE c == [q \in Queue |-> consumers["bullmq"][q] + IF q \in asked THEN 1 ELSE 0]
    <3>1. consumers' = [consumers EXCEPT !["bullmq"] = c] BY <2>1, <2>2 DEF Transports!ConsumersAfter
    <3>2. \A q \in Queue : consumers["bullmq"][q] = 0 BY <1>0 DEF TrHandlers
    <3>3. c \in [Queue -> Nat] /\ \A q \in Queue : c[q] = IF q \in asked THEN 1 ELSE 0 BY <3>2
    <3> HIDE DEF c
    <3> QED BY <1>0, <3>1, <3>3 DEF TrType
  <2>4. stage'["bullmq"] = "started" /\ stage'["pgboss"] = stage["pgboss"] /\ pending'["pgboss"] = pending["pgboss"]
    BY <1>0, <2>1 DEF TrType
  <2>5. TrType' BY <1>0, <2>1, <2>3 DEF TrType, Stages
  <2>6. TrOpen' BY <1>0, <2>1, <2>4 DEF TrOpen
  <2>7. TrHandlers' BY <1>0, <2>1, <2>3, <2>4 DEF TrType, TrHandlers, Transports!Destroyed
  <2>8. Transports!NothingOutlivesShutdown'
    BY <1>0, <1>2, <2>1 DEF Transports!NothingOutlivesShutdown, Transports!Destroyed
  <2> QED BY <2>5, <2>6, <2>7, <2>8
<1> QED BY <1>1, <1>2

\* pg-boss's attempt connects, then ends.
LEMMA TrPgBossConnected == ASSUME TrLife, Transports!PgBossConnected PROVE TrLife'
<1> USE DEF Transports!PgBossConnected, TrLife
<1>1. /\ stage'["pgboss"] = "creating" /\ stage'["bullmq"] = stage["bullmq"]
      /\ \A t \in Transports!Transport : t = "bullmq" \/ t = "pgboss"
  BY DEF TrType, Transports!Transport
<1>2. TrType' BY DEF TrType, Stages
<1>3. TrOpen' BY <1>1 DEF TrOpen
<1>4. TrHandlers' BY <1>1 DEF TrHandlers, Transports!Destroyed
<1>5. Transports!NothingOutlivesShutdown' BY <1>1 DEF Transports!NothingOutlivesShutdown, Transports!Destroyed
<1> QED BY <1>2, <1>3, <1>4, <1>5

\* pg-boss takes part once it has started.
LEMMA TrPgBossStarts == ASSUME TrLife, Transports!PgBossStarts PROVE TrLife'
<1> USE DEF Transports!PgBossStarts, TrLife
<1>0. "bullmq" \in Transports!Transport /\ "pgboss" \in Transports!Transport
      /\ \A t \in Transports!Transport : t = "bullmq" \/ t = "pgboss"
  BY DEF Transports!Transport
<1>1. /\ stage'["pgboss"] = (IF Transports!Destroyed THEN "idle" ELSE "started") /\ stage'["bullmq"] = stage["bullmq"]
      /\ gone' = gone + IF Transports!Destroyed THEN 1 ELSE 0
  BY <1>0 DEF TrType
<1>2. TrType'
  <2>1. gone' \in Nat BY <1>1 DEF TrType
  <2>2. stage' \in [Transports!Transport -> Stages] BY <1>0 DEF TrType, Stages
  <2>3. pending["pgboss"] \subseteq Queue BY <1>0 DEF TrType
  <2>4. pending' \in [Transports!Transport -> SUBSET Queue] /\ registering' \subseteq Queue BY <1>0, <2>3 DEF TrType
  <2> QED BY <2>1, <2>2, <2>4 DEF TrType
<1>3. TrOpen' BY <1>1 DEF TrOpen, TrType
<1>4. TrHandlers' BY <1>0, <1>1 DEF TrType, TrHandlers, Transports!Destroyed
<1>5. Transports!NothingOutlivesShutdown'
  BY <1>0, <1>1 DEF Transports!NothingOutlivesShutdown, Transports!Destroyed
<1> QED BY <1>2, <1>3, <1>4, <1>5

\* registerPendingWorkers registers a handler, or logs that it could not.
LEMMA TrRegisterPending ==
    ASSUME TrLife, NEW q \in Queue, Transports!RegisterPending(q)
    PROVE  TrLife'
<1> USE DEF Transports!RegisterPending, TrLife
<1>0. "bullmq" \in Transports!Transport /\ "pgboss" \in Transports!Transport
      /\ \A t \in Transports!Transport : t = "bullmq" \/ t = "pgboss"
  BY DEF Transports!Transport
<1>1. UNCHANGED <<proc, stage, open, gone, pending, asked>> /\ registering' = registering \ {q} /\ q \in registering
  OBVIOUS
<1>2. TrOpen' /\ Transports!NothingOutlivesShutdown'
  BY <1>1 DEF TrOpen, Transports!NothingOutlivesShutdown, Transports!Destroyed
<1>3. CASE stage["pgboss"] = "started" /\ consumers' = Transports!ConsumersAfter("pgboss", {q}) /\ UNCHANGED dropped
  <2> DEFINE c == [p \in Queue |-> consumers["pgboss"][p] + IF p \in {q} THEN 1 ELSE 0]
  <2>1. consumers' = [consumers EXCEPT !["pgboss"] = c] BY <1>3 DEF Transports!ConsumersAfter
  <2>2. c \in [Queue -> Nat] /\ \A p \in Queue : c[p] = IF p = q THEN consumers["pgboss"][p] + 1 ELSE consumers["pgboss"][p]
    <3>1. \A p \in Queue : consumers["pgboss"][p] \in Nat BY <1>0 DEF TrType
    <3> QED BY <3>1
  <2> HIDE DEF c
  <2>3. consumers'["pgboss"] = c /\ consumers'["bullmq"] = consumers["bullmq"] BY <1>0, <2>1 DEF TrType
  <2>4. consumers["pgboss"][q] = 0 BY <1>1, <1>3 DEF TrHandlers
  <2>5. TrType'
    <3>1. consumers' \in [Transports!Transport -> [Queue -> Nat]] BY <1>0, <2>1, <2>2 DEF TrType
    <3> QED BY <1>1, <1>3, <3>1 DEF TrType
  <2>6. TrHandlers'
    <3>1. \A p \in Queue : consumers'["pgboss"][p] = IF p = q THEN 1 ELSE consumers["pgboss"][p] BY <2>2, <2>3, <2>4
    <3>2. q \in asked BY <1>1 DEF TrHandlers
    <3>3. \A t \in Transports!Transport, p \in Queue :
            /\ stage[t] # "started" \/ p \notin asked => consumers'[t][p] = 0
            /\ consumers'[t][p] <= 1
      <4>1. \A t \in Transports!Transport, p \in Queue :
              (stage[t] # "started" \/ p \notin asked => consumers[t][p] = 0) /\ consumers[t][p] <= 1
        BY DEF TrHandlers
      <4>2. \A p \in Queue : consumers'["bullmq"][p] = consumers["bullmq"][p] BY <2>3
      <4>3. \A p \in Queue : /\ stage["pgboss"] # "started" \/ p \notin asked => consumers'["pgboss"][p] = 0
                             /\ consumers'["pgboss"][p] <= 1
        BY <1>0, <1>3, <3>1, <3>2, <4>1
      <4> QED BY <1>0, <4>1, <4>2, <4>3
    <3>4. \A p \in asked : IF p \in registering' THEN consumers'["pgboss"][p] = 0
                                                 ELSE consumers'["pgboss"][p] = 1 \/ p \in dropped'
      <4> SUFFICES ASSUME NEW p \in asked
                   PROVE  IF p \in registering' THEN consumers'["pgboss"][p] = 0
                                                ELSE consumers'["pgboss"][p] = 1 \/ p \in dropped'
        OBVIOUS
      <4>1. p \in Queue BY DEF TrType
      <4> QED BY <1>1, <1>3, <3>1, <4>1 DEF TrHandlers
    <3>5. stage["bullmq"] = "started" => \A p \in asked : consumers'["bullmq"][p] = 1 BY <2>3 DEF TrHandlers
    <3> QED BY <1>1, <3>3, <3>4, <3>5 DEF TrHandlers, Transports!Destroyed
  <2> QED BY <1>2, <2>5, <2>6
<1>4. CASE dropped' = dropped \cup {q} /\ UNCHANGED consumers
  <2>1. TrType' BY <1>1, <1>4 DEF TrType
  <2>2. TrHandlers' BY <1>0, <1>1, <1>4 DEF TrHandlers, Transports!Destroyed
  <2> QED BY <1>2, <2>1, <2>2
<1> QED BY <1>3, <1>4

\* A retry, and the end of a discarded instance.
LEMMA TrRetry ==
    ASSUME TrLife, NEW t \in Transports!Transport, Transports!Retry(t)
    PROVE  TrLife'
<1> USE LimitsAssumption DEF Transports!Retry, TrLife
<1>1. /\ t \in {"bullmq", "pgboss"} /\ stage'[t] = "connecting" /\ open'[t] = open[t] + 1
      /\ \A x \in Transports!Transport : x # t => stage'[x] = stage[x] /\ open'[x] = open[x]
  BY DEF TrType, Transports!Transport
<1>2. TrType'
  <2>1. open[t] + 1 \in Nat BY DEF TrType
  <2> QED BY <2>1 DEF TrType, Stages
<1>3. TrOpen' BY <1>1 DEF TrType, TrOpen, Transports!Transport
<1>4. TrHandlers' BY <1>1 DEF TrHandlers, Transports!Transport, Transports!Destroyed
<1>5. Transports!NothingOutlivesShutdown' BY <1>1 DEF Transports!NothingOutlivesShutdown, Transports!Destroyed
<1> QED BY <1>2, <1>3, <1>4, <1>5

\* A pg-boss that came up after the shutdown is stopped again.
LEMMA TrDiscarded == ASSUME TrLife, Transports!Discarded PROVE TrLife'
<1> USE LimitsAssumption DEF Transports!Discarded, TrLife
<1>1. gone \in Nat /\ gone > 0 /\ gone' = gone - 1 /\ open["pgboss"] \in Nat /\ open["pgboss"] >= gone
      /\ open'["pgboss"] = open["pgboss"] - 1 /\ open'["bullmq"] = open["bullmq"]
  BY DEF TrType, TrOpen, Transports!Transport
<1>2. TrType'
  <2>1. gone' \in Nat /\ open["pgboss"] - 1 \in Nat BY <1>1
  <2> QED BY <2>1 DEF TrType
<1>3. TrOpen' BY <1>1 DEF TrOpen
<1>4. TrHandlers' BY DEF TrHandlers, Transports!Destroyed
<1>5. Transports!NothingOutlivesShutdown' BY DEF Transports!NothingOutlivesShutdown, Transports!Destroyed
<1> QED BY <1>2, <1>3, <1>4, <1>5

\* The hooks that only move on.
LEMMA TrHooks == ASSUME TrLife, Transports!Bootstrap \/ Transports!Destroy PROVE TrLife'
<1> USE DEF TrLife
<1>1. CASE Transports!Bootstrap
  BY <1>1 DEF Transports!Bootstrap, TrType, TrOpen, TrHandlers, Transports!NothingOutlivesShutdown, Transports!Destroyed
<1>2. CASE Transports!Destroy
  <2>1. \A t \in Transports!Transport : /\ stage'[t] \in Stages /\ stage'[t] # "timer"
                                        /\ stage[t] # "timer" => stage'[t] = stage[t]
                                        /\ stage[t] = "timer" => stage'[t] = "idle"
    BY <1>2 DEF Transports!Destroy, Transports!TimersCleared, TrType, Stages
  <2>2. "bullmq" \in Transports!Transport /\ "pgboss" \in Transports!Transport BY DEF Transports!Transport
  <2>3. TrType' BY <1>2, <2>1 DEF Transports!Destroy, TrType
  <2>4. TrOpen' BY <1>2, <2>1, <2>2 DEF Transports!Destroy, TrOpen
  <2>5. TrHandlers' BY <1>2, <2>1, <2>2 DEF Transports!Destroy, TrHandlers, Transports!Destroyed
  <2>6. Transports!NothingOutlivesShutdown'
    BY <1>2, <2>1 DEF Transports!Destroy, Transports!NothingOutlivesShutdown, Transports!Destroyed
  <2> QED BY <2>3, <2>4, <2>5, <2>6
<1> QED BY <1>1, <1>2

\* DrainingJobQueue.work: both transports get the handler, now or when they start.
LEMMA TrWork ==
    ASSUME TrLife, NEW q \in Queue, Transports!Work(q)
    PROVE  TrLife'
<1> USE DEF TrLife
<1>0. "bullmq" \in Transports!Transport /\ "pgboss" \in Transports!Transport
      /\ \A t \in Transports!Transport : t = "bullmq" \/ t = "pgboss"
  BY DEF Transports!Transport
<1>1. /\ UNCHANGED <<proc, stage, open, gone, registering>> /\ asked' = asked \cup {q} /\ q \notin asked
      /\ proc = "on" /\ dropped \subseteq dropped' /\ dropped' \subseteq dropped \cup {q}
  BY DEF Transports!Work
<1>2. \A t \in Transports!Transport : pending'[t] = pending[t] \cup IF stage[t] # "started" THEN {q} ELSE {}
  BY DEF Transports!Work, Transports!Deferred
<1> DEFINE refused == ~Transports!Deferred("pgboss") /\ ~up["pgboss"]
           added(t, p) == IF p = q /\ ~Transports!Deferred(t) /\ (t = "bullmq" \/ ~refused) THEN 1 ELSE 0
<1>3. consumers' = [t \in Transports!Transport |-> [p \in Queue |-> consumers[t][p] + added(t, p)]]
  BY DEF Transports!Work
<1>4. /\ \A t \in Transports!Transport, p \in Queue : added(t, p) \in {0, 1} /\ (p # q => added(t, p) = 0)
      /\ \A t \in Transports!Transport : stage[t] # "started" => added(t, q) = 0
      /\ stage["bullmq"] = "started" => added("bullmq", q) = 1
      /\ stage["pgboss"] = "started" => added("pgboss", q) = 1 \/ q \in dropped'
  BY DEF Transports!Work, Transports!Deferred
<1> HIDE DEF added
<1>5. \A t \in Transports!Transport, p \in Queue :
         /\ consumers'[t][p] = consumers[t][p] + added(t, p)
         /\ consumers[t][p] \in Nat
  BY <1>3 DEF TrType
<1>6. /\ consumers' \in [Transports!Transport -> [Queue -> Nat]]
      /\ \A t \in Transports!Transport, p \in Queue : p # q => consumers'[t][p] = consumers[t][p]
      /\ \A t \in Transports!Transport : consumers'[t][q] = added(t, q) /\ consumers[t][q] = 0
  <2>1. \A t \in Transports!Transport, p \in Queue : consumers[t][p] + added(t, p) \in Nat BY <1>4, <1>5
  <2>2. \A t \in Transports!Transport : consumers[t][q] = 0 BY <1>1 DEF TrHandlers
  <2>3. consumers' \in [Transports!Transport -> [Queue -> Nat]] BY <1>3, <2>1
  <2>4. \A t \in Transports!Transport, p \in Queue : p # q => consumers'[t][p] = consumers[t][p] BY <1>4, <1>5
  <2>5. \A t \in Transports!Transport : consumers'[t][q] = added(t, q) BY <1>4, <1>5, <2>2
  <2> QED BY <2>2, <2>3, <2>4, <2>5
<1>7. TrType'
  <2>1. pending' \in [Transports!Transport -> SUBSET Queue] BY DEF Transports!Work, TrType
  <2> QED BY <1>1, <1>6, <2>1 DEF TrType
<1>8. TrOpen' /\ Transports!NothingOutlivesShutdown'
  BY <1>1 DEF TrOpen, Transports!NothingOutlivesShutdown, Transports!Destroyed
<1>9. TrHandlers'
  <2>1. registering' \subseteq asked' BY <1>1 DEF TrHandlers
  <2>2. ASSUME NEW t \in Transports!Transport
        PROVE  /\ stage'[t] # "started" => pending'[t] = asked'
               /\ \A p \in Queue : /\ stage'[t] # "started" \/ p \notin asked' => consumers'[t][p] = 0
                                   /\ consumers'[t][p] <= 1
    <3>1. stage'[t] # "started" => pending'[t] = asked'
      BY <1>1, <1>2 DEF TrHandlers, Transports!Destroyed
    <3>2. ASSUME NEW p \in Queue
          PROVE  (stage'[t] # "started" \/ p \notin asked' => consumers'[t][p] = 0) /\ consumers'[t][p] <= 1
      <4>1. CASE p = q BY <1>1, <1>4, <1>6, <4>1
      <4>2. CASE p # q BY <1>1, <1>6, <4>2 DEF TrHandlers
      <4> QED BY <4>1, <4>2
    <3> QED BY <3>1, <3>2
  <2>3. stage'["bullmq"] = "started" => \A p \in asked' : consumers'["bullmq"][p] = 1
    BY <1>0, <1>1, <1>4, <1>6 DEF TrHandlers, TrType
  <2>4. stage'["pgboss"] = "started" =>
          \A p \in asked' : IF p \in registering' THEN consumers'["pgboss"][p] = 0
                                                  ELSE consumers'["pgboss"][p] = 1 \/ p \in dropped'
    BY <1>0, <1>1, <1>4, <1>6 DEF TrHandlers, TrType
  <2> QED BY <2>1, <2>2, <2>3, <2>4 DEF TrHandlers
<1> QED BY <1>7, <1>8, <1>9

\* Shutting down: what is started is closed, its consumers with it.
LEMMA TrStop == ASSUME TrLife, Transports!Stop PROVE TrLife'
<1> USE LimitsAssumption DEF TrLife
<1>0. "bullmq" \in Transports!Transport /\ "pgboss" \in Transports!Transport
      /\ \A t \in Transports!Transport : t = "bullmq" \/ t = "pgboss"
  BY DEF Transports!Transport
<1> DEFINE none == [q \in Queue |-> 0]
<1>a. none \in [Queue -> Nat] /\ \A q \in Queue : none[q] = 0 OBVIOUS
<1> HIDE DEF none
<1>1. ASSUME NEW t \in Transports!Transport, stage[t] = "started", Transports!Destroyed, Transports!Destroyed',
             stage' = [stage EXCEPT ![t] = "idle"], open' = [open EXCEPT ![t] = @ - 1],
             consumers' = [consumers EXCEPT ![t] = none],
             UNCHANGED <<gone, pending, asked, registering, dropped>>, proc' \in {"destroyed", "closed"},
             proc' = "closed" => t = "bullmq" /\ stage["pgboss"] # "started"
      PROVE  TrLife'
  <2>1. /\ stage'[t] = "idle" /\ open'[t] = open[t] - 1 /\ consumers'[t] = none /\ open[t] \in Nat /\ open[t] >= 1
        /\ \A x \in Transports!Transport : x # t => /\ stage'[x] = stage[x] /\ open'[x] = open[x]
                                                    /\ consumers'[x] = consumers[x]
    <3>1. open[t] \in Nat /\ gone \in Nat BY <1>1 DEF TrType
    <3>2. open[t] >= 1 BY <1>0, <1>1, <3>1 DEF TrOpen
    <3> QED BY <1>1, <3>1, <3>2 DEF TrType
  <2>2. TrType'
    <3>1. open[t] - 1 \in Nat BY <2>1
    <3> QED BY <1>1, <1>a, <3>1 DEF TrType, Stages
  <2>3. TrOpen' BY <1>0, <1>1, <2>1 DEF TrOpen, TrType
  <2>4. TrHandlers' BY <1>0, <1>1, <1>a, <2>1 DEF TrHandlers
  <2>5. Transports!NothingOutlivesShutdown'
    BY <1>0, <1>1, <2>1 DEF Transports!NothingOutlivesShutdown, Transports!Destroyed
  <2> QED BY <2>2, <2>3, <2>4, <2>5
<1>2. CASE Transports!PgBossStopped
  BY <1>0, <1>1, <1>2 DEF Transports!PgBossStopped, Transports!BossStopping, Transports!Destroyed, none
<1>3. CASE Transports!Shutdown
  <2>1. proc = "destroyed" /\ stage["pgboss"] # "started" /\ proc' = "closed"
    BY <1>3 DEF Transports!Shutdown, Transports!BossStopping
  <2>2. CASE stage["bullmq"] = "started"
    BY <1>0, <1>1, <1>3, <2>1, <2>2 DEF Transports!Shutdown, Transports!Destroyed, none
  <2>3. CASE stage["bullmq"] # "started"
    <3>1. UNCHANGED <<stage, open, consumers, gone, pending, asked, registering, dropped>>
      BY <1>3, <2>3 DEF Transports!Shutdown
    <3>2. TrType' /\ TrOpen' BY <2>1, <3>1 DEF TrType, TrOpen
    <3>3. TrHandlers' BY <2>1, <3>1 DEF TrHandlers, Transports!Destroyed
    <3>4. Transports!NothingOutlivesShutdown'
      BY <1>0, <2>1, <2>3, <3>1 DEF Transports!NothingOutlivesShutdown, Transports!Destroyed
    <3> QED BY <3>2, <3>3, <3>4
  <2> QED BY <2>2, <2>3
<1> QED BY <1>2, <1>3 DEF Transports!Stop

\* The old jobs, the checks, the outages.
LEMMA TrDrain == ASSUME TrJobs, Transports!Drain PROVE TrJobs'
<1> USE LimitsAssumption DEF TrJobs
<1>1. PICK j \in OldJob : Transports!RunOldJob(j) \/ Transports!OldJobEnds(j) BY DEF Transports!Drain
<1>2. UNCHANGED <<check, report>> BY <1>1 DEF Transports!RunOldJob, Transports!OldJobEnds
<1>3. CASE Transports!RunOldJob(j)
  BY <1>2, <1>3 DEF Transports!RunOldJob, Transports!CompleteIsFinal, Transports!Unfinished, OldStates
<1>4. CASE Transports!OldJobEnds(j)
  <2>0. old[j] = "active" /\ tries[j] \in Nat /\ tries[j] <= RetryLimit /\ tries[j] + 1 \in Nat
    BY <1>4 DEF Transports!OldJobEnds
  <2>1. PICK s \in {"retry", "done"} : old' = [old EXCEPT ![j] = s] BY <1>4 DEF Transports!OldJobEnds
  <2>2. old' \in [OldJob -> OldStates] BY <2>1 DEF OldStates, Transports!Unfinished
  <2>3. tries' \in [OldJob -> Nat] BY <1>4, <2>0 DEF Transports!OldJobEnds
  <2>4. \A x \in OldJob : tries'[x] <= RetryLimit + 1 /\ (old'[x] # "done" => tries'[x] <= RetryLimit)
    BY <1>4, <2>0 DEF Transports!OldJobEnds
  <2>5. Transports!CompleteIsFinal' BY <1>2, <2>0, <2>1 DEF Transports!CompleteIsFinal, Transports!Unfinished
  <2> QED BY <1>2, <2>2, <2>3, <2>4, <2>5
<1> QED BY <1>1, <1>3, <1>4

\* Stopping pg-boss hands the jobs it was running back for a retry.
LEMMA TrStopJobs == ASSUME TrJobs, Transports!PgBossStopped PROVE TrJobs'
BY DEF TrJobs, Transports!PgBossStopped, Transports!CompleteIsFinal, Transports!Unfinished, OldStates

\* The checks read the queues and change none.
LEMMA TrChecks == ASSUME TrJobs, Transports!CheckStart \/ Transports!CheckReport PROVE TrJobs'
<1> USE DEF TrJobs
<1>1. CASE Transports!CheckStart BY <1>1 DEF Transports!CheckStart, Transports!CompleteIsFinal
<1>2. CASE Transports!CheckReport
  <2> DEFINE complete == up["pgboss"] /\ \A j \in OldJob : old[j] \notin Transports!Counted
             said == CASE check = "stopped" /\ ~complete -> "degraded"
                       [] complete -> "complete"
                       [] OTHER -> IF up["pgboss"] THEN "progress" ELSE "unknown"
  <2>1. report' = said /\ check' = "idle" /\ UNCHANGED <<old, tries>> BY <1>2 DEF Transports!CheckReport
  <2>2. said \in {"unknown", "degraded", "progress", "complete"} /\ (said = "complete" => complete)
    <3> HIDE DEF complete
    <3>1. CASE complete BY <3>1
    <3>2. CASE ~complete /\ check = "stopped" BY <3>2
    <3>3. CASE ~complete /\ check # "stopped" BY <3>3
    <3> QED BY <3>1, <3>2, <3>3
  <2>3. complete => \A j \in OldJob : old[j] \notin Transports!Unfinished BY DEF Transports!Counted
  <2> HIDE DEF said, complete
  <2>4. Transports!CompleteIsFinal' BY <2>1, <2>2, <2>3 DEF Transports!CompleteIsFinal
  <2> QED BY <2>1, <2>2, <2>4
<1> QED BY <1>1, <1>2

\* The flags stay Booleans.
LEMMA TrFlagsStep == ASSUME TrFlags, Transports!Next PROVE TrFlags'
<1>1. ASSUME UNCHANGED <<up, responsive>> PROVE TrFlags' BY <1>1 DEF TrFlags
<1>2. ASSUME NEW t \in Transports!Transport, Transports!Outage(t) \/ Transports!Recovered(t) PROVE TrFlags'
  <2>1. PICK b \in BOOLEAN : up' = [up EXCEPT ![t] = b] BY <1>2, Zenon DEF Transports!Outage, Transports!Recovered
  <2>2. up' \in [Transports!Transport -> BOOLEAN] BY <2>1 DEF TrFlags
  <2>3. UNCHANGED responsive BY <1>2 DEF Transports!Outage, Transports!Recovered
  <2> QED BY <2>2, <2>3 DEF TrFlags
<1>3. CASE Transports!BullMqStarts BY <1>3, Zenon DEF TrFlags, Transports!BullMqStarts
<1>4. CASE Transports!Probe
  <2>1. "bullmq" \in Transports!Transport BY DEF Transports!Transport
  <2>2. up["bullmq"] \in BOOLEAN BY <2>1 DEF TrFlags
  <2> QED BY <1>4, <2>2, Zenon DEF TrFlags, Transports!Probe
<1>5. CASE Transports!PgBossConnected \/ Transports!PgBossStarts \/ Transports!Discarded \/ Transports!Bootstrap
  BY <1>1, <1>5 DEF Transports!PgBossConnected, Transports!PgBossStarts, Transports!Discarded, Transports!Bootstrap
<1>6. ASSUME NEW t \in Transports!Transport, Transports!ConnectFails(t) \/ Transports!Retry(t) PROVE TrFlags'
  BY <1>1, <1>6 DEF Transports!ConnectFails, Transports!Retry
<1>7. ASSUME NEW q \in Queue, Transports!RegisterPending(q) \/ Transports!Work(q) PROVE TrFlags'
  BY <1>1, <1>7 DEF Transports!RegisterPending, Transports!Work
<1>8. CASE Transports!Stop BY <1>1, <1>8 DEF Transports!Stop, Transports!PgBossStopped, Transports!Shutdown
<1>9. CASE Transports!Drain BY <1>1, <1>9 DEF Transports!Drain, Transports!RunOldJob, Transports!OldJobEnds
<1>10. CASE Transports!Destroy \/ Transports!CheckStart \/ Transports!CheckReport
  BY <1>1, <1>10 DEF Transports!Destroy, Transports!CheckStart, Transports!CheckReport
<1> QED BY <1>2, <1>3, <1>4, <1>5, <1>6, <1>7, <1>8, <1>9, <1>10
        DEF Transports!Next, Transports!StartUp, Transports!Recover

\* Together.
LEMMA TrStep == ASSUME TrLife, TrJobs, Transports!Next PROVE TrLife' /\ TrJobs'
<1>1. ASSUME UNCHANGED <<old, tries, check, report>> PROVE TrJobs' BY <1>1, TrJobsKept
<1>2. ASSUME Transports!StartUp PROVE TrLife' /\ TrJobs'
  <2>1. CASE Transports!BullMqStarts BY <1>1, <2>1, TrBullMqStarts DEF Transports!BullMqStarts
  <2>2. CASE Transports!PgBossConnected BY <1>1, <2>2, TrPgBossConnected DEF Transports!PgBossConnected
  <2>3. CASE Transports!PgBossStarts BY <1>1, <2>3, TrPgBossStarts DEF Transports!PgBossStarts
  <2>4. CASE Transports!Discarded BY <1>1, <2>4, TrDiscarded DEF Transports!Discarded
  <2>5. CASE Transports!Bootstrap BY <1>1, <2>5, TrHooks DEF Transports!Bootstrap
  <2>6. ASSUME NEW t \in Transports!Transport, Transports!ConnectFails(t) PROVE TrLife' /\ TrJobs'
    BY <1>1, <2>6, TrConnectFails DEF Transports!ConnectFails
  <2>7. ASSUME NEW t \in Transports!Transport, Transports!Retry(t) PROVE TrLife' /\ TrJobs'
    BY <1>1, <2>7, TrRetry DEF Transports!Retry
  <2>8. ASSUME NEW q \in Queue, Transports!RegisterPending(q) PROVE TrLife' /\ TrJobs'
    BY <1>1, <2>8, TrRegisterPending DEF Transports!RegisterPending
  <2>9. ASSUME NEW q \in Queue, Transports!Work(q) PROVE TrLife' /\ TrJobs'
    BY <1>1, <2>9, TrWork DEF Transports!Work
  <2> QED BY <1>2, <2>1, <2>2, <2>3, <2>4, <2>5, <2>6, <2>7, <2>8, <2>9 DEF Transports!StartUp
<1>3. CASE Transports!Stop
  <2>1. CASE Transports!PgBossStopped BY <1>3, <2>1, TrStop, TrStopJobs
  <2>2. CASE Transports!Shutdown BY <1>1, <1>3, <2>2, TrStop DEF Transports!Shutdown
  <2> QED BY <1>3, <2>1, <2>2 DEF Transports!Stop
<1>4. CASE Transports!Drain
  <2>1. UNCHANGED lifecycle
    BY <1>4 DEF Transports!Drain, Transports!RunOldJob, Transports!OldJobEnds, Transports!lifecycle, lifecycle
  <2> QED BY <1>4, <2>1, TrDrain, TrLifeKept
<1>5. CASE Transports!Destroy BY <1>1, <1>5, TrHooks DEF Transports!Destroy
<1>6. CASE Transports!CheckStart \/ Transports!CheckReport
  <2>1. UNCHANGED lifecycle BY <1>6 DEF Transports!CheckStart, Transports!CheckReport, Transports!lifecycle, lifecycle
  <2> QED BY <1>6, <2>1, TrChecks, TrLifeKept
<1>7. CASE Transports!Probe
  <2>1. UNCHANGED lifecycle BY <1>7 DEF Transports!Probe, Transports!lifecycle, lifecycle
  <2> QED BY <1>1, <1>7, <2>1, TrLifeKept DEF Transports!Probe
<1>8. ASSUME NEW t \in Transports!Transport, Transports!Outage(t) \/ Transports!Recovered(t) PROVE TrLife' /\ TrJobs'
  <2>1. UNCHANGED lifecycle BY <1>8 DEF Transports!Outage, Transports!Recovered, Transports!lifecycle, lifecycle
  <2> QED BY <1>1, <1>8, <2>1, TrLifeKept DEF Transports!Outage, Transports!Recovered
<1> QED BY <1>2, <1>3, <1>4, <1>5, <1>6, <1>7, <1>8 DEF Transports!Next, Transports!Recover

\* At the start.
LEMMA TrInit == Init => TrInv
<1> SUFFICES ASSUME Transports!Init PROVE TrInv BY DEF Init
<1> USE LimitsAssumption DEF Transports!Init
<1>1. TrType BY DEF TrType, Stages
<1>2. TrOpen BY DEF TrOpen, Transports!Transport
<1>3. TrHandlers BY DEF TrHandlers, Transports!Destroyed, Transports!Transport
<1>4. Transports!NothingOutlivesShutdown BY DEF Transports!NothingOutlivesShutdown, Transports!Destroyed
<1>5. TrJobs BY DEF TrJobs, OldStates, Transports!Unfinished, Transports!CompleteIsFinal
<1>6. TrFlags BY DEF TrFlags
<1> QED BY <1>1, <1>2, <1>3, <1>4, <1>5, <1>6 DEF TrInv, TrLife

\* The invariant of the two transports.
LEMMA TransportsInvariant == FairSpec => []TrInv
<1>1. TrInv /\ [Next]_vars => TrInv'
  <2>1. ASSUME TrInv, UNCHANGED tvars PROVE TrInv'
    <3>1. TrLife' BY <2>1, TrLifeKept DEF tvars, TrInv, lifecycle
    <3>2. TrJobs' BY <2>1, TrJobsKept DEF tvars, TrInv
    <3> QED BY <2>1, <3>1, <3>2 DEF TrInv, TrFlags, tvars
  <2>2. ASSUME TrInv, Transports!Next PROVE TrInv' BY <2>2, TrStep, TrFlagsStep DEF TrInv
  <2> QED BY <2>1, <2>2 DEF Next, vars
<1> QED BY <1>1, TrInit, PTL DEF FairSpec

\* However late Redis or pg-boss starts, and however work() and the shutdown interleave with
\* it, a handler is registered once and nothing is left running after the last hook.
THEOREM HandlersAreRegisteredOnce == FairSpec => []TransportsSound
<1>1. TrInv => TransportsSound
  <2> SUFFICES ASSUME TrInv PROVE TransportsSound OBVIOUS
  <2> USE LimitsAssumption DEF TrInv, TrLife
  <2>1. Transports!RegisteredOnce BY DEF TrHandlers, Transports!RegisteredOnce, TrType, Transports!Transport
  <2>2. Transports!TypeOK
    <3>1. open \in [Transports!Transport -> 0 .. MaxOpen] /\ gone \in 0 .. MaxOpen
      <4>1. open["bullmq"] \in 0 .. MaxOpen BY DEF TrOpen
      <4>2. open["pgboss"] \in 0 .. MaxOpen /\ gone \in 0 .. MaxOpen BY DEF TrType, TrOpen
      <4> QED BY <4>1, <4>2 DEF TrType, Transports!Transport
    <3>2. consumers \in [Transports!Transport -> [Queue -> 0 .. 2]]
      <4>a. \A t \in Transports!Transport, q \in Queue : consumers[t][q] \in Nat /\ consumers[t][q] <= 1
        BY DEF TrType, TrHandlers
      <4>1. \A t \in Transports!Transport, q \in Queue : consumers[t][q] \in 0 .. 2 BY <4>a
      <4>2. \A t \in Transports!Transport : consumers[t] \in [Queue -> 0 .. 2] BY <4>1 DEF TrType
      <4> QED BY <4>2 DEF TrType
    <3>3. tries \in [OldJob -> 0 .. RetryLimit + 1] BY DEF TrJobs
    <3>4. {asked, registering, dropped} \subseteq SUBSET Queue BY DEF TrType
    <3>5. stage \in [Transports!Transport -> {"idle", "timer", "connecting", "creating", "started"}]
      BY DEF TrType, Stages
    <3>6. old \in [OldJob -> Transports!Unfinished \cup {"done"}] BY DEF TrJobs, OldStates
    <3>7. up \in [Transports!Transport -> BOOLEAN] /\ responsive \in BOOLEAN BY DEF TrFlags
    <3>8. /\ proc \in {"boot", "on", "destroyed", "closed"} /\ pending \in [Transports!Transport -> SUBSET Queue]
          /\ check \in {"idle", "running", "stopped"}
          /\ report \in {"none", "unknown", "degraded", "progress", "complete"}
      BY DEF TrType, TrJobs
    <3> QED BY <3>1, <3>2, <3>3, <3>4, <3>5, <3>6, <3>7, <3>8, Zenon DEF Transports!TypeOK
  <2> QED BY <2>1, <2>2 DEF TransportsSound
<1> QED BY <1>1, TransportsInvariant, PTL

\* What the worker says of itself is true: the drain monitor's report, the heartbeat file and
\* the alerts of the reconciliation, in every state the worker can reach.
THEOREM WorkerReportsAreTrue == FairSpec => []ReportsAreTrue
<1>1. TrInv => Transports!CompleteIsFinal BY DEF TrInv, TrJobs
<1>2. HbInv /\ HbFlags => Heartbeat!TypeOK /\ Heartbeat!FreshMeansServed /\ Heartbeat!HealthyIsFresh
  <2> SUFFICES ASSUME HbInv, HbFlags
               PROVE  Heartbeat!TypeOK /\ Heartbeat!FreshMeansServed /\ Heartbeat!HealthyIsFresh
    OBVIOUS
  <2>1. Heartbeat!TypeOK
    <3>1. /\ {file, stamp, beat, served} \subseteq 0 .. Heartbeat!Never /\ life \in {"off", "on", "stopping"}
          /\ timer \in 0 .. Interval /\ healthyFor \in 0 .. Heartbeat!Cap /\ blocked \in 0 .. MaxBlocked
      BY HbBounds DEF HbInv, HbType
    <3>2. {queueUp, dbUp} \subseteq BOOLEAN BY Zenon DEF HbFlags
    <3> QED BY <3>1, <3>2, Zenon DEF Heartbeat!TypeOK
  <2>2. Heartbeat!FreshMeansServed
    BY HbBounds DEF HbInv, HbType, HbServed, Heartbeat!FreshMeansServed, Heartbeat!isHeartbeatFresh
  <2>3. Heartbeat!HealthyIsFresh
    BY HbBounds DEF HbInv, HbType, HbHealthy, Heartbeat!HealthyIsFresh, Heartbeat!isHeartbeatFresh
  <2> QED BY <2>1, <2>2, <2>3
<1>3. RecInv /\ RecFlags => Reconciliation!TypeOK /\ Reconciliation!AlertIsReal
  <2> SUFFICES ASSUME RecInv, RecFlags PROVE Reconciliation!TypeOK /\ Reconciliation!AlertIsReal OBVIOUS
  <2>1. {undone, held, lost, candidates, found, alerted} \subseteq SUBSET Event BY DEF RecInv
  <2>2. {running, checking} \subseteq BOOLEAN BY Zenon DEF RecFlags
  <2>3. Reconciliation!TypeOK BY <2>1, <2>2, Zenon DEF Reconciliation!TypeOK, RecInv
  <2> QED BY <2>3 DEF RecInv, Reconciliation!AlertIsReal
<1>4. TrInv /\ (HbInv /\ HbFlags) /\ (RecInv /\ RecFlags) => ReportsAreTrue
  BY <1>1, <1>2, <1>3 DEF ReportsAreTrue
<1> QED BY <1>4, TransportsInvariant, HeartbeatIsTrue, AlertsAreReal, PTL
=============================================================================
