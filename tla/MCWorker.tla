------------------------------ MODULE MCWorker ------------------------------
(***************************************************************************)
(* The parts of a worker process that do not touch each other's state, in  *)
(* one run: `part' says which of them this behaviour is about.             *)
(***************************************************************************)
EXTENDS Naturals, FiniteSets

CONSTANTS Queue, RetryLimit, MaxOpen, MaxFaults, Interval, PingTimeout, MaxAge, MaxBlocked,
          Event, CandidateLimit, MaxLost, Caller, maxRetries, MaxFault

\* The code's limits: 3 retries of a transaction, a beat every 10 s that pings for at most 5 s
\* and counts for 30 s.
ASSUME LimitsAssumption ==
    /\ maxRetries \in Nat /\ MaxFault \in Nat /\ RetryLimit \in Nat /\ MaxOpen \in Nat \ {0}
    /\ Interval \in Nat /\ PingTimeout \in Nat \ {0} /\ MaxAge \in Nat /\ MaxBlocked \in Nat
    /\ Interval <= MaxAge

VARIABLES part,
    proc, stage, open, gone, pending, asked, registering, consumers, dropped, up, responsive,
    old, tries, check, report, faults,
    life, file, stamp, beat, timer, queueUp, dbUp, served, healthyFor, blocked,
    age, undone, held, lost, running, candidates, found, checking, alerted,
    order, attempt, pc, err, lock, dirty, writes, delay, unanswered, mishaps

OldJob == {CHOOSE q \in Queue : TRUE} \X {1}
Drained == {1}

Transports == INSTANCE JobTransports
Heartbeat == INSTANCE WorkerHeartbeat
Reconciliation == INSTANCE OutboxReconciliation
Tx == INSTANCE Transactions WITH lost <- unanswered, faults <- mishaps

tvars == <<proc, stage, open, gone, pending, asked, registering, consumers, dropped, up,
           responsive, old, tries, check, report, faults>>
hvars == <<life, file, stamp, beat, timer, queueUp, dbUp, served, healthyFor, blocked>>
rvars == <<age, undone, held, lost, running, candidates, found, checking, alerted>>
xvars == <<order, attempt, pc, err, lock, dirty, writes, delay, unanswered, mishaps>>
vars == <<part, tvars, hvars, rvars, xvars>>

Init ==
    /\ part \in {"transports", "heartbeat", "reconciliation", "transactions"}
    /\ Transports!Init /\ Heartbeat!Init /\ Reconciliation!Init
    /\ Tx!Init /\ (part = "transactions" \/ order = [c \in Caller |-> "a"])

Next ==
    /\ UNCHANGED part
    /\ \/ /\ part = "transports" /\ Transports!Next
          /\ UNCHANGED <<hvars, rvars, xvars>>
       \/ /\ part = "heartbeat" /\ Heartbeat!Next
          /\ UNCHANGED <<tvars, rvars, xvars>>
       \/ /\ part = "reconciliation" /\ Reconciliation!Next
          /\ UNCHANGED <<tvars, hvars, xvars>>
       \/ /\ part = "transactions" /\ Tx!Next
          /\ UNCHANGED <<tvars, hvars, rvars>>

(* Timers fire, attempts and calls end, outages end and jobs are run.      *)
Fairness ==
    /\ WF_tvars(part = "transports" /\ Transports!Bootstrap)
    /\ WF_tvars(part = "transports" /\ Transports!Discarded)
    /\ \A q \in Queue : /\ WF_tvars(part = "transports" /\ Transports!RegisterPending(q))
                        /\ WF_tvars(part = "transports" /\ Transports!Work(q))
    /\ \A t \in {"bullmq", "pgboss"} :
         /\ WF_tvars(part = "transports" /\ Transports!Recovered(t))
         /\ WF_tvars(part = "transports" /\ Transports!Retry(t))
         /\ WF_tvars(part = "transports" /\ Transports!ConnectFails(t))
    /\ WF_tvars(part = "transports" /\ Transports!BullMqStarts)
    /\ WF_tvars(part = "transports" /\ Transports!PgBossConnected)
    /\ WF_tvars(part = "transports" /\ Transports!PgBossStarts)
    /\ WF_tvars(part = "transports" /\ Transports!Stop)
    /\ WF_tvars(part = "transports" /\ Transports!Drain)
    /\ WF_rvars(part = "reconciliation" /\ Reconciliation!Alert)
    /\ WF_rvars(part = "reconciliation" /\ Reconciliation!RedisUp)
    /\ SF_rvars(part = "reconciliation" /\ Reconciliation!Select)
    /\ \A e \in Event :
         /\ WF_rvars(part = "reconciliation" /\ Reconciliation!JobRuns(e))
         /\ WF_rvars(part = "reconciliation" /\ Reconciliation!GrowsStale(e))
         /\ SF_rvars(part = "reconciliation" /\ Reconciliation!HasJob(e))

FairSpec == Init /\ [][Next]_vars /\ Fairness

(* Every handler that was asked for is registered exactly once, and after a shutdown there is    *)
(* no retry timer and no started transport, whatever was in flight.                              *)
TransportsSound ==
    Transports!TypeOK /\ Transports!RegisteredOnce /\ Transports!NothingOutlivesShutdown

(* What the worker says of itself is true: the drain is complete when it is reported complete, a *)
(* fresh heartbeat means that this process could work not long ago and a worker that can work is *)
(* not reported unhealthy, and an alert is about a job that BullMQ does not have.                *)
ReportsAreTrue ==
    /\ Transports!CompleteIsFinal
    /\ Heartbeat!TypeOK /\ Heartbeat!FreshMeansServed /\ Heartbeat!HealthyIsFresh
    /\ Reconciliation!TypeOK /\ Reconciliation!AlertIsReal

(* A transaction that is retried takes effect once, on all of its rows, and a conflict is given  *)
(* up only after all configured attempts.                                                        *)
TransactionsAtomic ==
    part = "transactions" => Tx!TypeOK /\ Tx!AllOrNothing /\ Tx!TriesAsConfigured

(* The jobs of before the cutover are all run, shutdown closes every connection, also those of   *)
(* attempts in flight, and the reconciliation finds every lost job.                              *)
WorkerProgress ==
    /\ part = "transports" => Transports!EventuallyDrained
    /\ Transports!EventuallyClosed
    /\ Reconciliation!LostIsAlerted
=============================================================================
