--------------------------- MODULE JobTransports ---------------------------
(***************************************************************************)
(* The two job transports of a worker while pg-boss drains: BullMQ takes   *)
(* every new job, pg-boss only runs the jobs it already holds.  Each one   *)
(* starts on its own, retries a failed start in the background, registers  *)
(* the handlers that were asked for before it ran, and closes what it      *)
(* opened, also when the worker is shut down while a start is in flight.   *)
(*                                                                         *)
(* stage[t] is how far the transport is: "timer" waits for the next        *)
(* attempt, "connecting" and "creating" are the two awaits of an attempt,  *)
(* "started" means that producer / boss is set.  open[t] counts the        *)
(* connections or pg-boss instances that are not closed.  The worker goes  *)
(* through Nest's hooks: boot (onModuleInit), on (onApplicationBootstrap), *)
(* destroyed (onModuleDestroy), closed (beforeApplicationShutdown).        *)
(***************************************************************************)
EXTENDS Naturals, FiniteSets

CONSTANTS
    Queue,        \* queues with a handler
    OldJob,       \* jobs pg-boss holds from before the cutover: <<queue, number>>
    RetryLimit,   \* QUEUE_CONFIGS[..].retryLimit of the drained jobs
    MaxOpen,      \* bound on pg-boss instances that wait for their stop()
    MaxFaults     \* bound on outages, slow starts and failed jobs

VARIABLES
    proc,         \* hook the worker has reached
    stage, open,  \* per transport
    gone,         \* pg-boss instances whose stop() is under way (discard)
    pending,      \* pendingWorkers, per transport
    asked,        \* queues whose work() was called
    registering,  \* handlers registerPendingWorkers of pg-boss still has to register
    consumers,    \* consumers per transport and queue
    dropped,      \* handlers whose registration failed and was logged
    up,           \* whether Redis / the database answers, per transport
    responsive,   \* BullMQ: the last probe or send was answered
    old,          \* state of each pg-boss job
    tries,        \* failed attempts of each pg-boss job
    check,        \* the drain monitor's check: drainRunning as read, or "idle"
    report,       \* what the monitor last reported
    faults

vars == <<proc, stage, open, gone, pending, asked, registering, consumers, dropped,
          up, responsive, old, tries, check, report, faults>>

lifecycle == <<proc, stage, open, gone, pending, asked, registering, consumers, dropped>>

Transport == {"bullmq", "pgboss"}
Unfinished == {"created", "active", "retry"}

Destroyed == proc \in {"destroyed", "closed"}

BossStopping == proc = "destroyed" /\ stage["pgboss"] = "started"

(* BullMqJobQueue.isRunning *)
BullMqRunning == ~Destroyed /\ responsive /\ stage["bullmq"] = "started" /\ up["bullmq"]

(* PgBossService.isRunning *)
PgBossRunning == stage["pgboss"] = "started"

Fault == faults < MaxFaults /\ faults' = faults + 1

Init ==
    /\ proc = "boot"
    /\ stage = [t \in Transport |-> "connecting"]
    /\ open = [t \in Transport |-> 1]
    /\ gone = 0
    /\ pending = [t \in Transport |-> {}]
    /\ asked = {} /\ registering = {} /\ dropped = {}
    /\ consumers = [t \in Transport |-> [q \in Queue |-> 0]]
    /\ up = [t \in Transport |-> TRUE]
    /\ responsive = FALSE
    /\ old = [j \in OldJob |-> "created"]
    /\ tries = [j \in OldJob |-> 0]
    /\ check = "idle" /\ report = "none" /\ faults = 0

----------------------------------------------------------------------------
(* Starting.  A failed attempt closes its connection and schedules the     *)
(* next one unless the worker is being shut down.                          *)

DiscardForgotten == 0
Discarding == 1

AfterFailureAlways(t) == "timer"
AfterFailureNever(t) == "idle"
AfterFailure(t) == IF Destroyed THEN "idle" ELSE "timer"

ConnectFails(t) ==
    /\ stage[t] = "connecting"
    /\ \/ ~up[t] /\ UNCHANGED faults
       \/ Fault                              \* slower than the start timeout
    /\ stage' = [stage EXCEPT ![t] = AfterFailure(t)]
    /\ IF t = "bullmq"
         THEN open' = [open EXCEPT ![t] = @ - 1] /\ UNCHANGED gone   \* disconnect()
         ELSE gone' = gone + Discarding /\ UNCHANGED open            \* void discard(boss)
    /\ UNCHANGED <<proc, pending, asked, registering, consumers, dropped, up, responsive,
                   old, tries, check, report>>

(* BullMQ connected: its attempt closes itself when it was overtaken by a  *)
(* shutdown, else it becomes the producer and registers what is pending.   *)

ConsumersAfter(t, qs) == [consumers EXCEPT ![t] = [q \in Queue |-> @[q] + IF q \in qs THEN 1 ELSE 0]]

BullMqStarts ==
    /\ stage["bullmq"] = "connecting" /\ up["bullmq"]
    /\ IF Destroyed
         THEN /\ stage' = [stage EXCEPT !["bullmq"] = "idle"]
              /\ open' = [open EXCEPT !["bullmq"] = @ - 1]
              /\ UNCHANGED <<responsive, pending, consumers>>
         ELSE /\ stage' = [stage EXCEPT !["bullmq"] = "started"]
              /\ responsive' = TRUE
              /\ consumers' = ConsumersAfter("bullmq", pending["bullmq"])
              /\ pending' = [pending EXCEPT !["bullmq"] = {}]
              /\ UNCHANGED open
    /\ UNCHANGED <<proc, gone, asked, registering, dropped, up, old, tries, check, report, faults>>

(* boss.start() returned; createQueues runs, its failures are only logged. *)
PgBossConnected ==
    /\ stage["pgboss"] = "connecting" /\ up["pgboss"]
    /\ stage' = [stage EXCEPT !["pgboss"] = "creating"]
    /\ UNCHANGED <<proc, open, gone, pending, asked, registering, consumers, dropped, up,
                   responsive, old, tries, check, report, faults>>

PgBossStarts ==
    /\ stage["pgboss"] = "creating"
    /\ IF Destroyed
         THEN /\ stage' = [stage EXCEPT !["pgboss"] = "idle"]
              /\ gone' = gone + 1
              /\ UNCHANGED <<registering, pending>>
         ELSE /\ stage' = [stage EXCEPT !["pgboss"] = "started"]
              /\ registering' = pending["pgboss"]
              /\ pending' = [pending EXCEPT !["pgboss"] = {}]
              /\ UNCHANGED gone
    /\ UNCHANGED <<proc, open, asked, consumers, dropped, up, responsive, old, tries, check,
                   report, faults>>

(* registerPendingWorkers awaits each registration; a failure is logged.   *)
RegisterPending(q) ==
    /\ q \in registering
    /\ registering' = registering \ {q}
    /\ \/ /\ stage["pgboss"] = "started" /\ up["pgboss"]
          /\ consumers' = ConsumersAfter("pgboss", {q})
          /\ UNCHANGED <<dropped, faults>>
       \/ /\ stage["pgboss"] # "started" \/ ~up["pgboss"]
          /\ dropped' = dropped \cup {q}
          /\ UNCHANGED <<consumers, faults>>
    /\ UNCHANGED <<proc, stage, open, gone, pending, asked, up, responsive, old, tries, check,
                   report>>

(* The retry timer: it clears itself and starts another attempt.           *)
Retry(t) ==
    /\ stage[t] = "timer" /\ open[t] < MaxOpen
    /\ stage' = [stage EXCEPT ![t] = "connecting"]
    /\ open' = [open EXCEPT ![t] = @ + 1]
    /\ UNCHANGED <<proc, gone, pending, asked, registering, consumers, dropped, up, responsive,
                   old, tries, check, report, faults>>

(* discard: boss.stop() waits for the attempt it belongs to, then ends.    *)
Discarded ==
    /\ gone > 0
    /\ gone' = gone - 1
    /\ open' = [open EXCEPT !["pgboss"] = @ - 1]
    /\ UNCHANGED <<proc, stage, pending, asked, registering, consumers, dropped, up, responsive,
                   old, tries, check, report, faults>>

----------------------------------------------------------------------------
(* The worker's hooks.  Boot ends once both first attempts ended.          *)

Bootstrap ==
    /\ proc = "boot"
    /\ \A t \in Transport : stage[t] \in {"timer", "started"}
    /\ proc' = "on"
    /\ UNCHANGED <<stage, open, gone, pending, asked, registering, consumers, dropped, up,
                   responsive, old, tries, check, report, faults>>

(* DrainingJobQueue.work: the handler goes to both transports; one that is *)
(* not started keeps it.  A pg-boss registration that fails is only logged.*)
DeferredIfDown(t) == stage[t] # "started" \/ ~up[t]
Deferred(t) == stage[t] # "started"

Work(q) ==
    /\ proc = "on" /\ q \notin asked
    /\ asked' = asked \cup {q}
    /\ pending' = [t \in Transport |-> pending[t] \cup IF Deferred(t) THEN {q} ELSE {}]
    /\ LET refused == ~Deferred("pgboss") /\ ~up["pgboss"] IN
         /\ dropped' = IF refused THEN dropped \cup {q} ELSE dropped
         /\ consumers' = [t \in Transport |-> [p \in Queue |->
              consumers[t][p] + IF /\ p = q /\ ~Deferred(t)
                                   /\ t = "bullmq" \/ ~refused THEN 1 ELSE 0]]
    /\ UNCHANGED <<proc, stage, open, gone, registering, up, responsive, old, tries, check,
                   report, faults>>

(* onModuleDestroy of both: the flag, the timers, and a graceful stop of a *)
(* started pg-boss, which waits for its active jobs.                       *)
TimersCleared(t) == IF stage[t] = "timer" THEN "idle" ELSE stage[t]

Destroy ==
    /\ proc = "on"
    /\ proc' = "destroyed"
    /\ stage' = [t \in Transport |-> TimersCleared(t)]
    /\ UNCHANGED <<open, gone, pending, asked, registering, consumers, dropped, up, responsive,
                   old, tries, check, report, faults>>

PgBossStopped ==
    /\ BossStopping
    /\ stage' = [stage EXCEPT !["pgboss"] = "idle"]
    /\ open' = [open EXCEPT !["pgboss"] = @ - 1]
    /\ consumers' = [consumers EXCEPT !["pgboss"] = [q \in Queue |-> 0]]
    /\ old' = [j \in OldJob |-> IF old[j] = "active" THEN "retry" ELSE old[j]]
    /\ UNCHANGED <<proc, gone, pending, asked, registering, dropped, up, responsive, tries,
                   check, report, faults>>

(* beforeApplicationShutdown: workers, queues and the producer.            *)
Shutdown ==
    /\ proc = "destroyed" /\ ~BossStopping
    /\ proc' = "closed"
    /\ IF stage["bullmq"] = "started"
         THEN /\ stage' = [stage EXCEPT !["bullmq"] = "idle"]
              /\ open' = [open EXCEPT !["bullmq"] = @ - 1]
              /\ consumers' = [consumers EXCEPT !["bullmq"] = [q \in Queue |-> 0]]
         ELSE UNCHANGED <<stage, open, consumers>>
    /\ UNCHANGED <<gone, pending, asked, registering, dropped, up, responsive, old, tries,
                   check, report, faults>>

----------------------------------------------------------------------------
(* Outages and BullMQ's view of them.                                      *)

Outage(t) ==
    /\ up[t] /\ Fault
    /\ up' = [up EXCEPT ![t] = FALSE]
    /\ UNCHANGED <<lifecycle, responsive, old, tries, check, report>>

Recovered(t) ==
    /\ ~up[t]
    /\ up' = [up EXCEPT ![t] = TRUE]
    /\ UNCHANGED <<lifecycle, responsive, old, tries, check, report, faults>>

(* probe, the reconnecting event and a failed send all set responsive.     *)
Probe ==
    /\ stage["bullmq"] = "started" /\ ~Destroyed
    /\ responsive # up["bullmq"]
    /\ responsive' = up["bullmq"]
    /\ UNCHANGED <<lifecycle, up, old, tries, check, report, faults>>

----------------------------------------------------------------------------
(* The old jobs, and the monitor that counts them.                         *)

RunOldJob(j) ==
    /\ old[j] \in {"created", "retry"}
    /\ stage["pgboss"] = "started" /\ up["pgboss"] /\ ~Destroyed
    /\ consumers["pgboss"][j[1]] > 0
    /\ old' = [old EXCEPT ![j] = "active"]
    /\ UNCHANGED <<lifecycle, up, responsive, tries, check, report, faults>>

OldJobEnds(j) ==
    /\ old[j] = "active"
    /\ \/ old' = [old EXCEPT ![j] = "done"] /\ UNCHANGED <<tries, faults>>
       \/ /\ Fault                            \* the handler threw, or the job expired
          /\ tries' = [tries EXCEPT ![j] = @ + 1]
          /\ old' = [old EXCEPT ![j] = IF tries[j] < RetryLimit THEN "retry" ELSE "done"]
    /\ UNCHANGED <<lifecycle, up, responsive, check, report>>

(* check: drainRunning is read before the count is awaited.                *)
CheckStart ==
    /\ proc = "on" /\ check = "idle"
    /\ check' = IF PgBossRunning THEN "running" ELSE "stopped"
    /\ UNCHANGED <<lifecycle, up, responsive, old, tries, report, faults>>

CountedWithoutRetry == {"created", "active"}
Counted == Unfinished

CheckReport ==
    /\ check # "idle"
    /\ LET complete == up["pgboss"] /\ \A j \in OldJob : old[j] \notin Counted IN
         report' = CASE check = "stopped" /\ ~complete -> "degraded"
                     [] complete -> "complete"
                     [] OTHER -> IF up["pgboss"] THEN "progress" ELSE "unknown"
    /\ check' = "idle"
    /\ UNCHANGED <<lifecycle, up, responsive, old, tries, faults>>

Recover == \E t \in Transport : Recovered(t)
StartUp == \/ BullMqStarts \/ PgBossConnected \/ PgBossStarts \/ Discarded \/ Bootstrap
           \/ \E t \in Transport : ConnectFails(t) \/ Retry(t)
           \/ \E q \in Queue : RegisterPending(q) \/ Work(q)
Drain == \E j \in OldJob : RunOldJob(j) \/ OldJobEnds(j)
Stop == PgBossStopped \/ Shutdown

Next == \/ StartUp \/ Stop \/ Recover \/ Drain \/ Destroy \/ Probe \/ CheckStart \/ CheckReport
        \/ \E t \in Transport : Outage(t)

Spec == Init /\ [][Next]_vars

----------------------------------------------------------------------------
TypeOK ==
    /\ proc \in {"boot", "on", "destroyed", "closed"}
    /\ stage \in [Transport -> {"idle", "timer", "connecting", "creating", "started"}]
    /\ open \in [Transport -> 0 .. MaxOpen] /\ gone \in 0 .. MaxOpen
    /\ pending \in [Transport -> SUBSET Queue]
    /\ {asked, registering, dropped} \subseteq SUBSET Queue
    /\ consumers \in [Transport -> [Queue -> 0 .. 2]]
    /\ up \in [Transport -> BOOLEAN] /\ responsive \in BOOLEAN
    /\ old \in [OldJob -> Unfinished \cup {"done"}] /\ tries \in [OldJob -> 0 .. RetryLimit + 1]
    /\ check \in {"idle", "running", "stopped"}
    /\ report \in {"none", "unknown", "degraded", "progress", "complete"}

(* However late a transport starts and however work() interleaves with it, *)
(* a handler ends up registered exactly once: a transport that runs has    *)
(* one consumer for every handler asked for, except those whose            *)
(* registration failed and was logged.                                     *)
RegisteredOnce ==
    /\ \A t \in Transport, q \in Queue : consumers[t][q] <= 1
    /\ \A t \in Transport : stage[t] = "started" /\ ~Destroyed =>
         \A q \in asked : \/ consumers[t][q] = 1
                          \/ t = "pgboss" /\ q \in registering \cup dropped

(* Nothing starts again once the worker is being shut down: no retry timer *)
(* is set, by an attempt that fails later either, and after the last hook  *)
(* no transport is started that nobody would close.                        *)
NothingOutlivesShutdown ==
    /\ Destroyed => \A t \in Transport : stage[t] # "timer"
    /\ proc = "closed" => \A t \in Transport : stage[t] # "started"

(* "complete" is only reported of a drain that is complete, and stays so:  *)
(* pg-boss takes no new job, and a job waiting for a retry counts.         *)
CompleteIsFinal == report = "complete" => \A j \in OldJob : old[j] \notin Unfinished

(* A worker that keeps running drains pg-boss: every old job comes to an   *)
(* end unless a handler's registration was lost.                           *)
EventuallyDrained == <>(\/ Destroyed \/ dropped # {}
                        \/ \A j \in OldJob : old[j] \notin Unfinished)

(* After shutdown every connection is closed, also of an attempt that was  *)
(* in flight.                                                              *)
EventuallyClosed == Destroyed ~> \A t \in Transport : open[t] = 0
=============================================================================
