-------------------------- MODULE WorkerHeartbeat --------------------------
(***************************************************************************)
(* The heartbeat file a worker writes and the container health check       *)
(* reads.  A beat looks at the job queue, pings the database with a        *)
(* timeout and then writes the file; the file counts while it is younger   *)
(* than MaxAge.  Time is relative: ages grow with Tick and are capped.     *)
(* `served' is the time since this process last found its queue running    *)
(* and its database answering, which is what a fresh heartbeat stands for. *)
(***************************************************************************)
EXTENDS Naturals

CONSTANTS
    Interval,      \* HEARTBEAT_INTERVAL_MS
    PingTimeout,   \* DB_PING_TIMEOUT_MS
    MaxAge,        \* HEARTBEAT_MAX_AGE_MS
    MaxBlocked     \* bound on the time the event loop is blocked

VARIABLES
    life,      \* "off", "on" or "stopping" (after onModuleDestroy)
    file,      \* age of the stamp in the heartbeat file; Never when there is none
    stamp,     \* age of the stamp a write under way carries; Never when none is
    beat,      \* time the beat's ping has taken; Never when no beat is under way
    timer,     \* time until the next beat
    queueUp, dbUp,  \* whether the queue runs and the database answers
    served,    \* time since a beat of this process saw both
    healthyFor,\* how long both have been up and the event loop unblocked
    blocked    \* time the event loop may still be blocked

vars == <<life, file, stamp, beat, timer, queueUp, dbUp, served, healthyFor, blocked>>

Cap == MaxAge + PingTimeout + MaxBlocked + 1
Never == Cap + 1
Older(age) == IF age >= Cap THEN age ELSE age + 1

Init ==
    /\ life = "off" /\ file = Never /\ stamp = Never /\ beat = Never /\ timer = 0
    /\ queueUp = TRUE /\ dbUp = TRUE
    /\ served = Never /\ healthyFor = 0 /\ blocked = MaxBlocked

(* isHeartbeatFresh, as the health check calls it. *)
FreshOneBeat == file # Never /\ file < Interval
isHeartbeatFresh == file # Never /\ file <= MaxAge

----------------------------------------------------------------------------
(* onModuleInit: what an earlier process left is removed, the first beat   *)
(* is started and the timer set.                                           *)
LeftBehind == file
ClearedFirst == Never

Boot ==
    /\ life = "off"
    /\ life' = "on" /\ file' = ClearedFirst
    /\ timer' = 0 /\ served' = Never /\ healthyFor' = 0
    /\ UNCHANGED <<stamp, beat, queueUp, dbUp, blocked>>

(* beat, up to the ping: a queue that does not run ends it.                *)
NextBeatLate == 2 * Interval
NextBeat == Interval

BeatStarts ==
    /\ life = "on" /\ timer = 0 /\ beat = Never /\ stamp = Never
    /\ timer' = NextBeat
    /\ beat' = IF queueUp THEN 0 ELSE Never
    /\ UNCHANGED <<life, file, stamp, queueUp, dbUp, served, healthyFor, blocked>>

(* The database answered within the timeout: writeHeartbeat takes the time *)
(* and writes the temporary file.                                          *)
PingAnswered ==
    /\ beat # Never /\ dbUp
    /\ beat' = Never /\ stamp' = 0
    /\ served' = beat              \* the queue was seen running when the beat started
    /\ UNCHANGED <<life, file, timer, queueUp, dbUp, healthyFor, blocked>>

PingTimedOut ==
    /\ beat # Never /\ beat >= PingTimeout
    /\ beat' = Never
    /\ UNCHANGED <<life, file, stamp, timer, queueUp, dbUp, served, healthyFor, blocked>>

(* The rename makes the stamp visible; it may come after clearHeartbeat.   *)
Renamed ==
    /\ stamp # Never
    /\ file' = stamp /\ stamp' = Never
    /\ UNCHANGED <<life, beat, timer, queueUp, dbUp, served, healthyFor, blocked>>

(* onModuleDestroy: the timer ends and the file goes.                      *)
Destroy ==
    /\ life = "on"
    /\ life' = "stopping" /\ file' = Never /\ timer' = 0 /\ healthyFor' = 0
    /\ UNCHANGED <<stamp, beat, queueUp, dbUp, served, blocked>>

(* The process ends, on its own or killed; what it was doing ends with it. *)
Exit ==
    /\ life # "off"
    /\ life' = "off" /\ beat' = Never /\ stamp' = Never /\ timer' = 0
    /\ served' = Never /\ healthyFor' = 0
    /\ UNCHANGED <<file, queueUp, dbUp, blocked>>

Flap ==
    /\ \/ queueUp' = ~queueUp /\ UNCHANGED dbUp
       \/ dbUp' = ~dbUp /\ UNCHANGED queueUp
    /\ healthyFor' = 0
    /\ UNCHANGED <<life, file, stamp, beat, timer, served, blocked>>

(* Time passes.  With the event loop free, a due beat, an answered ping, a *)
(* due timeout and a rename happen before it does; a blocked loop does     *)
(* nothing.                                                                *)
Busy == \/ life = "on" /\ timer = 0 /\ beat = Never /\ stamp = Never
        \/ stamp # Never
        \/ beat # Never /\ (dbUp \/ beat >= PingTimeout)

Tick ==
    /\ Busy => blocked > 0
    /\ blocked' = IF Busy THEN blocked - 1 ELSE blocked
    /\ file' = IF file = Never THEN Never ELSE Older(file)
    /\ stamp' = IF stamp = Never THEN Never ELSE Older(stamp)
    /\ beat' = IF beat = Never THEN Never ELSE Older(beat)
    /\ timer' = IF timer > 0 THEN timer - 1 ELSE 0
    /\ served' = IF served = Never THEN Never ELSE Older(served)
    /\ healthyFor' = IF life = "on" /\ queueUp /\ dbUp /\ ~Busy
                       THEN Older(healthyFor) ELSE 0
    /\ UNCHANGED <<life, queueUp, dbUp>>

Next == Boot \/ BeatStarts \/ PingAnswered \/ PingTimedOut \/ Renamed \/ Destroy \/ Exit
        \/ Flap \/ Tick

Spec == Init /\ [][Next]_vars

----------------------------------------------------------------------------
TypeOK ==
    /\ life \in {"off", "on", "stopping"}
    /\ {file, stamp, beat, served} \subseteq 0 .. Never
    /\ timer \in 0 .. Interval /\ healthyFor \in 0 .. Cap /\ blocked \in 0 .. MaxBlocked
    /\ {queueUp, dbUp} \subseteq BOOLEAN

(* While a process runs, a heartbeat the health check accepts is its own,  *)
(* never that of a process before it, and it means what the container     *)
(* infers: not long ago this worker's queue ran and its database answered. *)
(* A blocked event loop may delay the ping's answer, never the stamp.      *)
FreshMeansServed ==
    life = "on" /\ isHeartbeatFresh => served <= MaxAge + PingTimeout + MaxBlocked

(* No false alarm: a worker that has been able to work for a beat and its  *)
(* ping is not reported unhealthy.                                         *)
HealthyIsFresh ==
    life = "on" /\ healthyFor >= Interval + PingTimeout => isHeartbeatFresh
=============================================================================
