------------------------ MODULE OutboxReconciliation ------------------------
(***************************************************************************)
(* The check for jobs that Redis lost.  The outbox says COMPLETED once     *)
(* BullMQ took the job; Redis may lose its last writes.  Every few minutes *)
(* findLostJobs selects the events handed over long enough ago whose work  *)
(* is still pending, oldest first and at most CandidateLimit, and asks     *)
(* BullMQ for each job.  It changes nothing: it alerts.                    *)
(***************************************************************************)
EXTENDS Naturals, FiniteSets

CONSTANTS
    Event,           \* outbox events, numbered in the order they are dispatched
    Drained,         \* the events that were handed to pg-boss before the cutover
    CandidateLimit,  \* CANDIDATE_LIMIT
    MaxLost          \* bound on the jobs Redis loses

VARIABLES
    age,        \* "none" (not dispatched), "young", "stale" or "past" the lookback
    undone,     \* events whose domain work is pending
    held,       \* events whose job BullMQ holds, in any state
    lost,       \* events whose job Redis lost
    running,    \* BullMqJobQueue.isRunning
    candidates, \* rest of the candidates of the check under way
    found,      \* lost events that check has collected
    checking, alerted

vars == <<age, undone, held, lost, running, candidates, found, checking, alerted>>

Init ==
    /\ age = [e \in Event |-> "none"]
    /\ undone = Event /\ held = {} /\ lost = {}
    /\ running = TRUE
    /\ candidates = {} /\ found = {} /\ checking = FALSE /\ alerted = {}

(* The dispatcher: BullMQ took the job, then the event is COMPLETED.  An   *)
(* event of before the cutover has its job in pg-boss.                     *)
Dispatch(e) ==
    /\ age[e] = "none" /\ \A d \in Event : d < e => age[d] # "none"
    /\ age' = [age EXCEPT ![e] = "young"]
    /\ held' = IF e \in Drained THEN held ELSE held \cup {e}
    /\ UNCHANGED <<undone, lost, running, candidates, found, checking, alerted>>

GrowsStale(e) ==
    /\ age[e] = "young" /\ \A d \in Event : d < e => age[d] # "young"
    /\ age' = [age EXCEPT ![e] = "stale"]
    /\ UNCHANGED <<undone, held, lost, running, candidates, found, checking, alerted>>

LeavesLookback(e) ==
    /\ age[e] = "stale" /\ \A d \in Event : d < e => age[d] = "past"
    /\ age' = [age EXCEPT ![e] = "past"]
    /\ UNCHANGED <<undone, held, lost, running, candidates, found, checking, alerted>>

(* The job runs, in BullMQ (which keeps it) or in pg-boss.                 *)
JobRuns(e) ==
    /\ e \in undone /\ age[e] # "none" /\ (e \in held \/ e \in Drained)
    /\ undone' = undone \ {e}
    /\ UNCHANGED <<age, held, lost, running, candidates, found, checking, alerted>>

LoseJob(e) ==
    /\ e \in held /\ Cardinality(lost) < MaxLost
    /\ held' = held \ {e} /\ lost' = lost \cup {e}
    /\ UNCHANGED <<age, undone, running, candidates, found, checking, alerted>>

RedisDown ==
    /\ running /\ running' = FALSE
    /\ UNCHANGED <<age, undone, held, lost, candidates, found, checking, alerted>>

RedisUp ==
    /\ ~running /\ running' = TRUE
    /\ UNCHANGED <<age, undone, held, lost, candidates, found, checking, alerted>>

----------------------------------------------------------------------------
Candidate(e) == age[e] = "stale" /\ e \in undone

OldestButOne(es) == {e \in es : Cardinality({d \in es : d < e}) + 1 < CandidateLimit}
Oldest(es) == {e \in es : Cardinality({d \in es : d < e}) < CandidateLimit}

Select ==
    /\ ~checking /\ running
    /\ checking' = TRUE /\ found' = {}
    /\ candidates' = Oldest({e \in Event : Candidate(e)})
    /\ UNCHANGED <<age, undone, held, lost, running, alerted>>

(* hasJob, one candidate after the other in dispatch order.                *)
NotRunYet(e) == e \in undone
Missing(e) == e \notin held

HasJob(e) ==
    /\ checking /\ running
    /\ e \in candidates /\ \A d \in candidates : e <= d
    /\ candidates' = candidates \ {e}
    /\ found' = IF Missing(e) THEN found \cup {e} ELSE found
    /\ UNCHANGED <<age, undone, held, lost, running, checking, alerted>>

(* A call that fails ends the check without an alert.                      *)
CheckFails ==
    /\ checking /\ candidates # {} /\ ~running
    /\ checking' = FALSE /\ candidates' = {} /\ found' = {}
    /\ UNCHANGED <<age, undone, held, lost, running, alerted>>

Alert ==
    /\ checking /\ candidates = {}
    /\ checking' = FALSE /\ found' = {}
    /\ alerted' = alerted \cup found
    /\ UNCHANGED <<age, undone, held, lost, running, candidates>>

Next ==
    \/ Select \/ Alert \/ CheckFails \/ RedisDown \/ RedisUp
    \/ \E e \in Event : \/ HasJob(e) \/ Dispatch(e) \/ GrowsStale(e) \/ LeavesLookback(e)
                         \/ JobRuns(e) \/ LoseJob(e)

Spec == Init /\ [][Next]_vars

----------------------------------------------------------------------------
TypeOK ==
    /\ age \in [Event -> {"none", "young", "stale", "past"}]
    /\ {undone, held, lost, candidates, found, alerted} \subseteq SUBSET Event
    /\ {running, checking} \subseteq BOOLEAN

(* An alert is never raised for a job that BullMQ merely has not run yet:  *)
(* the job was lost, or it is one pg-boss holds from before the cutover,   *)
(* which this check cannot tell from a lost one.                           *)
AlertIsReal == alerted \subseteq lost \cup Drained

(* Every lost job is reported before the event leaves the lookback, also   *)
(* behind a backlog of jobs that merely wait and through outages: as long  *)
(* as no more than CandidateLimit are lost at a time, the oldest-first     *)
(* selection reaches it.                                                   *)
LostIsAlerted ==
    \A e \in Event : e \in lost /\ e \in undone ~> e \in alerted \/ age[e] = "past"
=============================================================================
