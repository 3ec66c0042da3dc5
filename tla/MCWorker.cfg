\* Two queues, one old job and two faults; time in units of five seconds; three events;
\* three callers whose transactions lock two rows.
CONSTANTS
    Queue = {q1, q2}
    RetryLimit = 1
    MaxOpen = 2
    MaxFaults = 2
    Interval = 2
    PingTimeout = 1
    MaxAge = 6
    MaxBlocked = 1
    Event = {1, 2, 3}
    CandidateLimit = 1
    MaxLost = 1
    Caller = {"x", "y", "z"}
    maxRetries = 1
    MaxFault = 1
SPECIFICATION FairSpec
INVARIANTS
    TransportsSound
    ReportsAreTrue
    TransactionsAtomic
PROPERTIES
    WorkerProgress
CHECK_DEADLOCK FALSE
