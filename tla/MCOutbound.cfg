\* One reply, sent and sent again once, two runs of the handler, one fault.
CONSTANTS
    Message = {m1}
    Job = {j1, j2}
    Runner = {r1, r2}
    Agent = {a1}
    Receiver = {h1}
    NoMessage = NoMessage
    NoJob = NoJob
    NoRunner = NoRunner
    RetryLimit = 1
    MaxFaults = 1
SPECIFICATION FairSpec
INVARIANTS
    TypeOK
    SentIsGenuine
    DuplicateNeedsFaultOrRetry
PROPERTIES
    StatusMonotonic
    PendingEnds
CHECK_DEADLOCK FALSE
