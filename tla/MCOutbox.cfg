\* Two workers, one event, two attempts, three faults: every late dispatcher can meet every
\* other, and then the system is left alone.
CONSTANTS
    Event = {e1}
    Worker = {w1, w2}
    NoEvent = NoEvent
    NoWorker = NoWorker
    MaxDispatchAttempts = 2
    BatchSize = 1
    MaxFaults = 3
SPECIFICATION FairSpec
INVARIANTS
    TypeOK
    TableIsSound
    ExclusiveUntilExpiry
    AttemptsBounded
PROPERTIES
    HandoverSpec
    EventuallySettled
CHECK_DEADLOCK FALSE
