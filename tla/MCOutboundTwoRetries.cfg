\* Two retry requests for the same reply at the same time.
CONSTANTS
    Message = {m1}
    Job = {j1, j2, j3}
    Runner = {r1}
    Agent = {a1, a2}
    Receiver = {h1}
    NoMessage = NoMessage
    NoJob = NoJob
    NoRunner = NoRunner
    RetryLimit = 1
    MaxFaults = 0
SPECIFICATION Spec
PROPERTY OnlyFailedIsRetried
CHECK_DEADLOCK FALSE
