SPECIFICATION FairSpec
CONSTANTS
    Event <- MCEvent
    Results <- MCResults
    ChannelOf <- MCChannelOf
    Connected <- MCConnected
    Batches <- MCBatches
    Request = {q1}
    Runner = {r1, r2}
    RetryLimit = 1
    ReceiptMatchAttempts = 2
    NoRunner = NoRunner
    MaxFaults = 1
INVARIANTS JournalIsTrue 
PROPERTIES FinishedStaysFinished EventuallySettled
