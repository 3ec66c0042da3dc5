\* A poller and a sender, no administrator, three failed calls in a row.
CONSTANTS
    Poller = {p1}
    Sender = {s1}
    Admin = {}
    MaxEvents = 1
    MaxCreds = 1
    MaxFaults = 3
SPECIFICATION FairSpec
PROPERTIES
    InboundArrives
    WarningClears
CHECK_DEADLOCK FALSE
