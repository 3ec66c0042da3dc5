\* A poller and an administrator: does DISCONNECTED mean rejected credentials?
CONSTANTS
    Poller = {p1}
    Sender = {}
    Admin = {a1}
    MaxEvents = 0
    MaxCreds = 2
    MaxFaults = 0
SPECIFICATION Spec
SYMMETRY Symmetry
INVARIANTS
    DisconnectedIsDeserved
CHECK_DEADLOCK FALSE
