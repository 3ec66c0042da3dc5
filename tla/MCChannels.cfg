\* Two pollers whose leases run out and an administrator, no faults.
CONSTANTS
    Poller = {p1, p2}
    Sender = {}
    Admin = {a1}
    MaxEvents = 1
    MaxCreds = 2
    MaxFaults = 0
SPECIFICATION Spec
SYMMETRY Symmetry
INVARIANTS
    TypeOK
    CursorCovers
PROPERTIES
    CursorBackNeedsLapse
CHECK_DEADLOCK FALSE
