\* Five messages of four people, one agent's request at a time.
CONSTANTS
    User = {u1}
    MaxRequests = 1
SPECIFICATION Spec
PROPERTY InboundReopens
CHECK_DEADLOCK FALSE
