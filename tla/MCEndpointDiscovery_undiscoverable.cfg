SPECIFICATION Spec
CONSTANTS
    Clients = {c1, c2}
    Ports = {p1, p2}
    ShutdownUsed = TRUE
    Strangers = FALSE
    MaxDaemons = 2
    MaxCommands = 2
    MaxCrashes = 0
    MaxTimeouts = 0
INVARIANTS Discoverable
CHECK_DEADLOCK FALSE
