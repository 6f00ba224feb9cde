SPECIFICATION Spec
CONSTANTS
    Clients = {c1, c2}
    Ports = {p1, p2}
    ShutdownUsed = TRUE
    Strangers = TRUE
    MaxDaemons = 3
    MaxCommands = 3
    MaxCrashes = 1
    MaxTimeouts = 1
SYMMETRY Interchangeable
INVARIANTS TypeOK CutOffOnlyByAnother StaleOnlyByCrash
CHECK_DEADLOCK FALSE
