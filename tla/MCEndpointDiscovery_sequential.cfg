SPECIFICATION FairSpec
CONSTANTS
    Clients = {c1}
    Ports = {p1, p2}
    ShutdownUsed = FALSE
    Strangers = FALSE
    MaxDaemons = 3
    MaxCommands = 4
    MaxCrashes = 2
    MaxTimeouts = 0
INVARIANTS OneDaemon
PROPERTIES Connects
CHECK_DEADLOCK FALSE
