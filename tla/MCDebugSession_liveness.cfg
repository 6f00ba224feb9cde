SPECIFICATION FairSpec
CONSTANTS
    Handlers = {h1, h2}
    Serve = serve
    Free = free
    Requests = {"connect", "listen", "stop", "pause"}
    Events = {}
    Answered = {"initialize", "attach", "threads"}
    MaxSessions = 2
    MaxRequests = 2
    MaxEvents = 0
    MaxInbox = 1
PROPERTIES LockReleased HandshakeCompletes EndIsNoticed
CHECK_DEADLOCK FALSE
