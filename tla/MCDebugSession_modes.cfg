SPECIFICATION Spec
CONSTANTS
    Handlers = {h1, h2}
    Serve = serve
    Free = free
    Requests = {"connect", "listen", "shutdown", "continue"}
    Events = {"exited"}
    Answered = {"initialize", "attach"}
    MaxSessions = 2
    MaxRequests = 3
    MaxEvents = 1
    MaxInbox = 1
SYMMETRY HandlerSymmetry
INVARIANTS NoAbandonedAdapter
PROPERTIES ExitedOnlyWhenGone
CHECK_DEADLOCK FALSE
