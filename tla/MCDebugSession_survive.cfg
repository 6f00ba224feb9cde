SPECIFICATION Spec
CONSTANTS
    Handlers = {h1, h2}
    Serve = serve
    Free = free
    Requests = {"connect", "listen", "stop", "threads"}
    Events = {}
    Answered = {"initialize"}
    MaxSessions = 1
    MaxRequests = 3
    MaxEvents = 0
    MaxInbox = 1
INVARIANT DaemonSurvives
CHECK_DEADLOCK FALSE
