SPECIFICATION Spec
CONSTANTS
    Handlers = {h1, h2}
    Serve = serve
    Free = free
    Requests = {"connect", "stop", "pause"}
    Events = {"stopped"}
    Answered = {"initialize", "attach", "threads"}
    MaxSessions = 3
    MaxRequests = 3
    MaxEvents = 1
    MaxInbox = 1
SYMMETRY HandlerSymmetry
INVARIANTS TypeOK HandshakeInOrder DetachedIsOver PausesAreAsked
PROPERTIES OwnMessagesOnly FollowsEpochs
CHECK_DEADLOCK FALSE
