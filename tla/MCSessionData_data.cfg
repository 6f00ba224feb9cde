SPECIFICATION Spec
CONSTANTS
    Handlers = {h1, h2}
    Requests = {"evaluate", "stackTrace", "set", "clear", "attach"}
    Sources = {a}
    HistoryLimit = 2
    MaxSessions = 2
    MaxRequests = 2
    MaxOutputs = 2
    MaxEvents = 1
SYMMETRY HandlerSymmetry
INVARIANTS AnswersItsRequest ExtraIsOwn OutputKept OneStrayChunk BreakpointsAgree
CHECK_DEADLOCK FALSE
