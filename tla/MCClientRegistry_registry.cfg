SPECIFICATION FairSpec
CONSTANTS
    Clients = {c1, c2}
    Reader = reader
    Free = free
    Requests = {"status", "breakpoint", "stop"}
    Buffer = 1
    MaxRequests = 1
    MaxEvents = 1
INVARIANTS TypeOK ListedHasHandler RecursionBounded
PROPERTIES LockReturns Departed RequestsServed
CHECK_DEADLOCK FALSE
