SPECIFICATION FairSpec
CONSTANTS
    Handler = handler
    Lockers = {reader}
    Touchers = {peer}
    Free = free
    Commands = {"status", "attach", "continue", "stop"}
    Seen = {"running"}
    MessageLimit = 2
    MaxChanges = 1
    MaxCommands = 2
INVARIANTS TypeOK RefusedForItsOwn NewerThanBaseline
PROPERTIES CommandReturns
CHECK_DEADLOCK FALSE
