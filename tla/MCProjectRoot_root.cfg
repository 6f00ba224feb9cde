SPECIFICATION Spec
CONSTANTS
    Dirs <- TreeDirs
    Files <- TreeFiles
    Links <- TreeLinks
    Roots <- SomeRoots
    Places <- SomePlaces
    MaxCommands = 2
    MaxMarks = 1
INVARIANTS FindsItsProject OneDaemonPerProject EndpointWhileServing FailsWithReason
CHECK_DEADLOCK FALSE
