SPECIFICATION Spec
CONSTANTS
    Jobs = {j1}
    PipeCapacity = 2
INVARIANTS
    TypeOK
    NoDeadEntry
    InputOutlivesJob
    SuccessIsReal
    CleanExitLeavesNoScratch
PROPERTIES
    CancelReachesLoop
    EveryRunSettles
CHECK_DEADLOCK FALSE
