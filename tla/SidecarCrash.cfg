SPECIFICATION Spec
CONSTANTS
    Jobs = {j1}
    PipeCapacity = 2
INVARIANT
    ResolvedHasResult
CHECK_DEADLOCK FALSE
