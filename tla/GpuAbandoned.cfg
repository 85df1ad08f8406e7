CONSTANTS
    t1 = t1
    l1 = l1
    s1 = s1
    Requests = {t1, l1, s1}
    NoRequest = NoRequest
    MaxDisconnects = 1
    Kind <- MCKind
    TranscribeProgram <- MCProgram
    Builds <- MCBuilds
SPECIFICATION Spec
PROPERTY AbandonedStops
CHECK_DEADLOCK FALSE
