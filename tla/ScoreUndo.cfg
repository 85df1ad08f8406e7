SPECIFICATION Spec
CONSTANTS
    k = k
    s = s
    stem = stem
    words = words
    Null = Null
    Lanes = {k, s}
    RuntimeIds = {stem, words}
    LyricsIds = {words}
    Backs <- StemLanes
    Opened <- OpenedLanes
    MaxGestures = 3
    MaxUndone = 4
PROPERTIES EachGestureOneUndoStep
CHECK_DEADLOCK FALSE
