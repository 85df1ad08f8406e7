SPECIFICATION Spec
CONSTANTS
    Lanes = {k}
    Songs = {1, 2, 3}
    TrackIds = {1, 2}
    NoSong = NoSong
    NoCtl = NoCtl
    MaxWaiting = 2
    JobIds = {1, 2}
    NoJob = NoJob
    MaxActs = 5
INVARIANTS
    NothingLeaks
CHECK_DEADLOCK FALSE
