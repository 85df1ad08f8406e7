SPECIFICATION Spec
CONSTANTS
    separation = separation
    transcription = transcription
    lyrics = lyrics
    Capabilities = {separation, transcription, lyrics}
    Requires <- MCRequires
    Waiters = {w1, w2}
    Gated = {transcription}
    Selections <- MCSelections
    MaxInstalls = 2
    MaxRestarts = 1
    NoCapability = NoCapability
    NoWaiter = NoWaiter
INVARIANTS
    TypeOK
    InstallsExclusive
    RecordedHasWeights
    RecordedIsClosed
    GrantedIsRecorded
    NoWaiterForgotten
    VenvKeepsInstalledInStep
PROPERTIES
    RefreshNeverDowngrades
    ConfirmedIsAnswered
CHECK_DEADLOCK FALSE
