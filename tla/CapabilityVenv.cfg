SPECIFICATION Spec
CONSTANTS
    separation = separation
    transcription = transcription
    lyrics = lyrics
    Capabilities = {separation, transcription, lyrics}
    Requires <- MCRequires
    Waiters = {w1}
    Gated = {transcription}
    Selections <- MCSelections
    MaxInstalls = 2
    MaxRestarts = 1
    NoCapability = NoCapability
    NoWaiter = NoWaiter
INVARIANT VenvKeepsInstalled
CHECK_DEADLOCK FALSE
