SPECIFICATION Spec
CONSTANTS
    Words <- MCWords
    Events <- MCEvents
    Ids <- MCIds
    IdOf <- MCIdOf
    Windows = 5
    WindowLength = 4
    Tail = 2
    SilenceThreshold = 3
    MaxFailures = 2
    MaxOthers = 1
INVARIANTS
    RaisesOnlyAtOverlap
    FrontierHasNoHoles
    TranscriptIsWhole
    PausesAreSilent
    StableEventsAreFinal
    LedgerMatchesFinals
PROPERTY FinalEventsStay
\* A completed session takes no more chunks.
CHECK_DEADLOCK FALSE
