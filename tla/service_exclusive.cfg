\* Three handlers in turn: no DELETE drops the lease and it does not expire under
\* its holder.
SPECIFICATION Spec
CONSTANTS
    Conns = {c1, c2, c3}
    Deleters = {}
    LeaseExpires = FALSE
    MaxTime = 3
    MaxCrashes = 1
SYMMETRY Symmetric
INVARIANTS
    TypeOK
    SingleOwner
    ClockRunsOnlyWhileCapturing
    CapturedWithinElapsed
    DocumentMatchesSession
    CompletedOnce
PROPERTIES
    ImplementsPromise
CHECK_DEADLOCK FALSE
