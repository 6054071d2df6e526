\* Two handlers and a DELETE racing, under fairness of the handlers' steps; a
\* lease may expire under its holder, any step may raise.
\* What is checked does not depend on captured time, so the clock stands still.
\* No symmetry: liveness is checked.
SPECIFICATION FairSpec
CONSTANTS
    Conns = {c1, c2}
    Deleters = {d1}
    LeaseExpires = TRUE
    MaxTime = 0
    MaxCrashes = 0
INVARIANTS
    CompletedIsReadable
    CompletedRunHasEvidence
PROPERTIES
    CompletionFinishes
CHECK_DEADLOCK FALSE
