\* One handler and one DELETE, with no expiry: their interleaving is enough.
SPECIFICATION Spec
CONSTANTS
    Conns = {c1}
    Deleters = {d1}
    LeaseExpires = FALSE
    MaxTime = 1
    MaxCrashes = 0
INVARIANT DeletionIsFinal
CHECK_DEADLOCK FALSE
