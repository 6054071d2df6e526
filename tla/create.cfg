SPECIFICATION Spec
CONSTANTS
    r1 = r1  r2 = r2  r3 = r3  r4 = r4  r5 = r5
    k1 = k1  k2 = k2
    Requests = {r1, r2, r3, r4, r5}
    Keys = {k1, k2}
    KeyOf <- MCKeyOf
    Limit = 2
    MaxConcurrent = 3
    MaxFailures = 1
    MaxWindows = 1
SYMMETRY Symmetric
INVARIANTS
    OvershootIsBounded
    AnswersAreBacked
PROPERTY RetriesFindTheSame
\* Every request may have been answered.
CHECK_DEADLOCK FALSE
