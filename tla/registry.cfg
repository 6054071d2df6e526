SPECIFICATION Spec
CONSTANTS
    Versions = {v1, v2, v3}
    Administrators = {a1, a2}
    NoVersion = none
SYMMETRY Symmetric
INVARIANTS
    TargetsHaveServed
    TargetIsPredecessor
PROPERTIES
    UnapprovedStayOut
    StaysInService
\* Once no version is promotable or has a target, every call is refused.
CHECK_DEADLOCK FALSE
