SPECIFICATION Spec
CONSTANTS
    MaxSeq = 6
    MaxDuplicates = 2
INVARIANT GapsAreMaximalRuns
PROPERTY ImplementsArrival
\* After finalize the ledger is only read.
CHECK_DEADLOCK FALSE
