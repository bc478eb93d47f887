SPECIFICATION FairSpec
CONSTANTS
    Ids = {u1, u2}
    MaxConcurrent = 1
    MaxStarts = 2
    FileSize = 1
INVARIANTS
    NoHoldAndWait
    PermitsConserved
PROPERTIES
    CancelOutlivesOutcome
    EveryStartEnds
    CallsReturn
