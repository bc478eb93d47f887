SPECIFICATION Spec
CONSTANTS
    FileSize = 4
    Counts = {2}
    MaxRetries = 1
    MaxAttempts = 2
    MaxPauses = 0
INVARIANTS
    OkMeansWholeFile
CHECK_DEADLOCK FALSE
