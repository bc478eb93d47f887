SPECIFICATION FairSpec
CONSTANTS
    Downloads = 2
    MaxConcurrent = 2
    MaxRetries = 1
    MaxActions = 1
PROPERTY QueuedIsServed
CHECK_DEADLOCK FALSE
