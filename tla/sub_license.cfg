SPECIFICATION FairSpec
CONSTANTS
    Cycle = 3
    Grace = 1
    Dunning = 1
    WarnAhead = 1
    Invoices = 2
    MaxTime = 7
    MaxIncidents = 2
    NoCopy = NoCopy
INVARIANTS
    NeverAnExtraPeriod
    PaidPeriodGranted
PROPERTY DueIsDowngraded
CHECK_DEADLOCK FALSE
