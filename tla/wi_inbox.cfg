SPECIFICATION FairSpec
CONSTANTS
    Nobody = Nobody
    Deliveries = {d1, d2, d3}
    MaxFailures = 2
INVARIANTS
    OneHandlerAtATime
PROPERTIES
    ProcessedIsPermanent
    PromiseKept
    EveryDeliveryAcked
CHECK_DEADLOCK FALSE
