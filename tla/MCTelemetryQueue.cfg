SPECIFICATION FairSpec
CONSTANTS
    p1 = p1
    p2 = p2
    Producers <- MCProducers
    Severities <- MCSeverities
    MaxItems = 5
CHECK_DEADLOCK FALSE
INVARIANTS
    ConsumerNeverFaults
    OvertakenCountsInversions
PROPERTIES
    ImplementsBuffer
    EveryReadingDelivered
