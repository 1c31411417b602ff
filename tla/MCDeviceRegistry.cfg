SPECIFICATION FairSpec
CONSTANTS
    d1 = d1
    t1 = t1
    t2 = t2
    t3 = t3
    o1 = o1
    Devices <- MCDevices
    Threads <- MCThreads
    Overrides <- MCOverrides
    MaxStamp = 2
    MaxCalls = 4
CHECK_DEADLOCK FALSE
INVARIANTS
PROPERTIES
    LastSeenMonotone
    ImplementsAtomic
    CallsReturn
