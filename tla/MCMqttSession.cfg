SPECIFICATION FairSession
CONSTANTS
    d1 = d1
    d2 = d2
    Devices <- MCDevices
    MaxFaults = 3
CHECK_DEADLOCK FALSE
INVARIANTS
    EveryDeviceAccounted
PROPERTIES
    EveryMessageHandled
    SubscribedAgain
