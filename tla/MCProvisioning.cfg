SPECIFICATION Spec
CONSTANTS
    d1 = d1
    d2 = d2
    p1 = p1
    p2 = p2
    r1 = r1
    r2 = r2
    Devices <- MCDevices
    Places <- MCPlaces
    Requests <- MCRequests
    MaxCalls = 4
    MaxFaults = 2
SYMMETRY Interchangeable
CHECK_DEADLOCK FALSE
INVARIANTS
    TableAndRegistryAgree
    CreatedOnce
