SPECIFICATION Spec
CONSTANTS
    d1 = d1
    d2 = d2
    Devices <- MCDevices
    MaxStamp = 2
    Window = 2
    RingSize = 2
    Capacity = 2
    MaxHandlers = 2
    MaxReadings = 3
SYMMETRY DeviceSymmetry
CHECK_DEADLOCK FALSE
INVARIANTS
    TypeOK
    ReadingsBatched
    DisconnectedMatchesBatch
    OfflineSinceExact
    NewestKept
    ViewCurrent
