SPECIFICATION Spec
CONSTANTS
    e1 = e1
    v1 = v1
    t1 = t1
    t2 = t2
    Nobody = Nobody
    Devices <- MCDevices
    Category <- MCCategory
    Point <- MCPoint
    Threads <- MCThreads
    CommandTypes = {"OpenValve", "Acknowledge", "Mute"}
    RecencyBatches = 1
    MinSupport = 1
    NeglectedBatches = 1
    LongOfflineBatches = 1
    MaxSuggestions = 1
    GraceBatches = 1
    LowBatteryPct = 20
    BatteryLevels = {7}
    MaxSeverity = 1
    MaxBatch = 2
    MaxInputs = 3
SYMMETRY ThreadSymmetry
CHECK_DEADLOCK FALSE
INVARIANTS
    BestShown
    DismissedStaysAway
    CountsAreCredits
