SPECIFICATION PageSpec
CONSTANTS
    d1 = d1
    d2 = d2
    Devices <- MCDevices
    Actuators <- MCDevices
    GraceBatches = 2
    HistoryLimit = 2
    MaxBatch = 3
    MaxCommands = 4
    MaxAnswered = 3
CHECK_DEADLOCK FALSE
INVARIANTS
    UndoableInHistory
