SPECIFICATION Spec
CONSTANTS
    d1 = d1
    m1 = m1
    m2 = m2
    Devices <- OneDevice
    Metrics <- OneMetric
    MaxSeverity = 1
    RecentCapacity = 2
    MaxReadings = 3
    MaxCommands = 1
CHECK_DEADLOCK FALSE
INVARIANTS
    AcknowledgementEndsWithAlert
