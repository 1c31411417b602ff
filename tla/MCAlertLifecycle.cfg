SPECIFICATION Spec
CONSTANTS
    d1 = d1
    m1 = m1
    m2 = m2
    Devices <- OneDevice
    Metrics <- TwoMetrics
    MaxSeverity = 2
    RecentCapacity = 2
    MaxReadings = 3
    MaxCommands = 2
CHECK_DEADLOCK FALSE
INVARIANTS
    LogExact
    AnnouncedOncePerEpisode
    AlertsMatchNewest
PROPERTIES
    AnnouncementFollowsMute
