SPECIFICATION Spec
CONSTANTS
    MaxDays = 2
    MaxChanges = 1
    MaxWire = 2
    MaxDrops = 1
    MaxAlerts = 5
    RecentAlertLimit = 3
    Texts = {"a"}
    Kms = {"5"}
    MaxPast = 1
    Zones = {"n", "s"}
    MaxHistory = 2
    Devices = {"a", "b"}
    Provisioned = {"a"}
    Followed = "a"
    MaxUploads = 1
    MaxAttempts = 1
    Sensors = {"a", "b"}
    Values = {0, 1, 2, 3}
    MaxReadings = 3
CHECK_DEADLOCK FALSE
INVARIANTS
    QuietViewsAreCurrent
    NoViewGuesses
    UnreadAreUnmarked
    BoxMatchesAddress
    SubzoneHasZone
    ViewAsAsked
    ToldIsShown
    RowsHaveFiles
    PastIsMarkedAlike
