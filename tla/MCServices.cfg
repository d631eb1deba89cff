SPECIFICATION Spec
CONSTANTS
    Configs <- MCConfigs
    MaxChanges = 2
    MaxSaves = 1
    StartupWait = 1
    FallbackAfter = 4
    HotspotStay = 1
    JoinTime = 2
    BaseDelay = 1
    MaxDelay = 3
    HotspotDelay = 3
    MaxOutages = 1
    MaxSetups = 1
    SyncEvery = 1
    SyncTimeout = 1
    Settings <- MCSettings
PROPERTIES
    RetainedIsTrue
    NothingLeftAnnounced
    JoinedInTheEnd
    ClockSetInTheEnd
CHECK_DEADLOCK FALSE
