SPECIFICATION Spec
CONSTANTS
    Lights <- MCLights
    WindowSizes = {1, 2}
    MaxUnplugs = 1
    Stale = 1
    Clear = 1
    Schedules = {"noon"}
    Off = "off"
    LastDay = 1
    BusSensors <- MCBusSensors
    Retried <- MCRetried
    ReadInterval = 2
    Grace = 1
    WindStale = 2
    VaneFault = 1
    RainStale = 3
    PollInterval = 3
    VerdictStale = 1
    MaxBlock = 1
    MaxChanges = 2
    ReadEvery = 2
    RedetectEvery = 3
    EstimateFor = 1
    RateAfter = 4
    MissesBeforeMissing = 2
    MaxPacks = 3
    MaxSaves = 2
    Pages <- MCPages
    Settings <- MCSettings
    ProbeEvery = 1
    MaxFailures = 2
    CycleAfter = 1
    NightTimeout = 1
    Rows = {1, 2}
    MaxFaults = 2
    MaxEvents = 3
INVARIANTS
    AverageIsTrue
    EstimateIsOfOnePack
    ServedIsShown
    PanelIsAsTold
PROPERTIES
    ResetOnceADay
    RangeSettles
    ServedInTheEnd

