CONSTANTS
    ShutdownGrace = 2
    Extra = 1
    MaxBlock = 2
    Choices <- MCChoices

SPECIFICATION PowerLiveSpec

PROPERTIES
    WarnedBeforeSleep
    SleepsInTheEnd
    WakesInTheEnd
