CONSTANTS
    ShutdownGrace = 2
    Extra = 1
    MaxBlock = 1
    Choices <- MCChoices

SPECIFICATION PowerSpec

PROPERTIES
    AlwaysWarned
