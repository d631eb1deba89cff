CONSTANTS
    SecMod = 4
    UintMod = 20
    Grace = 1
    Cooldown = 2
    Capacity = 3
    Choices <- MCChoices
    MaxGap = 1

SPECIFICATION LiveSpec

INVARIANTS
    EngineKnowsTold

PROPERTIES
    ToldInTheEnd
