CONSTANTS
    Followed = {0}
    Silence = 0
    Cooldown = 2
    MaxGap = 1
    MaxRestarts = 1
    Settings <- MCSettings

SPECIFICATION LiveSpec

INVARIANTS
    PauseStands

PROPERTIES
    LossesAreAnswered
    LossIsNoticed
