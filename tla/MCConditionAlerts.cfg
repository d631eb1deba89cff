CONSTANTS
    Resend = 2
    MaxSeq = 2
    Cases <- MCCases
    SecMod = 5
    UintMod = 8
    Grace = 1
    Settle = 2
    Cooldown = 2
    MaxGap = 1
    Settings <- MCSettings

SPECIFICATION LiveSpec

INVARIANTS
    NothingUndue

PROPERTIES
    LateAckSpares
    MatchesReality
