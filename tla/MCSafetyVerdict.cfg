CONSTANTS
    MsMod = 5
    MsPerSec = 2
    StaleAfter = 0
    Delays = {0, 2}
    RuleSets <- MCRuleSets
    Conditions <- MCConditions
    MaxSpell = 5

SPECIFICATION LiveSpec

PROPERTIES
    FailSafe
    NeverSafeEarly
    WithdrawnForAReason
    HazardReported
