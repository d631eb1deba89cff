SPECIFICATION LanguageSpec
CONSTANTS
    Codes = {"de", "es"}
    English = "en"
    Versions = {1, 2}
    Downloads = {"d1", "d2"}
    MaxChoices = 2
    MaxRestarts = 1
INVARIANTS
    FileIsDescribed
PROPERTIES
    ChoiceIsServed
CHECK_DEADLOCK FALSE
