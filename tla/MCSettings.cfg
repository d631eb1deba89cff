SPECIFICATION Spec
CONSTANTS
    Gpios = {1, 2, 3, 4, 5, 6, 7, 8, 9}
    RtcGpios = {8, 9}
    Alien = {20}
    Unset = 255
    Wrong = Wrong
    Null = Null
    Mask = Mask
    BluetoothBuild = TRUE
    Defaults <- MCDefaults
    Areas <- MCAreas
    Events <- MCEvents
    MaxChanges = 3
INVARIANTS
    SettingsAreSound
    ComesBack
    ReportIsTrue
PROPERTIES
    ChangesWhatItNames
