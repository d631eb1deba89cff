SPECIFICATION Spec
CONSTANTS
    Networks = {n1}
    Values = {0, 1}
    NoNetwork = NoNetwork
    NoDoc = NoDoc
    Bad = Bad
    MaxRequests = 3
    Tasks = {t1, t2}
    Uploads = {r1, r2}
CHECK_DEADLOCK FALSE
INVARIANTS
    StoreMatches
PROPERTIES
    AppliedAsPreviewed
    SwitchedAsAPair
    LateDropSpares
SYMMETRY Symmetry
