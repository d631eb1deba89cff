CONSTANTS
    Tasks = {t1, t2}
    QueueLength = 1
    MaxRecords = 2
    Orders <- MCOrders
    MaxAlerts = 3
    MaxMissed = 1

SPECIFICATION LiveSpec

INVARIANTS
    OneOwner
    NotStranded

PROPERTIES
    DoneUnlessNoMemory
    ImplementsLedger
