CONSTANTS
    Kinds = {"SendGameMessage", "SetOrders", "SetWaitFlag"}
    MaxRequests = 1
    MaxPhase = 2
    MaxForeign = 1
    MaxDrops = 2
SPECIFICATION Spec
CHECK_DEADLOCK FALSE
INVARIANTS
    TypeOK
    ArchivedOnce
    ReadsOn
    KnowsPhases
PROPERTIES
    Reconnects
