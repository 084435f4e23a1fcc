CONSTANTS
    Data = {g1, g2}
    Delays <- MCDelays
    MaxTime = 3
    MaxQueue = 3
SPECIFICATION FairSpec
INVARIANTS
    TypeOK
    LiveTaskRegistered
    TimedTaskNotLost
PROPERTIES
    ImplementsAgenda
    Served
