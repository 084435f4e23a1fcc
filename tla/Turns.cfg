CONSTANTS
    h = h
    k = k
    n = n
    n1 = n1
    n2 = n2
    x = x
    P = P
    Q = Q
    Powers = {P, Q}
    Centers = {h, k, n}
    Base <- MCBase
    Reach <- MCReach
    Homes <- MCHomes
    Situations <- MCSituations
    Reloads <- MCReloads
    Win = 3
    DrawYear = 2
    HoldWin = FALSE
    SharedVictory = FALSE
    BuildAny = FALSE
    DontSkip = FALSE
    Clearable = {"M", "A"}
    MaxCall = 2
    MaxAdjust = 2
    MaxCommands = 1
    MaxYear = 1
SPECIFICATION Spec
CHECK_DEADLOCK FALSE
INVARIANTS
    TypeOK
    OneUnitPerPlace
    HashMatches
    HistoriesMatch
PROPERTIES
    CentersFollowUnits
    GameEnds
