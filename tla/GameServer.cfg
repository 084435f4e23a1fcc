CONSTANTS
    m = m
    u = u
    Powers = {p1, p2}
    Users = {m, u}
    Masters = {m}
    Dummy = Dummy
    Bot = Bot
    Nobody = Nobody
    Game = Game
    Deadlines <- MCDeadlines
    Counts <- MCCounts
    StartMaster = FALSE
    MultiplePowers = FALSE
    RemoveCanceled = FALSE
    MaxTime = 2
    MaxQueue = 2
SPECIFICATION Spec
SYMMETRY Symmetry
CHECK_DEADLOCK FALSE
INVARIANTS
    TypeOK
    KeptByStatus
    VoteOfController
PROPERTIES
    PhaseNotCutShort
    EndedIsFinal
    LosingPlayerStopsGame
