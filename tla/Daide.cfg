CONSTANTS
    c1 = c1
    c2 = c2
    c3 = c3
    bot = bot
    A = A
    B = B
    u1 = u1
    u2 = u2
    hold = hold
    move = move
    bad = bad
    None = None
    Conns = {c1, c2, c3}
    Clients = {bot}
    Strangers <- MCStrangers
    GamePowers = {A, B}
    Units = {u1, u2}
    Texts = {hold, move}
    Types = {"M"}
    Faults = {bad}
    MaxOrders = 3
    Required = 2
SPECIFICATION DaideSpec
CHECK_DEADLOCK FALSE
VIEW AskedAbout
SYMMETRY Symmetric
INVARIANTS
    DaideTypeOK
    OwnAccount
    StopClosesAll
    ThankedMoveStands
