CONSTANTS
    Admin = admin
    Bot = bot
    Dummy = Dummy
    Accounts = {admin, bot, user}
    Tokens = {t1, t2, t3}
    Graded = {user}
    Connections = {c1, c2}
    Powers = {p1}
    MultiplePowers = FALSE
SPECIFICATION Spec
SYMMETRY Symmetry
CHECK_DEADLOCK FALSE
INVARIANTS
    TypeOK
    GameTokensKnown
    RoleMatchesRights
