CONSTANTS
    Powers = {"austria", "britain"}
    Units = {1}
    Users = {"ann", "bob", "olga", "max"}
    Tokens <- TokensValue
    Owner <- OwnerValue
    Watched = {"a1", "o"}
    Masters = {"max"}
    Seatings <- SeatingsValue
    Required = 2
    Statuses = {"completed", "canceled"}
    Fates = {{}, {"units", "centers"}}
    MaxPhase = 2
    MaxRequests = 2
SPECIFICATION Spec
CHECK_DEADLOCK FALSE
INVARIANTS
    TypeOK
    CopiesAgree
PROPERTIES
    OrdersStaySecret
