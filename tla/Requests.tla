------------------------------ MODULE Requests ------------------------------
(***************************************************************************)
(* What a client may ask of the server (diplomacy/communication/            *)
(* requests.py), and of whom the server accepts it (verify_request and the   *)
(* flags its callers in server/request_managers.py give it).                *)
(***************************************************************************)

\* Requests of no channel: they need no token.
ConnectionRequests == {"GetDaidePort", "SignIn"}

\* Requests of a channel: a token is enough.
LobbyRequests == {"CreateGame", "GetDummyWaitingPowers", "GetAvailableMaps",
                  "GetPlayablePowers", "JoinGame", "JoinPowers", "ListGames", "GetGamesInfo"}
AccountRequests == {"DeleteAccount", "Logout", "UnknownToken", "SetGrade"}

\* Requests of a game: they name a game, the sender's role in it and a phase.
BoardRequests == {"ClearCenters", "ClearOrders", "ClearUnits"}
TableRequests == {"DeleteGame", "GetAllPossibleOrders", "GetPhaseHistory", "LeaveGame",
                  "ProcessGame", "QuerySchedule", "SaveGame"}
TalkRequests == {"SendRecipientAnnotation", "SendStance", "SendIsBot",
                 "SendCommentaryDurations", "SendDeceiving", "SendOrderLog",
                 "SendOrderSuggestions", "SendGameMessage", "SendLogData"}
MasterRequests == {"SetDummyPowers", "SetGameState", "SetGameStatus"}
PlayRequests == {"SetOrders", "SetCommStatus", "SetWaitFlag", "Synchronize", "Vote"}
GameRequests == BoardRequests \cup TableRequests \cup TalkRequests
                    \cup MasterRequests \cup PlayRequests

\* phase_dependent: the client gives such a request up when it reconnects to find
\* the game in another phase.
PhaseDependent(k) == k \in GameRequests \ {"DeleteGame", "GetPhaseHistory", "Synchronize"}

\* The flags of verify_request.
NoPowerRole == {"DeleteGame", "ProcessGame"} \cup MasterRequests
NoOmniscientRole == {"SendRecipientAnnotation", "SendStance", "SendIsBot",
                     "SendCommentaryDurations", "SendDeceiving", "Vote"}
NoObserverRole == NoPowerRole \cup NoOmniscientRole \cup BoardRequests
                    \cup {"SendOrderLog", "SendGameMessage", "SetOrders", "SetCommStatus", "SetWaitFlag"}
NeedNoMaster == {"GetAllPossibleOrders", "GetPhaseHistory", "LeaveGame", "QuerySchedule",
                 "SaveGame", "Synchronize"}

\* The request k is accepted of that kind of role.
RoleMayAsk(k, role, isMaster) ==
    CASE role = "observer" -> k \notin NoObserverRole
      [] role = "omniscient" -> k \notin NoOmniscientRole /\ (k \in NeedNoMaster \/ isMaster)
      [] OTHER -> k \notin NoPowerRole
=============================================================================
