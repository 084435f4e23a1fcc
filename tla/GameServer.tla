---------------------------- MODULE GameServer ----------------------------
(***************************************************************************)
(* One game on the server, from its creation to its end or deletion: the    *)
(* request handlers that change who plays, the flags of the powers or the   *)
(* status (diplomacy/server/request_managers.py), the methods of Server and *)
(* ServerGame they call, and the callback of the scheduler's worker, with   *)
(* the scheduler of Scheduler.tla.  A handler never suspends: it is one     *)
(* step.  What interleaves is the order of the requests of several users,   *)
(* of the clock and of the worker.                                          *)
(*                                                                          *)
(* The board is abstracted to what the server asks of it: may a power still *)
(* be ordered, and is it eliminated.  Tokens, observers, the text of orders *)
(* and messages are left out; the handlers for them do not touch this state.*)
(***************************************************************************)
EXTENDS Integers, Sequences, FiniteSets, Dicts

CONSTANTS
    Powers,          \* the powers of the map
    Users,           \* the accounts that play
    Masters,         \* those that may also send the requests of a game master
    Dummy,           \* the controller of a power nobody controls
    Bot,             \* the account of the private bot
    Nobody,          \* no voter
    Game,            \* the game, as a datum of the scheduler
    Deadlines,       \* the deadlines a game may be created with
    Counts,          \* the numbers of controlled powers it may require
    StartMaster,     \* has the game the rule START_MASTER?
    MultiplePowers,  \* has the game the rule MULTIPLE_POWERS_PER_PLAYER?
    RemoveCanceled,  \* the server's setting remove_canceled_games
    MaxTime,         \* bound of this model: the clock stops there
    MaxQueue         \* bound of this model: length of the queue of tasks

ASSUME GameServerAssumption ==
    /\ IsFiniteSet(Powers) /\ IsFiniteSet(Users) /\ Masters \subseteq Users
    /\ Dummy \notin Users /\ Bot \notin Users /\ Nobody \notin Users \cup {Bot}
    /\ Deadlines \subseteq Nat /\ Counts \subseteq Nat \ {0}
    /\ {StartMaster, MultiplePowers, RemoveCanceled} \subseteq BOOLEAN
    /\ MaxTime \in Nat /\ MaxQueue \in Nat

VARIABLES
    deadline,      \* Game.deadline, chosen by the creator
    n_controls,    \* Game.n_controls, chosen by the creator
    status,        \* Game.status
    phase_done,    \* is Game.phase "COMPLETED"?
    board,         \* power -> "orders" to give, "idle" this phase, or "out"
    controller,    \* power -> last value of Power.controller
    wait,          \* power -> Power.wait
    vote,          \* power -> is Power.vote "yes"?
    stored,        \* where the game is: in the server's "memory", in a "copy"
    voter,         \* history: power -> who cast its vote
    lent,          \* history: the powers that the bot may have been given
    phase_start,   \* history: when the current phase began
    current_time, data_in_heap, data_in_queue, tasks_queue, worker

S == INSTANCE Scheduler WITH Data <- {Game}, Delays <- Deadlines

schedule == <<current_time, data_in_heap, data_in_queue, tasks_queue, worker>>
settings == <<deadline, n_controls>>
flags == <<wait, vote, voter>>
play == <<phase_done, board, phase_start>>
game == <<settings, status, play, controller, flags>>
vars == <<game, lent, stored, schedule>>

----------------------------------------------------------------------------
(* Questions about the game.                                                *)

Ended == status \in {"completed", "canceled"}

\* A request about the game is answered only if the server has the game, and
\* (assert_game_not_finished) most of them only before its end.
InMemory == "memory" \in stored
Open == InMemory /\ ~Ended

\* Game.is_controlled and count_controlled_powers, if c are the controllers.
IsControlled(c, p) == c[p] # Dummy
Controlled(c) == {p \in Powers : IsControlled(c, p)}

HasExpectedControls(c) == Cardinality(Controlled(c)) = n_controls

\* Has the game too few players on board b to go on?
Understaffed(c, b) ==
    /\ Cardinality(Controlled(c)) < n_controls
    /\ \E p \in Powers : b[p] # "out" /\ ~IsControlled(c, p)

\* Game.does_not_wait
DoesNotWait == \A p \in Powers : board[p] = "orders" => ~wait[p]

\* Game.has_draw_vote, if v are the votes.
HasDrawVote(v) == \A p \in Powers : board[p] # "out" => v[p]

----------------------------------------------------------------------------
(* What handlers do to the scheduler and to the stored copies of the game.  *)

ScheduleGame ==
    IF ~S!HasData(Game) /\ deadline > 0 THEN S!AddData(Game, deadline)
                                        ELSE UNCHANGED schedule

UnscheduleGame ==
    IF S!HasData(Game) THEN S!RemoveData(Game) ELSE UNCHANGED schedule

\* Mutant: a forced game is not scheduled again.
ForceOnce == S!NoWait(Game, 0)

ForceGameProcessing == S!NoWait(Game, deadline)

\* Server.save_game.  A copy is one in backup_games or, later, a file on disk.
SaveGame == stored' = stored \cup {"copy"}

\* Server.delete_game: where the game is afterwards, of the places it was in.
DeleteGameData(places) == places \ {"memory", "copy"}

\* Server.stop_game_if_needed, when the controllers have become c.
StopGameIfNeeded(c) ==
    IF status = "active" /\ Understaffed(c, board)
    THEN status' = "forming" /\ UnscheduleGame
    ELSE UNCHANGED <<status, schedule>>

\* ServerGame.game_can_start, when the controllers have become c.
GameCanStart(c) == status = "forming" /\ ~StartMaster /\ HasExpectedControls(c)

StartIfPossible(c) ==
    IF GameCanStart(c) THEN status' = "active" /\ ScheduleGame
                       ELSE UNCHANGED <<status, schedule>>

----------------------------------------------------------------------------
(* What handlers do to the powers.                                          *)

\* The controllers after user u took the powers ps.
Joined(u, ps) == [p \in Powers |-> IF p \in ps THEN u ELSE controller[p]]

\* Mutant: the vote of the former controller is kept.
ReleaseKeepsVote(ps) ==
    LET freed == {p \in ps : IsControlled(controller, p)} IN
    /\ controller' = Joined(Dummy, ps)
    /\ wait' = [p \in Powers |-> wait[p] \/ p \in freed]
    /\ UNCHANGED <<vote, voter>>

\* Power.set_controlled(None) on each power of ps.
Release(ps) ==
    LET freed == {p \in ps : IsControlled(controller, p)} IN
    /\ controller' = Joined(Dummy, ps)
    /\ wait' = [p \in Powers |-> wait[p] \/ p \in freed]
    /\ vote' = [p \in Powers |-> vote[p] /\ p \notin freed]
    /\ voter' = [p \in Powers |-> IF p \in freed THEN Nobody ELSE voter[p]]

ClearVote ==
    /\ vote' = [p \in Powers |-> FALSE]
    /\ voter' = [p \in Powers |-> Nobody]

\* The wait flags after Power.clear_orders on each power of ps.
WaitCleared(ps) == [p \in Powers |-> IF p \in ps THEN board[p] # "out" ELSE wait[p]]

\* Game.draw.  (What it does to retreats does not matter: the game is over.)
Draw ==
    /\ status' = "completed"
    /\ phase_done' = TRUE
    /\ wait' = WaitCleared(Powers)
    /\ ClearVote
    /\ UNCHANGED <<board, phase_start>>

----------------------------------------------------------------------------
(* Requests of players.                                                     *)

\* on_join_game with a power name, in a game with the rule POWER_CHOICE.
JoinGame(u, p) ==
    /\ Open
    /\ board[p] # "out"
    /\ IF controller[p] = u
       THEN UNCHANGED <<controller, status, schedule>>
       ELSE /\ ~HasExpectedControls(controller) \/ u \in Masters
            /\ ~IsControlled(controller, p)
            /\ MultiplePowers \/ \A q \in Powers : controller[q] # u
            /\ controller' = Joined(u, {p})
            /\ StartIfPossible(Joined(u, {p}))
    /\ SaveGame
    /\ UNCHANGED <<settings, play, flags>>

\* on_join_powers: it asks neither whether the powers are eliminated nor
\* whether they are too many.
JoinPowers(u, ps) ==
    LET required == {p \in ps : ~IsControlled(controller, p)} IN
    /\ Open
    /\ \A p \in ps \ required : controller[p] = u
    /\ IF required = {}
       THEN UNCHANGED <<controller, status, schedule>>
       ELSE /\ \/ u \in Masters
               \/ /\ MultiplePowers \/ required = ps
                  /\ ~HasExpectedControls(controller)
            /\ controller' = Joined(u, required)
            /\ StartIfPossible(Joined(u, required))
    /\ SaveGame
    /\ UNCHANGED <<settings, play, flags>>

\* on_leave_game, for a player; also answered after the end of the game.
LeaveGame(p) ==
    /\ InMemory
    /\ IsControlled(controller, p)
    /\ Release({p})
    /\ StopGameIfNeeded(controller')
    /\ SaveGame
    /\ UNCHANGED <<settings, play>>

\* on_delete_account, for an account that is no game master.
DeleteAccount(u) ==
    /\ InMemory
    /\ LET ps == {p \in Powers : controller[p] = u} IN
       IF ps = {} THEN UNCHANGED <<controller, flags, status, schedule>>
                  ELSE Release(ps) /\ StopGameIfNeeded(controller')
    /\ SaveGame
    /\ UNCHANGED <<settings, play>>

\* Server.remove_token, by a logout or a connection that is closed: whoever the
\* user is, every game in memory is stopped if it has too few players.
RemoveToken ==
    /\ InMemory
    /\ StopGameIfNeeded(controller)
    /\ SaveGame
    /\ UNCHANGED <<settings, play, controller, flags>>

\* on_set_wait_flag, by the controller of p, the bot or a game master.
SetWaitFlag(p, w) ==
    /\ Open
    /\ wait' = [wait EXCEPT ![p] = w]
    /\ UNCHANGED <<settings, status, play, controller, vote, voter>>
    /\ IF DoesNotWait' THEN ForceGameProcessing ELSE UNCHANGED schedule
    /\ SaveGame

\* on_set_orders without a wait flag (with one, it is SetWaitFlag): the flag is
\* kept, and the game is processed if it waits for nobody.
SetOrders ==
    /\ Open
    /\ IF DoesNotWait THEN ForceGameProcessing ELSE UNCHANGED schedule
    /\ SaveGame
    /\ UNCHANGED game

\* on_clear_orders, for one power or all.
ClearOrders(ps) ==
    /\ Open
    /\ wait' = WaitCleared(ps)
    /\ UNCHANGED <<settings, status, play, controller, vote, voter, stored, schedule>>

\* on_vote, by the controller of p, or by the bot for a dummy power it was given
\* (Power.is_controlled_by: the power has its token).
Vote(u, p, yes) ==
    /\ Open
    /\ board[p] # "out"
    /\ \/ controller[p] = u
       \/ u = Bot /\ controller[p] = Dummy /\ p \in lent
    /\ IF HasDrawVote([vote EXCEPT ![p] = yes])
       THEN Draw /\ UnscheduleGame
       ELSE /\ vote' = [vote EXCEPT ![p] = yes]
            /\ voter' = [voter EXCEPT ![p] = IF yes THEN u ELSE Nobody]
            /\ UNCHANGED <<status, play, wait, schedule>>
    /\ SaveGame
    /\ UNCHANGED <<settings, controller>>

\* The boards on which the powers ps have lost their units or their centers.
Bereaved(ps) ==
    {b \in [Powers -> {"orders", "idle", "out"}] :
        \A p \in Powers : p \notin ps \/ board[p] = "out" => b[p] = board[p]}

\* on_clear_units, and on_clear_centers which is alike: nothing is saved, and
\* nobody asks whether the game must go on.
ClearUnits(ps) ==
    /\ Open
    /\ board' \in Bereaved(ps)
    /\ UNCHANGED <<settings, status, phase_done, phase_start, controller, flags,
                   stored, schedule>>

----------------------------------------------------------------------------
(* Requests of game masters and administrators.                             *)

\* Mutant: the game goes on without the freed powers.
SetDummyPowersKeepsGame(ps) ==
    /\ Open
    /\ \E p \in ps : IsControlled(controller, p)
    /\ Release(ps)
    /\ SaveGame
    /\ UNCHANGED <<settings, status, play, schedule>>

\* on_set_dummy_powers, for the powers that remain once those of other users
\* are taken out; without a controlled one among them it changes nothing.
SetDummyPowers(ps) ==
    /\ Open
    /\ \E p \in ps : IsControlled(controller, p)
    /\ Release(ps)
    /\ StopGameIfNeeded(controller')
    /\ SaveGame
    /\ UNCHANGED <<settings, play>>

\* on_process_game: no power waits any more, a game that was forming is active.
ProcessGame ==
    /\ Open
    /\ wait' = [p \in Powers |-> FALSE]
    /\ status' = IF status = "forming" THEN "active" ELSE status
    /\ ForceGameProcessing
    /\ SaveGame
    /\ UNCHANGED <<settings, play, controller, vote, voter>>

\* Mutant: the end of a game is not asked about.
SetGameStatusAnytime(s) ==
    /\ InMemory
    /\ s # status
    /\ s \in {"forming", "active", "paused", "canceled"}
    /\ status' = s
    /\ IF s = "active" THEN ScheduleGame ELSE UnscheduleGame
    /\ SaveGame
    /\ UNCHANGED <<settings, play, controller, flags>>

\* on_set_game_status.  A game set to forming stays in the scheduler; a canceled
\* game may be deleted, and is then saved all the same.
SetGameStatus(s) ==
    /\ Open
    /\ s # status
    /\ \/ s = "completed" /\ Draw /\ UnscheduleGame
       \/ /\ s # "completed"
          /\ status' = s
          /\ CASE s = "active"  -> ScheduleGame
               [] s = "forming" -> UNCHANGED schedule
               [] s \in {"paused", "canceled"} -> UnscheduleGame
          /\ UNCHANGED <<play, flags>>
    /\ stored' = {"copy"} \cup
         IF s = "canceled" /\ RemoveCanceled THEN DeleteGameData(stored) ELSE stored
    /\ UNCHANGED <<settings, controller>>

\* on_delete_game
DeleteGame ==
    /\ InMemory
    /\ status' = IF Ended THEN status ELSE "canceled"
    /\ stored' = DeleteGameData(stored)
    /\ UnscheduleGame
    /\ UNCHANGED <<settings, play, controller, flags>>

----------------------------------------------------------------------------
(* The loops of the server: clock and worker.                               *)

Clock == S!Step /\ UNCHANGED <<game, stored>>

\* Server._process_game: must the scheduler forget a game of status s?
Done(s) == s # "active"

\* Mutant: a finished game takes the name of its last phase for a status.
StatusIsPhase(b, finished) ==
    IF Understaffed(controller, b) THEN "forming"
    ELSE IF finished THEN "COMPLETED" ELSE "active"

\* The status in which ServerGame.process leaves an active game, with board b:
\* too few players stop it, also when the phase was its last.
StatusAfter(b, finished) ==
    IF Understaffed(controller, b) THEN "forming"
    ELSE IF finished THEN "completed" ELSE "active"

\* ServerGame.process of an active game: a new phase on a new board, perhaps the
\* end; a power that is out stays out; votes and wait flags start again.
ProcessPhase ==
    /\ tasks_queue # << >> /\ S!Runs(DoesNotWait)
    /\ status = "active"
    /\ board' \in Bereaved(Powers)
    /\ \E finished \in BOOLEAN :
          /\ finished => ~phase_done
          /\ phase_done' = (phase_done \/ finished)
          /\ status' = StatusAfter(board', finished)
    /\ phase_start' = current_time
    /\ wait' = [p \in Powers |-> TRUE]
    /\ ClearVote
    /\ S!ProcessTask(DoesNotWait, Done(status'))
    /\ SaveGame
    /\ UNCHANGED <<settings, controller>>

\* The worker's other turns: a game that is not active is saved and forgotten by
\* the scheduler, a task that is invalid or refused is dropped.
SkipTask ==
    /\ tasks_queue # << >>
    /\ S!Runs(DoesNotWait) => status # "active"
    /\ S!ProcessTask(DoesNotWait, TRUE)
    /\ IF S!Runs(DoesNotWait) THEN SaveGame ELSE UNCHANGED stored
    /\ UNCHANGED game

----------------------------------------------------------------------------

\* on_create_game by a master, as a player or as an observer.
Init ==
    /\ deadline \in Deadlines /\ n_controls \in Counts
    /\ board = [p \in Powers |-> "orders"]
    /\ \/ controller = [p \in Powers |-> Dummy]
       \/ \E u \in Masters, p \in Powers :
             controller = [q \in Powers |-> IF q = p THEN u ELSE Dummy]
    /\ wait = [p \in Powers |-> TRUE]
    /\ vote = [p \in Powers |-> FALSE]
    /\ voter = [p \in Powers |-> Nobody]
    /\ phase_done = FALSE /\ phase_start = 0
    /\ stored = {"memory", "copy"}
    /\ current_time = 0 /\ data_in_queue = Empty /\ tasks_queue = << >>
    /\ worker = "running"
    /\ IF ~StartMaster /\ HasExpectedControls(controller)
       THEN /\ status = "active"
            /\ data_in_heap = IF deadline > 0
                              THEN Put(Empty, Game, [start |-> 0, delay |-> deadline])
                              ELSE Empty
       ELSE status = "forming" /\ data_in_heap = Empty
    /\ lent = {p \in Powers : controller[p] = Dummy /\ status # "forming"}

PlayerRequest ==
    \/ \E u \in Users, p \in Powers : JoinGame(u, p)
    \/ \E u \in Users, ps \in SUBSET Powers \ {{}} : JoinPowers(u, ps)
    \/ \E p \in Powers : LeaveGame(p)
    \/ \E u \in Users \ Masters : DeleteAccount(u)
    \/ RemoveToken
    \/ \E p \in Powers, w \in BOOLEAN : SetWaitFlag(p, w)
    \/ SetOrders
    \/ \E ps \in {{p} : p \in Powers} \cup {Powers} : ClearOrders(ps) \/ ClearUnits(ps)
    \/ \E u \in Users \cup {Bot}, p \in Powers, yes \in BOOLEAN : Vote(u, p, yes)

MasterRequest ==
    \/ \E ps \in SUBSET Powers : SetDummyPowers(ps)
    \/ ProcessGame
    \/ \E s \in {"forming", "active", "paused", "completed", "canceled"} : SetGameStatus(s)
    \/ DeleteGame

\* The dummy powers the bot may join (on_join_game and on_join_powers of the bot): it
\* may not while the game is forming, but keeps those it has when the game is stopped,
\* until somebody controls them.
Lend ==
    lent' = {p \in Powers : /\ controller'[p] = Dummy
                            /\ status' # "forming" \/ (controller[p] = Dummy /\ p \in lent)}

Next == (PlayerRequest \/ MasterRequest \/ Clock \/ ProcessPhase \/ SkipTask) /\ Lend

Spec == Init /\ [][Next]_vars

----------------------------------------------------------------------------
(* Properties.                                                              *)

\* The type invariant.
TypeOK ==
    /\ deadline \in Deadlines /\ n_controls \in Counts
    /\ status \in {"forming", "active", "paused", "completed", "canceled"}
    /\ phase_done \in BOOLEAN /\ phase_start \in 0..current_time
    /\ board \in [Powers -> {"orders", "idle", "out"}]
    /\ controller \in [Powers -> Users \cup {Dummy}]
    /\ wait \in [Powers -> BOOLEAN] /\ vote \in [Powers -> BOOLEAN]
    /\ voter \in [Powers -> Users \cup {Bot, Nobody}]
    /\ lent \subseteq Powers /\ stored \subseteq {"memory", "copy"}
    /\ S!TypeOK

\* What the server keeps of a game fits its status.  However the game ends (a victory,
\* a draw voted or forced, a cancellation or a deletion, with its task waiting, queued
\* or invalid), the scheduler forgets it: its players are never sent another phase.
\* When it is played with a deadline, the scheduler knows it, however it became active.
\* When it is deleted, no copy waits to be written and none is on disk.
KeptByStatus ==
    /\ Ended => ~S!HasData(Game)
    /\ status = "active" /\ deadline > 0 => S!HasData(Game)
    /\ ~InMemory => stored = {}

\* A vote counts for the user who cast it: no user inherits the vote of
\* another who controlled the power before, by leaving, by force or by deletion.
VoteOfController ==
    \A p \in Powers : vote[p] /\ voter[p] # Bot => voter[p] = controller[p]

\* No phase is cut short: while a power waits, a phase lasts at least the
\* deadline, whatever was scheduled, forced, paused and resumed before.
PhaseNotCutShort ==
    [][~DoesNotWait /\ current_time < phase_start + deadline => ~ProcessPhase]_vars

\* The end of a game is final, in any later order of requests and tasks.
EndedIsFinal == [][Ended => status' = status]_vars

\* A game that loses a player it needs does not go on: whoever frees the power,
\* it is stopped in the same step.
LosingPlayerStopsGame ==
    [][/\ Controlled(controller') # Controlled(controller)
       /\ Controlled(controller') \subseteq Controlled(controller)
       /\ Understaffed(controller', board')
       => status' # "active"]_vars

=============================================================================
