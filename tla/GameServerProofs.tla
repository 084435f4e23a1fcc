------------------------- MODULE GameServerProofs -------------------------
(***************************************************************************)
(* What the server keeps of a game, whatever the requests, the clock and    *)
(* the worker do, for any powers, users and deadlines.                      *)
(*                                                                          *)
(* The game uses the scheduler only by its operations, so the inductive     *)
(* invariant of SchedulerProofs holds of its schedule; what is added here   *)
(* relates the schedule, the status, the stored copies and the votes.       *)
(***************************************************************************)
EXTENDS GameServer, FiniteSetTheorems, TLAPS

SP == INSTANCE SchedulerProofs WITH Data <- {Game}, Delays <- Deadlines

----------------------------------------------------------------------------
(* The inductive invariant.                                                 *)

\* The scheduler knows the game by its deadline.  No deadline began before the
\* phase did, and the clock enqueued the game only when the phase had lasted.
Timing ==
    /\ \A d \in DOMAIN data_in_heap :
          data_in_heap[d].delay = deadline /\ data_in_heap[d].start >= phase_start
    /\ \A d \in DOMAIN data_in_queue :
          /\ data_in_queue[d].delay = deadline
          /\ ~data_in_queue[d].immediate => phase_start + deadline <= current_time

\* The two parts of KeptByStatus about the schedule, and the one about the copies,
\* which a server that removes canceled games breaks (on_set_game_status saves the
\* game after it deleted it).
ScheduledByStatus ==
    /\ Ended => ~S!HasData(Game)
    /\ status = "active" /\ deadline > 0 => S!HasData(Game)

DeletedForGood == ~RemoveCanceled /\ ~InMemory => stored = {}

\* A game leaves the memory only when it is over.
ForgottenAtEnd == ~InMemory => Ended

\* Each vote for a draw was cast by somebody.
VotesCast == \A p \in Powers : vote[p] => voter[p] # Nobody

IInv ==
    /\ TypeOK
    /\ SP!IInv
    /\ Timing
    /\ ScheduledByStatus
    /\ DeletedForGood
    /\ ForgottenAtEnd
    /\ VotesCast
    /\ VoteOfController

----------------------------------------------------------------------------
(* The game and its scheduler.                                              *)

\* The scheduler of a game has one datum, and the game's deadlines for delays.
LEMMA SchedulerInstance == SP!SchedulerAssumption
<1>1. IsFiniteSet({Game}) <=> SP!IsFiniteSet({Game})
  BY DEF IsFiniteSet, SP!IsFiniteSet
<1>2. IsFiniteSet({Game})
  BY FS_Singleton
<1> QED
  BY <1>1, <1>2, GameServerAssumption DEF SP!SchedulerAssumption, GameServerAssumption

\* Every step of the server is a step of the scheduler, or leaves it alone.
LEMMA SchedulerStep == IInv /\ [Next]_vars => [SP!Next]_(SP!vars)
<1> SUFFICES ASSUME IInv, [Next]_vars PROVE [SP!Next]_(SP!vars)
  OBVIOUS
<1>1. deadline \in Deadlines
  BY DEF IInv, TypeOK
<1>2. UNCHANGED schedule => UNCHANGED SP!vars
  BY DEF schedule, SP!vars
<1>3. S!AddData(Game, deadline) => SP!Next
  <2>1. S!AddData(Game, deadline) => SP!AddData(Game, deadline)
    BY DEF S!AddData, SP!AddData, S!HasData, SP!HasData, S!Put, SP!Put
  <2> QED
    BY <1>1, <2>1 DEF SP!Next, SP!Callers
<1>4. S!RemoveData(Game) => SP!Next
  <2>1. S!RemoveData(Game) => SP!RemoveData(Game)
    BY DEF S!RemoveData, SP!RemoveData, S!Invalidated, SP!Invalidated, S!Drop, SP!Drop
  <2> QED
    BY <2>1 DEF SP!Next, SP!Callers
<1>5. ForceGameProcessing => SP!Next
  <2>1. S!NoWait(Game, deadline) => SP!NoWait(Game, deadline)
    BY DEF S!NoWait, SP!NoWait, S!Put, SP!Put, S!Drop, SP!Drop, S!UpdateDelay, SP!UpdateDelay,
           S!ImmediateTask, SP!ImmediateTask
  <2> QED
    BY <1>1, <2>1 DEF SP!Next, SP!Callers, ForceGameProcessing
<1>6. S!Step => SP!Next
  <2>1. S!Step => SP!Step
    BY DEF S!Step, SP!Step, S!Due, SP!Due, S!HeapOrders, SP!HeapOrders, S!DueTime, SP!DueTime,
           S!TimedTask, SP!TimedTask, S!Cardinality, SP!Cardinality
  <2> QED
    BY <2>1 DEF SP!Next
<1>7. ASSUME NEW ok \in BOOLEAN, NEW done \in BOOLEAN, S!ProcessTask(ok, done)
      PROVE  SP!Next
  <2>1. SP!ProcessTask(ok, done)
    BY <1>7 DEF S!ProcessTask, SP!ProcessTask, S!Runs, SP!Runs, S!Finish, SP!Finish, S!Put, SP!Put,
           S!Drop, SP!Drop
  <2> QED
    BY <2>1 DEF SP!Next, SP!Works
<1>8. ScheduleGame \/ UnscheduleGame \/ UNCHANGED schedule => [SP!Next]_(SP!vars)
  BY <1>2, <1>3, <1>4 DEF ScheduleGame, UnscheduleGame
<1>9. \A c : StopGameIfNeeded(c) \/ StartIfPossible(c) => [SP!Next]_(SP!vars)
  BY <1>8 DEF StopGameIfNeeded, StartIfPossible
<1>10. DoesNotWait \in BOOLEAN /\ Done(status') \in BOOLEAN
  BY DEF DoesNotWait, Done
<1>11. CASE PlayerRequest
  BY <1>5, <1>8, <1>9, <1>11
  DEF PlayerRequest, JoinGame, JoinPowers, LeaveGame, DeleteAccount, RemoveToken, SetWaitFlag,
      SetOrders, ClearOrders, ClearUnits, Vote
<1>12. CASE MasterRequest
  BY <1>5, <1>8, <1>9, <1>12
  DEF MasterRequest, SetDummyPowers, ProcessGame, SetGameStatus, DeleteGame
<1>13. CASE Clock \/ ProcessPhase \/ SkipTask
  BY <1>6, <1>7, <1>10, <1>13 DEF Clock, ProcessPhase, SkipTask
<1>14. CASE UNCHANGED vars
  BY <1>2, <1>14 DEF vars
<1> QED
  BY <1>11, <1>12, <1>13, <1>14 DEF Next

\* The schedule is well typed, has the game once, and every live task in the queue
\* is the registered one.
LEMMA ScheduleFacts ==
    IInv => /\ DOMAIN data_in_heap \subseteq {Game} /\ DOMAIN data_in_queue \subseteq {Game}
            /\ \A d \in DOMAIN data_in_heap : data_in_heap[d] \in [start : Int, delay : Nat]
            /\ \A d \in DOMAIN data_in_queue :
                  data_in_queue[d] \in [immediate : BOOLEAN, start : Int, delay : Nat]
            /\ ~(Game \in DOMAIN data_in_heap /\ Game \in DOMAIN data_in_queue)
            /\ tasks_queue # << >> /\ Head(tasks_queue).valid =>
                  Head(tasks_queue).data = Game /\ Game \in DOMAIN data_in_queue
            /\ deadline \in Nat /\ current_time \in Nat /\ phase_start \in Nat
            /\ phase_start <= current_time
<1> SUFFICES ASSUME IInv PROVE
            /\ DOMAIN data_in_heap \subseteq {Game} /\ DOMAIN data_in_queue \subseteq {Game}
            /\ \A d \in DOMAIN data_in_heap : data_in_heap[d] \in [start : Int, delay : Nat]
            /\ \A d \in DOMAIN data_in_queue :
                  data_in_queue[d] \in [immediate : BOOLEAN, start : Int, delay : Nat]
            /\ ~(Game \in DOMAIN data_in_heap /\ Game \in DOMAIN data_in_queue)
            /\ tasks_queue # << >> /\ Head(tasks_queue).valid =>
                  Head(tasks_queue).data = Game /\ Game \in DOMAIN data_in_queue
            /\ deadline \in Nat /\ current_time \in Nat /\ phase_start \in Nat
            /\ phase_start <= current_time
  OBVIOUS
<1>1. SP!TypeOK /\ SP!WaitingOrQueued /\ SP!LiveTaskRegistered
  BY DEF IInv, SP!IInv
<1>2. /\ DOMAIN data_in_heap \subseteq {Game} /\ DOMAIN data_in_queue \subseteq {Game}
      /\ \A d \in DOMAIN data_in_heap : data_in_heap[d] \in [start : Int, delay : Nat]
      /\ \A d \in DOMAIN data_in_queue :
            data_in_queue[d] \in [immediate : BOOLEAN, start : Int, delay : Nat]
  BY <1>1 DEF SP!TypeOK, SP!IsDict, SP!Deadline, SP!Task
<1>3. ~(Game \in DOMAIN data_in_heap /\ Game \in DOMAIN data_in_queue)
  BY <1>1 DEF SP!WaitingOrQueued
<1>4. ASSUME tasks_queue # << >>, Head(tasks_queue).valid
      PROVE  Head(tasks_queue).data = Game /\ Game \in DOMAIN data_in_queue
  <2>1. tasks_queue \in Seq(SP!Entry) /\ Head(tasks_queue) = tasks_queue[1]
        /\ 1 \in DOMAIN tasks_queue
    BY <1>1, <1>4 DEF SP!TypeOK
  <2>2. tasks_queue[1].data \in DOMAIN data_in_queue
    BY <1>1, <1>4, <2>1 DEF SP!LiveTaskRegistered
  <2> QED
    BY <1>2, <2>1, <2>2
<1>5. /\ deadline \in Nat /\ current_time \in Nat /\ phase_start \in Nat
      /\ phase_start <= current_time
  BY <1>1, GameServerAssumption DEF IInv, TypeOK, SP!TypeOK, GameServerAssumption
<1> QED
  BY <1>2, <1>3, <1>4, <1>5

\* What an operation of a request does to the schedule of a game whose deadline
\* and phase do not change: is the game scheduled afterwards?
Operated(scheduled) ==
    /\ UNCHANGED <<deadline, phase_start>> => Timing'
    /\ current_time' = current_time
    /\ S!HasData(Game)' <=> scheduled

\* ServerGame's game is added with its deadline unless it is scheduled, or has none.
LEMMA ScheduleEffect ==
    IInv /\ ScheduleGame => Operated(S!HasData(Game) \/ deadline > 0)
<1> SUFFICES ASSUME IInv, ScheduleGame PROVE Operated(S!HasData(Game) \/ deadline > 0)
  OBVIOUS
<1>1. CASE ~S!HasData(Game) /\ deadline > 0
  BY <1>1, ScheduleFacts
  DEF IInv, ScheduleGame, S!AddData, S!HasData, S!Put, Operated, Timing
<1>2. CASE ~(~S!HasData(Game) /\ deadline > 0)
  BY <1>2, ScheduleFacts DEF IInv, ScheduleGame, schedule, S!HasData, Operated, Timing
<1> QED
  BY <1>1, <1>2

\* The game is not scheduled any more: it was in one of the dictionaries only.
LEMMA UnscheduleEffect == IInv /\ UnscheduleGame => Operated(FALSE)
<1> SUFFICES ASSUME IInv, UnscheduleGame PROVE Operated(FALSE)
  OBVIOUS
<1>1. CASE S!HasData(Game)
  BY <1>1, ScheduleFacts
  DEF IInv, UnscheduleGame, S!RemoveData, S!HasData, S!Drop, Operated, Timing
<1>2. CASE ~S!HasData(Game)
  BY <1>2, ScheduleFacts DEF IInv, UnscheduleGame, schedule, S!HasData, Operated, Timing
<1> QED
  BY <1>1, <1>2

\* A forced game is scheduled, by a task that is not the clock's.
LEMMA ForceEffect == IInv /\ ForceGameProcessing => Operated(TRUE)
<1> SUFFICES ASSUME IInv, S!NoWait(Game, deadline) PROVE Operated(TRUE)
  BY DEF ForceGameProcessing
<1>1. CASE Game \in DOMAIN data_in_heap \/ Game \notin DOMAIN data_in_queue
  BY <1>1, ScheduleFacts
  DEF IInv, S!NoWait, S!HasData, S!Put, S!Drop, S!ImmediateTask, Operated, Timing
<1>2. CASE ~(Game \in DOMAIN data_in_heap \/ Game \notin DOMAIN data_in_queue)
  <2>1. /\ DOMAIN data_in_queue' = DOMAIN data_in_queue
        /\ data_in_queue'[Game] = S!UpdateDelay(data_in_queue[Game], deadline)
        /\ data_in_heap' = data_in_heap /\ current_time' = current_time
    BY <1>2 DEF S!NoWait
  <2>2. /\ S!UpdateDelay(data_in_queue[Game], deadline).delay = deadline
        /\ S!UpdateDelay(data_in_queue[Game], deadline).immediate
              = data_in_queue[Game].immediate
    BY <1>2, ScheduleFacts DEF S!UpdateDelay, S!ImmediateTask
  <2> QED
    BY <1>2, <2>1, <2>2, ScheduleFacts DEF IInv, S!HasData, Operated, Timing
<1> QED
  BY <1>1, <1>2

\* Most requests leave the schedule alone.
LEMMA NoEffect == IInv /\ UNCHANGED schedule => Operated(S!HasData(Game))
  BY DEF IInv, schedule, S!HasData, Operated, Timing

\* The clock moves the game to the queue when its deadline has come.
LEMMA ClockEffect ==
    IInv /\ S!Step /\ UNCHANGED <<deadline, phase_start>> =>
        /\ Timing'
        /\ current_time' = current_time + 1
        /\ S!HasData(Game)' <=> S!HasData(Game)
<1> SUFFICES ASSUME IInv, S!Step, UNCHANGED <<deadline, phase_start>>
             PROVE  /\ Timing'
                    /\ current_time' = current_time + 1
                    /\ S!HasData(Game)' <=> S!HasData(Game)
  OBVIOUS
<1> DEFINE due == S!Due(current_time + 1)
<1>1. /\ current_time' = current_time + 1
      /\ DOMAIN data_in_heap' = DOMAIN data_in_heap \ due
      /\ \A d \in DOMAIN data_in_heap \ due : data_in_heap'[d] = data_in_heap[d]
      /\ DOMAIN data_in_queue' = DOMAIN data_in_queue \cup due
      /\ \A d \in due : data_in_queue'[d] = S!TimedTask(data_in_heap[d])
      /\ \A d \in DOMAIN data_in_queue \ due : data_in_queue'[d] = data_in_queue[d]
  BY DEF S!Step
<1>2. /\ due \subseteq DOMAIN data_in_heap
      /\ \A d \in due : data_in_heap[d].start + data_in_heap[d].delay <= current_time + 1
  BY DEF S!Due, S!DueTime
<1> HIDE DEF due
<1>3. S!HasData(Game)' <=> S!HasData(Game)
  BY <1>1, <1>2 DEF S!HasData
<1>4. ASSUME NEW d \in DOMAIN data_in_queue'
      PROVE  /\ data_in_queue'[d].delay = deadline
             /\ ~data_in_queue'[d].immediate => phase_start + deadline <= current_time'
  <2>1. CASE d \in due
    BY <1>1, <1>2, <2>1, ScheduleFacts DEF IInv, Timing, S!TimedTask
  <2>2. CASE d \notin due
    BY <1>1, <1>4, <2>2, ScheduleFacts DEF IInv, Timing
  <2> QED
    BY <2>1, <2>2
<1> QED
  BY <1>1, <1>2, <1>3, <1>4 DEF IInv, Timing

----------------------------------------------------------------------------
(* The requests: the schedule fits the status, and so do the copies.        *)

Statuses == {"forming", "active", "paused", "completed", "canceled"}

\* The deadline and the phase do not change, an end is final, and the schedule is
\* what the status asks for.
Fits ==
    /\ UNCHANGED <<deadline, phase_start>>
    /\ current_time' = current_time
    /\ status' \in Statuses
    /\ Ended => status' = status
    /\ Timing'
    /\ ScheduledByStatus'

\* A handler that changes the schedule by one operation.
LEMMA OperatedFits ==
    ASSUME IInv, UNCHANGED <<deadline, phase_start>>, NEW scheduled, Operated(scheduled),
           status' \in Statuses, Ended => status' = status,
           status' \in {"completed", "canceled"} => ~scheduled,
           status' = "active" /\ deadline > 0 => scheduled
    PROVE  Fits
  BY DEF Fits, Operated, ScheduledByStatus, Ended

\* One that changes neither the status nor the schedule.
LEMMA SameFits == IInv /\ UNCHANGED <<deadline, phase_start, status, schedule>> => Fits
<1> SUFFICES ASSUME IInv, UNCHANGED <<deadline, phase_start, status, schedule>> PROVE Fits
  OBVIOUS
<1>1. Operated(S!HasData(Game))
  BY NoEffect
<1>2. status \in Statuses
  BY DEF IInv, TypeOK, Statuses
<1> QED
  BY <1>1, <1>2, OperatedFits DEF IInv, ScheduledByStatus, Ended

\* stop_game_if_needed unschedules a game that it stops.
LEMMA StopFits ==
    ASSUME IInv, NEW c, StopGameIfNeeded(c), UNCHANGED <<deadline, phase_start>>
    PROVE  Fits
<1>1. CASE status = "active" /\ Understaffed(c, board)
  <2>1. Operated(FALSE) /\ status' = "forming"
    BY <1>1, UnscheduleEffect DEF StopGameIfNeeded
  <2> QED
    BY <1>1, <2>1, OperatedFits DEF Statuses, Ended
<1>2. CASE ~(status = "active" /\ Understaffed(c, board))
  BY <1>2, SameFits DEF StopGameIfNeeded
<1> QED
  BY <1>1, <1>2

\* A game that starts is scheduled, if it has a deadline.
LEMMA StartFits ==
    ASSUME IInv, NEW c, StartIfPossible(c), UNCHANGED <<deadline, phase_start>>
    PROVE  Fits
<1>1. CASE GameCanStart(c)
  <2>1. Operated(S!HasData(Game) \/ deadline > 0) /\ status' = "active" /\ status = "forming"
    BY <1>1, ScheduleEffect DEF StartIfPossible, GameCanStart
  <2> QED
    BY <2>1, OperatedFits DEF Statuses, Ended
<1>2. CASE ~GameCanStart(c)
  BY <1>2, SameFits DEF StartIfPossible
<1> QED
  BY <1>1, <1>2

\* A game that is drawn or canceled is unscheduled.
LEMMA EndFits ==
    ASSUME IInv, Open, UnscheduleGame, status' \in {"completed", "canceled"},
           UNCHANGED <<deadline, phase_start>>
    PROVE  Fits
<1>1. Operated(FALSE)
  BY UnscheduleEffect
<1> QED
  BY <1>1, OperatedFits DEF Statuses, Open

\* Every request.
LEMMA RequestFits == IInv /\ (PlayerRequest \/ MasterRequest) => Fits
<1> SUFFICES ASSUME IInv, PlayerRequest \/ MasterRequest PROVE Fits
  OBVIOUS
<1>1. ASSUME NEW u, NEW ps, JoinGame(u, ps) \/ JoinPowers(u, ps) PROVE Fits
  BY <1>1, SameFits, StartFits DEF JoinGame, JoinPowers, settings, play
<1>2. ASSUME NEW x, LeaveGame(x) \/ DeleteAccount(x) \/ RemoveToken \/ SetDummyPowers(x)
      PROVE Fits
  BY <1>2, SameFits, StopFits DEF LeaveGame, DeleteAccount, RemoveToken, SetDummyPowers, settings, play
<1>3. ASSUME Open, ForceGameProcessing \/ UNCHANGED schedule, status' = status,
             UNCHANGED <<deadline, phase_start>>
      PROVE  Fits
  <2>1. CASE ForceGameProcessing
    <3>1. Operated(TRUE)
      BY <2>1, ForceEffect
    <3>2. status \in Statuses
      BY DEF IInv, TypeOK, Statuses
    <3> QED
      BY <1>3, <3>1, <3>2, OperatedFits DEF Open, Ended
  <2>2. CASE UNCHANGED schedule
    BY <1>3, <2>2, SameFits
  <2> QED
    BY <1>3, <2>1, <2>2
<1>4. ASSUME NEW p, NEW w, SetWaitFlag(p, w) \/ SetOrders \/ ClearOrders(p) \/ ClearUnits(p)
      PROVE Fits
  BY <1>3, <1>4 DEF SetWaitFlag, SetOrders, ClearOrders, ClearUnits, game, settings, play
<1>5. ASSUME NEW u, NEW p, NEW yes, Vote(u, p, yes) PROVE Fits
  BY <1>5, SameFits, EndFits DEF Vote, Draw, settings, play
<1>6. CASE ProcessGame
  <2>1. Operated(TRUE)
    BY <1>6, ForceEffect DEF ProcessGame
  <2>2. status' \in Statuses /\ ~Ended /\ status' \notin {"completed", "canceled"}
    BY <1>6 DEF ProcessGame, Open, Ended, IInv, TypeOK, Statuses
  <2> QED
    BY <1>6, <2>1, <2>2, OperatedFits DEF ProcessGame, settings, play
<1>7. ASSUME NEW s \in Statuses, SetGameStatus(s) PROVE Fits
  <2>1. UNCHANGED <<deadline, phase_start>> /\ Open /\ status' = s
    BY <1>7 DEF SetGameStatus, Draw, settings, play
  <2>2. CASE s \in {"completed", "canceled"}
    BY <1>7, <2>1, <2>2, EndFits DEF SetGameStatus
  <2>3. CASE s = "active"
    <3>1. Operated(S!HasData(Game) \/ deadline > 0)
      BY <1>7, <2>3, ScheduleEffect DEF SetGameStatus
    <3> QED
      BY <2>1, <2>3, <3>1, OperatedFits DEF Open
  <2>4. CASE s = "forming"
    <3>1. Operated(S!HasData(Game))
      BY <1>7, <2>4, NoEffect DEF SetGameStatus
    <3> QED
      BY <2>1, <2>4, <3>1, OperatedFits DEF Open
  <2>5. CASE s = "paused"
    <3>1. Operated(FALSE)
      BY <1>7, <2>5, UnscheduleEffect DEF SetGameStatus
    <3> QED
      BY <2>1, <2>5, <3>1, OperatedFits DEF Open
  <2> QED
    BY <2>2, <2>3, <2>4, <2>5 DEF Statuses
<1>8. CASE DeleteGame
  <2>1. Operated(FALSE)
    BY <1>8, UnscheduleEffect DEF DeleteGame
  <2> QED
    BY <1>8, <2>1, OperatedFits DEF DeleteGame, Ended, Statuses, settings, play
<1> QED
  BY <1>1, <1>2, <1>4, <1>5, <1>6, <1>7, <1>8 DEF PlayerRequest, MasterRequest, Statuses

\* Requests are answered about a game in memory; it leaves the memory only deleted,
\* and canceled.
LEMMA RequestStores ==
    IInv /\ (PlayerRequest \/ MasterRequest) =>
        stored' \subseteq {"memory", "copy"} /\ DeletedForGood' /\ ForgottenAtEnd'
<1> SUFFICES ASSUME IInv, PlayerRequest \/ MasterRequest
             PROVE  stored' \subseteq {"memory", "copy"} /\ DeletedForGood' /\ ForgottenAtEnd'
  OBVIOUS
<1>1. stored \subseteq {"memory", "copy"}
  BY DEF IInv, TypeOK
<1>2. CASE InMemory /\ (SaveGame \/ UNCHANGED stored)
  BY <1>1, <1>2 DEF SaveGame, InMemory, DeletedForGood, ForgottenAtEnd
<1>3. ASSUME NEW s, SetGameStatus(s)
      PROVE  stored' \subseteq {"memory", "copy"} /\ DeletedForGood' /\ ForgottenAtEnd'
  BY <1>1, <1>3
  DEF SetGameStatus, DeleteGameData, Open, InMemory, Ended, DeletedForGood, ForgottenAtEnd, Draw
<1>4. CASE DeleteGame
  BY <1>1, <1>4 DEF DeleteGame, DeleteGameData, InMemory, Ended, DeletedForGood, ForgottenAtEnd
<1>5. PlayerRequest => InMemory /\ (SaveGame \/ UNCHANGED stored)
  BY DEF PlayerRequest, JoinGame, JoinPowers, LeaveGame, DeleteAccount, RemoveToken, SetWaitFlag,
         SetOrders, ClearOrders, ClearUnits, Vote, Open
<1>6. ASSUME NEW ps, SetDummyPowers(ps) \/ ProcessGame PROVE InMemory /\ SaveGame
  BY <1>6 DEF SetDummyPowers, ProcessGame, Open
<1> QED
  BY <1>2, <1>3, <1>4, <1>5, <1>6 DEF MasterRequest

----------------------------------------------------------------------------
(* The clock and the worker.                                                *)

\* The clock changes nothing but the schedule.
LEMMA ClockKeeps ==
    IInv /\ Clock => Timing' /\ ScheduledByStatus' /\ DeletedForGood' /\ ForgottenAtEnd'
  BY ClockEffect
  DEF Clock, IInv, ScheduledByStatus, DeletedForGood, ForgottenAtEnd, Ended, InMemory, game,
      settings, play

\* The game of the task that runs: it is in memory, has not ended and is played.
LEMMA RunningTask ==
    ASSUME IInv, tasks_queue # << >>, S!Runs(DoesNotWait)
    PROVE  /\ Head(tasks_queue).data = Game
           /\ Game \in DOMAIN data_in_queue /\ Game \notin DOMAIN data_in_heap
           /\ ~Ended /\ InMemory
           /\ data_in_queue[Game].immediate => DoesNotWait
<1>1. Head(tasks_queue).valid /\ (data_in_queue[Head(tasks_queue).data].immediate => DoesNotWait)
  BY DEF S!Runs
<1> QED
  BY <1>1, ScheduleFacts DEF IInv, ScheduledByStatus, ForgottenAtEnd, S!HasData

\* The worker takes the game from the queue, and schedules it again from now if it
\* goes on.
LEMMA FinishEffect ==
    ASSUME IInv, tasks_queue # << >>, S!Runs(DoesNotWait), NEW done \in BOOLEAN,
           S!ProcessTask(DoesNotWait, done), UNCHANGED deadline,
           phase_start' \in {phase_start, current_time}
    PROVE  /\ current_time' = current_time
           /\ Timing'
           /\ S!HasData(Game)' <=> ~done /\ deadline > 0
<1>1. /\ current_time' = current_time
      /\ Head(tasks_queue).data = Game
      /\ S!Finish(Game, done)
  BY RunningTask DEF S!ProcessTask
<1>2. /\ data_in_queue[Game].delay = deadline /\ deadline \in Nat
      /\ Game \notin DOMAIN data_in_heap
      /\ DOMAIN data_in_heap \subseteq {Game} /\ DOMAIN data_in_queue \subseteq {Game}
  BY RunningTask, ScheduleFacts DEF IInv, Timing
<1>3. DOMAIN data_in_queue' = {}
  BY <1>1, <1>2 DEF S!Finish, S!Drop
<1>4. CASE done \/ deadline = 0
  BY <1>1, <1>2, <1>3, <1>4 DEF S!Finish, S!HasData, Timing
<1>5. CASE ~(done \/ deadline = 0)
  <2>1. /\ DOMAIN data_in_heap' = {Game}
        /\ data_in_heap'[Game] = [start |-> current_time, delay |-> deadline]
    BY <1>1, <1>2, <1>5 DEF S!Finish, S!Put
  <2>2. phase_start' <= current_time
    BY ScheduleFacts
  <2> QED
    BY <1>1, <1>2, <1>3, <1>5, <2>1, <2>2, ScheduleFacts DEF S!HasData, Timing
<1> QED
  BY <1>4, <1>5

\* A phase is processed: a game that goes on is scheduled again, one that is over or
\* stopped is forgotten.
LEMMA PhaseKeeps ==
    IInv /\ ProcessPhase =>
        /\ Timing' /\ ScheduledByStatus' /\ DeletedForGood' /\ ForgottenAtEnd'
        /\ current_time' = current_time
<1> SUFFICES ASSUME IInv, ProcessPhase
             PROVE  /\ Timing' /\ ScheduledByStatus' /\ DeletedForGood' /\ ForgottenAtEnd'
                    /\ current_time' = current_time
  OBVIOUS
<1>1. tasks_queue # << >> /\ S!Runs(DoesNotWait) /\ S!ProcessTask(DoesNotWait, Done(status'))
      /\ UNCHANGED deadline /\ phase_start' = current_time /\ SaveGame
  BY DEF ProcessPhase, settings
<1>2. InMemory /\ InMemory'
  BY <1>1, RunningTask DEF SaveGame, InMemory
<1>3. Done(status') \in BOOLEAN
  BY DEF Done
<1>4. current_time' = current_time /\ Timing'
      /\ (S!HasData(Game)' <=> ~Done(status') /\ deadline > 0)
  BY <1>1, <1>3, FinishEffect
<1> QED
  BY <1>1, <1>2, <1>4 DEF ScheduledByStatus, DeletedForGood, ForgottenAtEnd, Done, Ended

\* A task that is skipped: a game that is not played is forgotten, a task that is
\* invalid or refused leaves the dictionaries alone.
LEMMA SkipKeeps ==
    IInv /\ SkipTask =>
        /\ Timing' /\ ScheduledByStatus' /\ DeletedForGood' /\ ForgottenAtEnd'
        /\ current_time' = current_time
<1> SUFFICES ASSUME IInv, SkipTask
             PROVE  /\ Timing' /\ ScheduledByStatus' /\ DeletedForGood' /\ ForgottenAtEnd'
                    /\ current_time' = current_time
  OBVIOUS
<1>1. tasks_queue # << >> /\ S!ProcessTask(DoesNotWait, TRUE)
      /\ UNCHANGED <<deadline, phase_start, status>>
  BY DEF SkipTask, game, settings, play
<1>2. CASE S!Runs(DoesNotWait)
  <2>1. InMemory /\ InMemory' /\ status # "active"
    BY <1>2, <1>1, RunningTask DEF SkipTask, SaveGame, InMemory
  <2>2. current_time' = current_time /\ Timing' /\ ~S!HasData(Game)'
    BY <1>1, <1>2, FinishEffect
  <2> QED
    BY <1>1, <2>1, <2>2 DEF ScheduledByStatus, DeletedForGood, ForgottenAtEnd, Ended
<1>3. CASE ~S!Runs(DoesNotWait)
  <2>1. UNCHANGED <<data_in_heap, data_in_queue, current_time, stored>>
    BY <1>1, <1>3 DEF SkipTask, S!ProcessTask
  <2> QED
    BY <1>1, <2>1
    DEF IInv, Timing, ScheduledByStatus, DeletedForGood, ForgottenAtEnd, Ended, InMemory, S!HasData
<1> QED
  BY <1>2, <1>3

----------------------------------------------------------------------------
(* Types, and the votes.                                                    *)

\* Whoever a vote counts for.
Votes == VotesCast /\ VoteOfController

PowersOK ==
    /\ board \in [Powers -> {"orders", "idle", "out"}]
    /\ controller \in [Powers -> Users \cup {Dummy}]
    /\ wait \in [Powers -> BOOLEAN] /\ vote \in [Powers -> BOOLEAN]
    /\ voter \in [Powers -> Users \cup {Bot, Nobody}]

\* The controllers change to those of Joined: a vote that counts is of a user, or the
\* bot's, so that no user takes over a vote when taking a free power.
LEMMA JoinKeepsVotes ==
    ASSUME PowersOK, Votes, NEW u \in Users, NEW ps \in SUBSET Powers,
           \A p \in ps : ~IsControlled(controller, p),
           controller' = Joined(u, ps), UNCHANGED <<board, wait, vote, voter>>
    PROVE  PowersOK' /\ Votes'
  BY GameServerAssumption
  DEF PowersOK, Votes, VotesCast, VoteOfController, IsControlled, Joined, GameServerAssumption

\* Powers that are freed lose their vote.
LEMMA ReleaseKeepsVotes ==
    ASSUME PowersOK, Votes, NEW ps, Release(ps), UNCHANGED board
    PROVE  PowersOK' /\ Votes'
<1> DEFINE freed == {p \in ps : IsControlled(controller, p)}
<1>1. /\ controller' \in [Powers -> Users \cup {Dummy}]
      /\ wait' \in [Powers -> BOOLEAN] /\ vote' \in [Powers -> BOOLEAN]
      /\ voter' \in [Powers -> Users \cup {Bot, Nobody}]
  BY DEF Release, Joined, PowersOK
<1>2. ASSUME NEW p \in Powers, vote'[p]
      PROVE  vote[p] /\ voter'[p] = voter[p] /\ controller'[p] = controller[p]
  <2>1. vote[p] /\ p \notin freed
    BY <1>2 DEF Release
  <2> QED
    BY <2>1, GameServerAssumption
    DEF Release, Joined, PowersOK, IsControlled, GameServerAssumption
<1> QED
  BY <1>1, <1>2 DEF PowersOK, Votes, VotesCast, VoteOfController

\* After a draw, and after a phase, no vote is left.
LEMMA ClearKeepsVotes ==
    ASSUME PowersOK, ClearVote, UNCHANGED controller,
           board' \in [Powers -> {"orders", "idle", "out"}], wait' \in [Powers -> BOOLEAN]
    PROVE  PowersOK' /\ Votes'
  BY DEF PowersOK, ClearVote, Votes, VotesCast, VoteOfController

\* What keeps the controllers and the votes keeps who they count for.
LEMMA OthersKeepVotes ==
    ASSUME PowersOK, Votes, UNCHANGED <<controller, vote, voter>>,
           board' \in [Powers -> {"orders", "idle", "out"}], wait' \in [Powers -> BOOLEAN]
    PROVE  PowersOK' /\ Votes'
  BY DEF PowersOK, Votes, VotesCast, VoteOfController

\* Every step keeps them.
LEMMA VotesStep == IInv /\ [Next]_vars => PowersOK' /\ Votes'
<1> SUFFICES ASSUME IInv, [Next]_vars PROVE PowersOK' /\ Votes'
  OBVIOUS
<1>1. PowersOK /\ Votes
  BY DEF IInv, TypeOK, PowersOK, Votes
<1>2. ASSUME NEW ps PROVE WaitCleared(ps) \in [Powers -> BOOLEAN]
  BY <1>1 DEF WaitCleared, PowersOK
<1>3. ASSUME NEW ps, NEW b \in Bereaved(ps) PROVE b \in [Powers -> {"orders", "idle", "out"}]
  BY DEF Bereaved
<1>4. UNCHANGED <<controller, flags, board>> => PowersOK' /\ Votes'
  BY <1>1, OthersKeepVotes DEF flags, PowersOK
<1>5. ASSUME NEW u \in Users, NEW p \in Powers, JoinGame(u, p) PROVE PowersOK' /\ Votes'
  <2>1. CASE controller[p] = u
    BY <1>4, <1>5, <2>1 DEF JoinGame, play
  <2>2. CASE controller[p] # u
    <3>1. {p} \in SUBSET Powers /\ (\A q \in {p} : ~IsControlled(controller, q))
          /\ controller' = Joined(u, {p})
      BY <1>5, <2>2 DEF JoinGame
    <3> QED
      BY <1>1, <1>5, <3>1, JoinKeepsVotes DEF JoinGame, play, flags
  <2> QED
    BY <2>1, <2>2
<1>6. ASSUME NEW u \in Users, NEW ps \in SUBSET Powers, JoinPowers(u, ps)
      PROVE  PowersOK' /\ Votes'
  <2> DEFINE required == {p \in ps : ~IsControlled(controller, p)}
  <2>1. CASE required = {}
    BY <1>4, <1>6, <2>1 DEF JoinPowers, play
  <2>2. CASE required # {}
    <3>1. required \in SUBSET Powers /\ (\A q \in required : ~IsControlled(controller, q))
          /\ controller' = Joined(u, required)
      BY <1>6, <2>2 DEF JoinPowers
    <3> HIDE DEF required
    <3> QED
      BY <1>1, <1>6, <3>1, JoinKeepsVotes DEF JoinPowers, play, flags
  <2> QED
    BY <2>1, <2>2
<1>7. ASSUME NEW x, LeaveGame(x) \/ DeleteAccount(x) \/ SetDummyPowers(x)
      PROVE  PowersOK' /\ Votes'
  BY <1>1, <1>4, <1>7, ReleaseKeepsVotes DEF LeaveGame, DeleteAccount, SetDummyPowers, play
<1>8. CASE RemoveToken \/ SetOrders \/ Clock \/ SkipTask \/ DeleteGame
  BY <1>4, <1>8 DEF RemoveToken, SetOrders, Clock, SkipTask, DeleteGame, game, play
<1>9. ASSUME NEW p \in Powers, NEW w \in BOOLEAN, SetWaitFlag(p, w) PROVE PowersOK' /\ Votes'
  BY <1>1, <1>9, OthersKeepVotes DEF SetWaitFlag, play, PowersOK
<1>10. ASSUME NEW ps, ClearOrders(ps) \/ ClearUnits(ps) PROVE PowersOK' /\ Votes'
  BY <1>1, <1>2, <1>3, <1>10, OthersKeepVotes DEF ClearOrders, ClearUnits, play, flags, PowersOK
<1>11. Draw /\ UNCHANGED controller => PowersOK' /\ Votes'
  BY <1>1, <1>2, ClearKeepsVotes DEF Draw, PowersOK
<1>12. ASSUME NEW u \in Users \cup {Bot}, NEW p \in Powers, NEW yes \in BOOLEAN, Vote(u, p, yes)
       PROVE  PowersOK' /\ Votes'
  <2>1. CASE HasDrawVote([vote EXCEPT ![p] = yes])
    BY <1>11, <1>12, <2>1 DEF Vote
  <2>2. CASE ~HasDrawVote([vote EXCEPT ![p] = yes])
    <3>1. /\ vote' = [vote EXCEPT ![p] = yes]
          /\ voter' = [voter EXCEPT ![p] = IF yes THEN u ELSE Nobody]
          /\ UNCHANGED <<controller, board, wait>>
          /\ controller[p] = u \/ u = Bot
      BY <1>12, <2>2 DEF Vote, play
    <3> QED
      BY <1>1, <3>1, GameServerAssumption
      DEF PowersOK, Votes, VotesCast, VoteOfController, GameServerAssumption
  <2> QED
    BY <2>1, <2>2
<1>13. CASE ProcessGame
  BY <1>1, <1>13, OthersKeepVotes DEF ProcessGame, play, PowersOK
<1>14. ASSUME NEW s, SetGameStatus(s) PROVE PowersOK' /\ Votes'
  BY <1>4, <1>11, <1>14 DEF SetGameStatus, play
<1>15. CASE ProcessPhase
  BY <1>1, <1>3, <1>15, ClearKeepsVotes DEF ProcessPhase
<1>16. CASE UNCHANGED vars
  BY <1>4, <1>16 DEF vars, game, play
<1> QED
  BY <1>5, <1>6, <1>7, <1>8, <1>9, <1>10, <1>12, <1>13, <1>14, <1>15, <1>16
  DEF Next, PlayerRequest, MasterRequest

----------------------------------------------------------------------------
(* The invariant.                                                           *)

\* The two instances of the scheduler have the same types.
LEMMA SameTypes == (S!TypeOK <=> SP!TypeOK) /\ (S!TypeOK' <=> SP!TypeOK')
  BY DEF S!TypeOK, SP!TypeOK, S!IsDict, SP!IsDict, S!Deadline, SP!Deadline, S!Task, SP!Task,
         S!Entry, SP!Entry

\* A game that was just created, scheduled if it is played already.
LEMMA InvInit == Init => IInv
<1> SUFFICES ASSUME Init PROVE IInv
  OBVIOUS
<1> USE GameServerAssumption DEF GameServerAssumption
<1>1. deadline \in Nat /\ deadline \in Deadlines /\ current_time = 0 /\ phase_start = 0
  BY DEF Init
<1>2. DOMAIN data_in_queue = {} /\ tasks_queue = << >> /\ worker = "running"
  BY DEF Init, Empty
<1>3. \/ DOMAIN data_in_heap = {}
      \/ /\ DOMAIN data_in_heap = {Game} /\ deadline > 0
         /\ data_in_heap = [d \in {Game} |-> [start |-> 0, delay |-> deadline]]
  BY DEF Init, Empty, Put
<1>4. SP!TypeOK
  <2>1. SP!IsDict(data_in_heap, {Game}, SP!Deadline)
    <3>1. CASE data_in_heap = Empty
      BY <3>1 DEF SP!IsDict, Empty
    <3>2. CASE data_in_heap # Empty
      <4>1. data_in_heap = Put(Empty, Game, [start |-> 0, delay |-> deadline])
        BY <3>2 DEF Init
      <4>2. [start |-> 0, delay |-> deadline] \in SP!Deadline
        BY <1>1 DEF SP!Deadline
      <4> QED
        BY <4>1, <4>2 DEF SP!IsDict, Put, Empty
    <3> QED
      BY <3>1, <3>2
  <2>2. SP!IsDict(data_in_queue, {Game}, SP!Task)
    BY DEF Init, SP!IsDict, Empty
  <2>3. tasks_queue \in Seq(SP!Entry)
    BY <1>2
  <2> QED
    BY <1>1, <1>2, <2>1, <2>2, <2>3 DEF SP!TypeOK
<1>5. SP!IInv
  <2>1. SP!WaitingOrQueued /\ SP!LiveTaskRegistered /\ SP!TimedTaskNotLost
    BY <1>2 DEF SP!WaitingOrQueued, SP!LiveTaskRegistered, SP!TimedTaskNotLost
  <2>2. SP!NothingOverdue
    BY <1>1, <1>3 DEF SP!NothingOverdue, SP!DueTime
  <2> QED
    BY <1>4, <2>1, <2>2 DEF SP!IInv
<1>6. Timing
  BY <1>1, <1>2, <1>3 DEF Timing
<1>7. /\ status \in {"active", "forming"}
      /\ status = "active" /\ deadline > 0 => Game \in DOMAIN data_in_heap
  BY DEF Init, Put
<1>8. ScheduledByStatus /\ DeletedForGood /\ ForgottenAtEnd
  BY <1>7 DEF Init, ScheduledByStatus, DeletedForGood, ForgottenAtEnd, Ended, InMemory, S!HasData
<1>9. PowersOK /\ Votes
  BY DEF Init, PowersOK, Votes, VotesCast, VoteOfController
<1>10. TypeOK
  <2>1. S!TypeOK
    BY <1>4, SameTypes
  <2>2. /\ n_controls \in Counts /\ phase_done \in BOOLEAN /\ stored \subseteq {"memory", "copy"}
        /\ lent \subseteq Powers
    BY DEF Init
  <2> QED
    BY <1>1, <1>7, <1>9, <2>1, <2>2 DEF TypeOK, PowersOK
<1> QED
  BY <1>5, <1>6, <1>8, <1>9, <1>10 DEF IInv, Votes

\* Each part, from the lemmas above.
LEMMA InvStep == IInv /\ [Next]_vars => IInv'
<1> SUFFICES ASSUME IInv, [Next]_vars PROVE IInv'
  OBVIOUS
<1>1. SP!IInv'
  BY SchedulerInstance, SchedulerStep, SP!InvStep DEF IInv
<1>2. PowersOK' /\ Votes'
  BY VotesStep
<1>3. Timing' /\ ScheduledByStatus' /\ DeletedForGood' /\ ForgottenAtEnd'
  <2>1. CASE PlayerRequest \/ MasterRequest
    BY <2>1, RequestFits, RequestStores DEF Fits
  <2>2. CASE UNCHANGED vars
    BY <2>2
    DEF IInv, vars, game, settings, play, schedule, Timing, ScheduledByStatus, DeletedForGood,
        ForgottenAtEnd, Ended, InMemory, S!HasData
  <2> QED
    BY <2>1, <2>2, ClockKeeps, PhaseKeeps, SkipKeeps DEF Next
<1>4. TypeOK'
  <2>1. S!TypeOK'
    BY <1>1, SameTypes DEF SP!IInv
  <2>2. /\ deadline \in Deadlines /\ n_controls \in Counts
        /\ status \in Statuses /\ phase_done \in BOOLEAN /\ stored \subseteq {"memory", "copy"}
    BY DEF IInv, TypeOK, Statuses
  <2>3. UNCHANGED <<deadline, n_controls>>
    BY DEF Next, vars, game, settings, PlayerRequest, MasterRequest, JoinGame, JoinPowers, LeaveGame,
           DeleteAccount, RemoveToken, SetWaitFlag, SetOrders, ClearOrders, ClearUnits, Vote,
           SetDummyPowers, ProcessGame, SetGameStatus, DeleteGame, Clock, ProcessPhase, SkipTask
  <2>4. phase_done' \in BOOLEAN
    BY <2>2 DEF Next, vars, game, settings, play, PlayerRequest, MasterRequest, JoinGame, JoinPowers,
           LeaveGame, DeleteAccount, RemoveToken, SetWaitFlag, SetOrders, ClearOrders, ClearUnits,
           Vote, Draw, SetDummyPowers, ProcessGame, SetGameStatus, DeleteGame, Clock, ProcessPhase,
           SkipTask
  <2>5. stored' \subseteq {"memory", "copy"}
    BY <2>2, RequestStores DEF Next, vars, Clock, ProcessPhase, SkipTask, SaveGame
  <2>6. phase_start' \in {phase_start, current_time}
        /\ current_time' \in {current_time, current_time + 1}
    BY RequestFits, PhaseKeeps, SkipKeeps, ClockEffect
    DEF Fits, Next, vars, game, settings, play, schedule, Clock, ProcessPhase, SkipTask
  <2>7. phase_start' \in 0..current_time'
    BY <2>6, ScheduleFacts
  <2>8. status' \in Statuses
    BY <2>2, RequestFits
    DEF Fits, Next, vars, game, Clock, ProcessPhase, SkipTask, StatusAfter, Statuses
  <2>9. lent' \subseteq Powers
    BY DEF IInv, TypeOK, Next, Lend, vars
  <2> QED
    BY <1>2, <2>1, <2>2, <2>3, <2>4, <2>5, <2>7, <2>8, <2>9 DEF TypeOK, PowersOK, Statuses
<1> QED
  BY <1>1, <1>2, <1>3, <1>4 DEF IInv, Votes

\* The invariant of the game and of its schedule.
THEOREM Invariant == Spec => []IInv
  BY InvInit, InvStep, PTL DEF Spec

\* The state of the game keeps its type (TypeOK).
THEOREM TypeCorrect == Spec => []TypeOK
  BY Invariant, PTL DEF IInv

\* The scheduler forgets a game that is over and knows one that is played with a
\* deadline; and a deleted game leaves no copy behind, on a server that does not have
\* remove_canceled_games set (KeptByStatus).
THEOREM StatusDecides ==
    ASSUME ~RemoveCanceled
    PROVE  Spec => []KeptByStatus
<1>1. IInv => KeptByStatus
  BY DEF IInv, ScheduledByStatus, DeletedForGood, KeptByStatus
<1> QED
  BY <1>1, Invariant, PTL

\* What the scheduler knows fits the status of the game, whatever the settings of the
\* server.
THEOREM ScheduleFollowsStatus == Spec => []ScheduledByStatus
  BY Invariant, PTL DEF IInv

\* No user inherits a vote for a draw (VoteOfController).
THEOREM VotesAreOwn == Spec => []VoteOfController
  BY Invariant, PTL DEF IInv

\* The server uses the scheduler only by its operations.
THEOREM UsesScheduler == Spec => [][SP!Next]_(SP!vars)
  BY Invariant, SchedulerStep, PTL DEF Spec

----------------------------------------------------------------------------
(* What a step may not do.                                                  *)

\* While a power waits, the worker runs a task of the clock only, and the clock
\* enqueued it when the phase had lasted.
LEMMA PhaseLasts ==
    IInv /\ [Next]_vars => (~DoesNotWait /\ current_time < phase_start + deadline => ~ProcessPhase)
<1> SUFFICES ASSUME IInv, ~DoesNotWait, current_time < phase_start + deadline, ProcessPhase
             PROVE  FALSE
  OBVIOUS
<1>1. tasks_queue # << >> /\ S!Runs(DoesNotWait)
  BY DEF ProcessPhase
<1>2. Game \in DOMAIN data_in_queue /\ ~data_in_queue[Game].immediate
  BY <1>1, RunningTask
<1> QED
  BY <1>2, ScheduleFacts DEF IInv, Timing

\* No phase is cut short while a power waits (PhaseNotCutShort).
THEOREM NoPhaseCutShort == Spec => PhaseNotCutShort
  BY Invariant, PhaseLasts, PTL DEF Spec, PhaseNotCutShort

\* The status of a game that is over does not change.
LEMMA EndStays == IInv /\ [Next]_vars => (Ended => status' = status)
<1> SUFFICES ASSUME IInv, [Next]_vars, Ended PROVE status' = status
  OBVIOUS
<1>1. ~ProcessPhase
  BY DEF ProcessPhase, Ended
<1> QED
  BY <1>1, RequestFits DEF Fits, Next, vars, game, Clock, SkipTask

\* The end of a game is final (EndedIsFinal).
THEOREM EndIsFinal == Spec => EndedIsFinal
  BY Invariant, EndStays, PTL DEF Spec, EndedIsFinal

\* A step that only frees powers is one that asks stop_game_if_needed.
LEMMA LosingStops ==
    IInv /\ [Next]_vars =>
        (/\ Controlled(controller') # Controlled(controller)
         /\ Controlled(controller') \subseteq Controlled(controller)
         /\ Understaffed(controller', board')
         => status' # "active")
<1> SUFFICES ASSUME IInv, [Next]_vars,
                    Controlled(controller') # Controlled(controller),
                    Controlled(controller') \subseteq Controlled(controller),
                    Understaffed(controller', board')
             PROVE  status' # "active"
  OBVIOUS
<1>1. controller' # controller
  OBVIOUS
<1>2. ASSUME NEW u \in Users, NEW ps, controller' = Joined(u, ps) PROVE FALSE
  <2>1. Controlled(controller) \subseteq Controlled(controller')
    BY <1>2, GameServerAssumption DEF Joined, Controlled, IsControlled, GameServerAssumption
  <2> QED
    BY <2>1
<1>3. StopGameIfNeeded(controller') /\ UNCHANGED board => status' # "active"
  BY DEF StopGameIfNeeded
<1>4. ASSUME NEW x, LeaveGame(x) \/ DeleteAccount(x) \/ SetDummyPowers(x) PROVE status' # "active"
  BY <1>1, <1>3, <1>4 DEF LeaveGame, DeleteAccount, SetDummyPowers, play
<1> QED
  BY <1>1, <1>2, <1>4
  DEF Next, vars, game, PlayerRequest, MasterRequest, JoinGame, JoinPowers, RemoveToken, SetWaitFlag,
      SetOrders, ClearOrders, ClearUnits, Vote, ProcessGame, SetGameStatus, DeleteGame, Clock,
      ProcessPhase, SkipTask

\* A game that loses a player it needs is stopped in the same step
\* (LosingPlayerStopsGame).
THEOREM LosingPlayerStops == Spec => LosingPlayerStopsGame
  BY Invariant, LosingStops, PTL DEF Spec, LosingPlayerStopsGame

=============================================================================
