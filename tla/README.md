# TLA+ verification of the diplomacy game server

The repository holds a Diplomacy game engine, a tornado server that hosts games
for remote players, a Python and a web client, and a DAIDE server for bots.
These modules specify the parts where many actors share state (who may do what
with a game and when it is processed, who is connected under which name, what is
on disk after a crash, what a client sees of a game and what it knows after its
connection broke), and the game itself: which moves succeed when all units move
at once, and how phases follow each other to the end.

All paths below are relative to `src/diplomacy/`. `PROJECT.json` maps every
definition to the lines it models.

## Reading order

| module | models | EXTENDS / INSTANCE |
| --- | --- | --- |
| `Dicts` | Python dictionaries: put, pop | |
| `Agenda` | what a scheduler promises, without its queue | `Dicts` |
| `Scheduler` | `server/scheduler.py` | `Dicts`; `Agenda` (refinement) |
| `GameServer` | one game with its players, requests and schedule | `Scheduler` as `S` |
| `Users` | `server/users.py`, as operators on a record | `Dicts` |
| `Sessions` | accounts, tokens, connections, the tokens held by a game | `Users` |
| `Persistence` | a document on disk, its backup, crashes and restarts | |
| `Rules` | the rules of a movement phase, as equations | |
| `Convoys` | paths of convoys, orders that are valid and that are offered, disruptions | `Rules` |
| `Adjudication` | the resolution of a movement phase, `engine/game.py` | `Convoys`, `Dicts`; `Rules` (reference) |
| `Phases` | the succession of phases, `engine/map.py` | |
| `Turns` | a game from phase to phase, `engine/game.py` | `Phases`, `Dicts`; `Rules` for movement |
| `Requests` | the requests of the protocol and who may make them | |
| `Channel` | one client and the server, over connections that break | `Requests`, `Dicts` |
| `Views` | the copies of a game that its clients hold, and notifications | `Requests`, `Dicts` |
| `Daide` | the DAIDE server of a game and its sessions | |
| `MCScheduler`, `MCGameServer`, `MCSessions`, `MCAdjudication`, `MCTurns`, `MCChannel`, `MCViews`, `MCDaide` | instances for TLC | |
| `SchedulerProofs`, `ChannelProofs`, `AdjudicationProofs`, `RulesProofs`, `ViewsProofs` | theorems about the module of the name | that module |
| `ServerProofs` | theorems about accounts, backups and DAIDE sessions | `Sessions`, `Persistence`, `Daide` |
| `GameServerProofs`, `TurnsProofs` | theorems that rest on those of another | `GameServer`, `SchedulerProofs` as `SP`; `Turns`, `RulesProofs` as `RP` |

## Inventory

For each component: its state, its operations, its neighbours, what is hard
about it, and what makes it correct.

**Scheduler** (`server/scheduler.py`). A clock counts steps; a priority
dictionary `data_in_heap` holds the data that wait for a deadline, the
dictionary `data_in_queue` those with a task, the tornado queue `tasks_queue`
the tasks for one worker coroutine. Request handlers call `add_data`, `no_wait`
and `remove_data`; the clock is `_step`, the worker `process_tasks`, which calls
back `Server._process_game` and, for a task made by `no_wait`, first a validator.
Hard: a task is validated and run later than it was made, and a removed datum
leaves an invalid task in the queue. Correct: a datum has one place, a deadline
is never missed, a task is never lost, nothing is processed before its time.

**Game server** (`server/server.py`, `server/server_game.py`,
`server/request_managers.py`, and of the engine `Game.draw`, `Power.set_controlled`
and their kin). A game has a status, a phase, controllers, wait flags and votes.
About forty request handlers change them; they start, stop, schedule, force and
unschedule the game, and save it. Hard: each handler does its own bookkeeping of
the schedule and of the saved copies, and their orders are many. Correct: the
scheduler knows exactly the games that go on, an end is final, votes belong to
those who cast them, a deleted game stays deleted.

**Accounts, tokens, connections** (`server/users.py`, `user.py`,
`connection_handler.py`, with the tokens that powers and observers hold). Two
pairs of dictionaries that must agree in both directions; sign in, logout,
close, attach, expiry, promotion, demotion, deletion. Hard: a user has several
tokens on several connections, with different roles, and grades overlap.
Correct: nothing refers to a token or an account that is gone, and a token has
the role of its owner.

**Persistence** (`save_json_on_disk`, `load_json_from_disk`, `backup_now`,
`InterruptionHandler`, `_load`, `load_game` in `server/server.py`;
`server/run.py`). A JSON file and its backup. Hard: crashes between two
operations on the disk, SIGINT during a save. Correct: what was saved remains.

**Dummy powers and bots** (`Server.get_dummy_waiting_powers`,
`Server.register_dummy_power_names`, `on_get_dummy_waiting_powers`). Powers
without a player that wait for orders are lent to the private bot for a time.
The bot itself is another program.

**Notifications** (`server/notifier.py`, `Server._task_send_notifications`). One
queue for all connections. Hard: a notification is addressed when it is queued,
and written when the connection may be another or the role has changed. Correct:
the copies of a game follow it, and nobody is told what is not theirs to see.

**Client** (`client/`). Connection, channel, network game; requests with futures,
re-sending and synchronisation after a reconnection, notification handlers. Hard:
responses lost with the connection, responses that overtake notifications.
Correct: a request takes effect once, the client gets ready again, and no phase
is lost for it.

**Phases and board** (`engine/game.py`, `engine/power.py`, `engine/map.py`). The
succession of movement, retreat and adjustment phases, the ownership of centres,
eliminations and victory. Correct: units stand on different places, a phase
without something to do is skipped, the number of builds is what centres and
units allow.

**Adjudication** (`engine/game.py`, `_resolve_moves` and below;
`utils/convoy_paths.py`). Strengths of moves, supports that are cut, convoys and
their paradoxes, retreats. Hard: the code repeats passes that mark units, takes
marks back when a place becomes free, and visits dictionaries in whatever order
they have. Correct: no two units in one place, and the result is the one the
rules define, in any order of evaluation.

**Order validation, parsing, serialisation** (`Game._valid_order`,
`communication/`, `utils/parsing.py`, `utils/jsonable.py`). Conversions and checks.

**DAIDE** (`daide/`). A second protocol for bots on a port of its own for each
game: sessions (name, map, accept, play, leave) over connections of their own,
name variants that are shared out among the clients of one name, answers made of
the errors of the game, and a grammar of byte strings. Hard: an exception ends
the coroutine that reads a connection and leaves the session half open. Correct:
an account has one client and one power, what is thanked stands, and the port
lets go of everybody.

**Collections** (`utils/priority_dict.py`, `utils/sorted_dict.py`,
`utils/sorted_set.py`). A heap with removed entries; sorted containers.

**Output and integration** (`engine/renderer.py`, `utils/export.py`,
`integration/`, `web/`). Drawings, exports, adapters for another site, the web
client.

### Concurrency

The server is one thread with a tornado loop. A coroutine suspends only where it
waits for something that is not there yet. The handlers of requests wait for
nothing: what they `yield` is done (the lock of the scheduler is released by
each holder before it suspends, and the tornado queue has no limit), so a
request is one step. What interleaves is the order of requests, connections that
close, the clock, the worker (which does suspend, on an empty queue) and the
saving loop. SIGINT is handled by Python between any two bytecodes, and
`Persistence` treats it so.

## The modules

### Scheduler and Agenda

`current_time`, `data_in_heap`, `data_in_queue`, `tasks_queue` have the names of
the attributes; `worker` says whether the coroutine `process_tasks` still runs.
A task object is in two places in Python, the dictionary and the tornado queue.
The model keeps its fields in the dictionary, and in the queue an entry with
the datum and the flag `valid`; that the two agree is `LiveTaskRegistered`, and
not assumed. Actions: `AddData`, `NoWait`, `RemoveData` for any caller, `Step`
(with ties of the heap in any order), `ProcessTask(ok, done)` for all answers of
the validator and the callback, `ProcessRaises` for a callback that raises: it
ends the worker, because `process_tasks` has no `except`.

`Agenda` has two dictionaries and no queue: a datum waits until a time, or is
due, and only a due datum is processed. The refinement mapping (`Waiting`,
`DueNow`) forgets the queue and adds start and delay of a deadline.

### GameServer

One game, all its life. The scheduler is an instance with the game as its only
datum, so its actions are conjuncts of the handlers: `ScheduleGame`,
`UnscheduleGame`, `ForceGameProcessing`. A handler is one action; its guard has
the checks that `verify_request` and the handler raise for; `SaveGame` and
`StopGameIfNeeded` are part of it wherever the code calls them.

The board is abstracted to what the server asks: does a power have orders to
give (`does_not_wait` asks those powers only), and is it eliminated.
`ProcessPhase` may leave any board on which eliminated powers stay so.
`status` and `phase_done` are separate, as `Game.status` and `Game.phase` are.
`stored` says where the game is: in `Server.games`, and in a copy
(`backup_games`, later the file; the code never drops one without the other).
`voter`, `phase_start` and `lent` are history variables. `lent` has the powers whose
tokens the bot may hold: it is given those of a game that has begun, and keeps them if the
game is stopped for want of players (`Lend`). `Vote` asks it, and no action reads the
others.

A bot votes for dummy powers. `set_controlled` does nothing to the vote when a
user takes a dummy power, so a vote of the bot may remain: `VoteOfController`
is about the votes of users. Nothing is said of wait flags that are kept in this way.

`ProcessRaises` is left out here: processing a game is assumed not to raise.
Several games only share the worker, which `Scheduler` covers.

### Users and Sessions

`Users` models the methods of the class as operators from a registry to a
registry. `Sessions` is the server around it: `SignIn`, `OnClose`, `Expire`,
`RefuseExpired`, `UnknownToken`, `Logout` move tokens; `JoinAsPower`,
`JoinPowers`, `JoinAsObserver`, `LeavePower`, `LeaveObservation`,
`SetDummyPowers` give them to a game; `DeleteAccount`, `SetAdmin`,
`SetGameGrade` change accounts and rights. Every request first attaches its
token to its connection and dates it anew, as `ConnectionHandler.on_message` and
`Users` do. `Connections` are those that are open; a closed one is replaced by a
fresh one of the same name.

The tokens of the bot stay with a power that a user takes over: `GameTokensKnown`
allows them. `clash` records that `transfer_special_tokens` raised half way.

### Persistence

One document, abstracted to the number of changes made to it, on disk as `file`
and `backup`. A save is `Rename`, `OpenFile`, `CloseFile`; a stack of `saves`
lets SIGINT interrupt a save, and the handler itself. The handler writes what is
in memory, ends the interrupted calls by `KeyboardInterrupt` (their open files
are closed, perhaps after a complete write), and the process stops. The backup
at exit has nothing pending then. `Crash` happens anywhere. `RebuiltIfMissing`
chooses between `server.json` and the file of a game.

A process killed while its SIGINT handler interrupts another save may lose a
version: the file was renamed twice. `RestartsFromLastSave` excepts it with `overlapped`.

### Rules, Convoys and Adjudication

`Rules` is the reference: a set of moving units is a `Solution` if, given that
exactly these move, each of them has more strength than what stays at or enters
its destination, and no other has. It is written from the rules of the game, with
neither order nor marks.

`Convoys` has the map (a unit is its place, and places have one coast), the paths
by which fleets carry armies, the orders `_valid_order` accepts (`ValidOrders`),
those `get_all_possible_orders` offers (`PossibleOrders`), and
`_check_disruptions` with its detection of paradoxes.

In `Adjudication`, `command`, `result`, `supports`, `combat`, `dislodged`,
`retreats`, `convoy_paths` and `may_convoy` are the attributes and locals of
those names; `no_help` is the second component of `Game.supports`. `combat` is a
dictionary from unit and place to strength, where the code groups the units of a
place by their strength.

`GiveOrder` gives every unit any valid order of the types the run chooses. Then
come the steps of the code: `MatchConvoys`, `CountSupports`, `CutSupports`,
`DisruptMaybe`, `CutByConvoyed`, `DisruptDefinite`, `CancelConvoys`,
`Strengths`, `BounceSwappers`, `BounceOutgunned`, `BounceSelfDislodger`,
`CutByDislodging`, `Dislodge` with `Unbounce`, and `Retreat` of `_move_results`;
the comments of the module give the code's numbers. Steps that visit the units
one by one in the code, but in which no visit changes what another visit asks,
are one action for all units. Where visits see each other's effect they are one
action per visit, and come in any order.

Circles of units have two solutions (all move, or none does); `FollowsRules` says
that the code finds the largest, for every set of orders and every order of
visits. The rules know convoys only as moves that pass others, so before the
comparison (`Effective`) who stays for want of a convoy holds; that the right
armies are carried is `CarriedRightly`. An army that step 4 marked and step 5 frees
(`Free`) goes on without the paths that step 4 removed, so that the code takes it for one
that goes by land, and `Effective` does too (Other differences).
Until its passes end a support may be cut that is not counted any more, and a strength be
zero (`Settling`); the pass that ends them puts it right, and from then on `TypeOK` has every
unit fight with at least its own strength.

### Phases and Turns

`Phases` is the flow of the standard maps and the search for the next or the
previous phase of a type, as functions of the map.

`Turns` is a game: `units`, `retreats`, `centers`, `orders`, `adjust`, the hash as
the set of its tokens (toggling is symmetric difference, as xor is), and the
histories as the phases they have. `SetOrders`, `SetRetreatOrders` and
`SetAdjustOrders` are `set_orders` in the three types of phases, several orders a
call, with the replacement of earlier orders; `ClearOrders`, `ClearUnits`,
`ClearCenters`, `SetState` and `Draw` the other operations. `Process` is
`Game.process`: the results of the phase, the phases that are skipped, captures,
civil disorder, victory and the year of the draw. A movement phase ends with the
largest solution of `Rules`, which `Adjudication` shows to be what the code finds.
`TurnsAssumption` says what the maps in `maps/` have: a location belongs to a place
that is a location itself, no place is a home of two powers, and the situations to
start from are boards in order. `ResultsRaise` is a state in which the code raises, as a
rule (the units of a power were cleared while they had to retreat, to one place): only a
refused order that is kept for the same unit, which the model leaves out, averts it.
`Process` may happen then, and the deadline does not owe it.

### Requests and Channel

`Requests` has the classes of requests, whether they depend on a phase, and what
`verify_request` asks of a role.

`Channel` is the life of requests at one client. A request is `held` back while
the client reconnects, `woken` when it may be written, `waiting` for its answer,
or `toSend` again; what is under way is the message as it was written, so a copy that
was sent before the request was marked `re_sent` stays unmarked. `Written`, `Disconnected`, `Connect`, `SyncDone`, `GiveUp` are
the parts of `Connection` and `_Reconnection`. Each connection is two sequences of
messages; `Break` loses what is on it, in both directions, and each end learns
of it in its own time. The server reads (`OnMessage`), answers, queues
notifications (`SendNotification`) and learns of a break in `OnClose`, perhaps
after the client has attached its token to a new connection: then it asserts, and
reads that one no more. Phases and messages have timestamps, by which a
synchronization sends what came since. `Process` and `ForeignMessage` are the other
players.

`Connection.send` gives the future of every request 30 seconds. Time is not modelled, so
they may be over at any moment. For the request of a user this concerns only the caller:
the request is answered, or sent again, as before. For the Synchronize of a reconnection
it is the end (`SyncTimeout`, `timedOut`): the callback gets an exception, logs it, and is
not called for the late answer. The client is not ready until the connection breaks and is
made again.

### Views

The server's game and the copies in the clients' sets of instances. What a phase
leaves on the board and who has orders is all a copy knows here, with controllers
and votes. A request, its handler, the notifications it queues (`Notified` with
the addresses the notifier chooses) and the effect of the answer on the copy that
asked are one action; `Deliver` is one notification at one client, with what the
handlers do to the copy and the exceptions they raise. Several requests are
followed differently by server and copies: `apart` keeps the copies that the
server no more notifies, and those made while older notifications are under way.

### Daide

Connections with their state (`new`, `reading`, `dead` of an exception, `closing`,
`closed`), name variant and user; the pool of variants; the powers with
controller, tokens, vote and the orders they have. Each handler of
`daide/request_managers.py` is an action (`OnName`, `OnAcceptMap`, `OnSubmit`,
`OnDraw`, `OnNot` and the others), as are messages that cannot be read, the
closing of a connection by either end, and on the side of the game a phase, a
kick and the end. `answer` is what was said last. An order is a unit, what the
unit is told (`Texts`) and the error the order will have, if any: the board is not in the
model, its verdict is. `Ordered` is what the orders of one call leave: in a movement phase
a later order without an error replaces an earlier one of its unit (`Replaced`), in the
others the first counts and the rest is VOID (`Repeats`). `OnSubmit` answers each order
from the calls with one order that the code makes first (`NewErrors`), and leaves what
the last call with all orders leaves.

## Runs

Pass:

| run | instance | what it shows |
| --- | --- | --- |
| `scheduler` | 2 data, delays 0, 1, 2 | live tasks are registered and none of the clock is lost, the refinement of `Agenda`, and that what is added is served |
| `game` | 2 powers, a master, a player, the bot, deadlines 0 and 1, both powers required | status, schedule, votes and copies through all requests |
| `sessions` | administrator, bot and a user, 3 tokens, 2 connections, 1 power | registry and game agree on tokens; roles follow rights |
| `persistence` | 4 changes, 3 nested saves, file of a game | a graceful stop saves all, a restart goes on from the last save |
| `adjudication` | 5 positions of 4 to 7 units, two with convoys | offers and valid orders agree; the outcome is the largest solution of the rules; convoys, dislodgements and retreats fit it; nothing raises, the loops end |
| `turns` | 2 powers, 4 places, one with two coasts; two autumns and a retreat phase to start from | one unit a place, hash and histories true to the board, centres to the units, and the game ends |
| `channel` | a request of any kind, 2 breaks, a phase, a message of another player | messages are archived once, no phase arrives twice or is lost, the client gets ready again, unless its Synchronize timed out |
| `views` | a player with 2 tokens, an observer, another player, a master; 2 requests, 2 phases | copies agree with the game, orders stay secret |
| `daide` | 3 connections of one name, 2 powers, 3 orders a call for 2 units with 2 texts, in order or not | accounts stay apart, the port lets go of everybody; a move that is thanked stands, alone for its unit, or a later one of the call does |

Violated, each a place where the code and its comments or tests differ:

| run | property | what happens |
| --- | --- | --- |
| `adjudication_retreats` | `RetreatsFree` | a unit that a convoyed army dislodged may retreat to a place where units stood each other off |
| `adjudication_via` | `OwnHelpDislodgesNot` | a power helps to dislodge its own unit, if the move says VIA |
| `turns_builds` | `OneUnitPerPlace` | an army and a fleet are built in one home with two coasts, ordered in two calls |

Beside the runs, the final results, dislodgements and retreats of all 14,691 sets
of orders of the third position and of the 1,152 of the fourth, and the offered and
valid orders of the units of the third, were compared with those of the code run on a
map of the same form, without a difference.

### Other differences

Met while modelling. The models have these steps unless this says otherwise; the
properties above are stated so that they hold with them, and no run is spent on
the contrary.

- A game is queued because nobody waits, and a power waits again before the worker
  resumes: the task is dropped and its entry kept (`server/scheduler.py:284`). The
  game is active without a deadline. `KeptByStatus` says only that the scheduler
  has an entry.
- A game whose last phase leaves too few players goes back to forming
  (`server/server_game.py:543`). The unanimity of a draw counts powers without a
  player, where the comment says controlled ones (`engine/game.py:1483`). With
  `remove_canceled_games`, a canceled game is saved after it is deleted
  (`server/request_managers.py:1121`).
- Deleting an account without a token raises `KeyError` half way
  (`server/users.py:178`); its powers go to whoever registers the name. A token may
  be an observer's and a player's at once (`server/request_managers.py:544`).
- A crash between the renaming of `server.json` and its writing makes the server
  start with new data though the backup exists (`server/server.py:375`).
- Of two paths through one disrupted fleet only one is removed, because the list is
  changed while it is iterated (`engine/game.py:4580`); the exemption of step 9 for
  convoyed armies asks for VIA.
- `_check_disruptions` removes the paths of an army already when it only marks it (step
  4). If the attack on the convoy turns out too weak, because another convoyed army
  cuts its support, step 5 takes the mark away (`engine/game.py:4967`) but does not give
  the paths back: the army bounces off a unit that comes against it, which it should
  pass (`tests/test_datc.py:3478`). The code does so on the standard map with an army
  from Finland to Sweden, a fleet at Bothnia attacked with the support of St Petersburg,
  and an army from Clyde convoyed there.
- `set_state` clears the state, order and message histories, not those of stances,
  durations and logs: a phase of the same name raises afterwards
  (`engine/game.py:1048`). `clear_units` in a retreat phase leaves the orders of the
  dislodged units, and the phase raises (`engine/game.py:5292`).
- A synchronization that is cut between the last past phase and the current one is
  not made good by the next: the client stays a phase behind. A write that fails
  asynchronously loses a request, though a comment says that it is sent again
  (`client/connection.py:597`). A Synchronize whose answer comes after 30 seconds
  (`client/connection.py:344`) never finishes the reconnection, although all answers
  are received (`client/connection.py:428` says that it is finished then): the client
  holds back its requests until the connection breaks. With a property that says what
  the comment says, TLC finds this at once.
- Copies do not follow: clearing without a name (a player's own power at the
  server, all of them in the copy, `communication/requests.py:642`); orders that a
  player with several powers gives for another (the copy changes its own power);
  orders that replace others (the copy that gave them keeps the others too,
  `client/response_managers.py:352`);
  and, not modelled, wait flags at the observers and the status after a phase. A
  player whose power a master takes is not told
  (`server/request_managers.py:1045`). Phase data sent to a player with two
  eliminated powers do not suit the role and end the reading
  (`engine/game.py:1876`). `on_set_game_state` raises
  (`server/request_managers.py:1074`).
- DAIDE: `IAM` always raises (`daide/request_managers.py:117`); closing a
  connection without a name raises in `release_name_variant`; requests of a
  nameless or powerless client raise instead of being rejected; of two orders of a unit
  in one SUB both are thanked, and the later stands; the errors of an order are those
  since the SUB began, of the orders before it too (`daide/request_managers.py:351`), so
  an order that follows a refused one is noted NYU, not your unit, and stands; a retreat, build or removal with an
  error that was seen before in the phase is thanked as correct; a draw by votes
  or a cancellation leaves the port open (`server/request_managers.py:1512`).

### Bounds, and why they are enough

`MaxTime` stops the clock; with delays up to 2 there is time for a deadline, a
rescheduling and another deadline. `MaxQueue` limits callers only (the clock is
never refused); it leaves room for an invalid entry beside a live one of the same
datum, the case that could go wrong. Two powers and two users give all the
coincidences the handlers ask about (the same user twice, a free power beside a
controlled one, all or not all). Three tokens are two of one user, with
different roles, beside one of another; two connections are the one a token is
on and another. `Graded` limits promotions to one name. With two powers
`sessions` has 541,284 states, also without error; the run keeps one for time.
`MaxVersion` is enough for two saves after a restart; `MaxSaves` for the handler
interrupting a save and itself.

`MCAdjudication` puts four small maps side by side. A place with four neighbours,
two of which are neighbours of each other, has units of two or of three powers:
circles of three, supported attacks on one's own unit, swaps, and bounces at an
empty place. A tree of six places with six units has what four units cannot show: a
support that is cut only because its giver is dislodged (step 9), and a unit that
loses its place while it waits for another to leave (`Unbounce` of a dislodged
unit). On the third an army goes by land or over one of two waters, and fleets
attack a carrier, support the attack, or are what the army would cut: the
paradoxes of convoys. On the fourth one convoyed army cuts the support of the attack on
the convoy of another, so that step 5 frees that. `OrderTypes` leaves to some units only the types of orders
that the position is about. Mutants that drop one of these cases survive on
the other maps.

`MCTurns` starts late in a year, so that a game has a retreat, an adjustment and
a change of year within `MaxYear`; two units may retreat to one place, a power may
build and another has to disband, and `SetState` sets a game back. One place has two
coasts, as builds and retreats compare locations. `DrawYear` stands for the
hundredth year.

`MaxDrops` of `Channel` gives three connections: one that breaks while the client
reconnects is the case that matters. In `Views`, two requests are one that changes
hands or role and one that follows from it; the tokens watched are one of a player
with two and one of an observer. In `Daide`, three connections are two that are open
and one that is closed and gives its variant back. Two orders of one unit are the
smallest call in which one replaces the other; the third is one between or behind them, of
another unit or of the same, and with or without an error. All phases are movements, which
`ThankedMoveStands` is about and the other properties do not ask for: with adjustments, in
which refused orders are kept, there are ten times the states. What a SUB does in those
(`Repeats`, `Entry`) is in the theorems only, which hold for any `Types`. The `VIEW` drops
what no step of a movement phase reads, the last answer and the orders, but for what
`ThankedMoveStands` says of them.

Symmetry: in `sessions`, `game` and `daide`, tokens, connections, powers
and texts are interchangeable and no operator chooses among them; no run with symmetry
checks a liveness property.

Deadlock is not checked in `game` (a deleted game at the end of time has nothing
to do), `sessions` (tokens run out), `turns` (a game is completed), and
`channel`, `views` and `daide` (requests and connections run out). In `scheduler`,
`persistence` and `adjudication` it is.

### Fairness

Four runs state liveness.

- `scheduler`: `WF_vars(Step)` and `WF_vars(Works)`. The clock and the worker are
  endless coroutines spawned on the loop (`Scheduler.schedule`, `process_tasks`),
  and tornado resumes every ready coroutine. Nothing is assumed of callers.
  `Served` concerns deadlines within `MaxTime`, and excepts an ended worker, because
  the code does not restart it.
- `adjudication`: a sequential program goes on until it ends. `FairSpec` says so
  without `ENABLED`: it takes steps for ever, or is done; a state without a step
  would be a deadlock, which the run checks.
- `turns`: a phase ends when its deadline does. `Deadlines` is `WF_vars(Process)`
  with the guard of `Process` written out. Players owe nothing.
- `channel`: `WF_vars(Ours)` and `WF_vars(Theirs)`: both ends go on with what is
  ready on their loops. Requests, other players and breaks owe nothing; breaks are at
  most `MaxDrops`, so `Reconnects` is about the time after the last. Nothing is
  assumed of time-outs: that a Synchronize is answered within 30 seconds is not in the
  code, so `Reconnects` excepts a client whose Synchronize timed out (Other differences).

## Proofs

The theorems hold for every value of the constants that the `ASSUME` of the module
admits: any finite or infinite sets where it names no bound, and every bound. Each
component has an inductive invariant `IInv`, a lemma for each part or each action, and
theorems that take from it what the runs check. `PROJECT.json` lists them; this is why
the invariants are what they are.

**Scheduler** (`TypeOK`, `LiveTaskRegistered`, `TimedTaskNotLost`, `ImplementsAgenda`).
Besides the three invariants of the run `IInv` has `WaitingOrQueued` (no datum waits
and is queued at once) and `NothingOverdue` (what waits is due later). They need each
other: that a datum has one live task requires that what the clock enqueues was not
queued before, and in turn `NoWait` may enqueue only what waits or is unknown; `TypeOK`
is preserved by `Finish` only because the task at the head of the queue is registered.
For the refinement, `AgendaStep` maps each action: a refused or invalid task is a
stutter, `ProcessRaises` too.

**Game server** (`TypeOK`, `KeptByStatus`, `VoteOfController`, `PhaseNotCutShort`,
`EndedIsFinal`, `LosingPlayerStopsGame`). The scheduler is an instance, so its proofs
are too: `IInv` has the scheduler's invariant as a conjunct (`SP!IInv`), `SchedulerStep`
shows that whatever the handlers do to the schedule is a step of the scheduler
(`UsesScheduler`), and the lemmas of `SchedulerProofs` do the rest. What a status says of
the schedule (`ScheduledByStatus`), that a deleted game stays deleted (`DeletedForGood`)
and that an ended one is forgotten (`ForgottenAtEnd`) are proved together, because a
handler that starts a game may do so only to one that is neither. That no phase is cut
short (`PhaseNotCutShort`) needs `Timing`: a deadline that waits started with the phase.
`VoteOfController` needs that who is recorded as a voter cast the vote (`VotesCast`).
`StatusDecides` assumes that canceled games are not removed: with
`remove_canceled_games` a deleted game is saved once more (Other differences).

**Sessions** (`TypeOK`, `GameTokensKnown`, `RoleMatchesRights`). `Consistent` says that
the dictionaries of the registry agree in both directions, and that only issued tokens
are in them; every method of `Users` preserves it, by lemmas about `Put`, `Pop` and their
kin. `GameTokensKnown` is inductive only together with it: `remove_user` finds the tokens
of an account in `username_to_tokens`, and the game is asked about `token_to_username`.
`RolesOK` is the type of the game's side. `RoleMatchesRights` needs none of this: each
handler that changes a right or a role sets the other.

**Persistence** (`GracefulStop`, `RestartsFromLastSave`). `DiskInv` has what is in the file
before each step of a save (`FileOfSave`), that a handler writes what is in memory
(`HandlersSaveMemory`), and that the last version saved is in the file or, if the file
is torn or absent, in the backup, unless a save was interrupted (`SavedIsKept`).

**Daide** (`TypeOK`, `OwnAccount`, `StopClosesAll`, `ThankedMoveStands`). `SessionInv`:
the variants of a name in use and those in the pool are the numbers up to some n, each
once, and the account of a connection that is not closed begins with its variant: that
keeps two clients of one name apart. `PowerInv`: an account plays at most one power, so
`OnSubmit` and the answers concern the power one thinks of. For
`ThankedMoveStands` (`ThanksHold`), an order that is thanked has no error of its own, so
its unit has a last order without an error in the call (`LastOf`); this one nothing
replaces, and whatever else the call leaves is of another unit (`LastStands`). All
other steps answer without thanks. The assumption on `None` says
only that it is not a name.

**Channel** (`TypeOK`, `ArchivedOnce`, `ReadsOn`, `KnowsPhases`). `TypeInv` says of each request where it
is, and that it is in one place only (`PlacesApart`). `ConnInv` orders the events of a
connection: no one is attached to a connection to come, a client breaks before it makes
another, the server answers who is attached, and a synchronization is the first to be
read on a connection. `ArchiveInv` is the argument that a message is archived once. A
request that is written a second time is marked; of those not marked one copy is under
way at most (`UnmarkedOnce`), and only for these the server does not look for an earlier
message. `MessagesApart` says more than `ArchivedOnce`, of which it is an instance: no
message is in two phases of the archive, by identity and not by time. `PhasesOnce` says
that no phase is under way twice, or to a client that has it, so that a reader is never
given a phase it must refuse (`ReadsOn`).

`KnowsPhases` needs an invariant of its own (`KnownInv`), because a phase may be in the
game, under way, or not asked for yet. It looks at the *line* of what is under way to the
client: what is on its connection and, behind it, what is queued for it. The phases of the
line never fall, and never behind those of the game (`Rising`, `NotBehind`); a message of
the line that gives the game a time comes behind all phases processed until then
(`Covered`); on the connection that has the token, the line completes the game
(`ComingInv`). For this the timestamp of a synchronization must cover only phases the game
has (`TimesKnown`, `SyncKnown`), and that rests on answers: one that gives the game a time
is to a request that was made in the phase of the server, so the game was up to date
(`AskedBefore`). Each action does one of a few things to the line, which have a lemma
each: a message is read, dropped, put behind, or comes between (`ReadLine`, `Dropped`,
`CutOff`, `Inserted`). A synchronization puts the missing phases on an empty line, in
their order (`CaughtUp`).

**Views** (`TypeOK`, `CopiesAgree`, `OrdersStaySecret`). The inductive invariant has two
parts. `Sound` is what is true of every state: the types (`TypeInv`), that a completed
game is finished (`GameOver`), that a token of a power is of who controls it (`Seated`),
and that nothing is under way to a client that does not read (`StateInv`). `FollowInv`
is why copies agree. A copy that follows may lag behind the server by any number of
notifications, so the invariant cannot compare the two; it says that the notifications
under way, handled one after the other, take the `View` that the copy has to that of the
server's game (`Comes`). `After` is what a notification does to a view; a lemma for each
kind shows that the handler of the client does this, and one that the change of the
server's game that it announces is the same. A controller is replaced only by a later
one (`since`): those of a power are sorted by time (`engine/power.py:402`). Two things
are not of this form. The vote of a power is what the last notification that sets it
says (`VoteComes`), since one that processes the game clears it; and of a game deleted
only a `GameDeleted` has to be under way (`DeletionComes`). What the server queues for
each address is one notification behind those that wait (`Reached`, from `Listed`: the
order in which a set of addresses is served does not matter, because each copy has one
address). Each handler then has a step for `Sound` and `FollowInv` together, by way of a
few lemmas about what it announces.

`CopiesFollowTheGame` assumes `PlayersWatched`: no client that is watched is a master's.
It is needed, since a master may give and clear the orders of all powers from a special
copy, and the answer does not make of this copy what the handler made of the game. The
handler of `SetOrders` replaces the orders of the power, the copy that asked adds to
those it has (`server/request_managers.py:1280`, `client/response_managers.py:354`): TLC
finds it in two requests. And answers are written at once
(`server/connection_handler.py:147`) while notifications wait in a queue for the
coroutine that sends them (`server/server.py:501`), so an older notification may come
last and win. Both hold of a player's orders too, for which reason `CopiesAgree`
compares boards and orders only in the copies of who watches; phases, controllers and
votes are not set by such answers. The clients of `MCViews` satisfy `PlayersWatched`. A
master may act all the same: the hypothesis is about whose copies are looked at, and the
requests of masters are in all behaviours. `SecretsAreKept` and `ViewsTypes` do not need
it. For secrecy each handler leaves a player's copy with the orders it had, or fewer,
but for its own power (`Discreet`), and a copy that is new is what `as_power_game` makes
of the game.

**Adjudication** (`TypeOK`, `OffersAreValid`, `DislodgedRightly`). That the orders offered
are the valid ones rests on a fact about routes: fleets that carry an army one way carry
one back (`LinksBack`, `RouteBack`), so a fleet may look for the armies it reaches from
either end. The rest is three arguments.

*The convoys are decided when units bounce* (theorem `ArmiesDecided`). An army that step 4
marked "maybe" is visited in step 5, and then it is stranded or freed. For this
`UndecidedInv` keeps those marked among the armies still to be visited (`left`); between
the passes, what step 4 marked it would mark again, unless something was cut since
(`MarkedAgain`), and then there is another pass (`RoundsInv`). Supports lost for want of
a convoy are of stranded armies only, or of one to be stranded by this visit
(`StrandedInv`).

*Nobody fights with less than its own strength.* The number that the code keeps for a unit
is at least that of its supporters left uncut (`Counted`); the exception is an army that
step 5 has still to strand, from which it takes support twice (`Undone`, `SupportsInv`).
So a strength is one and the supports left, or more (`StrengthsInv`). `TypeInv` has
integers where `TypeOK` has these bounds, because each step then has its types on its own.

*No two units share a place.* From step 9 on each unit that still moves is alone the
strongest where it goes (`AloneInv`). Step 10 only takes strengths out of the fights,
never that of a unit that moves (`CombatInv`, `MarksInv`), and a unit that bounced moves
after all only where it is alone the strongest now. A dislodged unit has one attacker, that
moves to its place (`AttackersInv`), and each unit visited that moves to where another
stays has dislodged it (`VisitedInv`, `SiteInv`). For the retreats `EntriesInv` and
`BeatenInv` say in which fight each unit still is: hence a place without a fight is one
that is free by the rules (`FreePlaces`), although `Unbounce` removes fights where units
met, and that is what `RetreatsInv` and the last part of `DislodgedRightly` need.

**Rules** (`LargestSolution`, `OutcomeSolves`, `DestinationsDiffer`). The equations of a
movement phase are not monotone: that a unit moves may dislodge another, which then gives
no support. The proof shows that it does not matter. An uncut support is lost only to a
unit that moves to the place where it is given, and whether that unit wins depends on no
support that can be lost, so the supporters that are dislodged (`Overrun`) are the same
in all solutions (`SolutionFixed`). With them fixed, what can move given that `moved`
move grows with `moved`, and the union of all sets of units that can move is the largest
solution. It is what `Outcome` chooses, and what `FollowsRules` compares the code with: a
choice among none would have compared it with anything.

**Turns** (`TypeOK`, `OneUnitPerPlace`, `HashMatches`, `HistoriesMatch`,
`CentersFollowUnits`). `BoardOK` says that units and centres are apart, that retreats lie
within reach, and that the hash is the one of the board; it is stated for any board, so
that the results of a phase, a capture and a civil disorder have a lemma each. To
be inductive it needs what orders may be: a retreat goes to a free place (`RetreatsFree`),
a build to a free home (`BuildsFree`), no two builds to one place (`BuildsApart`), and a
disbandment is of one's own unit (`DisbandsOwn`). A movement phase rests on
`OutcomeSolves` and `DestinationsDiffer`. That a year begins with at most as many units as
centres follows from the flow of phases: a year ends in the adjustment phase, or skips it
because nobody has units too many.

All of this but `HistoriesAgree` has the hypothesis `[]CoastsClear`, because the
code does not have the property otherwise (run `turns_builds`): an army and a fleet, or
two fleets, may be ordered in two calls to two coasts of one home. `CoastsClear` holds
always on a map whose homes have one coast each (`OneCoast`, as on 8 of the 14 maps of the
repository, and on that of the run `turns`), and on the others, the standard map among
them, in all behaviours in which nobody gives such orders (`OneCoastEach`).

Checked by TLC only:

- `Served`, `GameEnds`, `Reconnects` and `Terminates`: liveness under fairness is out of
  the prover's reach;
- `FollowsRules` and `CarriedRightly`: that repeated passes end in the largest solution,
  and with paths whose fleets are not dislodged, is an induction over the passes and over
  the paths.

## Not modelled

- Passwords and the text of requests, orders and messages: conversions and checks of
  strings without state (`utils/parsing.py`, `utils/jsonable.py`,
  `utils/splitter.py`, `_expand_order`, the grammar of DAIDE in
  `daide/clauses.py`).
- Output: renderer, export, logs. The webDiplomacy adapters are requests to another
  site. The JavaScript client repeats the connection logic of the Python one.
- The registry of dummy powers lent to the bot: the bot is another program, of
  which the repository has only the request, and a late answer is an order like
  any other.
- Errors of the disk, and exceptions of `Game.process` in `GameServer` (in
  `Scheduler` a callback may raise).
- Places with two coasts in a movement phase (`Turns` has them in retreats and
  builds), the orders of games without checks (NO_CHECK, PROXY, HUB), and the maps
  of the repository: the runs use small ones of the same form.
- What a game loaded after a restart schedules (`server/server.py:751`), press of
  DAIDE clients, and several games on one server.

## Plan

The modules are written, and all safety properties but two are proved. What is left:

1. `FollowsRules`: first that what step 10 leaves is a solution of `Rules` (each unit that
   moves overcomes, each that bounced does not), which the invariants of
   `AdjudicationProofs` are half of; then that it contains every other solution.
2. `CarriedRightly`, by an invariant that says of each path whether it is still possible.
3. The hazards that no property covers: the bot that answers late, and errors of the disk.
