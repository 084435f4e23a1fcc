----------------------------- MODULE Scheduler -----------------------------
(***************************************************************************)
(* The task scheduler of the game server, diplomacy/server/scheduler.py.    *)
(*                                                                          *)
(* A datum is either waiting in the heap for its deadline, or has a task in *)
(* the queue of tasks to run now.  Three kinds of actors share this state   *)
(* on one tornado loop: request handlers (AddData, NoWait, RemoveData), the *)
(* clock (Step) and the worker (ProcessTask).  The lock is released before  *)
(* any of them suspends, so each of them is one step; what interleaves is   *)
(* their order, in particular between the enqueueing of a task and the      *)
(* moment the worker resumes with it.                                       *)
(***************************************************************************)
EXTENDS Integers, Sequences, FiniteSets, Dicts

CONSTANTS Data,      \* the data that may be scheduled (games, in the server)
          Delays,    \* the delays callers ask for, 0 is legal for NoWait only
          MaxTime,   \* bound of this model: the clock stops there
          MaxQueue   \* bound of this model: callers do not enqueue beyond it

ASSUME SchedulerAssumption ==
    /\ IsFiniteSet(Data)
    /\ Delays \subseteq Nat
    /\ MaxTime \in Nat
    /\ MaxQueue \in Nat

VARIABLES
    current_time,   \* number of steps since the scheduler started
    data_in_heap,   \* dict: datum -> its _Deadline
    data_in_queue,  \* dict: datum -> its _Task
    tasks_queue,    \* the tornado Queue, oldest task first
    worker          \* the coroutine process_tasks: "running" or "ended"

vars == <<current_time, data_in_heap, data_in_queue, tasks_queue, worker>>

----------------------------------------------------------------------------
(* The deadline of a datum, and the task of a datum in the queue.           *)

Deadline == [start : Int, delay : Nat]

Task == [immediate : BOOLEAN, start : Int, delay : Nat]

\* A task object as the tornado queue refers to it.  At most one entry of a
\* datum is valid, and the task of that entry is data_in_queue[data]; an entry
\* invalidated by remove_data needs nothing but its flag.
Entry == [data : Data, valid : BOOLEAN]

DueTime(deadline) == deadline.start + deadline.delay

\* Mutant: a task remembers the time since the start of its deadline, negated.
TimedTaskElapsed(deadline) ==
    [immediate |-> FALSE, start |-> deadline.start,
     delay |-> deadline.start - current_time]

\* The task of class _Task that the clock makes of a deadline that has come.
TimedTask(deadline) ==
    [immediate |-> FALSE, start |-> deadline.start, delay |-> deadline.delay]

\* The task of class _ImmediateTask that no_wait makes.
ImmediateTask(n) == [immediate |-> TRUE, start |-> -n, delay |-> n]

\* _Task.update_delay, and its override in _ImmediateTask.
UpdateDelay(task, n) ==
    IF task.immediate THEN ImmediateTask(n) ELSE [task EXCEPT !.delay = n]

\* Scheduler.has_data
HasData(d) == d \in DOMAIN data_in_heap \cup DOMAIN data_in_queue

\* The positions of the tornado queue that hold a live task of d.
LiveTasks(d) ==
    {i \in DOMAIN tasks_queue : tasks_queue[i].data = d /\ tasks_queue[i].valid}

----------------------------------------------------------------------------
(* The operations of callers.                                               *)

Init ==
    /\ current_time = 0
    /\ data_in_heap = Empty
    /\ data_in_queue = Empty
    /\ tasks_queue = << >>
    /\ worker = "running"

\* add_data; a refused call raises and changes nothing.
AddData(d, n) ==
    /\ n > 0
    /\ ~HasData(d)
    /\ data_in_heap' = Put(data_in_heap, d, [start |-> current_time, delay |-> n])
    /\ UNCHANGED <<current_time, data_in_queue, tasks_queue, worker>>

\* no_wait: a waiting or unknown datum is enqueued, a queued one only gets its
\* delay for the next time changed.
NoWait(d, n) ==
    /\ UNCHANGED <<current_time, worker>>
    /\ \/ /\ d \in DOMAIN data_in_heap \/ d \notin DOMAIN data_in_queue
          /\ Len(tasks_queue) < MaxQueue
          /\ data_in_heap' = Drop(data_in_heap, d)
          /\ data_in_queue' = Put(data_in_queue, d, ImmediateTask(n))
          /\ tasks_queue' = Append(tasks_queue, [data |-> d, valid |-> TRUE])
       \/ /\ d \notin DOMAIN data_in_heap
          /\ d \in DOMAIN data_in_queue
          /\ data_in_queue' = [data_in_queue EXCEPT ![d] = UpdateDelay(@, n)]
          /\ UNCHANGED <<data_in_heap, tasks_queue>>

\* The tornado queue after the tasks of d are marked invalid.
Invalidated(d) ==
    [i \in 1..Len(tasks_queue) |->
        IF tasks_queue[i].data = d THEN [data |-> d, valid |-> FALSE]
                                   ELSE tasks_queue[i]]

\* Mutant: the task is popped from data_in_queue and left valid in the queue.
RemoveDataLeavesTaskValid(d) ==
    /\ \/ /\ d \in DOMAIN data_in_heap
          /\ data_in_heap' = Drop(data_in_heap, d)
          /\ UNCHANGED <<data_in_queue, tasks_queue>>
       \/ /\ d \notin DOMAIN data_in_heap
          /\ d \in DOMAIN data_in_queue
          /\ data_in_queue' = Drop(data_in_queue, d)
          /\ UNCHANGED <<data_in_heap, tasks_queue>>
    /\ UNCHANGED <<current_time, worker>>

\* remove_data; it does nothing for an unknown datum.
RemoveData(d) ==
    /\ \/ /\ d \in DOMAIN data_in_heap
          /\ data_in_heap' = Drop(data_in_heap, d)
          /\ UNCHANGED <<data_in_queue, tasks_queue>>
       \/ /\ d \notin DOMAIN data_in_heap
          /\ d \in DOMAIN data_in_queue
          /\ data_in_queue' = Drop(data_in_queue, d)
          /\ tasks_queue' = Invalidated(d)
          /\ UNCHANGED data_in_heap
    /\ UNCHANGED <<current_time, worker>>

----------------------------------------------------------------------------
(* The clock.                                                               *)

\* Mutant: a deadline equal to the new time is left in the heap.
DueExclusive(t) == {d \in DOMAIN data_in_heap : DueTime(data_in_heap[d]) < t}

\* The data whose deadline is not after t.
Due(t) == {d \in DOMAIN data_in_heap : DueTime(data_in_heap[d]) <= t}

\* The orders in which the loop of _step may take the data of a set from the
\* heap: by deadline, ties in any order.
HeapOrders(S) ==
    {order \in [1..Cardinality(S) -> S] :
        /\ \A d \in S : \E i \in DOMAIN order : order[i] = d
        /\ \A i, j \in DOMAIN order :
              i < j => /\ order[i] # order[j]
                       /\ DueTime(data_in_heap[order[i]])
                              <= DueTime(data_in_heap[order[j]])}

\* _step: the clock advances and every deadline that has come is enqueued.
Step ==
    /\ current_time < MaxTime
    /\ current_time' = current_time + 1
    /\ LET due == Due(current_time + 1) IN
       /\ data_in_heap' = [d \in DOMAIN data_in_heap \ due |-> data_in_heap[d]]
       /\ data_in_queue' =
            [d \in DOMAIN data_in_queue \cup due |->
                IF d \in due THEN TimedTask(data_in_heap[d]) ELSE data_in_queue[d]]
       /\ \E order \in HeapOrders(due) :
            tasks_queue' = tasks_queue \o
                [i \in DOMAIN order |-> [data |-> order[i], valid |-> TRUE]]
    /\ UNCHANGED worker

----------------------------------------------------------------------------
(* The worker.                                                              *)

\* Mutant: the validator of an immediate task is not asked.
RunsUnvalidated(ok) == Head(tasks_queue).valid

\* Mutant: timed tasks ask the validator too.
RunsValidatesAll(ok) == Head(tasks_queue).valid /\ ok

\* Does the worker run the callback on the oldest task, if the validator of an
\* immediate task says ok?
Runs(ok) ==
    LET entry == Head(tasks_queue) IN
    entry.valid /\ (data_in_queue[entry.data].immediate => ok)

\* Mutant: a datum is rescheduled from the time it was first scheduled.
FinishFromStart(d, done) ==
    LET task == data_in_queue[d] IN
    /\ data_in_queue' = Drop(data_in_queue, d)
    /\ data_in_heap' =
         IF done \/ task.delay = 0
         THEN data_in_heap
         ELSE Put(data_in_heap, d, [start |-> task.start, delay |-> task.delay])

\* The callback ran on d and said whether d is done: d leaves the queue, and
\* waits again unless it is done or has no delay.
Finish(d, done) ==
    LET delay == data_in_queue[d].delay IN
    /\ data_in_queue' = Drop(data_in_queue, d)
    /\ data_in_heap' =
         IF done \/ delay = 0
         THEN data_in_heap
         ELSE Put(data_in_heap, d, [start |-> current_time, delay |-> delay])

\* One turn of process_tasks.  The task of a datum whose validator refuses is
\* taken from the tornado queue, and stays in data_in_queue.
ProcessTask(ok, done) ==
    /\ worker = "running"
    /\ tasks_queue # << >>
    /\ tasks_queue' = Tail(tasks_queue)
    /\ IF Runs(ok) THEN Finish(Head(tasks_queue).data, done)
                   ELSE UNCHANGED <<data_in_heap, data_in_queue>>
    /\ UNCHANGED <<current_time, worker>>

\* The callback raises: process_tasks has no except clause, and ends.
ProcessRaises ==
    /\ worker = "running"
    /\ tasks_queue # << >>
    /\ Runs(TRUE)
    /\ tasks_queue' = Tail(tasks_queue)
    /\ worker' = "ended"
    /\ UNCHANGED <<current_time, data_in_heap, data_in_queue>>

----------------------------------------------------------------------------

Callers ==
    \E d \in Data :
        \/ \E n \in Delays : AddData(d, n) \/ NoWait(d, n)
        \/ RemoveData(d)

Works == \E ok, done \in BOOLEAN : ProcessTask(ok, done)

Next == Callers \/ Step \/ Works \/ ProcessRaises

Spec == Init /\ [][Next]_vars

\* The clock and the worker are two endless loops on the io loop.
FairSpec == Spec /\ WF_vars(Step) /\ WF_vars(Works)

----------------------------------------------------------------------------
(* Properties.                                                              *)

\* The type invariant.
TypeOK ==
    /\ current_time \in 0..MaxTime
    /\ IsDict(data_in_heap, Data, Deadline)
    /\ IsDict(data_in_queue, Data, Task)
    /\ tasks_queue \in Seq(Entry)
    /\ worker \in {"running", "ended"}

\* A datum is waiting or queued, never both: whatever the order in which the
\* clock, the worker and the handlers run, it is not processed twice for one
\* deadline.
WaitingOrQueued == DOMAIN data_in_heap \cap DOMAIN data_in_queue = {}

\* The `del self.data_in_queue[task.data]` at the end of process_tasks never
\* raises: a live task in the queue is always the registered one, and there is
\* only one, although remove_data leaves its tasks behind in the queue.
LiveTaskRegistered ==
    /\ \A i \in DOMAIN tasks_queue :
          tasks_queue[i].valid => tasks_queue[i].data \in DOMAIN data_in_queue
    /\ \A i, j \in DOMAIN tasks_queue :
          /\ tasks_queue[i].valid /\ tasks_queue[j].valid
          /\ tasks_queue[i].data = tasks_queue[j].data
          => i = j

\* No deadline is missed: what still waits is due strictly later.
NothingOverdue == \A d \in DOMAIN data_in_heap : DueTime(data_in_heap[d]) > current_time

\* A task made by the clock is never lost: unless the worker ended, its datum
\* has a live task in the queue as long as it is registered there.
TimedTaskNotLost ==
    worker = "running" =>
        \A d \in DOMAIN data_in_queue :
            ~data_in_queue[d].immediate => LiveTasks(d) # {}

\* Seen through its two dictionaries, the scheduler is the agenda of Agenda.tla:
\* the queue, its stale entries and the order of the tasks in it are hidden.
Waiting == [d \in DOMAIN data_in_heap |->
              [at |-> DueTime(data_in_heap[d]), delay |-> data_in_heap[d].delay]]
DueNow == [d \in DOMAIN data_in_queue |-> data_in_queue[d].delay]

Promise == INSTANCE Agenda WITH now <- current_time, waiting <- Waiting, due <- DueNow

\* Every step of the scheduler is a step of the agenda or leaves it alone: a
\* datum is processed only when it is due, and never after it was removed.
ImplementsAgenda == Promise!Spec

\* A datum whose deadline comes within the bound of the clock leaves the heap, by the
\* clock or by a caller; and a queued task is taken by the worker, unless a callback
\* ended the worker.
Served ==
    \A d \in Data :
        /\ (d \in DOMAIN data_in_heap /\ DueTime(data_in_heap[d]) <= MaxTime)
              ~> (d \notin DOMAIN data_in_heap)
        /\ (LiveTasks(d) # {}) ~> (LiveTasks(d) = {} \/ worker = "ended")
=============================================================================
