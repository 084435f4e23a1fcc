-------------------------- MODULE SchedulerProofs --------------------------
(***************************************************************************)
(* The safety of the scheduler, for any data, delays and bounds.            *)
(***************************************************************************)
EXTENDS Scheduler, FiniteSetTheorems, TLAPS

\* Every action changes a dictionary by Put and Drop, the queue by Append,
\* Tail and concatenation; the types follow action by action.
LEMMA TypeInit == Init => TypeOK
  BY SchedulerAssumption DEF Init, TypeOK, IsDict, Empty

\* Every step keeps the types, as every live task is registered.
LEMMA TypeStep == TypeOK /\ LiveTaskRegistered /\ [Next]_vars => TypeOK'
<1> SUFFICES ASSUME TypeOK, LiveTaskRegistered, [Next]_vars PROVE TypeOK'
  OBVIOUS
<1> USE SchedulerAssumption DEF TypeOK
<1>1. ASSUME NEW d \in Data, NEW n \in Delays, AddData(d, n) PROVE TypeOK'
  <2>1. [start |-> current_time, delay |-> n] \in Deadline
    BY DEF Deadline
  <2> QED
    BY <1>1, <2>1 DEF AddData, IsDict, Put
<1>2. ASSUME NEW d \in Data, NEW n \in Delays, NoWait(d, n) PROVE TypeOK'
  <2>1. ImmediateTask(n) \in Task
    BY DEF ImmediateTask, Task
  <2>2. [data |-> d, valid |-> TRUE] \in Entry
    BY DEF Entry
  <2>3. CASE d \in DOMAIN data_in_heap \/ d \notin DOMAIN data_in_queue
    <3>1. IsDict(data_in_heap', Data, Deadline)
      BY <1>2, <2>3 DEF NoWait, IsDict, Drop
    <3>2. IsDict(data_in_queue', Data, Task)
      BY <1>2, <2>1, <2>3 DEF NoWait, IsDict, Put
    <3> QED
      BY <1>2, <2>2, <2>3, <3>1, <3>2 DEF NoWait
  <2>4. CASE ~(d \in DOMAIN data_in_heap \/ d \notin DOMAIN data_in_queue)
    <3>1. UpdateDelay(data_in_queue[d], n) \in Task
      BY <2>1, <2>4 DEF UpdateDelay, Task, IsDict
    <3>2. IsDict(data_in_queue', Data, Task)
      BY <1>2, <2>4, <3>1 DEF NoWait, IsDict
    <3> QED
      BY <1>2, <2>4, <3>2 DEF NoWait
  <2> QED
    BY <2>3, <2>4
<1>3. ASSUME NEW d \in Data, RemoveData(d) PROVE TypeOK'
  <2>1. Invalidated(d) \in Seq(Entry)
    <3>1. [data |-> d, valid |-> FALSE] \in Entry
      BY DEF Entry
    <3>2. \A i \in 1..Len(tasks_queue) : tasks_queue[i] \in Entry
      OBVIOUS
    <3>3. Invalidated(d) \in [1..Len(tasks_queue) -> Entry]
      BY <3>1, <3>2 DEF Invalidated
    <3> QED
      BY <3>3
  <2>2. IsDict(Drop(data_in_heap, d), Data, Deadline) /\ IsDict(Drop(data_in_queue, d), Data, Task)
    BY DEF IsDict, Drop
  <2> QED
    BY <1>3, <2>1, <2>2 DEF RemoveData
<1>4. CASE Step
  <2> DEFINE due == Due(current_time + 1)
  <2>1. due \subseteq DOMAIN data_in_heap
    BY DEF Due
  <2>5. Cardinality(due) \in Nat
    BY <2>1, FS_Subset, FS_CardinalityType DEF IsDict
  <2>2. IsDict(data_in_heap', Data, Deadline)
    BY <1>4 DEF Step, IsDict
  <2>3. IsDict(data_in_queue', Data, Task)
    <3>1. \A d \in due : TimedTask(data_in_heap[d]) \in Task
      BY <2>1 DEF TimedTask, Task, Deadline, IsDict
    <3>2. data_in_queue' = [d \in DOMAIN data_in_queue \cup due |->
              IF d \in due THEN TimedTask(data_in_heap[d]) ELSE data_in_queue[d]]
      BY <1>4 DEF Step
    <3> HIDE DEF due
    <3> QED
      BY <2>1, <3>1, <3>2 DEF IsDict
  <2>4. tasks_queue' \in Seq(Entry)
    <3>1. PICK order \in HeapOrders(due) :
             tasks_queue' = tasks_queue \o
                 [i \in DOMAIN order |-> [data |-> order[i], valid |-> TRUE]]
      BY <1>4 DEF Step
    <3>2. order \in [1..Cardinality(due) -> due]
      BY <3>1 DEF HeapOrders
    <3> DEFINE new == [i \in DOMAIN order |-> [data |-> order[i], valid |-> TRUE]]
    <3>3. new \in Seq(Entry)
      <4>1. \A i \in DOMAIN order : [data |-> order[i], valid |-> TRUE] \in Entry
        BY <2>1, <3>2 DEF Entry, IsDict
      <4> QED
        BY <2>5, <3>2, <4>1
    <3> QED
      BY <3>1, <3>3
  <2> QED
    BY <1>4, <2>2, <2>3, <2>4 DEF Step
<1>5. ASSUME NEW ok \in BOOLEAN, NEW done \in BOOLEAN, ProcessTask(ok, done)
      PROVE  TypeOK'
  <2>1. Tail(tasks_queue) \in Seq(Entry) /\ Head(tasks_queue) \in Entry
    BY <1>5 DEF ProcessTask
  <2>2. CASE Runs(ok)
    <3> DEFINE d == Head(tasks_queue).data
    <3>1. data_in_queue[d] \in Task
      BY <1>5, <2>2 DEF IsDict, Runs, LiveTaskRegistered, ProcessTask
    <3>2. [start |-> current_time, delay |-> data_in_queue[d].delay] \in Deadline
      BY <3>1 DEF Task, Deadline
    <3>3. Finish(d, done)
      BY <1>5, <2>2 DEF ProcessTask
    <3>4. IsDict(data_in_queue', Data, Task)
      BY <3>3 DEF Finish, IsDict, Drop
    <3>5. IsDict(data_in_heap', Data, Deadline)
      BY <2>1, <3>2, <3>3 DEF Finish, Entry, IsDict, Put
    <3> QED
      BY <1>5, <2>1, <3>4, <3>5 DEF ProcessTask
  <2> QED
    BY <1>5, <2>1, <2>2 DEF ProcessTask
<1>6. CASE ProcessRaises
  BY <1>6 DEF ProcessRaises
<1>7. CASE UNCHANGED vars
  BY <1>7 DEF vars
<1> QED
  BY <1>1, <1>2, <1>3, <1>4, <1>5, <1>6, <1>7 DEF Next, Callers, Works

----------------------------------------------------------------------------
(* The inductive invariant: TypeOK alone is not inductive, because the      *)
(* worker reads data_in_queue[d] for the datum of a live task.              *)

IInv ==
    /\ TypeOK
    /\ WaitingOrQueued
    /\ LiveTaskRegistered
    /\ NothingOverdue
    /\ TimedTaskNotLost

\* Nothing is scheduled at the start.
LEMMA InvInit == Init => IInv
  BY TypeInit
  DEF Init, IInv, WaitingOrQueued, LiveTaskRegistered, NothingOverdue, TimedTaskNotLost, Empty

\* A function on 1..n is a sequence of length n.
LEMMA FunctionIsSeq ==
    ASSUME NEW n \in Nat, NEW S, NEW f \in [1..n -> S]
    PROVE  f \in Seq(S) /\ Len(f) = n
<1>1. f \in Seq(S)
  OBVIOUS
<1>2. DOMAIN f = 1..Len(f) /\ Len(f) \in Nat
  BY <1>1
<1> QED
  BY <1>1, <1>2

\* A live task that an operation leaves in the queue was there before: the
\* positions only shift when the oldest task is taken.
LEMMA TailPositions ==
    ASSUME TypeOK, tasks_queue # << >>, tasks_queue' = Tail(tasks_queue)
    PROVE  /\ DOMAIN tasks_queue' = 1..(Len(tasks_queue) - 1)
           /\ DOMAIN tasks_queue = 1..Len(tasks_queue)
           /\ 1 \in DOMAIN tasks_queue /\ Head(tasks_queue) = tasks_queue[1]
           /\ \A i \in DOMAIN tasks_queue' :
                 i + 1 \in DOMAIN tasks_queue /\ tasks_queue'[i] = tasks_queue[i + 1]
  BY DEF TypeOK

\* WaitingOrQueued: every action that puts a datum in one dictionary takes it
\* from the other, or has checked that it is not there.
LEMMA WaitingOrQueuedStep == IInv /\ [Next]_vars => WaitingOrQueued'
<1> SUFFICES ASSUME IInv, [Next]_vars PROVE WaitingOrQueued'
  OBVIOUS
<1> USE DEF WaitingOrQueued, IInv
<1>1. ASSUME NEW d \in Data, NEW n \in Delays, AddData(d, n) PROVE WaitingOrQueued'
  BY <1>1 DEF AddData, HasData, Put
<1>2. ASSUME NEW d \in Data, NEW n \in Delays, NoWait(d, n) PROVE WaitingOrQueued'
  BY <1>2 DEF NoWait, Put, Drop
<1>3. ASSUME NEW d \in Data, RemoveData(d) PROVE WaitingOrQueued'
  BY <1>3 DEF RemoveData, Drop
<1>4. CASE Step
  BY <1>4 DEF Step
<1>5. ASSUME NEW ok \in BOOLEAN, NEW done \in BOOLEAN, ProcessTask(ok, done)
      PROVE  WaitingOrQueued'
  BY <1>5 DEF ProcessTask, Finish, Put, Drop
<1>6. CASE ProcessRaises
  BY <1>6 DEF ProcessRaises
<1>7. CASE UNCHANGED vars
  BY <1>7 DEF vars
<1> QED
  BY <1>1, <1>2, <1>3, <1>4, <1>5, <1>6, <1>7 DEF Next, Callers, Works

\* LiveTaskRegistered: a task is enqueued for a datum that had none, and a
\* datum that leaves data_in_queue leaves no live task behind.
LEMMA LiveTaskRegisteredStep == IInv /\ [Next]_vars => LiveTaskRegistered'
<1> SUFFICES ASSUME IInv, [Next]_vars PROVE LiveTaskRegistered'
  OBVIOUS
<1> USE DEF LiveTaskRegistered, IInv, TypeOK
<1>1. ASSUME NEW d \in Data, NEW n \in Delays, AddData(d, n) PROVE LiveTaskRegistered'
  BY <1>1 DEF AddData
<1>2. ASSUME NEW d \in Data, NEW n \in Delays, NoWait(d, n) PROVE LiveTaskRegistered'
  <2>1. CASE d \in DOMAIN data_in_heap \/ d \notin DOMAIN data_in_queue
    <3>1. d \notin DOMAIN data_in_queue
      BY <2>1 DEF WaitingOrQueued
    <3>2. tasks_queue' = Append(tasks_queue, [data |-> d, valid |-> TRUE])
      BY <1>2, <3>1 DEF NoWait
    <3>3. DOMAIN data_in_queue' = DOMAIN data_in_queue \cup {d}
      BY <1>2, <3>1 DEF NoWait, Put
    <3> QED
      BY <3>1, <3>2, <3>3
  <2>2. CASE ~(d \in DOMAIN data_in_heap \/ d \notin DOMAIN data_in_queue)
    BY <1>2, <2>2 DEF NoWait
  <2> QED
    BY <2>1, <2>2
<1>3. ASSUME NEW d \in Data, RemoveData(d) PROVE LiveTaskRegistered'
  <2>1. CASE d \in DOMAIN data_in_heap
    BY <1>3, <2>1 DEF RemoveData
  <2>2. CASE d \notin DOMAIN data_in_heap
    <3>1. tasks_queue' = Invalidated(d) /\ DOMAIN data_in_queue' = DOMAIN data_in_queue \ {d}
      BY <1>3, <2>2 DEF RemoveData, Drop
    <3>2. /\ DOMAIN tasks_queue' = DOMAIN tasks_queue
          /\ \A i \in DOMAIN tasks_queue' :
                tasks_queue'[i].valid =>
                    tasks_queue'[i] = tasks_queue[i] /\ tasks_queue[i].data # d
      BY <3>1 DEF Invalidated
    <3> QED
      BY <3>1, <3>2
  <2> QED
    BY <2>1, <2>2
<1>4. CASE Step
  <2> DEFINE due == Due(current_time + 1)
  <2>1. PICK order \in HeapOrders(due) :
           tasks_queue' = tasks_queue \o
               [i \in DOMAIN order |-> [data |-> order[i], valid |-> TRUE]]
    BY <1>4 DEF Step
  <2>2. /\ due \subseteq DOMAIN data_in_heap
        /\ DOMAIN data_in_queue' = DOMAIN data_in_queue \cup due
    BY <1>4 DEF Step, Due
  <2>3. Cardinality(due) \in Nat
    BY <2>2, SchedulerAssumption, FS_Subset, FS_CardinalityType DEF IsDict
  <2>4. order \in [1..Cardinality(due) -> due]
    BY <2>1 DEF HeapOrders
  <2>5. \A i, j \in DOMAIN order : order[i] = order[j] => i = j
    BY <2>1, <2>3, <2>4 DEF HeapOrders
  <2> DEFINE new == [i \in DOMAIN order |-> [data |-> order[i], valid |-> TRUE]]
  <2> HIDE DEF due
  <2>13. new \in [1..Cardinality(due) -> [data : due, valid : {TRUE}]]
    BY <2>4
  <2>6. /\ Len(new) = Cardinality(due)
        /\ new \in Seq([data : due, valid : {TRUE}])
    <3> HIDE DEF new
    <3> QED
      BY <2>3, <2>13, FunctionIsSeq
  <2>7. \A i \in DOMAIN tasks_queue' :
           \/ i \in DOMAIN tasks_queue /\ tasks_queue'[i] = tasks_queue[i]
           \/ /\ i - Len(tasks_queue) \in DOMAIN order
              /\ ~(i \in DOMAIN tasks_queue)
              /\ tasks_queue'[i] =
                    [data |-> order[i - Len(tasks_queue)], valid |-> TRUE]
    BY <2>1, <2>3, <2>4, <2>6
  <2>8. \A i \in DOMAIN tasks_queue :
           tasks_queue[i].valid => tasks_queue[i].data \notin due
    BY <2>2 DEF WaitingOrQueued
  <2>9. \A i \in DOMAIN tasks_queue' : i \in Int
    BY <2>1, <2>6
  <2> HIDE DEF TypeOK, new
  <2>10. Len(tasks_queue) \in Nat
    BY DEF TypeOK
  <2>11. \A i \in DOMAIN tasks_queue' :
            tasks_queue'[i].valid => tasks_queue'[i].data \in DOMAIN data_in_queue'
    BY <2>2, <2>4, <2>7
  <2>12. ASSUME NEW i \in DOMAIN tasks_queue', NEW j \in DOMAIN tasks_queue',
                tasks_queue'[i].valid, tasks_queue'[j].valid,
                tasks_queue'[i].data = tasks_queue'[j].data
         PROVE  i = j
    <3>1. CASE i \in DOMAIN tasks_queue /\ j \in DOMAIN tasks_queue
      BY <2>7, <2>12, <3>1
    <3>2. CASE i \notin DOMAIN tasks_queue /\ j \notin DOMAIN tasks_queue
      <4>1. i - Len(tasks_queue) = j - Len(tasks_queue)
        BY <2>5, <2>7, <2>12, <3>2
      <4> QED
        BY <2>9, <2>10, <4>1
    <3>3. ASSUME NEW a \in DOMAIN tasks_queue', NEW b \in DOMAIN tasks_queue',
                 a \in DOMAIN tasks_queue, b \notin DOMAIN tasks_queue,
                 tasks_queue'[a].valid
          PROVE  tasks_queue'[a].data # tasks_queue'[b].data
      BY <2>4, <2>7, <2>8, <3>3
    <3> QED
      BY <2>12, <3>1, <3>2, <3>3
  <2> QED
    BY <2>11, <2>12
<1>5. ASSUME NEW ok \in BOOLEAN, NEW done \in BOOLEAN, ProcessTask(ok, done)
      PROVE  LiveTaskRegistered'
  <2>1. /\ tasks_queue # << >>
        /\ tasks_queue' = Tail(tasks_queue)
    BY <1>5 DEF ProcessTask
  <2> DEFINE d == Head(tasks_queue).data
  <2>2. CASE Runs(ok)
    <3>1. DOMAIN data_in_queue' = DOMAIN data_in_queue \ {d}
      BY <1>5, <2>2 DEF ProcessTask, Finish, Drop
    <3>2. \A i \in DOMAIN tasks_queue' : tasks_queue'[i].valid => tasks_queue'[i].data # d
      BY <2>1, <2>2, TailPositions DEF Runs
    <3> QED
      BY <2>1, <3>1, <3>2, TailPositions
  <2>3. CASE ~Runs(ok)
    BY <1>5, <2>1, <2>3, TailPositions DEF ProcessTask
  <2> QED
    BY <2>2, <2>3
<1>6. CASE ProcessRaises
  BY <1>6, TailPositions DEF ProcessRaises
<1>7. CASE UNCHANGED vars
  BY <1>7 DEF vars
<1> QED
  BY <1>1, <1>2, <1>3, <1>4, <1>5, <1>6, <1>7 DEF Next, Callers, Works

\* NothingOverdue: what is put in the heap is due later than the current time,
\* and the clock takes out what is due at the new time.
LEMMA NothingOverdueStep == IInv /\ [Next]_vars => NothingOverdue'
<1> SUFFICES ASSUME IInv, [Next]_vars PROVE NothingOverdue'
  OBVIOUS
<1> USE SchedulerAssumption DEF NothingOverdue, IInv, TypeOK, DueTime
<1>1. ASSUME NEW d \in Data, NEW n \in Delays, AddData(d, n) PROVE NothingOverdue'
  BY <1>1 DEF AddData, Put
<1>2. ASSUME NEW d \in Data, NEW n \in Delays, NoWait(d, n) PROVE NothingOverdue'
  BY <1>2 DEF NoWait, Drop
<1>3. ASSUME NEW d \in Data, RemoveData(d) PROVE NothingOverdue'
  BY <1>3 DEF RemoveData, Drop
<1>4. CASE Step
  BY <1>4 DEF Step, Due, IsDict, Deadline
<1>5. ASSUME NEW ok \in BOOLEAN, NEW done \in BOOLEAN, ProcessTask(ok, done)
      PROVE  NothingOverdue'
  <2>1. CASE Runs(ok)
    <3> DEFINE d == Head(tasks_queue).data
    <3>1. Finish(d, done) /\ current_time' = current_time
      BY <1>5, <2>1 DEF ProcessTask
    <3>2. data_in_queue[d] \in Task
      BY <1>5, <2>1 DEF Runs, ProcessTask, LiveTaskRegistered, IsDict
    <3>3. data_in_queue[d].delay \in Nat
      BY <3>2 DEF Task
    <3> QED
      BY <3>1, <3>3 DEF Finish, Put
  <2>2. CASE ~Runs(ok)
    BY <1>5, <2>2 DEF ProcessTask
  <2> QED
    BY <2>1, <2>2
<1>6. CASE ProcessRaises
  BY <1>6 DEF ProcessRaises
<1>7. CASE UNCHANGED vars
  BY <1>7 DEF vars
<1> QED
  BY <1>1, <1>2, <1>3, <1>4, <1>5, <1>6, <1>7 DEF Next, Callers, Works

\* TimedTaskNotLost: the task of the clock enters the queue live, runs whatever
\* the validator says, and is invalidated only with its datum unregistered.
LEMMA TimedTaskNotLostStep == IInv /\ [Next]_vars => TimedTaskNotLost'
<1> SUFFICES ASSUME IInv, [Next]_vars, worker' = "running", NEW d \in DOMAIN data_in_queue',
                    ~data_in_queue'[d].immediate
             PROVE  \E i \in DOMAIN tasks_queue' :
                       tasks_queue'[i].data = d /\ tasks_queue'[i].valid
  BY DEF TimedTaskNotLost, LiveTasks
<1> USE DEF IInv, TypeOK
\* The hypothesis, before the step, for a datum that was registered.
<1>0. ASSUME worker = "running", d \in DOMAIN data_in_queue, ~data_in_queue[d].immediate
      PROVE  \E i \in DOMAIN tasks_queue : tasks_queue[i].data = d /\ tasks_queue[i].valid
  BY <1>0 DEF TimedTaskNotLost, LiveTasks
<1>1. ASSUME NEW e \in Data, NEW n \in Delays, AddData(e, n)
      PROVE  \E i \in DOMAIN tasks_queue' : tasks_queue'[i].data = d /\ tasks_queue'[i].valid
  BY <1>0, <1>1 DEF AddData
<1>2. ASSUME NEW e \in Data, NEW n \in Delays, NoWait(e, n)
      PROVE  \E i \in DOMAIN tasks_queue' : tasks_queue'[i].data = d /\ tasks_queue'[i].valid
  <2>1. CASE e \in DOMAIN data_in_heap \/ e \notin DOMAIN data_in_queue
    <3>1. /\ data_in_queue' = Put(data_in_queue, e, ImmediateTask(n))
          /\ tasks_queue' = Append(tasks_queue, [data |-> e, valid |-> TRUE])
          /\ worker = "running"
      BY <1>2, <2>1 DEF NoWait, WaitingOrQueued
    <3>2. d # e /\ d \in DOMAIN data_in_queue /\ ~data_in_queue[d].immediate
      BY <3>1 DEF Put, ImmediateTask
    <3>3. PICK i \in DOMAIN tasks_queue : tasks_queue[i].data = d /\ tasks_queue[i].valid
      BY <1>0, <3>1, <3>2
    <3>4. i \in DOMAIN tasks_queue' /\ tasks_queue'[i] = tasks_queue[i]
      BY <3>1, <3>3
    <3> QED
      BY <3>3, <3>4
  <2>2. CASE ~(e \in DOMAIN data_in_heap \/ e \notin DOMAIN data_in_queue)
    <3>1. /\ data_in_queue' = [data_in_queue EXCEPT ![e] = UpdateDelay(@, n)]
          /\ tasks_queue' = tasks_queue
          /\ worker = "running"
      BY <1>2, <2>2 DEF NoWait
    <3>2. data_in_queue[e] \in Task
      BY <2>2 DEF IsDict
    <3>3. UpdateDelay(data_in_queue[e], n).immediate = data_in_queue[e].immediate
      BY <3>2 DEF UpdateDelay, ImmediateTask, Task
    <3>4. d \in DOMAIN data_in_queue /\ ~data_in_queue[d].immediate
      BY <3>1, <3>3
    <3> QED
      BY <1>0, <3>1, <3>4
  <2> QED
    BY <2>1, <2>2
<1>3. ASSUME NEW e \in Data, RemoveData(e)
      PROVE  \E i \in DOMAIN tasks_queue' : tasks_queue'[i].data = d /\ tasks_queue'[i].valid
  <2>1. CASE e \in DOMAIN data_in_heap
    BY <1>0, <1>3, <2>1 DEF RemoveData
  <2>2. CASE e \notin DOMAIN data_in_heap
    <3>1. /\ data_in_queue' = Drop(data_in_queue, e)
          /\ tasks_queue' = Invalidated(e)
          /\ worker = "running"
      BY <1>3, <2>2 DEF RemoveData
    <3>2. d # e /\ d \in DOMAIN data_in_queue /\ ~data_in_queue[d].immediate
      BY <3>1 DEF Drop
    <3>3. PICK i \in DOMAIN tasks_queue : tasks_queue[i].data = d /\ tasks_queue[i].valid
      BY <1>0, <3>1, <3>2
    <3>4. i \in DOMAIN tasks_queue' /\ tasks_queue'[i] = tasks_queue[i]
      BY <3>1, <3>2, <3>3 DEF Invalidated
    <3> QED
      BY <3>3, <3>4
  <2> QED
    BY <2>1, <2>2
<1>4. ASSUME Step
      PROVE  \E i \in DOMAIN tasks_queue' : tasks_queue'[i].data = d /\ tasks_queue'[i].valid
  <2> DEFINE due == Due(current_time + 1)
  <2>1. PICK order \in HeapOrders(due) :
           tasks_queue' = tasks_queue \o
               [i \in DOMAIN order |-> [data |-> order[i], valid |-> TRUE]]
    BY <1>4 DEF Step
  <2>2. Cardinality(due) \in Nat
    <3>1. due \subseteq Data
      BY DEF Due, IsDict
    <3> QED
      BY <3>1, SchedulerAssumption, FS_Subset, FS_CardinalityType
  <2>3. order \in [1..Cardinality(due) -> due]
    BY <2>1 DEF HeapOrders
  <2> DEFINE new == [i \in DOMAIN order |-> [data |-> order[i], valid |-> TRUE]]
  <2>4. new \in [1..Cardinality(due) -> [data : due, valid : {TRUE}]]
    BY <2>3
  <2>5. Len(new) = Cardinality(due) /\ new \in Seq([data : due, valid : {TRUE}])
    <3> HIDE DEF new, due
    <3> QED
      BY <2>2, <2>4, FunctionIsSeq
  <2>6. CASE d \in due
    <3>1. PICK k \in DOMAIN order : order[k] = d
      BY <2>1, <2>6 DEF HeapOrders
    <3>2. new[k].data = d /\ new[k].valid
      BY <3>1
    <3>3. Len(tasks_queue) + k \in DOMAIN tasks_queue'
          /\ tasks_queue'[Len(tasks_queue) + k] = new[k]
      <4> HIDE DEF due
      <4> QED
        BY <2>1, <2>2, <2>3, <2>5, <3>1
    <3> QED
      BY <3>2, <3>3
  <2>7. CASE d \notin due
    <3>1. worker = "running" /\ d \in DOMAIN data_in_queue /\ ~data_in_queue[d].immediate
      BY <1>4, <2>7 DEF Step
    <3>2. PICK i \in DOMAIN tasks_queue : tasks_queue[i].data = d /\ tasks_queue[i].valid
      BY <1>0, <3>1
    <3>3. i \in DOMAIN tasks_queue' /\ tasks_queue'[i] = tasks_queue[i]
      <4> HIDE DEF new, due
      <4> QED
        BY <2>1, <2>2, <2>5, <3>2
    <3> QED
      BY <3>2, <3>3
  <2> QED
    BY <2>6, <2>7
<1>5. ASSUME NEW ok \in BOOLEAN, NEW done \in BOOLEAN, ProcessTask(ok, done)
      PROVE  \E i \in DOMAIN tasks_queue' : tasks_queue'[i].data = d /\ tasks_queue'[i].valid
  <2>1. worker = "running" /\ tasks_queue # << >> /\ tasks_queue' = Tail(tasks_queue)
    BY <1>5 DEF ProcessTask
  <2> DEFINE e == Head(tasks_queue).data
  <2>2. d \in DOMAIN data_in_queue /\ data_in_queue'[d] = data_in_queue[d]
    BY <1>5 DEF ProcessTask, Finish, Drop
  <2>3. PICK i \in DOMAIN tasks_queue : tasks_queue[i].data = d /\ tasks_queue[i].valid
    BY <1>0, <2>1, <2>2
  <2>4. i # 1
    <3>1. SUFFICES ASSUME i = 1 PROVE FALSE
      OBVIOUS
    <3>2. Head(tasks_queue).data = d /\ Head(tasks_queue).valid
      BY <2>1, <2>3, <3>1, TailPositions
    <3>3. Runs(ok)
      BY <2>2, <3>2 DEF Runs
    <3>4. data_in_queue' = Drop(data_in_queue, d)
      BY <1>5, <3>2, <3>3 DEF ProcessTask, Finish
    <3> QED
      BY <3>4 DEF Drop
  <2>5. i - 1 \in DOMAIN tasks_queue' /\ tasks_queue'[i - 1] = tasks_queue[i]
    BY <2>1, <2>3, <2>4
  <2> QED
    BY <2>3, <2>5
<1>6. CASE ProcessRaises
  BY <1>6 DEF ProcessRaises
<1>7. CASE UNCHANGED vars
  BY <1>0, <1>7 DEF vars
<1> QED
  BY <1>1, <1>2, <1>3, <1>4, <1>5, <1>6, <1>7 DEF Next, Callers, Works

----------------------------------------------------------------------------

\* The parts of IInv together.
LEMMA InvStep == IInv /\ [Next]_vars => IInv'
  BY TypeStep, WaitingOrQueuedStep, LiveTaskRegisteredStep, NothingOverdueStep,
     TimedTaskNotLostStep
  DEF IInv

\* The inductive invariant holds of every behaviour of the scheduler.
THEOREM Invariant == Spec => []IInv
  BY InvInit, InvStep, PTL DEF Spec

\* Every variable of the scheduler keeps its type (TypeOK).
THEOREM TypeCorrect == Spec => []TypeOK
  BY Invariant, PTL DEF IInv

\* No datum is both waiting and queued (WaitingOrQueued).
THEOREM OneTaskPerDatum == Spec => []WaitingOrQueued
  BY Invariant, PTL DEF IInv

\* process_tasks never fails on `del self.data_in_queue[task.data]`
\* (LiveTaskRegistered).
THEOREM WorkerFindsItsTask == Spec => []LiveTaskRegistered
  BY Invariant, PTL DEF IInv

\* The clock misses no deadline (NothingOverdue).
THEOREM NoDeadlineMissed == Spec => []NothingOverdue
  BY Invariant, PTL DEF IInv

\* A task of the clock is in the queue as long as its datum is registered there
\* and the worker runs (TimedTaskNotLost).
THEOREM TimedTasksKept == Spec => []TimedTaskNotLost
  BY Invariant, PTL DEF IInv

----------------------------------------------------------------------------
(* The scheduler implements the agenda of Agenda.tla.                       *)

\* An empty scheduler is an empty agenda.
LEMMA AgendaInit == Init => Promise!Init
  BY DEF Init, Promise!Init, Promise!Empty, Empty, Waiting, DueNow

\* Each step of the scheduler maps to the step of the agenda of the same name,
\* or leaves the agenda alone.
LEMMA AgendaStep == IInv /\ [Next]_vars => [Promise!Next]_(Promise!agenda)
<1> SUFFICES ASSUME IInv, [Next]_vars PROVE [Promise!Next]_(Promise!agenda)
  OBVIOUS
<1> USE SchedulerAssumption DEF IInv, TypeOK
<1>1. ASSUME NEW d \in Data, NEW n \in Delays, AddData(d, n) PROVE Promise!Schedule(d, n)
  <2>1. Waiting' = Put(Waiting, d, [at |-> current_time + n, delay |-> n])
    BY <1>1 DEF AddData, Waiting, Put, DueTime
  <2>2. DueNow' = DueNow /\ current_time' = current_time
    BY <1>1 DEF AddData, DueNow
  <2>3. d \notin DOMAIN Waiting \cup DOMAIN DueNow /\ n > 0
    BY <1>1 DEF AddData, HasData, Waiting, DueNow
  <2> QED
    BY <2>1, <2>2, <2>3 DEF Promise!Schedule, Promise!Known, Promise!Put, Put
<1>2. ASSUME NEW d \in Data, NEW n \in Delays, NoWait(d, n) PROVE Promise!Expedite(d, n)
  <2>1. CASE d \in DOMAIN data_in_heap \/ d \notin DOMAIN data_in_queue
    <3>1. Waiting' = Drop(Waiting, d)
      BY <1>2, <2>1 DEF NoWait, WaitingOrQueued, Waiting, Drop
    <3>2. DueNow' = Put(DueNow, d, n)
      BY <1>2, <2>1 DEF NoWait, WaitingOrQueued, DueNow, Put, ImmediateTask
    <3> QED
      BY <1>2, <3>1, <3>2 DEF NoWait, Promise!Expedite, Promise!Put, Promise!Drop, Put, Drop
  <2>2. CASE ~(d \in DOMAIN data_in_heap \/ d \notin DOMAIN data_in_queue)
    <3>1. Waiting' = Drop(Waiting, d)
      BY <1>2, <2>2 DEF NoWait, Waiting, Drop
    <3>2. data_in_queue[d] \in Task
      BY <2>2 DEF IsDict
    <3>3. UpdateDelay(data_in_queue[d], n).delay = n
      BY <3>2 DEF UpdateDelay, ImmediateTask, Task
    <3>4. DueNow' = Put(DueNow, d, n)
      BY <1>2, <2>2, <3>3 DEF NoWait, DueNow, Put
    <3> QED
      BY <1>2, <3>1, <3>4 DEF NoWait, Promise!Expedite, Promise!Put, Promise!Drop, Put, Drop
  <2> QED
    BY <2>1, <2>2
<1>3. ASSUME NEW d \in Data, RemoveData(d) PROVE Promise!Cancel(d)
  <2>1. Waiting' = Drop(Waiting, d)
    BY <1>3 DEF RemoveData, WaitingOrQueued, Waiting, Drop
  <2>2. DueNow' = Drop(DueNow, d)
    BY <1>3 DEF RemoveData, WaitingOrQueued, DueNow, Drop
  <2> QED
    BY <1>3, <2>1, <2>2 DEF RemoveData, Promise!Cancel, Promise!Drop, Drop
<1>4. ASSUME Step PROVE Promise!Tick
  <2> DEFINE come == {d \in DOMAIN Waiting : Waiting[d].at <= current_time + 1}
  <2>1. come = Due(current_time + 1)
    BY DEF Due, Waiting
  <2>2. come \subseteq DOMAIN data_in_heap
    BY DEF Waiting
  <2> HIDE DEF come
  <2>3. Waiting' = [d \in DOMAIN Waiting \ come |-> Waiting[d]]
    BY <1>4, <2>1 DEF Step, Waiting
  <2>4. DueNow' = [d \in DOMAIN DueNow \cup come |->
                     IF d \in come THEN Waiting[d].delay ELSE DueNow[d]]
    BY <1>4, <2>1, <2>2 DEF Step, Waiting, DueNow, TimedTask
  <2> QED
    BY <1>4, <2>3, <2>4 DEF Step, Promise!Tick, come
<1>5. ASSUME NEW ok \in BOOLEAN, NEW done \in BOOLEAN, ProcessTask(ok, done)
      PROVE  (\E d \in Data : Promise!Process(d)) \/ UNCHANGED Promise!agenda
  <2>1. CASE Runs(ok)
    <3> DEFINE d == Head(tasks_queue).data
    <3>1. Finish(d, done) /\ current_time' = current_time
      BY <1>5, <2>1 DEF ProcessTask
    <3>2. d \in DOMAIN data_in_queue /\ data_in_queue[d] \in Task
      BY <1>5, <2>1 DEF Runs, ProcessTask, LiveTaskRegistered, IsDict
    <3>3. d \in Data /\ data_in_queue[d].delay \in Nat /\ DueNow[d] = data_in_queue[d].delay
      BY <3>2 DEF Task, IsDict, DueNow
    <3>4. DueNow' = Drop(DueNow, d)
      BY <3>1 DEF Finish, DueNow, Drop
    <3>5. CASE done \/ data_in_queue[d].delay = 0
      BY <3>1, <3>2, <3>3, <3>4, <3>5
      DEF Finish, Promise!Process, Promise!Drop, Drop, Waiting, DueNow
    <3>6. CASE ~(done \/ data_in_queue[d].delay = 0)
      <4>1. Waiting' = Put(Waiting, d, [at |-> current_time + DueNow[d], delay |-> DueNow[d]])
        BY <3>1, <3>3, <3>6 DEF Finish, Waiting, Put, DueTime
      <4>2. DueNow[d] > 0
        BY <3>3, <3>6
      <4>3. d \in DOMAIN DueNow
        BY <3>2 DEF DueNow
      <4> QED
        BY <3>1, <3>2, <3>3, <3>4, <4>1, <4>2, <4>3
        DEF Promise!Process, Promise!Put, Promise!Drop, Put, Drop
    <3> QED
      BY <3>5, <3>6
  <2>2. CASE ~Runs(ok)
    BY <1>5, <2>2 DEF ProcessTask, Promise!agenda, Waiting, DueNow
  <2> QED
    BY <2>1, <2>2
<1>6. CASE ProcessRaises
  BY <1>6 DEF ProcessRaises, Promise!agenda, Waiting, DueNow
<1>7. CASE UNCHANGED vars
  BY <1>7 DEF vars, Promise!agenda, Waiting, DueNow
<1> QED
  BY <1>1, <1>2, <1>3, <1>4, <1>5, <1>6, <1>7
  DEF Next, Callers, Works, Promise!Next

\* The scheduler implements the agenda (ImplementsAgenda), for any data, delays
\* and bounds.
THEOREM Refinement == Spec => ImplementsAgenda
<1>1. Init => Promise!Init
  BY AgendaInit
<1>2. IInv /\ [Next]_vars => [Promise!Next]_(Promise!agenda)
  BY AgendaStep
<1> QED
  BY <1>1, <1>2, Invariant, PTL DEF Spec, ImplementsAgenda, Promise!Spec
=============================================================================
