------------------------------- MODULE Agenda -------------------------------
(***************************************************************************)
(* What the scheduler promises, without its queue: a datum is unknown,      *)
(* waiting for a time, or due.  Written from the documentation of the       *)
(* methods of Scheduler and of its tasks (diplomacy/server/scheduler.py).   *)
(***************************************************************************)
EXTENDS Integers, Dicts

CONSTANTS Data, Delays, MaxTime

VARIABLES
    now,      \* the time
    waiting,  \* dict: datum -> when it is due and its delay for the next times
    due       \* dict: datum to process -> its delay for the next times

agenda == <<now, waiting, due>>

Known == DOMAIN waiting \cup DOMAIN due

Init == now = 0 /\ waiting = Empty /\ due = Empty

\* An unknown datum is scheduled, for a later time.
Schedule(d, n) ==
    /\ d \notin Known
    /\ n > 0
    /\ waiting' = Put(waiting, d, [at |-> now + n, delay |-> n])
    /\ UNCHANGED <<now, due>>

\* Any datum is made due at once.
Expedite(d, n) ==
    /\ waiting' = Drop(waiting, d)
    /\ due' = Put(due, d, n)
    /\ UNCHANGED now

\* A datum is forgotten.
Cancel(d) ==
    /\ waiting' = Drop(waiting, d)
    /\ due' = Drop(due, d)
    /\ UNCHANGED now

\* Time passes: exactly the data whose time has come become due.
Tick ==
    /\ now' = now + 1
    /\ LET come == {d \in DOMAIN waiting : waiting[d].at <= now + 1} IN
       /\ waiting' = [d \in DOMAIN waiting \ come |-> waiting[d]]
       /\ due' = [d \in DOMAIN due \cup come |->
                    IF d \in come THEN waiting[d].delay ELSE due[d]]

\* A due datum is processed, for the last time or until its delay has passed
\* again, counted from now.
Process(d) ==
    /\ d \in DOMAIN due
    /\ due' = Drop(due, d)
    /\ \/ UNCHANGED waiting
       \/ /\ due[d] > 0
          /\ waiting' = Put(waiting, d, [at |-> now + due[d], delay |-> due[d]])
    /\ UNCHANGED now

Next ==
    \/ Tick
    \/ \E d \in Data :
        \/ \E n \in Delays : Schedule(d, n) \/ Expedite(d, n)
        \/ Cancel(d) \/ Process(d)

Spec == Init /\ [][Next]_agenda
=============================================================================
