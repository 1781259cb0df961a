---------------------------- MODULE EventTimeline ----------------------------
(* What the bridge promises a user about the events of a task: they are shown *)
(* in the order in which they were recorded, none is skipped, and showing one *)
(* again before its successor is not noticed.  Events of different tasks may  *)
(* overtake each other.                                                       *)
EXTENDS Sequences, Naturals

CONSTANT Tasks

VARIABLES log,   \* the task of every event, in the order of the outbox ids
          seen   \* per task, the event the user was shown last

timelineVars == <<log, seen>>

Hidden(i) == i \in DOMAIN log /\ i > seen[log[i]]

Unseen(t) == {i \in DOMAIN log : log[i] = t /\ Hidden(i)}

----------------------------------------------------------------------------

TimelineInit ==
    /\ log = << >>
    /\ seen = [t \in Tasks |-> 0]

\* One transaction may queue the event of a task and a notice with it.
Happen(t, n) ==
    /\ log' = log \o [i \in 1..n |-> t]
    /\ UNCHANGED seen

Show(t) ==
    \E i \in Unseen(t) :
        /\ \A j \in Unseen(t) : i <= j
        /\ seen' = [seen EXCEPT ![t] = i]
        /\ UNCHANGED log

TimelineNext ==
    \E t \in Tasks : Show(t) \/ \E n \in 1..2 : Happen(t, n)

TimelineSpec == TimelineInit /\ [][TimelineNext]_timelineVars

\* Each of the first n events is shown in the end.
Delivered(n) == \A i \in 1..n : Hidden(i) ~> ~Hidden(i)
=============================================================================
