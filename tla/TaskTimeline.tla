---------------------------- MODULE TaskTimeline ----------------------------
(* What the ledger tells the user.  Every transaction that changes a task     *)
(* records an event in task_events, and queues it in the outbox unless it is  *)
(* an automatic event that repeats the status soon after an earlier one.      *)
(* NativeOutbox takes the queued events from there.                           *)
EXTENDS TaskLedger

VARIABLES noted,   \* per task, the status in its newest row of task_events
          told     \* per task, the status in its newest event in the outbox

newsVars == <<tasks, notes, notices, noted, told>>

Nothing == "nothing"

----------------------------------------------------------------------------

\* _record_task_event_locked.
RecordTaskEvent(t) == noted' = [noted EXCEPT ![t] = tasks'[t].status]

\* Faulty: the interval between events applies to every automatic event.
QueueTaskEventThrottled(t) ==
    \/ told' = [told EXCEPT ![t] = tasks'[t].status]
    \/ /\ tasks'[t].evidence # "explicit"
       /\ told[t] # Nothing
       /\ UNCHANGED told

\* _queue_task_event_locked, before the row just recorded counts: less than 12 s
\* may have passed since the newest event in the outbox, or not.
QueueTaskEvent(t) ==
    \/ told' = [told EXCEPT ![t] = tasks'[t].status]
    \/ /\ noted[t] = tasks'[t].status
       /\ tasks'[t].evidence # "explicit"
       /\ told[t] # Nothing
       /\ UNCHANGED told

Announce(t) == RecordTaskEvent(t) /\ QueueTaskEvent(t)

\* The start intent is recorded and not queued.
CreateAndNote(t) ==
    /\ CreateTask(t)
    /\ RecordTaskEvent(t)
    /\ UNCHANGED told

\* A request that changes nothing of the row may still bring another text.
TransitionAndTell(t, q) ==
    /\ TransitionTask(t, q)
    /\ \/ Accepts(tasks[t], q) /\ Announce(t)
       \/ tasks'[t] = tasks[t] /\ UNCHANGED <<noted, told>>

ClaimAndTell(t) == ClaimTaskContinuation(t) /\ Announce(t)

AddNoteAndTell(t, key) == AddAgentTaskNote(t, key) /\ Announce(t)

ReadNotesAndTell(t) == ReadTaskNotes(t) /\ Announce(t)

\* Whatever is given up late is an event of its task; the status is as it was.
ReconcileAndTell ==
    LET late == {t \in Tasks : Late(t) # {}}
    IN  /\ ReconcileClosedTaskNotes
        /\ noted' = [t \in Tasks |-> IF t \in late THEN tasks[t].status ELSE noted[t]]
        /\ \E queued \in SUBSET late :
               told' = [t \in Tasks |-> IF t \in queued THEN tasks[t].status ELSE told[t]]

----------------------------------------------------------------------------

NewsInit ==
    /\ LedgerInit
    /\ noted = [t \in Tasks |-> Nothing]
    /\ told = [t \in Tasks |-> Nothing]

NewsCall(t) ==
    \/ CreateAndNote(t)
    \/ \E q \in Requests : TransitionAndTell(t, q)
    \/ ClaimAndTell(t)
    \/ \E key \in NoteKeys : AddNoteAndTell(t, key)
    \/ ReadNotesAndTell(t)

NewsNext == (\E t \in Tasks : NewsCall(t)) \/ ReconcileAndTell

NewsSpec == NewsInit /\ [][NewsNext]_newsVars

----------------------------------------------------------------------------

\* The newest event in the outbox tells the status the task has, from its first
\* change after the start intent: the interval drops repetitions, never the news.
\* With the outbox delivered in order, the user ends up with the truth.
NewsIsTold ==
    \A t \in Tasks :
        tasks[t].status \in {"absent", "dispatching"} \/ told[t] = tasks[t].status
=============================================================================
