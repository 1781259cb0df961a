------------------------- MODULE TaskTimelineProofs -------------------------
(* That the user is told the status of every task, for any sets of tasks,    *)
(* runners and note keys.  The interval between automatic events compares    *)
(* with the newest row of task_events, so the invariant has to say that that *)
(* row tells the status too.                                                 *)
EXTENDS TaskTimeline, TaskLedgerProofs

\* What is recorded and queued is about what the ledger does.
THEOREM NewsAreOfTheLedger == NewsSpec => LedgerSpec
  <1>1. NewsInit => LedgerInit
    BY DEF NewsInit
  <1>2. ASSUME [NewsNext]_newsVars
        PROVE  [LedgerNext]_ledgerVars
    <2>1. CASE UNCHANGED newsVars
      BY <2>1 DEF newsVars, ledgerVars
    <2>2. CASE ReconcileAndTell
      BY <2>2 DEF ReconcileAndTell, LedgerNext
    <2>3. ASSUME NEW t \in Tasks, NewsCall(t)
          PROVE  LedgerCall(t)
      BY <2>3 DEF NewsCall, LedgerCall, CreateAndNote, TransitionAndTell, ClaimAndTell,
                  AddNoteAndTell, ReadNotesAndTell
    <2> QED
      BY <1>2, <2>1, <2>2, <2>3 DEF NewsNext, LedgerNext
  <1> QED
    BY <1>1, <1>2, PTL DEF NewsSpec, LedgerSpec

\* The rows of the model: what was recorded last, and what was queued last.
NewsTypeOK ==
    /\ LedgerTypeOK
    /\ noted \in [Tasks -> TaskStatuses \union {"absent", Nothing}]
    /\ told \in [Tasks -> TaskStatuses \union {"absent", Nothing}]

\* The newest row of task_events has the status of the task, and so has the
\* newest event in the outbox once the task left its start intent.
NewsInv ==
    /\ NewsTypeOK
    /\ \A t \in Tasks : tasks[t].status # "absent" => noted[t] = tasks[t].status
    /\ NewsIsTold

\* Every operation changes the row of its own task only, and then records it;
\* all but the start intent queue it as well.
LEMMA OneTaskIsNoted ==
    ASSUME tasks \in [Tasks -> TaskRecords], NEW t \in Tasks, NewsCall(t)
    PROVE  /\ \A u \in Tasks \ {t} : tasks'[u] = tasks[u]
           /\ \/ Announce(t) /\ tasks[t].status # "absent"
              \/ RecordTaskEvent(t) /\ UNCHANGED told /\ tasks'[t].status = "dispatching"
              \/ UNCHANGED <<noted, told>> /\ tasks'[t] = tasks[t]
  <1>1. CASE CreateAndNote(t)
    <2>1. [NoTask EXCEPT !.status = "dispatching"].status = "dispatching"
      BY DEF NoTask
    <2> QED
      BY <1>1, <2>1 DEF CreateAndNote, CreateTask
  <1>2. ASSUME NEW q \in Requests, TransitionAndTell(t, q)
        PROVE  /\ \A u \in Tasks \ {t} : tasks'[u] = tasks[u]
               /\ \/ Announce(t) /\ tasks[t].status # "absent"
                  \/ UNCHANGED <<noted, told>> /\ tasks'[t] = tasks[t]
    BY <1>2 DEF TransitionAndTell, TransitionTask, Accepts, ledgerVars
  <1>3. CASE ClaimAndTell(t)
    <2>1. tasks[t].status # "absent"
      BY <1>3 DEF ClaimAndTell, ClaimTaskContinuation, Resumable,
                  RecoverableTerminalTaskStatuses
    <2> QED
      BY <1>3, <2>1 DEF ClaimAndTell, ClaimTaskContinuation
  <1>4. ASSUME NEW key \in NoteKeys, AddNoteAndTell(t, key)
        PROVE  Announce(t) /\ tasks[t].status # "absent"
               /\ \A u \in Tasks \ {t} : tasks'[u] = tasks[u]
    BY <1>4 DEF AddNoteAndTell, AddAgentTaskNote, TakesNotes
  <1>5. CASE ReadNotesAndTell(t)
    BY <1>5 DEF ReadNotesAndTell, ReadTaskNotes
  <1> QED
    BY <1>1, <1>2, <1>3, <1>4, <1>5 DEF NewsCall

\* What is recorded of a task is its status, so it is of the right type.
LEMMA NewsStepTyped ==
    ASSUME NewsInv, LedgerTypeOK', NewsNext
    PROVE  NewsTypeOK'
  <1>1. \A t \in Tasks : /\ tasks[t].status \in TaskStatuses \union {"absent"}
                         /\ tasks'[t].status \in TaskStatuses \union {"absent"}
    BY DEF NewsInv, NewsTypeOK, LedgerTypeOK, TaskRecords
  <1>2. CASE ReconcileAndTell
    BY <1>1, <1>2 DEF ReconcileAndTell, NewsInv, NewsTypeOK
  <1>3. ASSUME NEW t \in Tasks, NewsCall(t)
        PROVE  NewsTypeOK'
    <2>1. tasks \in [Tasks -> TaskRecords]
      BY DEF NewsInv, NewsTypeOK, LedgerTypeOK
    <2> QED
      BY <1>1, <1>3, <2>1, OneTaskIsNoted
         DEF NewsInv, NewsTypeOK, Announce, RecordTaskEvent, QueueTaskEvent
  <1> QED
    BY <1>2, <1>3 DEF NewsNext

LEMMA NewsInvInductive == NewsInv /\ LedgerTypeOK' /\ [NewsNext]_newsVars => NewsInv'
  <1> SUFFICES ASSUME NewsInv, LedgerTypeOK', [NewsNext]_newsVars
               PROVE  NewsInv'
    OBVIOUS
  <1>1. CASE UNCHANGED newsVars
    BY <1>1 DEF newsVars, NewsInv, NewsTypeOK, LedgerTypeOK, NewsIsTold
  <1>2. CASE NewsNext
    <2>1. NewsTypeOK'
      BY <1>2, NewsStepTyped
    <2> SUFFICES ASSUME NEW u \in Tasks
                 PROVE  /\ tasks'[u].status # "absent" => noted'[u] = tasks'[u].status
                        /\ \/ tasks'[u].status \in {"absent", "dispatching"}
                           \/ told'[u] = tasks'[u].status
      BY <2>1 DEF NewsInv, NewsIsTold
    <2>2. /\ tasks[u].status # "absent" => noted[u] = tasks[u].status
          /\ tasks[u].status \in {"absent", "dispatching"} \/ told[u] = tasks[u].status
          /\ noted[u] \in TaskStatuses \union {"absent", Nothing}
          /\ noted \in [Tasks -> TaskStatuses \union {"absent", Nothing}]
          /\ told \in [Tasks -> TaskStatuses \union {"absent", Nothing}]
          /\ tasks \in [Tasks -> TaskRecords]
      BY DEF NewsInv, NewsTypeOK, NewsIsTold, LedgerTypeOK
    <2>3. CASE ReconcileAndTell
      BY <2>2, <2>3 DEF ReconcileAndTell, ReconcileClosedTaskNotes
    <2>4. ASSUME NEW t \in Tasks, NewsCall(t)
          PROVE  /\ tasks'[u].status # "absent" => noted'[u] = tasks'[u].status
                 /\ \/ tasks'[u].status \in {"absent", "dispatching"}
                    \/ told'[u] = tasks'[u].status
      <3>1. /\ \A v \in Tasks \ {t} : tasks'[v] = tasks[v]
            /\ \/ Announce(t) /\ tasks[t].status # "absent"
               \/ RecordTaskEvent(t) /\ UNCHANGED told /\ tasks'[t].status = "dispatching"
               \/ UNCHANGED <<noted, told>> /\ tasks'[t] = tasks[t]
        BY <2>2, <2>4, OneTaskIsNoted
      <3>2. CASE u # t
        BY <2>2, <3>1, <3>2 DEF Announce, RecordTaskEvent, QueueTaskEvent
      <3>3. CASE u = t
        BY <2>2, <3>1, <3>3 DEF Announce, RecordTaskEvent, QueueTaskEvent
      <3> QED
        BY <3>2, <3>3
    <2> QED
      BY <1>2, <2>3, <2>4 DEF NewsNext
  <1> QED
    BY <1>1, <1>2

\* The newest event queued for a task tells the status it has: the interval
\* between automatic events never drops the last change of a task.
THEOREM TheTruthIsTold == NewsSpec => []NewsIsTold
  <1>1. NewsInit /\ LedgerTypeOK => NewsInv
    BY DEF NewsInit, LedgerInit, NewsInv, NewsTypeOK, NewsIsTold, NoTask
  <1>2. NewsInv => NewsIsTold
    BY DEF NewsInv
  <1> QED
    BY <1>1, <1>2, NewsAreOfTheLedger, LedgerTypeCorrect, NewsInvInductive, PTL DEF NewsSpec
=============================================================================
