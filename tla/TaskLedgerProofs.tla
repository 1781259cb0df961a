-------------------------- MODULE TaskLedgerProofs --------------------------
(* What TaskLedger promises, proved for any sets of tasks, runners and note  *)
(* keys.  ClosedInboxDrained carries the other two row invariants: a note or *)
(* an inbox read rewrites the evidence of a row, and only because a closed   *)
(* inbox holds nothing to read can that row never be a completed one.        *)
EXTENDS TaskLedger, FiniteSetTheorems, SequenceTheorems, TLAPS

\* The requests of all callers as records; a completion carries its evidence.
LEMMA RequestsTyped ==
    ASSUME NEW q \in Requests
    PROVE  /\ q \in [status : TaskStatuses, evidence : EvidenceClasses,
                     proc : RunnerOrNone, worker : RunnerOrNone]
           /\ q.status = "completed" => q.evidence = "final"
  BY DEF Requests, AskWithProcess, AskWithWorker, Ask, TaskStatuses, RunnerOrNone,
         TerminalTaskStatuses, FinalTaskStatuses, RecoverableTerminalTaskStatuses,
         EvidenceClasses

\* Marking notes changes nothing but the status of the notes marked.
LEMMA MarkedNotes ==
    ASSUME notes \in Seq(Notes), NEW indices,
           NEW status \in {"unread", "read", "missed"}
    PROVE  /\ Marked(indices, status) \in Seq(Notes)
           /\ DOMAIN Marked(indices, status) = DOMAIN notes
           /\ \A i \in DOMAIN notes :
                /\ Marked(indices, status)[i].task = notes[i].task
                /\ Marked(indices, status)[i].status =
                     IF i \in indices THEN status ELSE notes[i].status
  <1>1. DOMAIN notes = 1 .. Len(notes) /\ Len(notes) \in Nat
    BY LenProperties
  <1>2. \A i \in DOMAIN notes : notes[i] \in Notes
    BY ElementOfSeq, <1>1
  <1>3. \A i \in DOMAIN notes : Marked(indices, status)[i] \in Notes
    BY <1>2 DEF Marked, Notes
  <1>4. Marked(indices, status) \in [1 .. Len(notes) -> Notes]
    BY <1>1, <1>3 DEF Marked
  <1>5. Marked(indices, status) \in Seq(Notes)
    BY <1>1, <1>4, IsASeq
  <1> QED
    BY <1>1, <1>2, <1>5 DEF Marked, Notes

\* The count of a task's notes in one status is a number.
LEMMA HeldCount ==
    ASSUME notes \in Seq(Notes), NEW t, NEW status
    PROVE  Cardinality(Held(t, status)) \in Nat
  <1>1. IsFiniteSet(DOMAIN notes)
    BY LenProperties, FS_Interval
  <1>2. Held(t, status) \subseteq DOMAIN notes
    BY DEF Held
  <1> QED
    BY <1>1, <1>2, FS_Subset, FS_CardinalityType

\* Closing an inbox leaves the types and the tasks of the notes alone, and no
\* unread note of the task.
LEMMA ClosedInbox ==
    ASSUME notes \in Seq(Notes), notices \in [Tasks -> Nat], NEW t \in Tasks, CloseInbox(t)
    PROVE  /\ notes' \in Seq(Notes)
           /\ notices' \in [Tasks -> Nat]
           /\ DOMAIN notes' = DOMAIN notes
           /\ \A i \in DOMAIN notes :
                /\ notes'[i].task = notes[i].task
                /\ notes'[i].status = "unread" => notes[i].status = "unread"
                /\ notes[i].task = t => notes'[i].status # "unread"
  <1>1. notes' = Marked(Held(t, "unread"), "missed")
    BY DEF CloseInbox
  <1>2. notices' \in [Tasks -> Nat]
    BY HeldCount DEF CloseInbox
  <1>3. \A i \in DOMAIN notes :
          notes[i].task = t /\ notes[i].status = "unread" => i \in Held(t, "unread")
    BY DEF Held
  <1> QED
    BY <1>1, <1>2, <1>3, MarkedNotes

----------------------------------------------------------------------------
(* Type correctness.                                                         *)

\* Every action keeps the types of the rows and never takes one away.
LEMMA RowsStay ==
    ASSUME tasks \in [Tasks -> TaskRecords], NEW t \in Tasks, LedgerCall(t)
    PROVE  /\ tasks' \in [Tasks -> TaskRecords]
           /\ \A u \in Tasks : tasks[u].status # "absent" => tasks'[u].status # "absent"
  <1>1. \/ CreateTask(t)
        \/ \E q \in Requests : TransitionTask(t, q)
        \/ ClaimTaskContinuation(t)
        \/ \E key \in NoteKeys : AddAgentTaskNote(t, key)
        \/ ReadTaskNotes(t)
    BY DEF LedgerCall
  <1>2. tasks[t] \in TaskRecords
    OBVIOUS
  <1>3. SUFFICES ASSUME NEW row \in TaskRecords, row.status # "absent",
                        tasks' = [tasks EXCEPT ![t] = row]
                 PROVE  /\ tasks' \in [Tasks -> TaskRecords]
                        /\ \A u \in Tasks : tasks[u].status # "absent" =>
                                                tasks'[u].status # "absent"
    <2>1. CASE CreateTask(t)
      <3>1. [NoTask EXCEPT !.status = "dispatching"] \in TaskRecords
        BY DEF NoTask, TaskRecords, TaskStatuses, RunnerOrNone, EvidenceClasses
      <3>2. [NoTask EXCEPT !.status = "dispatching"].status = "dispatching"
        BY DEF NoTask
      <3> QED
        BY <1>3, <2>1, <3>1, <3>2 DEF CreateTask
    <2>2. CASE \E q \in Requests : TransitionTask(t, q)
      <3>1. PICK q \in Requests : TransitionTask(t, q)
        BY <2>2
      <3>2. CASE Accepts(tasks[t], q)
        <4>1. Transitioned(tasks[t], q) \in TaskRecords
          BY <1>2, RequestsTyped
             DEF Transitioned, TaskRecords, TaskStatuses, RunnerOrNone, EvidenceClasses
        <4>2. Transitioned(tasks[t], q).status # "absent"
          BY RequestsTyped DEF Transitioned, TaskStatuses, TerminalTaskStatuses,
             FinalTaskStatuses, RecoverableTerminalTaskStatuses
        <4> QED
          BY <1>3, <3>1, <3>2, <4>1, <4>2 DEF TransitionTask
      <3>3. CASE ~Accepts(tasks[t], q)
        BY <3>1, <3>3 DEF TransitionTask, ledgerVars
      <3> QED
        BY <3>2, <3>3
    <2>3. CASE ClaimTaskContinuation(t)
      <3>1. Continued \in TaskRecords /\ Continued.status = "continuing"
        BY DEF Continued, NoTask, TaskRecords, TaskStatuses, RunnerOrNone, EvidenceClasses
      <3> QED
        BY <1>3, <2>3, <3>1 DEF ClaimTaskContinuation
    <2>4. CASE (\E key \in NoteKeys : AddAgentTaskNote(t, key)) \/ ReadTaskNotes(t)
      <3>1. Touched(tasks[t]) \in TaskRecords /\ Touched(tasks[t]).status = tasks[t].status
        BY <1>2 DEF Touched, TaskRecords, EvidenceClasses
      <3>2. tasks[t].status # "absent" /\ tasks' = [tasks EXCEPT ![t] = Touched(tasks[t])]
        BY <2>4 DEF AddAgentTaskNote, TakesNotes, ReadTaskNotes
      <3> QED
        BY <1>3, <3>1, <3>2
    <2> QED
      BY <1>1, <2>1, <2>2, <2>3, <2>4
  <1> QED
    BY <1>3

\* The clean-up of an opening process keeps the types as well.
LEMMA ReconcileTyped ==
    ASSUME LedgerTypeOK, ReconcileClosedTaskNotes
    PROVE  LedgerTypeOK'
  <1> DEFINE late == UNION {Late(t) : t \in Tasks}
  <1>1. notes \in Seq(Notes) /\ notes' = Marked(late, "missed") /\ tasks' = tasks
    BY DEF LedgerTypeOK, ReconcileClosedTaskNotes
  <1>2. /\ notes' \in Seq(Notes) /\ DOMAIN notes' = DOMAIN notes
        /\ \A i \in DOMAIN notes : notes'[i].task = notes[i].task
    BY <1>1, MarkedNotes
  <1>3. \A t \in Tasks : Cardinality(Late(t)) \in Nat
    BY <1>1, HeldCount, FS_EmptySet DEF Late
  <1>4. notices' \in [Tasks -> Nat]
    BY <1>3 DEF LedgerTypeOK, ReconcileClosedTaskNotes
  <1> QED
    BY <1>1, <1>2, <1>4 DEF LedgerTypeOK

\* No step of the ledger leaves the types, or a note without its task.
LEMMA LedgerTypeInductive == LedgerTypeOK /\ [LedgerNext]_ledgerVars => LedgerTypeOK'
  <1> SUFFICES ASSUME LedgerTypeOK, NEW t \in Tasks, LedgerCall(t) PROVE LedgerTypeOK'
    BY ReconcileTyped DEF LedgerTypeOK, ledgerVars, LedgerNext
  <1> USE DEF LedgerTypeOK
  <1>1. /\ tasks' \in [Tasks -> TaskRecords]
        /\ \A u \in Tasks : tasks[u].status # "absent" => tasks'[u].status # "absent"
    BY RowsStay
  <1>2. \A i \in DOMAIN notes : notes[i] \in Notes
    BY ElementOfSeq, LenProperties
  <1>3. SUFFICES /\ notes' \in Seq(Notes)
                 /\ notices' \in [Tasks -> Nat]
                 /\ \A i \in DOMAIN notes' : tasks'[notes'[i].task].status # "absent"
    BY <1>1
  <1>4. \/ CreateTask(t)
        \/ \E q \in Requests : TransitionTask(t, q)
        \/ ClaimTaskContinuation(t)
        \/ \E key \in NoteKeys : AddAgentTaskNote(t, key)
        \/ ReadTaskNotes(t)
    BY DEF LedgerCall
  <1>5. CASE UNCHANGED <<notes, notices>>
    BY <1>1, <1>2, <1>5 DEF Notes
  <1>6. CASE CloseInbox(t)
    BY <1>1, <1>2, <1>6, ClosedInbox DEF Notes
  <1>7. ASSUME NEW key \in NoteKeys, AddAgentTaskNote(t, key)
        PROVE  /\ notes' \in Seq(Notes)
               /\ notices' \in [Tasks -> Nat]
               /\ \A i \in DOMAIN notes' : tasks'[notes'[i].task].status # "absent"
    <2> DEFINE note == [task |-> t, key |-> key, status |-> "unread"]
    <2>1. note \in Notes
      BY DEF Notes
    <2>2. notes' = Append(notes, note) /\ notices' = notices
      BY <1>7 DEF AddAgentTaskNote
    <2>3. tasks[t].status # "absent"
      BY <1>7 DEF AddAgentTaskNote, TakesNotes
    <2>4. notes' \in Seq(Notes)
      BY <2>1, <2>2, AppendProperties
    <2>5. /\ DOMAIN notes' = 1 .. Len(notes) + 1
          /\ \A i \in DOMAIN notes' :
               notes'[i].task = t \/ (i \in DOMAIN notes /\ notes'[i] = notes[i])
      BY <2>1, <2>2, AppendProperties, LenProperties
    <2> QED
      BY <1>1, <1>2, <2>2, <2>3, <2>4, <2>5 DEF Notes
  <1>8. CASE ReadTaskNotes(t)
    <2>1. notes' = Marked(Inbox(t), "read") /\ notices' = notices
      BY <1>8 DEF ReadTaskNotes
    <2> QED
      BY <1>1, <1>2, <2>1, MarkedNotes DEF Notes
  <1> QED
    BY <1>4, <1>5, <1>6, <1>7, <1>8
       DEF CreateTask, TransitionTask, ClaimTaskContinuation, ledgerVars

\* The types of the three tables, and the foreign key of the notes: tasks are
\* never deleted, and add_agent_task_note requires one.
THEOREM LedgerTypeCorrect == LedgerSpec => []LedgerTypeOK
  <1>1. LedgerInit => LedgerTypeOK
    BY DEF LedgerInit, LedgerTypeOK, NoTask, TaskRecords, RunnerOrNone, EvidenceClasses
  <1> QED
    BY <1>1, LedgerTypeInductive, PTL DEF LedgerSpec

----------------------------------------------------------------------------
(* The life of a row.                                                        *)

LedgerInv == LedgerTypeOK /\ ClosedInboxDrained /\ FinishedIffTerminal /\ CompletedIsEvidenced

\* What a row says of itself: finished_at, and the evidence of a completion.
RowOK(row) ==
    /\ row.finished <=> Terminal(row)
    /\ row.status = "completed" => row.evidence = "final"

\* An accepted request makes a sound row of a sound one: finished_at is set
\* by an outcome and cleared by whatever reopens one.
LEMMA TransitionedRowOK ==
    ASSUME NEW row \in TaskRecords, NEW q \in Requests, RowOK(row), Accepts(row, q)
    PROVE  RowOK(Transitioned(row, q))
  <1>1. Transitioned(row, q).status = q.status /\ Transitioned(row, q).evidence = q.evidence
    BY DEF Transitioned
  <1>2. Transitioned(row, q).finished <=> q.status \in TerminalTaskStatuses
    BY DEF Transitioned, RowOK, Accepts
  <1> QED
    BY <1>1, <1>2, RequestsTyped DEF RowOK, Terminal

\* A note or an inbox read leaves an open row as sound, and as open, as it was.
LEMMA TouchedRowOK ==
    ASSUME NEW row \in TaskRecords, RowOK(row), ~ClosesNotes(row)
    PROVE  RowOK(Touched(row)) /\ ~ClosesNotes(Touched(row))
  <1>1. /\ Touched(row).status = row.status
        /\ Touched(row).worker = row.worker
        /\ Touched(row).finished = row.finished
        /\ Touched(row).evidence = "plain"
    BY DEF Touched, TaskRecords
  <1>2. Resumable(row) => Resumable(Touched(row))
    BY <1>1 DEF Resumable, WorkerStarted, FinalObserved
  <1>3. row.status \in FinalTaskStatuses => Resumable(row)
    BY DEF ClosesNotes, Final
  <1>4. row.status # "completed"
    BY <1>3 DEF FinalTaskStatuses, Resumable, RecoverableTerminalTaskStatuses
  <1> QED
    BY <1>1, <1>2, <1>3, <1>4 DEF RowOK, ClosesNotes, Final, Terminal

\* What one operation makes of the row it is about, and of the inbox.
LEMMA OneRowChanges ==
    ASSUME LedgerInv, \E t \in Tasks : LedgerCall(t)
    PROVE  \E t \in Tasks, row \in TaskRecords :
             /\ tasks' = [tasks EXCEPT ![t] = row]
             /\ RowOK(row)
             /\ Final(tasks[t]) => row = tasks[t]
             /\ tasks[t].status = "stopping" => row.status = "stopping" \/ Terminal(row)
             /\ ClosesNotes(row) => Held(t, "unread")' = {}
             /\ \A u \in Tasks \ {t} : Held(u, "unread") = {} => Held(u, "unread")' = {}
  <1>1. PICK t \in Tasks : LedgerCall(t)
    OBVIOUS
  <1>2. /\ tasks[t] \in TaskRecords
        /\ RowOK(tasks[t])
        /\ ClosesNotes(tasks[t]) => Held(t, "unread") = {}
        /\ notes \in Seq(Notes) /\ notices \in [Tasks -> Nat]
        /\ tasks \in [Tasks -> TaskRecords] /\ tasks' \in [Tasks -> TaskRecords]
    BY <1>1, RowsStay DEF LedgerInv, LedgerTypeOK, ClosedInboxDrained, FinishedIffTerminal,
                    CompletedIsEvidenced, RowOK
  <1> DEFINE row == tasks'[t]
  <1>3. row \in TaskRecords
    BY <1>2
  <1>4. SUFFICES /\ tasks' = [tasks EXCEPT ![t] = row]
                 /\ RowOK(row)
                 /\ Final(tasks[t]) => row = tasks[t]
                 /\ tasks[t].status = "stopping" => row.status = "stopping" \/ Terminal(row)
                 /\ ClosesNotes(row) => Held(t, "unread")' = {}
                 /\ \A u \in Tasks \ {t} : Held(u, "unread") = {} => Held(u, "unread")' = {}
    BY <1>3
  <1>5. CASE CreateTask(t)
    <2>1. /\ tasks[t].status = "absent"
          /\ row.status = "dispatching" /\ ~row.finished
          /\ tasks' = [tasks EXCEPT ![t] = row]
          /\ notes' = notes
      BY <1>2, <1>5 DEF CreateTask, NoTask
    <2> QED
      BY <2>1 DEF RowOK, Terminal, TerminalTaskStatuses, FinalTaskStatuses,
         RecoverableTerminalTaskStatuses, Final, ClosesNotes, Held
  <1>6. ASSUME NEW q \in Requests, TransitionTask(t, q), Accepts(tasks[t], q)
        PROVE  /\ tasks' = [tasks EXCEPT ![t] = row]
               /\ RowOK(row)
               /\ Final(tasks[t]) => row = tasks[t]
               /\ tasks[t].status = "stopping" => row.status = "stopping" \/ Terminal(row)
               /\ ClosesNotes(row) => Held(t, "unread")' = {}
               /\ \A u \in Tasks \ {t} : Held(u, "unread") = {} => Held(u, "unread")' = {}
    <2>1. tasks' = [tasks EXCEPT ![t] = row] /\ row = Transitioned(tasks[t], q)
      BY <1>2, <1>6 DEF TransitionTask
    <2>2. RowOK(row)
      BY <1>2, <1>6, <2>1, TransitionedRowOK
    <2>3. ~Final(tasks[t])
      BY <1>6 DEF Accepts, Final, Terminal, TerminalTaskStatuses
    <2>4. tasks[t].status = "stopping" => Terminal(row)
      BY <1>6, <2>1 DEF Accepts, Terminal, Transitioned
    <2>5. CASE ClosesNotes(row)
      <3>1. CloseInbox(t)
        BY <1>6, <2>1, <2>5 DEF TransitionTask
      <3>2. /\ DOMAIN notes' = DOMAIN notes
            /\ \A i \in DOMAIN notes :
                 /\ notes'[i].task = notes[i].task
                 /\ notes'[i].status = "unread" => notes[i].status = "unread"
                 /\ notes[i].task = t => notes'[i].status # "unread"
        BY <1>2, <3>1, ClosedInbox
      <3>3. Held(t, "unread")' = {}
        BY <3>2 DEF Held
      <3>4. \A u \in Tasks \ {t} : Held(u, "unread") = {} => Held(u, "unread")' = {}
        BY <3>2 DEF Held
      <3> QED
        BY <2>1, <2>2, <2>3, <2>4, <3>3, <3>4
    <2>6. CASE ~ClosesNotes(row)
      BY <1>6, <2>1, <2>2, <2>3, <2>4, <2>6 DEF TransitionTask, Held
    <2> QED
      BY <2>5, <2>6
  <1>7. ASSUME NEW q \in Requests, TransitionTask(t, q), ~Accepts(tasks[t], q)
        PROVE  UNCHANGED ledgerVars
    BY <1>7 DEF TransitionTask
  <1>8. CASE UNCHANGED ledgerVars
    BY <1>2, <1>8 DEF ledgerVars, Held
  <1>9. CASE ClaimTaskContinuation(t)
    <2>1. /\ Resumable(tasks[t])
          /\ row.status = "continuing" /\ ~row.finished
          /\ tasks' = [tasks EXCEPT ![t] = row]
          /\ notes' = notes
      BY <1>2, <1>9 DEF ClaimTaskContinuation, Continued, NoTask
    <2> QED
      BY <2>1 DEF RowOK, Resumable, Terminal, TerminalTaskStatuses, FinalTaskStatuses,
         RecoverableTerminalTaskStatuses, Final, ClosesNotes, Held
  <1>10. ASSUME ~ClosesNotes(tasks[t]), tasks' = [tasks EXCEPT ![t] = Touched(tasks[t])]
         PROVE  /\ tasks' = [tasks EXCEPT ![t] = row]
                /\ RowOK(row) /\ ~ClosesNotes(row) /\ ~Final(tasks[t])
                /\ row.status = tasks[t].status
    <2>1. row = Touched(tasks[t])
      BY <1>2, <1>10
    <2> QED
      BY <1>2, <1>10, <2>1, TouchedRowOK DEF Touched, ClosesNotes, TaskRecords
  <1>11. ASSUME NEW key \in NoteKeys, AddAgentTaskNote(t, key)
         PROVE  /\ ~ClosesNotes(tasks[t]) /\ tasks' = [tasks EXCEPT ![t] = Touched(tasks[t])]
                /\ \A u \in Tasks \ {t} : Held(u, "unread") = {} => Held(u, "unread")' = {}
    <2>1. ~ClosesNotes(tasks[t])
      BY <1>11 DEF AddAgentTaskNote, TakesNotes, ClosesNotes, Final, Terminal,
                   TerminalTaskStatuses
    <2> DEFINE note == [task |-> t, key |-> key, status |-> "unread"]
    <2>2. notes' = Append(notes, note) /\ note \in Notes
      BY <1>11 DEF AddAgentTaskNote, Notes
    <2>3. \A i \in DOMAIN notes' :
            notes'[i].task = t \/ (i \in DOMAIN notes /\ notes'[i] = notes[i])
      BY <1>2, <2>2, AppendProperties, LenProperties
    <2> QED
      BY <1>11, <2>1, <2>3 DEF AddAgentTaskNote, Held
  <1>12. ASSUME ReadTaskNotes(t)
         PROVE  /\ ~ClosesNotes(tasks[t]) /\ tasks' = [tasks EXCEPT ![t] = Touched(tasks[t])]
                /\ \A u \in Tasks \ {t} : Held(u, "unread") = {} => Held(u, "unread")' = {}
    <2>1. notes' = Marked(Inbox(t), "read")
      BY <1>12 DEF ReadTaskNotes
    <2>2. /\ DOMAIN notes' = DOMAIN notes
          /\ \A i \in DOMAIN notes :
               /\ notes'[i].task = notes[i].task
               /\ notes'[i].status = "unread" => notes[i].status = "unread"
      BY <1>2, <2>1, MarkedNotes
    <2>3. \A u \in Tasks \ {t} : Held(u, "unread") = {} => Held(u, "unread")' = {}
      BY <2>2 DEF Held
    <2> QED
      BY <1>2, <1>12, <2>3 DEF ReadTaskNotes
  <1> QED
    BY <1>1, <1>5, <1>6, <1>7, <1>8, <1>9, <1>10, <1>11, <1>12 DEF LedgerCall

\* A ledger that only this version has written has nothing to clean up.
LEMMA ReconcileFindsNothing ==
    ASSUME LedgerInv, ReconcileClosedTaskNotes
    PROVE  UNCHANGED ledgerVars
  <1>1. \A t \in Tasks : Late(t) = {}
    BY DEF LedgerInv, ClosedInboxDrained, Late
  <1>2. notes \in Seq(Notes) /\ notices \in [Tasks -> Nat]
    BY DEF LedgerInv, LedgerTypeOK
  <1>3. notes = [i \in DOMAIN notes |-> notes[i]]
    BY <1>2
  <1>4. notes' = notes
    BY <1>1, <1>3 DEF ReconcileClosedTaskNotes, Marked
  <1>5. notices' = [t \in Tasks |-> notices[t]]
    BY <1>1, <1>2, FS_EmptySet DEF ReconcileClosedTaskNotes
  <1> QED
    BY <1>2, <1>4, <1>5 DEF ReconcileClosedTaskNotes, ledgerVars

\* Every ledger call keeps the invariant.
LEMMA LedgerInvInductive == LedgerInv /\ [LedgerNext]_ledgerVars /\ LedgerTypeOK' => LedgerInv'
  <1> SUFFICES ASSUME LedgerInv, [LedgerNext]_ledgerVars, LedgerTypeOK' PROVE LedgerInv'
    OBVIOUS
  <1>1. CASE UNCHANGED ledgerVars
    BY <1>1 DEF LedgerInv, ledgerVars, ClosedInboxDrained, FinishedIffTerminal,
                CompletedIsEvidenced, Held
  <1>2. CASE \E t \in Tasks : LedgerCall(t)
    <2>1. PICK t \in Tasks, row \in TaskRecords :
             /\ tasks' = [tasks EXCEPT ![t] = row]
             /\ RowOK(row)
             /\ ClosesNotes(row) => Held(t, "unread")' = {}
             /\ \A u \in Tasks \ {t} : Held(u, "unread") = {} => Held(u, "unread")' = {}
      BY <1>2, OneRowChanges
    <2>2. tasks'[t] = row /\ \A u \in Tasks \ {t} : tasks'[u] = tasks[u]
      BY <2>1 DEF LedgerInv, LedgerTypeOK
    <2>3. ClosedInboxDrained'
      <3> SUFFICES ASSUME NEW u \in Tasks, ClosesNotes(tasks'[u])
                   PROVE  Held(u, "unread")' = {}
        BY DEF ClosedInboxDrained
      <3>1. CASE u = t
        BY <2>1, <2>2, <3>1
      <3>2. CASE u # t
        BY <2>1, <2>2, <3>2 DEF LedgerInv, ClosedInboxDrained
      <3> QED
        BY <3>1, <3>2
    <2>4. FinishedIffTerminal' /\ CompletedIsEvidenced'
      BY <2>1, <2>2 DEF LedgerInv, FinishedIffTerminal, CompletedIsEvidenced, RowOK
    <2> QED
      BY <2>3, <2>4 DEF LedgerInv
  <1> QED
    BY <1>1, <1>2, ReconcileFindsNothing DEF LedgerNext

\* An empty ledger satisfies it.
LEMMA LedgerInvInitially == LedgerInit => LedgerInv
  BY DEF LedgerInit, LedgerInv, LedgerTypeOK, NoTask, TaskRecords, RunnerOrNone,
     EvidenceClasses, ClosedInboxDrained, Held, FinishedIffTerminal, Terminal,
     TerminalTaskStatuses, FinalTaskStatuses, RecoverableTerminalTaskStatuses,
     CompletedIsEvidenced

\* So it holds of any sequence of calls.
LEMMA LedgerInvariant == LedgerSpec => []LedgerInv
  <1>1. LedgerSpec => [][LedgerNext]_ledgerVars /\ LedgerInit
    BY DEF LedgerSpec
  <1> QED
    BY <1>1, LedgerInvInitially, LedgerInvInductive, LedgerTypeCorrect, PTL

\* An instruction the bridge accepted is read by the Bot or reported missed:
\* no order of notes, reads, outcomes and continuations forgets one.
THEOREM InboxNeverForgets == LedgerSpec => []ClosedInboxDrained
  <1>1. LedgerInv => ClosedInboxDrained
    BY DEF LedgerInv
  <1> QED
    BY <1>1, LedgerInvariant, PTL

\* finished_at tells exactly whether a task has an outcome, however often it
\* was reopened.
THEOREM FinishedExactlyWhenTerminal == LedgerSpec => []FinishedIffTerminal
  <1>1. LedgerInv => FinishedIffTerminal
    BY DEF LedgerInv
  <1> QED
    BY <1>1, LedgerInvariant, PTL

\* No operation takes the evidence of the final reply from a completed task.
THEOREM CompletionKeepsEvidence == LedgerSpec => []CompletedIsEvidenced
  <1>1. LedgerInv => CompletedIsEvidenced
    BY DEF LedgerInv
  <1> QED
    BY <1>1, LedgerInvariant, PTL

\* No operation of any process changes a row whose outcome is final.
THEOREM FinalOutcomesAreStable == LedgerSpec => FinalIsStable
  <1> DEFINE Keeps == \A t \in Tasks : Final(tasks[t]) => tasks'[t] = tasks[t]
  <1>1. LedgerInv /\ [LedgerNext]_ledgerVars => [Keeps]_ledgerVars
    BY OneRowChanges, ReconcileFindsNothing DEF LedgerInv, LedgerTypeOK, LedgerNext
  <1> QED
    BY <1>1, LedgerInvariant, PTL DEF LedgerSpec, FinalIsStable

\* A recorded cancellation gives way to an outcome only.
THEOREM CancellationsAreSticky == LedgerSpec => StoppingIsSticky
  <1> DEFINE Sticks == \A t \in Tasks : tasks[t].status = "stopping" =>
                           tasks'[t].status = "stopping" \/ Terminal(tasks'[t])
  <1>1. LedgerInv /\ [LedgerNext]_ledgerVars => [Sticks]_ledgerVars
    BY OneRowChanges, ReconcileFindsNothing DEF LedgerInv, LedgerTypeOK, LedgerNext
  <1> QED
    BY <1>1, LedgerInvariant, PTL DEF LedgerSpec, StoppingIsSticky

\* What one step may declare missed: unread notes of a task whose inbox is
\* closed after it, whichever operation it is.
LEMMA NotesGivenUp ==
    ASSUME LedgerTypeOK, LedgerNext, NEW i \in DOMAIN notes,
           notes[i].status = "unread", notes'[i].status = "missed"
    PROVE  ClosesNotes(tasks'[notes[i].task])
  <1>1. notes \in Seq(Notes) /\ tasks \in [Tasks -> TaskRecords]
    BY DEF LedgerTypeOK
  <1>2. i \in 1 .. Len(notes) /\ Len(notes) \in Nat
    BY <1>1, LenProperties
  <1>3. ASSUME NEW t \in Tasks, CreateTask(t) \/ ClaimTaskContinuation(t)
        PROVE  FALSE
    BY <1>3 DEF CreateTask, ClaimTaskContinuation
  <1>4. ASSUME NEW t \in Tasks, NEW key \in NoteKeys, AddAgentTaskNote(t, key)
        PROVE  FALSE
    <2>1. notes'[i] = notes[i]
      BY <1>1, <1>2, <1>4, AppendProperties DEF AddAgentTaskNote, Notes
    <2> QED
      BY <2>1
  <1>5. ASSUME NEW t \in Tasks, ReadTaskNotes(t)
        PROVE  FALSE
    BY <1>1, <1>5, MarkedNotes DEF ReadTaskNotes
  <1>6. ASSUME NEW t \in Tasks, NEW q \in Requests, TransitionTask(t, q)
        PROVE  ClosesNotes(tasks'[notes[i].task])
    <2>1. /\ tasks'[t] = Transitioned(tasks[t], q)
          /\ ClosesNotes(Transitioned(tasks[t], q))
          /\ CloseInbox(t)
      BY <1>1, <1>6 DEF TransitionTask, ledgerVars
    <2>2. i \in Held(t, "unread")
      BY <1>1, <2>1, MarkedNotes DEF CloseInbox
    <2>3. notes[i].task = t
      BY <2>2 DEF Held
    <2> QED
      BY <2>1, <2>3
  <1>7. ASSUME ReconcileClosedTaskNotes
        PROVE  ClosesNotes(tasks'[notes[i].task])
    <2>1. i \in UNION {Late(t) : t \in Tasks}
      BY <1>1, <1>7, MarkedNotes DEF ReconcileClosedTaskNotes
    <2>2. PICK t \in Tasks : i \in Late(t)
      BY <2>1
    <2>3. ClosesNotes(tasks[t]) /\ notes[i].task = t
      BY <2>2 DEF Late, Held
    <2> QED
      BY <1>7, <2>3 DEF ReconcileClosedTaskNotes
  <1> QED
    BY <1>3, <1>4, <1>5, <1>6, <1>7 DEF LedgerNext, LedgerCall

\* An instruction is given up only together with the inbox it was left in: one
\* that a continuation may still read is never declared missed.
THEOREM InstructionsWaitForTheirTask == LedgerSpec => MissedOnlyWhenClosed
  <1> DEFINE Waits == \A i \in DOMAIN notes :
                          notes[i].status = "unread" /\ notes'[i].status = "missed"
                              => ClosesNotes(tasks'[notes[i].task])
  <1>1. LedgerTypeOK /\ [LedgerNext]_ledgerVars => [Waits]_ledgerVars
    BY NotesGivenUp
  <1> QED
    BY <1>1, LedgerTypeCorrect, PTL DEF LedgerSpec, MissedOnlyWhenClosed

----------------------------------------------------------------------------
(* Rows that do not exist yet.                                               *)

NewRows == \A t \in Tasks : tasks[t].status = "absent" => tasks[t] = NoTask

\* What is no task yet is NoTask, and only create_task makes a task of it.
LEMMA NewRowsInvariant == LedgerSpec => []NewRows
  <1>1. LedgerInit => NewRows
    BY DEF LedgerInit, NewRows
  <1>2. LedgerInv /\ NewRows /\ [LedgerNext]_ledgerVars => NewRows'
    <2> SUFFICES ASSUME LedgerTypeOK, NewRows, NEW t \in Tasks, LedgerCall(t)
                 PROVE  NewRows'
      BY ReconcileFindsNothing DEF LedgerInv, LedgerNext, NewRows, ledgerVars
    <2>1. tasks \in [Tasks -> TaskRecords]
      BY DEF LedgerTypeOK
    <2>2. \A u \in Tasks : tasks[u].status # "absent" => tasks'[u].status # "absent"
      BY <2>1, RowsStay
    <2>3. tasks[t].status = "absent" => tasks'[t].status # "absent" \/ tasks' = tasks
      <3>1. ~Resumable(NoTask) /\ [NoTask EXCEPT !.status = "dispatching"].status # "absent"
        BY DEF Resumable, NoTask, RecoverableTerminalTaskStatuses
      <3> QED
        BY <2>1, <3>1 DEF NewRows, LedgerCall, CreateTask, TransitionTask, Accepts, ledgerVars,
               ClaimTaskContinuation, AddAgentTaskNote, TakesNotes, ReadTaskNotes
    <2>4. \A u \in Tasks \ {t} : tasks'[u] = tasks[u]
      BY <2>1 DEF LedgerCall, CreateTask, TransitionTask, ClaimTaskContinuation,
                  AddAgentTaskNote, ReadTaskNotes, ledgerVars
    <2> QED
      BY <2>2, <2>3, <2>4 DEF NewRows
  <1> QED
    BY <1>1, <1>2, LedgerInvariant, PTL DEF LedgerSpec
=============================================================================
