----------------------------- MODULE TaskLedger -----------------------------
(* BridgeState: the durable ledger every process of the bridge shares.  Each *)
(* operation is one BEGIN IMMEDIATE transaction, so each is one action.  The *)
(* calls other components make are composed from these actions; LedgerNext   *)
(* is what the ledger promises to any caller.                                *)
EXTENDS TaskModel, Sequences, FiniteSets, Naturals

CONSTANTS Tasks,       \* agent_task_start tool calls, each the intent of one task
          NoteKeys,    \* agent_task_message tool calls, each the key of one note
          InboxLimit   \* how many notes one read returns

ASSUME InboxLimitAssumption == InboxLimit \in Nat \ {0}

VARIABLES tasks,    \* the task row of every intent
          notes,    \* the task_notes table, in id order
          notices   \* per task, the count its one missed-notes notice gives

ledgerVars == <<tasks, notes, notices>>

Notes == [task : Tasks, key : NoteKeys, status : {"unread", "read", "missed"}]

----------------------------------------------------------------------------

Held(t, status) == {i \in DOMAIN notes : notes[i].task = t /\ notes[i].status = status}

Marked(indices, status) ==
    [i \in DOMAIN notes |-> IF i \in indices THEN [notes[i] EXCEPT !.status = status]
                                             ELSE notes[i]]

\* The oldest unread notes of a task, at most InboxLimit of them.
Inbox(t) ==
    {i \in Held(t, "unread") :
        Cardinality({j \in Held(t, "unread") : j <= i}) <= InboxLimit}

----------------------------------------------------------------------------

\* create_task: idempotent per tool call.
CreateTask(t) ==
    /\ tasks[t] = NoTask
    /\ tasks' = [tasks EXCEPT ![t] = [NoTask EXCEPT !.status = "dispatching"]]
    /\ UNCHANGED <<notes, notices>>

\* Faulty: a terminal task takes any request.
AcceptsReopening(row, q) ==
    /\ row.status # "absent"
    /\ row.status = "stopping" => q.status \in TerminalTaskStatuses

\* Faulty: progress may overwrite a recorded cancellation.
AcceptsOverStopping(row, q) ==
    /\ row.status # "absent"
    /\ Terminal(row) => Resumable(row) /\ q.status # row.status

\* The early returns of transition_task.
Accepts(row, q) ==
    /\ row.status # "absent"
    /\ Terminal(row) => Resumable(row) /\ q.status # row.status
    /\ row.status = "stopping" => q.status \in TerminalTaskStatuses

\* Faulty: finished_at survives the reopening of a task.
TransitionedStillFinished(row, q) ==
    [status   |-> q.status,
     proc     |-> IF q.proc = NoRunner THEN row.proc ELSE q.proc,
     worker   |-> IF q.worker = NoRunner THEN row.worker ELSE q.worker,
     evidence |-> q.evidence,
     said     |-> row.said \/ q.evidence = "explicit",
     finished |-> row.finished \/ q.status \in TerminalTaskStatuses]

\* What an accepted request makes of the row.
Transitioned(row, q) ==
    [status   |-> q.status,
     proc     |-> IF q.proc = NoRunner THEN row.proc ELSE q.proc,
     worker   |-> IF q.worker = NoRunner THEN row.worker ELSE q.worker,
     evidence |-> q.evidence,
     said     |-> row.said \/ q.evidence = "explicit",
     finished |-> \/ q.status \in TerminalTaskStatuses
                  \/ row.finished /\ ~Resumable(row)]

ClosesNotes(row) == row.status = "returning" \/ Final(row)

\* Faulty: the notes are missed and nobody is told.
CloseInboxSilently(t) ==
    notes' = Marked(Held(t, "unread"), "missed") /\ UNCHANGED notices

\* Unread notes become missed, and one notice per task is ever queued: its
\* dedup key carries the task only, and the insert ignores a second one.
CloseInbox(t) ==
    LET missed == Held(t, "unread")
    IN  /\ notes' = Marked(missed, "missed")
        /\ notices' = IF missed # {} /\ notices[t] = 0
                        THEN [notices EXCEPT ![t] = Cardinality(missed)]
                        ELSE notices

\* transition_task: total, a refused request leaves the row as it is.
TransitionTask(t, q) ==
    IF Accepts(tasks[t], q)
      THEN /\ tasks' = [tasks EXCEPT ![t] = Transitioned(tasks[t], q)]
           /\ IF ClosesNotes(Transitioned(tasks[t], q))
                THEN CloseInbox(t)
                ELSE UNCHANGED <<notes, notices>>
      ELSE UNCHANGED ledgerVars

\* Faulty: the identity of the previous runner survives.
ClaimKeepingIdentity(t) ==
    /\ Resumable(tasks[t])
    /\ tasks' = [tasks EXCEPT ![t].status = "continuing", ![t].evidence = "plain",
                              ![t].said = FALSE, ![t].finished = FALSE]
    /\ UNCHANGED <<notes, notices>>

Continued == [NoTask EXCEPT !.status = "continuing"]

\* claim_task_continuation: the caller that still finds the task resumable
\* gets it, with the identity of the previous runner erased.
ClaimTaskContinuation(t) ==
    /\ Resumable(tasks[t])
    /\ tasks' = [tasks EXCEPT ![t] = Continued]
    /\ UNCHANGED <<notes, notices>>

\* Faulty: a note for a task that does not exist.
TakesNotesOfNoTask(row) ==
    /\ ~(Terminal(row) /\ ~Resumable(row))
    /\ row.status # "returning"

\* Faulty: a note after the final reply.
TakesNotesWhileReturning(row) ==
    /\ row.status # "absent"
    /\ ~(Terminal(row) /\ ~Resumable(row))

\* Faulty: a note for a task that is over.
TakesNotesWhenOver(row) == row.status \notin {"absent", "returning"}

\* The tasks add_agent_task_note accepts a note for.
TakesNotes(row) ==
    /\ row.status # "absent"
    /\ ~(Terminal(row) /\ ~Resumable(row))
    /\ row.status # "returning"

Recorded(key) == \E i \in DOMAIN notes : notes[i].key = key

\* Progress and evidence are rewritten in place; the status stays.
Touched(row) == [row EXCEPT !.evidence = "plain"]

\* add_agent_task_note with a new key.  A key already recorded changes
\* nothing, whether the call then counts as accepted or not.
AddAgentTaskNote(t, key) ==
    /\ TakesNotes(tasks[t])
    /\ ~Recorded(key)
    /\ notes' = Append(notes, [task |-> t, key |-> key, status |-> "unread"])
    /\ tasks' = [tasks EXCEPT ![t] = Touched(tasks[t])]
    /\ UNCHANGED notices

\* read_task_notes with mark_read; without unread notes it changes nothing.
ReadTaskNotes(t) ==
    /\ tasks[t].status # "absent"
    /\ Held(t, "unread") # {}
    /\ notes' = Marked(Inbox(t), "read")
    /\ tasks' = [tasks EXCEPT ![t] = Touched(tasks[t])]
    /\ UNCHANGED notices

\* Faulty: a task that may still be continued loses its instructions.
LateWhenTerminal(t) ==
    IF Terminal(tasks[t]) \/ tasks[t].status = "returning" THEN Held(t, "unread") ELSE {}

\* Unread notes in a closed inbox, as older versions left them.
Late(t) == IF ClosesNotes(tasks[t]) THEN Held(t, "unread") ELSE {}

\* _reconcile_closed_task_notes, whenever a process opens the ledger.
ReconcileClosedTaskNotes ==
    /\ notes' = Marked(UNION {Late(t) : t \in Tasks}, "missed")
    /\ notices' = [t \in Tasks |-> IF notices[t] = 0 THEN Cardinality(Late(t)) ELSE notices[t]]
    /\ UNCHANGED tasks

----------------------------------------------------------------------------

LedgerInit ==
    /\ tasks = [t \in Tasks |-> NoTask]
    /\ notes = << >>
    /\ notices = [t \in Tasks |-> 0]

LedgerCall(t) ==
    \/ CreateTask(t)
    \/ \E q \in Requests : TransitionTask(t, q)
    \/ ClaimTaskContinuation(t)
    \/ \E key \in NoteKeys : AddAgentTaskNote(t, key)
    \/ ReadTaskNotes(t)

LedgerNext == (\E t \in Tasks : LedgerCall(t)) \/ ReconcileClosedTaskNotes

LedgerSpec == LedgerInit /\ [][LedgerNext]_ledgerVars

----------------------------------------------------------------------------

\* Every row, note and notice has its type, and every note its task.
LedgerTypeOK ==
    /\ tasks \in [Tasks -> TaskRecords]
    /\ notes \in Seq(Notes)
    /\ notices \in [Tasks -> Nat]
    /\ \A i \in DOMAIN notes : tasks[notes[i].task].status # "absent"

\* A task that closed its inbox has no unread note left: an instruction the
\* bridge accepted is read by the Bot or reported missed, never forgotten
\* (transition_task closes what add_agent_task_note refuses to reopen).
ClosedInboxDrained ==
    \A t \in Tasks : ClosesNotes(tasks[t]) => Held(t, "unread") = {}

\* finished_at is set exactly while the task has an outcome, through every
\* continuation that reopens a finished task.
FinishedIffTerminal ==
    \A t \in Tasks : tasks[t].finished <=> Terminal(tasks[t])

\* A completed task keeps the evidence of its final reply: no later note or
\* inbox read overwrites it.
CompletedIsEvidenced ==
    \A t \in Tasks : tasks[t].status = "completed" => tasks[t].evidence = "final"

\* A task whose outcome is final is never changed again by a later observer
\* (the promise of transition_task's docstring).
FinalIsStable ==
    [][\A t \in Tasks : Final(tasks[t]) => tasks'[t] = tasks[t]]_ledgerVars

\* A recorded cancellation is not overwritten by progress, a late final hook
\* or an acknowledgement: a stopping task stays so until it has an outcome.
StoppingIsSticky ==
    [][\A t \in Tasks : tasks[t].status = "stopping" =>
            tasks'[t].status = "stopping" \/ Terminal(tasks'[t])]_ledgerVars

\* An instruction is given up only with the inbox it was for: while a task may
\* still be continued its unread notes wait, also when a process that opens the
\* ledger cleans up (the comment in _reconcile_closed_task_notes).
MissedOnlyWhenClosed ==
    [][\A i \in DOMAIN notes :
          notes[i].status = "unread" /\ notes'[i].status = "missed"
              => ClosesNotes(tasks'[notes[i].task])]_ledgerVars
=============================================================================
