----------------------------- MODULE TaskBridge -----------------------------
(* The tools of the controller sessions, the background runners and the Bot  *)
(* turns they start, all working on one TaskLedger.  A handler is a sequence *)
(* of steps; between two of them, any other process may move.  All tasks     *)
(* have the same target profile, the case in which they can meet.            *)
EXTENDS TaskLedger, TaskCompletion

CONSTANTS Controllers,   \* controller sessions, of any process of the profile
          Environment    \* what else may happen, out of EnvironmentChoices

\* "cancel"   the user asks for a cancellation
\* "notify"   completion notifications reach the controller sessions
\* "noexit"   a notification may lack the exit code
\* "lateack"  a Bot turn may start before the handler that dispatched its
\*            runner has written the acknowledgement
\* "retry"    a tool call may be delivered again, even while it is running
\* "faults"   a ledger access of a handler, a hook or a runner may raise
\* "forgets"  so may the one by which a runner records its completion
\* "nostop"   a runner may fail to stop its Bot turn
\* "crash"    a controller or a runner may be killed between two steps
EnvironmentChoices ==
    {"cancel", "notify", "noexit", "lateack", "retry", "faults", "forgets", "nostop", "crash"}

ASSUME EnvironmentAssumption == Environment \subseteq EnvironmentChoices

VARIABLES ctl,    \* the handler each controller session is executing
          runs,   \* the runners and the Bot turn of each
          lock,   \* the runner that holds the profile lock
          mail    \* per runner, the end its completion notification reports

vars == <<tasks, notes, notices, ctl, runs, lock, mail>>

None == "none"

Possible(choice) == choice \in Environment

----------------------------------------------------------------------------
(* Controller sessions.  pc names the step to take next; run is a            *)
(* process_id the handler has read or created, key the note of a message,    *)
(* want the status it has decided to ask for: the one a failed continuation  *)
(* returns to, the end a notification reports, or the outcome settled on.    *)

Idle == [pc |-> "idle", task |-> None, run |-> NoRunner, key |-> None, want |-> None]

At(c, pc) == ctl[c].pc = pc

Row(c) == tasks[ctl[c].task]

Enter(c, pc, t) == ctl' = [ctl EXCEPT ![c] = [Idle EXCEPT !.pc = pc, !.task = t]]

Goto(c, pc) == ctl' = [ctl EXCEPT ![c].pc = pc]

Return(c) == ctl' = [ctl EXCEPT ![c] = Idle]

----------------------------------------------------------------------------
(* Runners and Bot turns.  by is the session that dispatched the runner, pc  *)
(* the runner's place in run(), end what it will report, want the outcome    *)
(* its settlement has decided on; turn is the                                *)
(* Bot process, hook the hook or tool of it that has read the ledger and has *)
(* not written yet, answered whether its final hook was recorded.  left tells *)
(* that the runner is gone, or has given up, with the turn still at work.    *)

NotStarted == [pc |-> "unused", by |-> None, task |-> None, cont |-> FALSE, end |-> None,
               want |-> None, turn |-> "none", hook |-> None, answered |-> FALSE, left |-> FALSE]

Live(r) == runs[r].pc \notin {"unused", "over"}

\* The Bot process of the runner exists.
Working(r) == runs[r].turn \in {"new", "bound", "answered", "aborted"}

Exited == {"reply", "silent", "error"}

Launch(c, r, cont) ==
    runs' = [runs EXCEPT ![r] = [NotStarted EXCEPT !.pc = "lock", !.by = c,
                                                   !.task = ctl[c].task, !.cont = cont]]

\* Faulty: the lock is never released.
StillHeld(r) == lock

Freed(r) == IF lock = r THEN NoRunner ELSE lock

\* The runner's process ends; its notification carries what it printed.  A
\* cancelled Bot turn is reported by its exit code alone: only a cancellation
\* before the turn prints its reason.
Finish(r, end) ==
    /\ runs' = [runs EXCEPT ![r].pc = "over", ![r].end = end, ![r].want = None]
    /\ mail' = [mail EXCEPT ![r] =
                  IF end = "cancelled" /\ runs[r].turn # "none" THEN "error" ELSE end]

----------------------------------------------------------------------------
(* agent_task_start                                                          *)

\* prepare_start, in the pre_tool_call hook.
StartIntent(c, t) ==
    /\ At(c, "idle")
    /\ Enter(c, "start_check", t)
    /\ \/ CreateTask(t)
       \/ Possible("retry") /\ tasks[t] # NoTask /\ UNCHANGED ledgerVars
    /\ UNCHANGED <<runs, lock, mail>>

\* Faulty: only the status tells a retried call from a new one.
StartCheckStatus(c) ==
    /\ At(c, "start_check")
    /\ IF Terminal(Row(c)) THEN Return(c) ELSE Goto(c, "start_dispatch") \/ Goto(c, "start_fail")
    /\ UNCHANGED <<tasks, notes, notices, runs, lock, mail>>

\* A task with a runner or an outcome is not dispatched again; a policy or
\* validation error fails it.
StartCheck(c) ==
    /\ At(c, "start_check")
    /\ IF Row(c).proc # NoRunner \/ Terminal(Row(c))
         THEN Return(c)
         ELSE Goto(c, "start_dispatch") \/ Goto(c, "start_fail")
    /\ UNCHANGED <<tasks, notes, notices, runs, lock, mail>>

\* _dispatch_runner: Hermes starts a background process, or the call fails.
Dispatch(c, cont, acknowledge, fail) ==
    /\ \/ \E r \in Runners :
            /\ runs[r] = NotStarted
            /\ Launch(c, r, cont)
            /\ ctl' = [ctl EXCEPT ![c].pc = acknowledge, ![c].run = r]
       \/ Goto(c, fail) /\ UNCHANGED runs
    /\ UNCHANGED <<tasks, notes, notices, lock, mail>>

StartDispatch(c) ==
    At(c, "start_dispatch") /\ Dispatch(c, FALSE, "start_ack", "start_fail")

StartAck(c) ==
    /\ At(c, "start_ack")
    /\ TransitionTask(ctl[c].task, AskWithProcess("dispatched", ctl[c].run))
    /\ Return(c)
    /\ UNCHANGED <<runs, lock, mail>>

\* Every failed transition of agent_task_start, the one in its except clause
\* included.
StartFail(c) ==
    /\ At(c, "start_fail")
    /\ TransitionTask(ctl[c].task, Ask("failed", "plain"))
    /\ Return(c)
    /\ UNCHANGED <<runs, lock, mail>>

----------------------------------------------------------------------------
(* agent_task_message                                                        *)

NewCall(key) == ~Recorded(key) /\ \A c \in Controllers : ctl[c].key # key

\* A tool call has one set of arguments, so a retry names the same task.
RetriedCall(t, key) ==
    /\ Possible("retry")
    /\ \A i \in DOMAIN notes : notes[i].key = key => notes[i].task = t
    /\ \A c \in Controllers : ctl[c].key = key => ctl[c].task = t

\* A settling task is refused before anything is written.
MessageRead(c, t, key) ==
    /\ At(c, "idle")
    /\ tasks[t].status \notin {"absent", "settling"}
    /\ NewCall(key) \/ RetriedCall(t, key)
    /\ ctl' = [ctl EXCEPT ![c] = [Idle EXCEPT !.pc = "message_note", !.task = t, !.key = key]]
    /\ UNCHANGED <<tasks, notes, notices, runs, lock, mail>>

\* Faulty: the instruction is recorded only if a turn is there to read it.
MessageNoteIfActive(c) ==
    LET t == ctl[c].task
    IN  /\ At(c, "message_note")
        /\ IF ~TakesNotes(tasks[t])
             THEN Return(c) /\ UNCHANGED ledgerVars
             ELSE IF Resumable(tasks[t])
                    THEN /\ UNCHANGED ledgerVars
                         /\ ctl' = [ctl EXCEPT ![c].pc = "message_claim",
                                               ![c].want = tasks[t].status]
                    ELSE Return(c) /\ IF Recorded(ctl[c].key)
                                        THEN UNCHANGED ledgerVars
                                        ELSE AddAgentTaskNote(t, ctl[c].key)
        /\ UNCHANGED <<runs, lock, mail>>

\* An accepted note on a resumable task goes on to reserve a continuation; so
\* does the same note delivered again.
MessageNote(c) ==
    LET t == ctl[c].task
    IN  /\ At(c, "message_note")
        /\ IF ~TakesNotes(tasks[t])
             THEN Return(c) /\ UNCHANGED ledgerVars
             ELSE /\ IF Recorded(ctl[c].key)
                       THEN UNCHANGED ledgerVars
                       ELSE AddAgentTaskNote(t, ctl[c].key)
                  /\ IF Resumable(tasks[t])
                       THEN ctl' = [ctl EXCEPT ![c].pc = "message_claim",
                                               ![c].want = tasks[t].status]
                       ELSE Return(c)
        /\ UNCHANGED <<runs, lock, mail>>

\* Faulty: the claim trusts the row the note was added to.
MessageClaimUnchecked(c) ==
    /\ At(c, "message_claim")
    /\ tasks' = [tasks EXCEPT ![ctl[c].task] = Continued]
    /\ Goto(c, "message_dispatch")
    /\ UNCHANGED <<notes, notices, runs, lock, mail>>

MessageClaim(c) ==
    /\ At(c, "message_claim")
    /\ IF Resumable(Row(c))
         THEN ClaimTaskContinuation(ctl[c].task) /\ Goto(c, "message_dispatch")
         ELSE Return(c) /\ UNCHANGED ledgerVars
    /\ UNCHANGED <<runs, lock, mail>>

MessageDispatch(c) ==
    At(c, "message_dispatch") /\ Dispatch(c, TRUE, "message_ack", "message_undo")

MessageAck(c) ==
    /\ At(c, "message_ack")
    /\ TransitionTask(ctl[c].task, AskWithProcess("continuing", ctl[c].run))
    /\ Return(c)
    /\ UNCHANGED <<runs, lock, mail>>

\* No runner was created: the claim is given back.
MessageUndo(c) ==
    LET back == IF ctl[c].want = "failed" THEN "interrupted" ELSE ctl[c].want
    IN  /\ At(c, "message_undo")
        /\ TransitionTask(ctl[c].task, Ask(back, "plain"))
        /\ Return(c)
        /\ UNCHANGED <<runs, lock, mail>>

----------------------------------------------------------------------------
(* agent_task_cancel                                                         *)

\* "Too late" is decided on this snapshot, and its process_id is the one the
\* handler will try to kill.
CancelRead(c, t) ==
    /\ Possible("cancel")
    /\ At(c, "idle")
    /\ ~Terminal(tasks[t])
    /\ tasks[t].status \notin {"absent", "returning"}
    /\ ctl' = [ctl EXCEPT ![c] = [Idle EXCEPT !.pc = "cancel_request", !.task = t,
                                              !.run = tasks[t].proc]]
    /\ UNCHANGED <<tasks, notes, notices, runs, lock, mail>>

CancelRequest(c) ==
    /\ At(c, "cancel_request")
    /\ TransitionTask(ctl[c].task, Ask("stopping", "plain"))
    /\ IF tasks'[ctl[c].task].status = "stopping" /\ ctl[c].run # NoRunner
         THEN Goto(c, "cancel_kill")
         ELSE Return(c)
    /\ UNCHANGED <<runs, lock, mail>>

\* Faulty: any answer of the process manager confirms the cancellation.
CancelKillAssumed(c) ==
    /\ At(c, "cancel_kill")
    /\ Goto(c, "cancel_confirm")
    /\ UNCHANGED <<tasks, notes, notices, runs, lock, mail>>

\* process_manage kill: "killed" if this session holds the handle of a process
\* that still runs, and then the process and its children are gone.  Any other
\* answer leaves the task to its own runner.
CancelKill(c) ==
    LET r == ctl[c].run
    IN  /\ At(c, "cancel_kill")
        /\ \/ /\ Live(r)
              /\ runs' = [runs EXCEPT ![r].pc = "over", ![r].end = "error", ![r].want = None,
                            ![r].turn = IF Working(r) THEN "killed" ELSE @, ![r].hook = None]
              /\ mail' = [mail EXCEPT ![r] = "error"]
              /\ lock' = Freed(r)
              /\ Goto(c, "cancel_confirm")
           \/ Return(c) /\ UNCHANGED <<runs, lock, mail>>
        /\ UNCHANGED ledgerVars

CancelConfirm(c) ==
    /\ At(c, "cancel_confirm")
    /\ TransitionTask(ctl[c].task, Ask("cancelled", "plain"))
    /\ Return(c)
    /\ UNCHANGED <<runs, lock, mail>>

----------------------------------------------------------------------------
(* _observe_process_completion, in the pre_llm_call hook of the turn that    *)
(* delivers a completion notification to the session that dispatched.        *)

\* task_by_process_id; a notification that matches no task is dropped.
NotifyFind(c, r) ==
    /\ Possible("notify")
    /\ At(c, "idle")
    /\ mail[r] # None /\ runs[r].by = c
    /\ IF \E t \in Tasks : tasks[t].proc = r
         THEN \E t \in Tasks :
                /\ tasks[t].proc = r
                /\ ctl' = [ctl EXCEPT ![c] = [Idle EXCEPT !.pc = "notify_settle",
                                                          !.task = t, !.want = mail[r]]]
         ELSE UNCHANGED ctl
    /\ mail' = [mail EXCEPT ![r] = None]
    /\ UNCHANGED <<tasks, notes, notices, runs, lock>>

\* settle_task_completion reads the row again, by task.
NotifySettle(c) ==
    /\ At(c, "notify_settle")
    /\ \E end \in {ctl[c].want} \union (IF Possible("noexit") THEN {"unknown"} ELSE {}) :
         IF Settles(Row(c), end)
           THEN ctl' = [ctl EXCEPT ![c].pc = "notify_write",
                                   ![c].want = SettledStatus(Row(c), end)]
           ELSE Return(c)
    /\ UNCHANGED <<tasks, notes, notices, runs, lock, mail>>

NotifyWrite(c) ==
    /\ At(c, "notify_write")
    /\ TransitionTask(ctl[c].task, Outcome(ctl[c].want))
    /\ Return(c)
    /\ UNCHANGED <<runs, lock, mail>>

\* A ledger access raises.  Once agent_task_start has a runner its except
\* clause still runs, whether the acknowledgement was written or not; elsewhere
\* the exception ends the handler, or its except clause writes nothing.
HandlerRaises(c) ==
    /\ Possible("faults")
    /\ \/ /\ ctl[c].pc \notin {"idle", "start_dispatch", "start_ack", "message_dispatch"}
          /\ Return(c)
          /\ UNCHANGED ledgerVars
       \/ /\ At(c, "start_ack")
          /\ Goto(c, "start_fail")
          /\ \/ TransitionTask(ctl[c].task, AskWithProcess("dispatched", ctl[c].run))
             \/ UNCHANGED ledgerVars
    /\ UNCHANGED <<runs, lock, mail>>

\* The process of the session dies between two steps of a handler.
ControllerCrash(c) ==
    /\ Possible("crash")
    /\ ~At(c, "idle")
    /\ Return(c)
    /\ UNCHANGED <<tasks, notes, notices, runs, lock, mail>>

ControllerStep(c) ==
    \/ StartCheck(c) \/ StartDispatch(c) \/ StartAck(c) \/ StartFail(c)
    \/ MessageNote(c) \/ MessageClaim(c) \/ MessageDispatch(c) \/ MessageAck(c)
    \/ MessageUndo(c)
    \/ CancelRequest(c) \/ CancelKill(c) \/ CancelConfirm(c)
    \/ NotifySettle(c) \/ NotifyWrite(c)

ControllerCall(c) ==
    \E t \in Tasks :
        \/ StartIntent(c, t)
        \/ \E key \in NoteKeys : MessageRead(c, t, key)
        \/ CancelRead(c, t)

----------------------------------------------------------------------------
(* The runner: agent_task_runner.run.                                        *)

Ticket(r) == tasks[runs[r].task]

CancellationRequested(r) == Ticket(r).status \in {"stopping", "cancelled"}

\* Faulty: nobody stops the turn.
ReportAlone(r, end) ==
    /\ runs' = [runs EXCEPT ![r].pc = "settle", ![r].end = end]
    /\ lock' = Freed(r)
    /\ UNCHANGED <<tasks, notes, notices, ctl, mail>>

\* The profile lock is released before the settlement; a turn that is still at
\* work has been killed with the group of processes it started.
Report(r, end) ==
    /\ runs' = [runs EXCEPT ![r].pc = "settle", ![r].end = end,
                  ![r].turn = IF Working(r) THEN "killed" ELSE @, ![r].hook = None]
    /\ lock' = Freed(r)
    /\ UNCHANGED <<tasks, notes, notices, ctl, mail>>

\* The same, with the turn still at work.
Leave(r, end) ==
    /\ runs' = [runs EXCEPT ![r].pc = "settle", ![r].end = end, ![r].left = TRUE]
    /\ lock' = Freed(r)
    /\ UNCHANGED <<tasks, notes, notices, ctl, mail>>

\* Faulty: the turn is taken for stopped.
StopFailsUnnoticed(r) ==
    Possible("nostop") /\ runs[r].pc = "run" /\ Working(r) /\ Leave(r, "cancelled")

\* _stop_owned_process_tree raises: the turn cannot be killed, or does not end
\* in time.  The except clause tries again, and may raise again.
StopFails(r) ==
    /\ Possible("nostop")
    /\ runs[r].pc = "run" /\ Working(r)
    /\ Report(r, "error") \/ Leave(r, "error")

RunnerAcquire(r) ==
    /\ runs[r].pc = "lock"
    /\ lock = NoRunner
    /\ lock' = r
    /\ runs' = [runs EXCEPT ![r].pc = "start"]
    /\ UNCHANGED <<tasks, notes, notices, ctl, mail>>

\* The wait for another task of the same Bot times out.
RunnerBusy(r) ==
    /\ runs[r].pc = "lock"
    /\ lock # NoRunner
    /\ Report(r, "error")

RunnerPopen(r) ==
    /\ runs[r].pc = "start"
    /\ ~CancellationRequested(r)
    /\ runs' = [runs EXCEPT ![r].pc = "run", ![r].turn = "new"]
    /\ UNCHANGED <<tasks, notes, notices, ctl, lock, mail>>

\* Faulty: a turn that has started is never told to stop.
RunnerCancelledOnlyBefore(r) ==
    /\ runs[r].pc \in {"lock", "start"}
    /\ CancellationRequested(r)
    /\ Report(r, "cancelled")

\* Waiting for the lock, before the start and while the turn runs, the runner
\* looks for a cancellation.
RunnerCancelled(r) ==
    /\ \/ runs[r].pc \in {"lock", "start"}
       \/ runs[r].pc = "run" /\ Working(r)
    /\ CancellationRequested(r)
    /\ Report(r, "cancelled") \/ StopFails(r)

RunnerReap(r) ==
    /\ runs[r].pc = "run"
    /\ runs[r].turn \in Exited
    /\ Report(r, runs[r].turn)

\* Anything run() raises before it reports; a turn at work is to be stopped on
\* the way.
RunnerRaises(r) ==
    /\ Possible("faults")
    /\ runs[r].pc \in {"lock", "start", "run"}
    /\ Report(r, "error") \/ StopFails(r)

\* _record_completion: read, decide, write, and swallow every exception.
RunnerSettle(r) ==
    /\ runs[r].pc = "settle"
    /\ IF Settles(Ticket(r), runs[r].end)
         THEN /\ runs' = [runs EXCEPT ![r].pc = "write",
                                      ![r].want = SettledStatus(Ticket(r), runs[r].end)]
              /\ UNCHANGED mail
         ELSE Finish(r, runs[r].end)
    /\ UNCHANGED <<tasks, notes, notices, ctl, lock>>

RunnerWrite(r) ==
    /\ runs[r].pc = "write"
    /\ TransitionTask(runs[r].task, Outcome(runs[r].want))
    /\ Finish(r, runs[r].end)
    /\ UNCHANGED <<ctl, lock>>

RunnerForgets(r) ==
    /\ Possible("forgets")
    /\ runs[r].pc \in {"settle", "write"}
    /\ Finish(r, runs[r].end)
    /\ UNCHANGED <<tasks, notes, notices, ctl, lock>>

\* SIGKILL: the lock goes with the process, the Bot turn is in a session of its
\* own and goes on.
RunnerCrash(r) ==
    /\ Possible("crash")
    /\ Live(r)
    /\ runs' = [runs EXCEPT ![r].pc = "over", ![r].end = "error", ![r].want = None,
                  ![r].left = @ \/ Working(r)]
    /\ mail' = [mail EXCEPT ![r] = "error"]
    /\ lock' = Freed(r)
    /\ UNCHANGED <<tasks, notes, notices, ctl>>

RunnerStep(r) ==
    \/ RunnerAcquire(r) \/ RunnerPopen(r) \/ RunnerCancelled(r) \/ RunnerReap(r)
    \/ RunnerSettle(r) \/ RunnerWrite(r)

----------------------------------------------------------------------------
(* The Bot turn: the hooks and the worker tools of task_features, running in *)
(* the Bot's own process.  Every task has one conversation, so its session   *)
(* identifies the task and its turn the runner.                              *)

PromptAck(r) ==
    \A c \in Controllers : ctl[c].run = r => ctl[c].pc \notin {"start_ack", "message_ack"}

\* _before_llm: the task marker names the task, bind_worker takes it.
BotBind(r) ==
    /\ runs[r].turn = "new"
    /\ PromptAck(r) \/ Possible("lateack")
    /\ TransitionTask(runs[r].task, AskWithWorker(r))
    /\ runs' = [runs EXCEPT ![r].turn = "bound"]
    /\ UNCHANGED <<ctl, lock, mail>>

Between(r) == runs[r].turn = "bound" /\ runs[r].hook = None

\* task_for_worker(session, turn) is the hooks' lookup, _authorized_worker_task
\* that of the tools: any turn of the bound session passes it.
BoundTurn(r) == Ticket(r).worker = r
BoundSession(r) == WorkerStarted(Ticket(r))

\* What each hook and tool finds when it looks; the rest of it comes later.
Observes(r, hook) ==
    CASE hook = "activity" -> BoundTurn(r) /\ ~Terminal(Ticket(r)) /\ ~Ticket(r).said
      [] hook \in {"update", "inbox"} -> BoundSession(r)
      [] hook = "final" -> BoundTurn(r)
      [] hook = "abort" -> /\ BoundTurn(r)
                           /\ ~Terminal(Ticket(r))
                           /\ Ticket(r).status # "returning"

BotEnters(r, hook) ==
    /\ Between(r)
    /\ Observes(r, hook)
    /\ runs' = [runs EXCEPT ![r].hook = hook]
    /\ UNCHANGED <<tasks, notes, notices, ctl, lock, mail>>

AfterHook(r) == runs' = [runs EXCEPT ![r].hook = None]

\* _before_tool and _after_tool.
BotActivity(r) ==
    /\ runs[r].hook = "activity"
    /\ TransitionTask(runs[r].task, Ask("running", "plain"))
    /\ AfterHook(r)
    /\ UNCHANGED <<ctl, lock, mail>>

\* bridge_task_update.
BotUpdate(r) ==
    /\ runs[r].hook = "update"
    /\ \E status \in {"running", "waiting", "blocked"} :
          TransitionTask(runs[r].task, Ask(status, "explicit"))
    /\ AfterHook(r)
    /\ UNCHANGED <<ctl, lock, mail>>

\* bridge_task_inbox.
BotInbox(r) ==
    /\ runs[r].hook = "inbox"
    /\ IF Held(runs[r].task, "unread") # {}
         THEN ReadTaskNotes(runs[r].task)
         ELSE UNCHANGED ledgerVars
    /\ AfterHook(r)
    /\ UNCHANGED <<ctl, lock, mail>>

\* _after_llm: complete_worker_turn.
BotFinal(r) ==
    /\ runs[r].hook = "final"
    /\ TransitionTask(runs[r].task, Ask("returning", "final"))
    /\ runs' = [runs EXCEPT ![r].hook = None, ![r].turn = "answered",
                  ![r].answered = tasks'[runs[r].task].status = "returning"]
    /\ UNCHANGED <<ctl, lock, mail>>

\* Faulty, as version 0.6.4 was: the failure of the turn is taken for the end
\* of its runner.
BotAbortSettles(r) ==
    /\ runs[r].hook = "abort"
    /\ TransitionTask(runs[r].task, Ask("failed", "plain"))
    /\ runs' = [runs EXCEPT ![r].hook = None, ![r].turn = "aborted"]
    /\ UNCHANGED <<ctl, lock, mail>>

\* _on_session_end of a failed or interrupted turn.
BotAbort(r) ==
    /\ runs[r].hook = "abort"
    /\ TransitionTask(runs[r].task, Ask("settling", "plain"))
    /\ runs' = [runs EXCEPT ![r].hook = None, ![r].turn = "aborted"]
    /\ UNCHANGED <<ctl, lock, mail>>

\* The turn ends, and no hook of it finds its task.
BotEndsUnobserved(r) ==
    /\ Between(r)
    /\ \/ ~Observes(r, "final") /\ runs' = [runs EXCEPT ![r].turn = "answered"]
       \/ ~Observes(r, "abort") /\ runs' = [runs EXCEPT ![r].turn = "aborted"]
    /\ UNCHANGED <<tasks, notes, notices, ctl, lock, mail>>

\* Every hook fails open: the turn goes on, and nothing is written.
BotHookRaises(r) ==
    /\ Possible("faults")
    /\ \/ runs[r].turn = "new" /\ runs' = [runs EXCEPT ![r].turn = "bound"]
       \/ runs[r].turn = "bound" /\ runs[r].hook \notin {None, "final", "abort"} /\ AfterHook(r)
       \/ runs[r].hook = "final" /\ runs' = [runs EXCEPT ![r].hook = None, ![r].turn = "answered"]
       \/ runs[r].hook = "abort" /\ runs' = [runs EXCEPT ![r].hook = None, ![r].turn = "aborted"]
    /\ UNCHANGED <<tasks, notes, notices, ctl, lock, mail>>

\* hermes chat -Q exits: without a turn, killed in the middle of one, after the
\* final hook with or without a reply and whatever its cleanup returns, or
\* after a failed turn.
BotExits(r) ==
    /\ Working(r) /\ runs[r].hook = None
    /\ \E exit \in CASE runs[r].turn = "new"      -> {"error", "silent"}
                     [] runs[r].turn = "bound"    -> {"error"}
                     [] runs[r].turn = "answered" -> {"reply", "silent", "error"}
                     [] runs[r].turn = "aborted"  -> {"error", "silent"} :
          runs' = [runs EXCEPT ![r].turn = exit]
    /\ UNCHANGED <<tasks, notes, notices, ctl, lock, mail>>

BotStep(r) ==
    \/ BotBind(r)
    \/ \E hook \in {"activity", "update", "inbox", "final", "abort"} : BotEnters(r, hook)
    \/ BotActivity(r) \/ BotUpdate(r) \/ BotInbox(r) \/ BotFinal(r) \/ BotAbort(r)
    \/ BotEndsUnobserved(r) \/ BotExits(r)

----------------------------------------------------------------------------

BridgeInit ==
    /\ LedgerInit
    /\ ctl = [c \in Controllers |-> Idle]
    /\ runs = [r \in Runners |-> NotStarted]
    /\ lock = NoRunner
    /\ mail = [r \in Runners |-> None]

Failures ==
    \/ \E c \in Controllers : HandlerRaises(c) \/ ControllerCrash(c)
    \/ \E r \in Runners : RunnerBusy(r) \/ RunnerRaises(r) \/ RunnerForgets(r)
                            \/ RunnerCrash(r) \/ BotHookRaises(r)

BridgeNext ==
    \/ \E c \in Controllers : ControllerCall(c) \/ ControllerStep(c)
    \/ \E c \in Controllers, r \in Runners : NotifyFind(c, r)
    \/ \E r \in Runners : RunnerStep(r) \/ BotStep(r)
    \/ Failures

BridgeSpec == BridgeInit /\ [][BridgeNext]_vars

----------------------------------------------------------------------------

HandlerRecords ==
    [pc : {"idle", "start_check", "start_dispatch", "start_ack", "start_fail",
           "message_note", "message_claim", "message_dispatch", "message_ack",
           "message_undo", "cancel_request", "cancel_kill", "cancel_confirm",
           "notify_settle", "notify_write"},
     task : Tasks \union {None}, run : RunnerOrNone, key : NoteKeys \union {None},
     want : TaskStatuses \union Ends \union {None}]

RunRecords ==
    [pc : {"unused", "lock", "start", "run", "settle", "write", "over"},
     by : Controllers \union {None}, task : Tasks \union {None}, cont : BOOLEAN,
     end : Ends \union {None}, want : TerminalTaskStatuses \union {None},
     turn : {"none", "new", "bound", "answered", "aborted", "killed"} \union Exited,
     hook : {"activity", "update", "inbox", "final", "abort", None},
     answered : BOOLEAN, left : BOOLEAN]

\* Every handler, runner, Bot turn and notification has its type, and so has
\* the ledger; the profile lock is held exactly by a runner that needs it.
BridgeTypeOK ==
    /\ LedgerTypeOK
    /\ ctl \in [Controllers -> HandlerRecords]
    /\ runs \in [Runners -> RunRecords]
    /\ lock \in RunnerOrNone
    /\ \A r \in Runners : lock = r <=> runs[r].pc \in {"start", "run"}
    /\ mail \in [Runners -> Ends \union {None}]

\* No task ever has two runners at once: neither a retried start nor two
\* callers of agent_task_message can start a second one beside the first.
OneLiveRunner ==
    \A r, s \in Runners :
        Live(r) /\ Live(s) /\ runs[r].task = runs[s].task => r = s

\* A task that may be continued has no runner left: nothing but the end of its
\* runner makes it resumable, and nothing dispatches one without claiming it.
ResumableMeansIdle ==
    \A r \in Runners : Live(r) => ~Resumable(tasks[runs[r].task])

\* The payload of agent_task_start is handed to one runner at most, however
\* often the call is delivered; only continuations start further runners.
OriginalSentOnce ==
    \A r, s \in Runners :
        /\ runs[r].task = runs[s].task /\ runs[r].task # None
        /\ ~runs[r].cont /\ ~runs[s].cont
        => r = s

\* A task recorded as cancelled has no Bot turn at work: cancelled is only
\* written once the runner or the process manager confirmed the stop.  A turn
\* that could not be stopped is of an earlier run, which the row does not name.
CancelledMeansStopped ==
    \A r \in Runners :
        Working(r) /\ Ticket(r).status = "cancelled" =>
            runs[r].left /\ r \notin {Ticket(r).proc, Ticket(r).worker}

\* The process and the Bot turn a row names belong to the same run, so that a
\* cancellation kills the process whose turn is at work.
IdentityMatches ==
    \A t \in Tasks :
        tasks[t].proc # NoRunner /\ WorkerStarted(tasks[t]) =>
            tasks[t].proc = tasks[t].worker

\* A turn of the task that its runner has left behind.
LeftBehind(t) == \E r \in Runners : runs[r].left /\ runs[r].task = t

\* A continuation runner starts for an instruction the Bot has not read yet,
\* unless a turn that an earlier runner left behind could read it; it never
\* replays the task on its own.
ContinuationHasInstruction ==
    \A r \in Runners :
        /\ runs[r].cont /\ runs[r].pc \in {"lock", "start"}
        /\ Ticket(r).status = "continuing"
        => Held(runs[r].task, "unread") # {} \/ LeftBehind(runs[r].task)

\* The Bot turns of one profile never overlap, but for one that its runner
\* could not stop, or was killed before it did.
OneTurnPerProfile ==
    \A r, s \in Runners :
        Working(r) /\ Working(s) /\ ~runs[r].left /\ ~runs[s].left => r = s

\* README.md: the runners of one Bot profile work one after the other.
TurnsOneByOne ==
    \A r, s \in Runners : Working(r) /\ Working(s) => r = s

\* A final reply the ledger has recorded is not lost to the exit code of the
\* clean-up that follows it.
FinalSurvives ==
    \A r \in Runners :
        runs[r].answered /\ tasks[runs[r].task].worker = r =>
            tasks[runs[r].task].status \notin {"interrupted", "failed"}

\* Every note that was missed is counted in a notice to the user.
MissedNotesAnnounced ==
    \A t \in Tasks : Cardinality(Held(t, "missed")) <= notices[t]

----------------------------------------------------------------------------
(* Scheduling.  A handler, a runner and a hook that has begun run on; the    *)
(* Hermes gateway delivers a notification to an idle session.  A Bot turn is *)
(* not assumed to end, nor a user to call anything.                          *)

HookReturns(r) ==
    BotActivity(r) \/ BotUpdate(r) \/ BotInbox(r) \/ BotFinal(r) \/ BotAbort(r)

Fairness ==
    /\ \A c \in Controllers : WF_vars(ControllerStep(c))
    /\ \A r \in Runners : WF_vars(RunnerStep(r)) /\ WF_vars(HookReturns(r))
    /\ \A r \in Runners : SF_vars(\E c \in Controllers : NotifyFind(c, r))

FairBridgeSpec == BridgeSpec /\ Fairness

\* Once a run is over, its task gets an outcome or another run: the ledger does
\* not keep calling a task active that nobody works on.  Only a turn left behind
\* may call it active again.
RunEndsSettled ==
    \A r \in Runners, t \in Tasks :
        runs[r].pc = "over" /\ runs[r].task = t ~>
            \/ Terminal(tasks[t])
            \/ \E s \in Runners : Live(s) /\ runs[s].task = t
            \/ LeftBehind(t)

\* A cancellation the ledger has accepted comes to an outcome, unless a turn
\* left behind has made the task active when no runner is there to stop it.
CancelResolves ==
    \A t \in Tasks :
        tasks[t].status = "stopping" ~> tasks[t].status # "stopping" \/ LeftBehind(t)
=============================================================================
