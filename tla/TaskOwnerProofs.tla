-------------------------- MODULE TaskOwnerProofs --------------------------
(* Why no task has two runners at once.  A task has at most one owner: the    *)
(* handler that is about to start a runner for it, or to record that there is *)
(* none, or the runner.  While it has one it has no outcome, and only a task  *)
(* with an outcome is ever claimed.                                           *)
EXTENDS TaskBridgeProofs

OneSession == \A c, d \in Controllers : c = d

\* No ledger access of a handler or a hook fails, notifications are handled by
\* the only session there is, and it alone, alive and with turns that can be
\* stopped, repeats its calls.
Orderly ==
    /\ ~Possible("faults")
    /\ Possible("notify") => OneSession
    /\ Possible("retry") => OneSession /\ ~Possible("crash") /\ ~Possible("nostop")

\* What StartCheck dispatches.
StartsAnew(row) == row.proc = NoRunner /\ ~Terminal(row)

\* A call delivered again owns nothing when it will find the task started.
HandlerOwns(c, t) ==
    /\ ctl[c].task = t
    /\ \/ ctl[c].pc \in {"start_dispatch", "start_fail", "message_dispatch", "message_undo"}
       \/ ctl[c].pc = "start_check" /\ (Possible("retry") => StartsAnew(tasks[t]))

RunnerOwns(r, t) == Live(r) /\ runs[r].task = t

Owned(t) == \/ \E c \in Controllers : HandlerOwns(c, t)
            \/ \E r \in Runners : RunnerOwns(r, t)

Open(row) == row.status # "absent" /\ ~Terminal(row)

Acknowledging == {"start_ack", "message_ack"}

\* The handler is about to start the runner, or to record it.
Attends(c, t) == HandlerOwns(c, t) \/ (ctl[c].pc \in Acknowledging /\ ctl[c].task = t)

\* An open task that names no process is attended to, and a cancellation finds
\* one that names its process: a repeated call meets no task on the way to its
\* first runner.
Attended ==
    Possible("retry") =>
        \A t \in Tasks :
            /\ Open(tasks[t]) /\ tasks[t].proc = NoRunner => \E c \in Controllers : Attends(c, t)
            /\ \A c \in Controllers : Attends(c, t) => tasks[t].status # "stopping"
            /\ \A c \in Controllers :
                   ctl[c].pc = "cancel_request" /\ ctl[c].task = t => tasks[t].proc # NoRunner

\* The other sessions of a step: there are none when calls are repeated.
LEMMA OthersOwnAsBefore ==
    ASSUME Orderly, NEW c \in Controllers, NEW d \in Controllers \ {c}, ctl'[d] = ctl[d]
    PROVE  ~Possible("retry") /\ \A t : HandlerOwns(d, t)' <=> HandlerOwns(d, t)
  <1>1. ~Possible("retry")
    BY DEF Orderly, OneSession
  <1> QED
    BY <1>1 DEF HandlerOwns, Possible

----------------------------------------------------------------------------
(* What a step does to the rows.                                             *)

\* An operation of the ledger is about one row, and a stopping or final row
\* changes as the ledger promises.
LEMMA RowsOfOthersStay ==
    ASSUME LedgerInv, NEW t \in Tasks, LedgerCall(t)
    PROVE  /\ \A u \in Tasks \ {t} : tasks'[u] = tasks[u]
           /\ \A u \in Tasks : Final(tasks[u]) => tasks'[u] = tasks[u]
           /\ \A u \in Tasks : tasks[u].status = "stopping" =>
                  tasks'[u].status = "stopping" \/ Terminal(tasks'[u])
  <1>1. tasks \in [Tasks -> TaskRecords]
    BY DEF LedgerInv, LedgerTypeOK
  <1>2. \A u \in Tasks \ {t} : tasks'[u] = tasks[u]
    BY <1>1 DEF LedgerCall, CreateTask, TransitionTask, ClaimTaskContinuation,
                AddAgentTaskNote, ReadTaskNotes, ledgerVars
  <1>3. PICK u \in Tasks, row \in TaskRecords :
             /\ tasks' = [tasks EXCEPT ![u] = row]
             /\ Final(tasks[u]) => row = tasks[u]
             /\ tasks[u].status = "stopping" => row.status = "stopping" \/ Terminal(row)
    BY OneRowChanges
  <1> QED
    BY <1>1, <1>2, <1>3

\* A request keeps the identities it does not name, and only a request for an
\* outcome ends a task.
LEMMA RequestedRow ==
    ASSUME LedgerTypeOK, NEW t \in Tasks, NEW q \in Requests, TransitionTask(t, q)
    PROVE  /\ tasks'[t].proc \in {tasks[t].proc, q.proc}
           /\ tasks'[t].worker \in {tasks[t].worker, q.worker}
           /\ q.proc = NoRunner => tasks'[t].proc = tasks[t].proc
           /\ q.worker = NoRunner => tasks'[t].worker = tasks[t].worker
           /\ tasks'[t].status \in {tasks[t].status, q.status}
           /\ Open(tasks[t]) => Open(tasks'[t]) \/ (Terminal(q) /\ tasks'[t].status = q.status)
           /\ Terminal(q) => ~Open(tasks'[t])
           /\ q.proc # NoRunner /\ tasks[t].status # "stopping" =>
                  ~Open(tasks'[t]) \/ tasks'[t].proc = q.proc
  <1>1. tasks \in [Tasks -> TaskRecords]
    BY DEF LedgerTypeOK
  <1>2. CASE Accepts(tasks[t], q)
    <2>1. tasks'[t] = Transitioned(tasks[t], q)
      BY <1>1, <1>2 DEF TransitionTask
    <2>2. q.status # "absent"
      BY RequestsTyped DEF TaskStatuses, TerminalTaskStatuses, FinalTaskStatuses,
         RecoverableTerminalTaskStatuses
    <2> QED
      BY <2>1, <2>2 DEF Transitioned, Open, Terminal
  <1>3. CASE ~Accepts(tasks[t], q)
    BY <1>3 DEF TransitionTask, ledgerVars, Accepts, Open, Terminal
  <1> QED
    BY <1>2, <1>3

\* What the requests name.
LEMMA NamedInRequests ==
    /\ \A s, e : /\ Ask(s, e).proc = NoRunner /\ Ask(s, e).worker = NoRunner
                 /\ Ask(s, e).status = s
    /\ \A s, r : /\ AskWithProcess(s, r).proc = r /\ AskWithProcess(s, r).worker = NoRunner
                 /\ AskWithProcess(s, r).status = s
    /\ \A r : /\ AskWithWorker(r).proc = NoRunner /\ AskWithWorker(r).worker = r
              /\ AskWithWorker(r).status = "running"
    /\ \A s : /\ Outcome(s).proc = NoRunner /\ Outcome(s).worker = NoRunner
              /\ Outcome(s).status = s
  BY DEF Ask, AskWithProcess, AskWithWorker, Outcome

\* What a run changes of anything, its own task's row included.
LEMMA RunEffects ==
    ASSUME BridgeTyped, LedgerInv, NEW r \in Runners, RunActs(r)
    PROVE  /\ ctl' = ctl
           /\ runs[r].pc # "unused" /\ runs[r].task \in Tasks
           /\ \A s \in Runners : /\ s # r => runs'[s] = runs[s]
                                 /\ runs'[s].task = runs[s].task
                                 /\ runs'[s].cont = runs[s].cont
                                 /\ runs'[s].pc = "unused" <=> runs[s].pc = "unused"
                                 /\ Live(s)' => Live(s)
                                 /\ mail'[s] = mail[s] \/ runs'[s].pc = "over"
           /\ \A u \in Tasks : /\ u # runs[r].task => tasks'[u] = tasks[u]
                               /\ tasks'[u].proc = tasks[u].proc
                               /\ \/ tasks'[u].worker = tasks[u].worker
                                  \/ /\ u = runs[r].task /\ tasks'[u].worker = r
                                     /\ runs[r].turn = "new" /\ runs'[r].turn = "bound"
                               /\ Open(tasks[u]) =>
                                     \/ Open(tasks'[u])
                                     \/ u = runs[r].task /\ Live(r) /\ ~Live(r)'
                               /\ tasks'[u].status = "stopping" => tasks[u].status = "stopping"
                               /\ Terminal(tasks'[u]) /\ tasks'[u].status # tasks[u].status =>
                                     /\ u = runs[r].task /\ runs[r].pc = "write"
                                     /\ tasks'[u].status = runs[r].want
  <1>1. /\ runs \in [Runners -> RunRecords] /\ RunOK(runs[r])
        /\ tasks \in [Tasks -> TaskRecords] /\ LedgerTypeOK
        /\ mail \in [Runners -> Ends \union {None}]
    BY DEF BridgeTyped, BridgeTypeOK, LedgerTypeOK
  <1>2. ctl' = ctl
    BY DEF RunActs, RunnerStep, RunnerAcquire, RunnerPopen, RunnerCancelled, RunnerReap,
           RunnerSettle, RunnerWrite, Report, Leave, StopFails, BotStep, BotEnters,
           BotEndsUnobserved, BotExits, BotBind, BotActivity, BotUpdate, BotInbox, BotFinal,
           BotAbort, RunnerBusy, RunnerRaises, RunnerForgets, RunnerCrash, BotHookRaises
  <1>3. runs[r].pc # "unused" /\ runs[r].task \in Tasks
    <2>1. runs[r].turn # "none" \/ runs[r].hook # None => runs[r].pc # "unused"
      BY <1>1 DEF RunOK, NotStarted
    <2>2. runs[r].pc # "unused"
      BY <2>1
         DEF RunActs, RunnerStep, RunnerAcquire, RunnerPopen, RunnerCancelled, RunnerReap,
             RunnerSettle, RunnerWrite, BotStep, BotEnters, BotEndsUnobserved, BotExits, BotBind,
             BotActivity, BotUpdate, BotInbox, BotFinal, BotAbort, RunnerBusy, RunnerRaises,
             RunnerForgets, RunnerCrash, BotHookRaises, Between, Working, Live, None
    <2> QED
      BY <1>1, <2>2 DEF RunOK
  <1>4. \A s \in Runners \ {r} : runs'[s] = runs[s]
    BY <1>1, RunsMove DEF RunMoves
  <1>5. /\ runs'[r].task = runs[r].task /\ runs'[r].cont = runs[r].cont
        /\ runs'[r].pc # "unused"
        /\ Live(r)' => Live(r)
        /\ runs'[r].pc = runs[r].pc \/ runs[r].pc # "over"
    <2>1. runs[r] \in RunRecords
      BY <1>1
    <2>2. CASE \/ RunnerAcquire(r) \/ RunnerPopen(r) \/ RunnerCancelled(r) \/ RunnerReap(r)
               \/ RunnerBusy(r) \/ RunnerRaises(r)
      BY <1>1, <1>3, <2>1, <2>2
         DEF RunnerAcquire, RunnerPopen, RunnerCancelled, RunnerReap, RunnerBusy, RunnerRaises,
             Report, Leave, StopFails, Live, RunRecords
    <2>3. CASE RunnerSettle(r) \/ RunnerWrite(r) \/ RunnerForgets(r) \/ RunnerCrash(r)
      BY <1>1, <1>3, <2>1, <2>3
         DEF RunnerSettle, RunnerWrite, RunnerForgets, RunnerCrash, Finish, Live, RunRecords
    <2>4. CASE BotStep(r) \/ BotHookRaises(r)
      <3>1. /\ runs'[r].pc = runs[r].pc /\ runs'[r].task = runs[r].task
            /\ runs'[r].cont = runs[r].cont
        BY <1>1, <2>1, <2>4
           DEF BotStep, BotEnters, BotEndsUnobserved, BotExits, BotBind, BotActivity, BotUpdate,
               BotInbox, BotFinal, BotAbort, BotHookRaises, AfterHook, RunRecords
      <3> QED
        BY <1>3, <3>1 DEF Live
    <2> QED
      BY <2>2, <2>3, <2>4 DEF RunActs, RunnerStep
  <1>6. \A s \in Runners : mail'[s] = mail[s] \/ runs'[s].pc = "over"
    <2>1. UNCHANGED mail \/ RunnerCrash(r) \/ \E end : Finish(r, end)
      BY DEF RunActs, RunnerStep, RunnerAcquire, RunnerPopen, RunnerCancelled, RunnerReap,
             RunnerSettle, RunnerWrite, Report, Leave, StopFails, BotStep, BotEnters,
             BotEndsUnobserved, BotExits, BotBind, BotActivity, BotUpdate, BotInbox, BotFinal,
             BotAbort, RunnerBusy, RunnerRaises, RunnerForgets, BotHookRaises
    <2>2. ASSUME NEW end, Finish(r, end)
          PROVE  runs'[r].pc = "over" /\ \A s \in Runners \ {r} : mail'[s] = mail[s]
      BY <1>1, <2>2 DEF Finish
    <2>3. ASSUME RunnerCrash(r)
          PROVE  runs'[r].pc = "over" /\ \A s \in Runners \ {r} : mail'[s] = mail[s]
      BY <1>1, <2>3 DEF RunnerCrash
    <2> QED
      BY <2>1, <2>2, <2>3
  <1> DEFINE t == runs[r].task
             Moved(u) == /\ u # t => tasks'[u] = tasks[u]
                         /\ tasks'[u].proc = tasks[u].proc
                         /\ \/ tasks'[u].worker = tasks[u].worker
                            \/ /\ u = t /\ tasks'[u].worker = r
                               /\ runs[r].turn = "new" /\ runs'[r].turn = "bound"
                         /\ Open(tasks[u]) => \/ Open(tasks'[u])
                                              \/ u = t /\ Live(r) /\ ~Live(r)'
                         /\ tasks'[u].status = "stopping" => tasks[u].status = "stopping"
                         /\ Terminal(tasks'[u]) /\ tasks'[u].status # tasks[u].status =>
                                u = t /\ runs[r].pc = "write" /\ tasks'[u].status = runs[r].want
  <1>7. \A u \in Tasks : Moved(u)
    <2>1. ASSUME NEW q \in Requests, TransitionTask(t, q), q.proc = NoRunner,
                 \/ q.worker = NoRunner
                 \/ q.worker = r /\ runs[r].turn = "new" /\ runs'[r].turn = "bound",
                 Terminal(q) => /\ Live(r) /\ ~Live(r)'
                                /\ runs[r].pc = "write" /\ q.status = runs[r].want,
                 q.status # "stopping"
          PROVE  \A u \in Tasks : Moved(u)
      <3>1. LedgerCall(t)
        BY <2>1 DEF LedgerCall
      <3>2. \A u \in Tasks \ {t} : Moved(u)
        BY <1>3, <3>1, RowsOfOthersStay
      <3>3. Moved(t)
        <4>1. Terminal(tasks'[t]) /\ tasks'[t].status # tasks[t].status =>
                  Terminal(q) /\ tasks'[t].status = q.status
          BY <1>1, <1>3, <2>1, RequestedRow DEF Terminal
        <4> QED
          BY <1>1, <1>3, <2>1, <4>1, RequestedRow
      <3> QED
        BY <3>2, <3>3
    <2>2. CASE UNCHANGED <<tasks, notes, notices>>
      BY <2>2
    <2>3. CASE RunnerWrite(r)
      <3>1. TransitionTask(t, Outcome(runs[r].want)) /\ Outcome(runs[r].want) \in Requests
        BY <1>1, <2>3, AskedRequests DEF RunnerWrite, RunOK
      <3>2. runs[r].pc = "write" /\ runs'[r].pc = "over"
        BY <1>1, <2>3 DEF RunnerWrite, Finish
      <3>3. runs[r].want # "stopping"
        BY <1>1, <2>3 DEF RunnerWrite, RunOK, TerminalTaskStatuses, FinalTaskStatuses,
                          RecoverableTerminalTaskStatuses
      <3> QED
        BY <2>1, <3>1, <3>2, <3>3, NamedInRequests DEF Live
    <2>4. CASE BotBind(r)
      <3>1. TransitionTask(t, AskWithWorker(r)) /\ AskWithWorker(r) \in Requests
        BY <2>4, AskedRequests DEF BotBind
      <3>2. ~Terminal(AskWithWorker(r))
        BY NamedInRequests DEF Terminal, TerminalTaskStatuses, FinalTaskStatuses,
                               RecoverableTerminalTaskStatuses
      <3>3. runs[r].turn = "new" /\ runs'[r].turn = "bound"
        BY <1>1, <2>4 DEF BotBind, RunRecords
      <3> QED
        BY <2>1, <3>1, <3>2, <3>3, NamedInRequests
    <2>5. CASE BotActivity(r) \/ BotUpdate(r) \/ BotFinal(r) \/ BotAbort(r)
      <3>1. PICK s \in {"running", "waiting", "blocked", "returning", "settling"},
                 e \in {"plain", "explicit", "final"} :
                    TransitionTask(t, Ask(s, e)) /\ Ask(s, e) \in Requests
        BY <2>5, AskedRequests DEF BotActivity, BotUpdate, BotFinal, BotAbort
      <3>2. ~Terminal(Ask(s, e))
        BY NamedInRequests DEF Terminal, TerminalTaskStatuses, FinalTaskStatuses,
                               RecoverableTerminalTaskStatuses
      <3> QED
        BY <2>1, <3>1, <3>2, NamedInRequests
    <2>6. CASE BotInbox(r) /\ ReadTaskNotes(t)
      <3>1. LedgerCall(t) /\ tasks' = [tasks EXCEPT ![t] = Touched(tasks[t])]
        BY <2>6 DEF LedgerCall, ReadTaskNotes
      <3>2. Moved(t)
        <4>1. tasks'[t] = Touched(tasks[t]) /\ tasks[t] \in TaskRecords
          BY <1>1, <1>3, <3>1
        <4> QED
          BY <4>1 DEF Touched, TaskRecords, Open, Terminal
      <3> QED
        BY <1>3, <3>1, <3>2, RowsOfOthersStay
    <2> QED
      BY <2>2, <2>3, <2>4, <2>5, <2>6
         DEF RunActs, RunnerStep, RunnerAcquire, RunnerPopen, RunnerCancelled, RunnerReap,
             RunnerSettle, Report, Leave, StopFails, BotStep, BotEnters, BotEndsUnobserved,
             BotExits, BotInbox, RunnerBusy, RunnerRaises, RunnerForgets, RunnerCrash,
             BotHookRaises, ledgerVars
  <1> HIDE DEF Moved
  <1> QED
    BY <1>2, <1>3, <1>4, <1>5, <1>6, <1>7 DEF Live, Moved

----------------------------------------------------------------------------
(* What a step of a session does to the owners.  It claims a task nobody has, *)
(* hands it to a runner, records that runner, gives the task an outcome,      *)
(* stops a runner, or changes none of this.                                   *)

Confirming == {"notify_settle", "notify_write"}

\* The row stays open if it is, and names whom it named.
Kept(u) ==
    /\ Open(tasks[u]) => Open(tasks'[u])
    /\ tasks'[u].proc = tasks[u].proc /\ tasks'[u].worker = tasks[u].worker

SameTask(c) == ctl'[c].task = ctl[c].task /\ ctl'[c].run = ctl[c].run

Claims(c) ==
    \E t \in Tasks :
        /\ \/ ctl[c].pc = "idle" /\ tasks[t].status = "absent"
           \/ /\ ctl[c].pc = "message_claim" /\ Resumable(tasks[t])
              /\ ctl'[c].pc = "message_dispatch"
        /\ tasks'[t].proc = NoRunner /\ tasks'[t].worker = NoRunner
        /\ tasks'[t].status \in {"dispatching", "continuing"}
        /\ \A u \in Tasks \ {t} : tasks'[u] = tasks[u]
        /\ ctl'[c].task = t /\ HandlerOwns(c, t)'
        /\ SameTask(c) \/ ctl'[c].run = NoRunner
        /\ UNCHANGED <<runs, mail>>

Launches(c) ==
    \E r \in Runners :
        /\ HandlerOwns(c, ctl[c].task)
        /\ ctl'[c].pc \in Acknowledging /\ ctl'[c].task = ctl[c].task /\ ctl'[c].run = r
        /\ runs[r].pc = "unused" /\ runs'[r].pc = "lock" /\ runs'[r].task = ctl[c].task
        /\ ctl[c].pc \in {"start_dispatch", "message_dispatch"}
        /\ runs'[r].cont <=> ctl[c].pc = "message_dispatch"
        /\ ~runs'[r].answered /\ runs'[r].hook = None /\ runs'[r].end = None
        /\ \A s \in Runners \ {r} : runs'[s] = runs[s]
        /\ UNCHANGED <<tasks, mail>>

Acknowledges(c) ==
    /\ ctl[c].pc \in Acknowledging
    /\ ctl'[c] = Idle
    /\ \A u \in Tasks : /\ Open(tasks[u]) => Open(tasks'[u])
                        /\ tasks'[u].worker = tasks[u].worker
                        /\ tasks'[u].proc # tasks[u].proc =>
                               u = ctl[c].task /\ tasks'[u].proc = ctl[c].run
                        /\ u # ctl[c].task => tasks'[u] = tasks[u]
                        /\ tasks'[u].status = "stopping" => tasks[u].status = "stopping"
                        /\ tasks'[u].status = "cancelled" => tasks'[u] = tasks[u]
                        /\ u = ctl[c].task /\ tasks[u].status # "stopping" =>
                               ~Open(tasks'[u]) \/ tasks'[u].proc # NoRunner
    /\ UNCHANGED <<runs, mail>>

Concludes(c) ==
    /\ ctl[c].pc \in {"start_fail", "message_undo", "cancel_confirm", "notify_write"}
    /\ ctl'[c] = Idle
    /\ \A u \in Tasks :
         /\ tasks'[u].proc = tasks[u].proc /\ tasks'[u].worker = tasks[u].worker
         /\ Open(tasks[u]) /\ ~Open(tasks'[u]) =>
              /\ u = ctl[c].task
              /\ ctl[c].pc = "cancel_confirm" => tasks'[u].status = "cancelled"
              /\ ctl[c].pc = "notify_write" => tasks'[u].status = ctl[c].want
         /\ tasks'[u].status = "cancelled" /\ tasks[u].status # "cancelled" =>
              \/ ctl[c].pc = "cancel_confirm"
              \/ ctl[c].pc = "notify_write" /\ ctl[c].want = "cancelled"
         /\ Open(tasks'[u]) => Open(tasks[u])
         /\ IF u = ctl[c].task THEN ~Open(tasks'[u]) ELSE tasks'[u] = tasks[u]
    /\ UNCHANGED <<runs, mail>>

Kills(c) ==
    LET r == ctl[c].run
    IN  /\ ctl[c].pc = "cancel_kill" /\ ctl'[c].pc = "cancel_confirm" /\ SameTask(c)
        /\ r \in Runners /\ Live(r)
        /\ runs'[r].pc = "over" /\ runs'[r].task = runs[r].task /\ runs'[r].cont = runs[r].cont
        /\ runs'[r].turn = IF Working(r) THEN "killed" ELSE runs[r].turn
        /\ \A s \in Runners \ {r} : runs'[s] = runs[s] /\ mail'[s] = mail[s]
        /\ UNCHANGED tasks

\* A step of a repeated call neither leaves a task behind nor makes one that
\* names no process.
Minds(c) ==
    /\ ctl[c].pc \notin Acknowledging
    /\ \A u \in Tasks :
         /\ HandlerOwns(c, u) => HandlerOwns(c, u)' /\ tasks'[u] = tasks[u]
         /\ Open(tasks'[u]) /\ tasks[u].proc = NoRunner => Open(tasks[u])
    /\ ctl'[c].pc = "cancel_request" =>
         ctl[c].pc = "idle" /\ Open(tasks[ctl'[c].task]) /\ UNCHANGED tasks

Proceeds(c) ==
    /\ \A u \in Tasks : Kept(u) /\ (HandlerOwns(c, u)' => HandlerOwns(c, u))
    /\ \A u \in Tasks :
         HandlerOwns(c, u)' /\ ctl'[c].pc \in {"start_check", "start_dispatch"} =>
             ctl[c].pc \in {"start_check", "start_dispatch"}
    /\ Possible("retry") => Minds(c)
    /\ ctl'[c].pc \notin Acknowledging \union {"cancel_confirm"}
    /\ ctl'[c].pc = "cancel_kill" => tasks'[ctl'[c].task].status = "stopping"
    /\ \A u \in Tasks :
         \/ tasks'[u].status = tasks[u].status
         \/ ctl[c].pc = "cancel_request" /\ tasks'[u].status = "stopping"
    /\ ctl'[c].pc \in {"cancel_request", "cancel_kill"} =>
         Possible("cancel") \/ ctl[c].pc = "cancel_request"
    /\ ctl'[c].pc \in Confirming =>
         /\ UNCHANGED tasks
         /\ \/ /\ ctl[c].pc = "notify_settle" /\ ctl'[c].task = ctl[c].task
               /\ ctl'[c].pc = "notify_write"
               /\ \E end \in {ctl[c].want, "unknown"} :
                    /\ Settles(Row(c), end)
                    /\ ctl'[c].want = SettledStatus(Row(c), end)
            \/ /\ Possible("notify") /\ ctl[c].pc = "idle" /\ ctl'[c].pc = "notify_settle"
               /\ \E r \in Runners : /\ mail[r] # None /\ tasks[ctl'[c].task].proc = r
                                     /\ ctl'[c].want = mail[r]
    /\ ctl'[c].run # NoRunner =>
         \/ SameTask(c)
         \/ ctl'[c].task \in Tasks /\ ctl'[c].run = tasks[ctl'[c].task].proc
    /\ \A r \in Runners : mail'[r] \in {mail[r], None}
    /\ UNCHANGED runs

HandlerEffect(c) ==
    \/ Claims(c) \/ Launches(c) \/ Acknowledges(c) \/ Concludes(c) \/ Kills(c) \/ Proceeds(c)

\* What a handler's step does to rows and owners is one of the effects above.
LEMMA HandlerEffects ==
    ASSUME Orderly, BridgeTyped, LedgerInv, NewRows, Attended,
           NEW c \in Controllers, HandlerActs(c)
    PROVE  HandlerEffect(c) /\ \A d \in Controllers \ {c} : ctl'[d] = ctl[d]
  <1> DEFINE h == ctl[c]
             t == ctl[c].task
             q == ctl'[c]
  <1>1. /\ ctl \in [Controllers -> HandlerRecords] /\ h \in HandlerRecords /\ HandlerOK(h)
        /\ tasks \in [Tasks -> TaskRecords] /\ LedgerTypeOK
        /\ runs \in [Runners -> RunRecords] /\ mail \in [Runners -> Ends \union {None}]
    BY DEF BridgeTyped, BridgeTypeOK, LedgerTypeOK
  <1>2. \A d \in Controllers \ {c} : ctl'[d] = ctl[d]
    BY <1>1, HandlersMove DEF HandlerMoves
  <1> SUFFICES HandlerEffect(c)
    BY <1>2
  <1>3. Idle.pc = "idle" /\ Idle.run = NoRunner
    BY DEF Idle
  \* A request about the handler's own task.
  <1>4. ASSUME NEW p \in Requests, TransitionTask(t, p), h.pc # "idle"
        PROVE  /\ \A u \in Tasks \ {t} : tasks'[u] = tasks[u]
               /\ t \in Tasks
               /\ p.worker = NoRunner => tasks'[t].worker = tasks[t].worker
               /\ p.proc = NoRunner => tasks'[t].proc = tasks[t].proc
               /\ tasks'[t].proc \in {tasks[t].proc, p.proc}
               /\ Open(tasks[t]) => Open(tasks'[t]) \/ (Terminal(p) /\ tasks'[t].status = p.status)
               /\ tasks'[t].status \in {tasks[t].status, p.status}
               /\ Terminal(p) => ~Open(tasks'[t])
               /\ p.proc # NoRunner /\ tasks[t].status # "stopping" =>
                      ~Open(tasks'[t]) \/ tasks'[t].proc = p.proc
    <2>1. t \in Tasks /\ LedgerCall(t)
      BY <1>1, <1>4 DEF HandlerOK, LedgerCall
    <2> QED
      BY <1>1, <1>4, <2>1, RowsOfOthersStay, RequestedRow
  <1>5. ASSUME UNCHANGED <<tasks, runs, mail>>,
               \A u \in Tasks : HandlerOwns(c, u)' => HandlerOwns(c, u),
               q.pc \notin Acknowledging \union {"cancel_confirm", "cancel_kill", "cancel_request"}
                       \union Confirming,
               q.run # NoRunner => SameTask(c),
               \A u \in Tasks : HandlerOwns(c, u)' /\ q.pc \in {"start_check", "start_dispatch"} =>
                                   h.pc \in {"start_check", "start_dispatch"},
               Possible("retry") =>
                   /\ h.pc \notin Acknowledging
                   /\ \A u \in Tasks : HandlerOwns(c, u) => HandlerOwns(c, u)'
        PROVE  HandlerEffect(c)
    BY <1>1, <1>5 DEF HandlerEffect, Proceeds, Minds, Kept
  <1>6. ASSUME ctl'[c] = Idle, UNCHANGED <<tasks, runs, mail>>,
               Possible("retry") =>
                   h.pc \notin Acknowledging /\ \A u \in Tasks : ~HandlerOwns(c, u)
        PROVE  HandlerEffect(c)
    BY <1>3, <1>5, <1>6 DEF HandlerOwns, Acknowledging, Confirming
  <1>7. CASE /\ Return(c) /\ UNCHANGED <<tasks, runs, mail>>
             /\ Possible("retry") =>
                   h.pc \notin Acknowledging /\ \A u \in Tasks : ~HandlerOwns(c, u)
    BY <1>1, <1>6, <1>7 DEF Return
  <1>8. ASSUME UNCHANGED tasks, q.pc # "cancel_request",
                h.pc \in {"idle", "notify_settle"}
         PROVE  /\ Minds(c) /\ \A u \in Tasks : Kept(u)
    BY <1>8 DEF Minds, Kept, HandlerOwns, Acknowledging
  <1>9. h.pc = "idle" => ~\E u \in Tasks : Attends(c, u)
    BY DEF Attends, HandlerOwns, Acknowledging
  <1>10. ASSUME NEW u \in Tasks, StartIntent(c, u) PROVE HandlerEffect(c)
    <2>1. /\ ctl'[c] = [Idle EXCEPT !.pc = "start_check", !.task = u]
          /\ h.pc = "idle" /\ UNCHANGED <<runs, mail>>
      BY <1>1, <1>10 DEF StartIntent, Enter, At
    <2>2. /\ q.pc = "start_check" /\ q.task = u /\ q.run = NoRunner
      BY <2>1 DEF Idle
    <2>3. CASE CreateTask(u)
      <3>1. /\ tasks[u].status = "absent"
            /\ tasks'[u] = [NoTask EXCEPT !.status = "dispatching"]
            /\ \A v \in Tasks \ {u} : tasks'[v] = tasks[v]
        BY <1>1, <2>3 DEF CreateTask, NoTask
      <3>2. /\ tasks'[u].proc = NoRunner /\ tasks'[u].worker = NoRunner
            /\ tasks'[u].status = "dispatching"
        BY <3>1 DEF NoTask
      <3>3. HandlerOwns(c, u)'
        BY <2>2, <3>2 DEF HandlerOwns, StartsAnew, Terminal, TerminalTaskStatuses,
                          FinalTaskStatuses, RecoverableTerminalTaskStatuses
      <3> QED
        BY <2>1, <2>2, <3>1, <3>2, <3>3 DEF HandlerEffect, Claims
    \* The only session there is attends to no task, so this one is started.
    <2>4. CASE Possible("retry") /\ tasks[u] # NoTask /\ UNCHANGED ledgerVars
      <3>1. UNCHANGED tasks
        BY <2>4 DEF ledgerVars
      <3>2. ~StartsAnew(tasks[u])
        <4>1. \A d \in Controllers : ~Attends(d, u)
          BY <1>9, <2>1, <2>4 DEF Orderly, OneSession
        <4> QED
          BY <2>4, <4>1 DEF Attended, NewRows, Open, StartsAnew
      <3>3. \A v \in Tasks : ~HandlerOwns(c, v)'
        BY <2>2, <2>4, <3>1, <3>2 DEF HandlerOwns, Possible
      <3>4. h.pc \notin Acknowledging /\ \A v \in Tasks : ~HandlerOwns(c, v)
        BY <2>1 DEF Acknowledging, HandlerOwns
      <3> QED
        BY <1>5, <2>1, <2>2, <3>1, <3>3, <3>4 DEF Acknowledging, Confirming
    <2> QED
      BY <1>10, <2>3, <2>4 DEF StartIntent
  <1>11. ASSUME NEW u \in Tasks, NEW key \in NoteKeys, MessageRead(c, u, key) PROVE HandlerEffect(c)
    <2>1. q = [Idle EXCEPT !.pc = "message_note", !.task = u, !.key = key]
      BY <1>1, <1>11 DEF MessageRead
    <2>2. q.pc = "message_note" /\ q.run = NoRunner /\ h.pc = "idle"
      BY <1>11, <2>1 DEF Idle, MessageRead, At
    <2> QED
      BY <1>5, <1>11, <2>2 DEF MessageRead, HandlerOwns, Acknowledging, Confirming
  <1>12. ASSUME NEW u \in Tasks, CancelRead(c, u) PROVE HandlerEffect(c)
    <2>1. /\ q = [Idle EXCEPT !.pc = "cancel_request", !.task = u, !.run = tasks[u].proc]
          /\ h.pc = "idle" /\ Open(tasks[u]) /\ UNCHANGED <<tasks, runs, mail>>
          /\ Possible("cancel")
      BY <1>1, <1>12 DEF CancelRead, At, Open
    <2>2. q.pc = "cancel_request" /\ q.task = u /\ q.run = tasks[u].proc
      BY <2>1 DEF Idle
    <2>3. \A v \in Tasks : ~HandlerOwns(c, v) /\ ~HandlerOwns(c, v)'
      BY <2>1, <2>2 DEF HandlerOwns
    <2>4. Minds(c)
      BY <2>1, <2>2, <2>3 DEF Minds, Acknowledging
    <2> QED
      BY <2>1, <2>2, <2>3, <2>4 DEF HandlerEffect, Proceeds, Kept, Acknowledging, Confirming
  <1>13. CASE StartCheck(c)
    <2>1. ASSUME NEW pc \in {"start_dispatch", "start_fail"}, Goto(c, pc)
          PROVE  q = [h EXCEPT !.pc = pc]
      BY <1>1, <2>1 DEF Goto
    <2>2. CASE \E pc \in {"start_dispatch", "start_fail"} : Goto(c, pc)
      <3>1. q.pc \in {"start_dispatch", "start_fail"} /\ q.task = h.task /\ q.run = h.run
        BY <1>1, <2>1, <2>2 DEF HandlerRecords
      <3>2. h.pc = "start_check" /\ StartsAnew(tasks[t]) /\ UNCHANGED <<tasks, runs, mail>>
        <4>1. ~Return(c)
          BY <1>1, <1>3, <3>1 DEF Return
        <4> QED
          BY <1>13, <4>1 DEF StartCheck, At, Row, StartsAnew
      <3>3. \A u \in Tasks : HandlerOwns(c, u) <=> HandlerOwns(c, u)'
        BY <3>1, <3>2 DEF HandlerOwns
      <3> QED
        BY <1>5, <3>1, <3>2, <3>3 DEF Acknowledging, Confirming, SameTask
    <2>3. CASE Return(c) /\ (Row(c).proc # NoRunner \/ Terminal(Row(c)))
      <3>1. h.pc = "start_check" /\ ~StartsAnew(tasks[t]) /\ UNCHANGED <<tasks, runs, mail>>
        BY <1>13, <2>3 DEF StartCheck, At, Row, StartsAnew
      <3> QED
        BY <1>7, <2>3, <3>1 DEF HandlerOwns, Acknowledging
    <2> QED
      BY <1>13, <2>2, <2>3 DEF StartCheck
  <1>14. CASE StartDispatch(c) \/ MessageDispatch(c)
    <2>1. PICK cont \in BOOLEAN, ack \in Acknowledging, fail \in {"start_fail", "message_undo"} :
             Dispatch(c, cont, ack, fail) /\ (cont <=> h.pc = "message_dispatch")
      BY <1>14 DEF StartDispatch, MessageDispatch, Acknowledging, At
    <2>2. HandlerOwns(c, t)
      BY <1>14 DEF StartDispatch, MessageDispatch, At, HandlerOwns
    <2>3. h.pc \in {"start_dispatch", "message_dispatch"}
      BY <1>14 DEF StartDispatch, MessageDispatch, At
    <2>4. CASE Goto(c, fail) /\ UNCHANGED runs
      <3>1. q = [h EXCEPT !.pc = fail]
        BY <1>1, <2>4 DEF Goto
      <3>2. q.pc = fail /\ q.task = h.task /\ q.run = h.run
        BY <1>1, <3>1 DEF HandlerRecords
      <3> QED
        BY <1>5, <2>3, <2>1, <2>2, <2>4, <3>2
           DEF Dispatch, HandlerOwns, Acknowledging, Confirming, SameTask
    <2>5. ASSUME NEW r \in Runners, runs[r] = NotStarted, Launch(c, r, cont),
                 ctl' = [ctl EXCEPT ![c].pc = ack, ![c].run = r]
          PROVE  Launches(c)
      <3>1. q = [h EXCEPT !.pc = ack, !.run = r]
        BY <1>1, <2>5
      <3>2. q.pc = ack /\ q.task = t /\ q.run = r
        BY <1>1, <3>1 DEF HandlerRecords
      <3>3. /\ runs'[r] = [NotStarted EXCEPT !.pc = "lock", !.by = c, !.task = t, !.cont = cont]
            /\ \A s \in Runners \ {r} : runs'[s] = runs[s]
        BY <1>1, <2>5 DEF Launch
      <3>4. /\ runs[r].pc = "unused" /\ runs'[r].pc = "lock" /\ runs'[r].task = t
            /\ runs'[r].cont <=> h.pc = "message_dispatch"
            /\ ~runs'[r].answered /\ runs'[r].hook = None /\ runs'[r].end = None
        BY <2>1, <2>5, <3>3 DEF NotStarted
      <3>5. UNCHANGED <<tasks, mail>>
        BY <2>1 DEF Dispatch
      <3> QED
        BY <2>3, <2>2, <3>2, <3>3, <3>4, <3>5 DEF Launches
    <2> QED
      BY <2>1, <2>4, <2>5 DEF Dispatch, HandlerEffect
  <1>15. CASE StartAck(c) \/ MessageAck(c)
    <2>1. PICK s \in {"dispatched", "continuing"} :
             /\ TransitionTask(t, AskWithProcess(s, h.run))
             /\ AskWithProcess(s, h.run) \in Requests
      BY <1>1, <1>15, AskedRequests DEF StartAck, MessageAck, At, HandlerOK
    <2>2. /\ h.pc \in Acknowledging /\ h.pc # "idle" /\ ctl'[c] = Idle
          /\ UNCHANGED <<runs, mail>>
      BY <1>1, <1>15 DEF StartAck, MessageAck, At, Return, Acknowledging
    <2>3. ~Terminal(AskWithProcess(s, h.run))
      BY NamedInRequests DEF Terminal, TerminalTaskStatuses, FinalTaskStatuses,
                             RecoverableTerminalTaskStatuses
    <2>4. \A u \in Tasks : /\ Open(tasks[u]) => Open(tasks'[u])
                           /\ tasks'[u].worker = tasks[u].worker
                           /\ tasks'[u].proc # tasks[u].proc => u = t /\ tasks'[u].proc = h.run
                           /\ u # t => tasks'[u] = tasks[u]
                           /\ tasks'[u].status = "stopping" => tasks[u].status = "stopping"
      BY <1>4, <2>1, <2>2, <2>3, NamedInRequests
    <2>5. h.run # NoRunner /\ t \in Tasks
      BY <1>1, <2>2, RunnersAssumption DEF HandlerOK, Acknowledging
    <2>6. tasks[t].status # "stopping" => ~Open(tasks'[t]) \/ tasks'[t].proc # NoRunner
      BY <1>4, <2>1, <2>2, <2>5, NamedInRequests
    <2>7. tasks'[t].status = "cancelled" => tasks'[t] = tasks[t]
      <3>1. ASSUME tasks[t].status # "cancelled" PROVE tasks'[t].status # "cancelled"
        BY <1>4, <2>1, <2>2, <3>1, NamedInRequests
      <3>2. ASSUME tasks[t].status = "cancelled" PROVE tasks'[t] = tasks[t]
        <4>1. Final(tasks[t])
          BY <3>2 DEF Final, Resumable, FinalTaskStatuses, RecoverableTerminalTaskStatuses
        <4>2. LedgerCall(t)
          BY <2>1 DEF LedgerCall
        <4> QED
          BY <2>5, <4>1, <4>2, RowsOfOthersStay
      <3> QED
        BY <3>1, <3>2
    <2> QED
      BY <2>2, <2>4, <2>6, <2>7 DEF HandlerEffect, Acknowledges
  <1>16. CASE StartFail(c) \/ MessageUndo(c) \/ CancelConfirm(c) \/ NotifyWrite(c)
    <2>1. PICK p \in Requests : /\ TransitionTask(t, p)
                                /\ p.proc = NoRunner /\ p.worker = NoRunner
                                /\ Terminal(p)
                                /\ h.pc = "cancel_confirm" => p.status = "cancelled"
                                /\ h.pc = "notify_write" => p.status = h.want
                                /\ h.pc \notin {"cancel_confirm", "notify_write"} =>
                                      p.status # "cancelled"
      BY <1>1, <1>16, AskedRequests, NamedInRequests
         DEF StartFail, MessageUndo, CancelConfirm, NotifyWrite, At, HandlerOK, Terminal,
             TerminalTaskStatuses, FinalTaskStatuses, RecoverableTerminalTaskStatuses
    <2>2. /\ h.pc \in {"start_fail", "message_undo", "cancel_confirm", "notify_write"}
          /\ ctl'[c] = Idle /\ UNCHANGED <<runs, mail>>
      BY <1>1, <1>16 DEF StartFail, MessageUndo, CancelConfirm, NotifyWrite, At, Return
    <2>3. \A u \in Tasks : /\ tasks'[u].proc = tasks[u].proc
                           /\ tasks'[u].worker = tasks[u].worker
                           /\ Open(tasks[u]) /\ ~Open(tasks'[u]) =>
                                /\ u = t
                                /\ h.pc = "cancel_confirm" => tasks'[u].status = "cancelled"
                                /\ h.pc = "notify_write" => tasks'[u].status = h.want
                           /\ tasks'[u].status = "cancelled" /\ tasks[u].status # "cancelled" =>
                                \/ h.pc = "cancel_confirm"
                                \/ h.pc = "notify_write" /\ h.want = "cancelled"
                           /\ Open(tasks'[u]) => Open(tasks[u])
                           /\ IF u = t THEN ~Open(tasks'[u]) ELSE tasks'[u] = tasks[u]
      BY <1>4, <2>1, <2>2
    <2> QED
      BY <2>2, <2>3 DEF HandlerEffect, Concludes
  <1>17. CASE MessageNote(c)
    <2>1. h.pc = "message_note" /\ t \in Tasks /\ h.key \in NoteKeys /\ UNCHANGED <<runs, mail>>
      BY <1>1, <1>17 DEF MessageNote, At, HandlerOK
    <2>2. \A u \in Tasks : /\ Kept(u) /\ tasks'[u].status = tasks[u].status
                            /\ (Open(tasks'[u]) => Open(tasks[u]))
      <3>1. CASE UNCHANGED ledgerVars
        BY <3>1 DEF ledgerVars, Kept
      <3>2. CASE AddAgentTaskNote(t, h.key)
        <4>1. tasks'[t] = Touched(tasks[t]) /\ \A u \in Tasks \ {t} : tasks'[u] = tasks[u]
          BY <1>1, <2>1, <3>2 DEF AddAgentTaskNote
        <4>2. tasks[t] \in TaskRecords
          BY <1>1, <2>1
        <4>3. /\ Kept(t) /\ tasks'[t].status = tasks[t].status
              /\ (Open(tasks'[t]) => Open(tasks[t]))
          BY <4>1, <4>2 DEF Touched, Kept, TaskRecords, Open, Terminal
        <4> QED
          BY <4>1, <4>3 DEF Kept
      <3> QED
        BY <1>17, <3>1, <3>2 DEF MessageNote
    <2>3. q = Idle \/ (q.pc = "message_claim" /\ SameTask(c))
      <3>1. CASE Return(c)
        BY <1>1, <3>1 DEF Return
      <3>2. CASE ctl' = [ctl EXCEPT ![c].pc = "message_claim", ![c].want = tasks[t].status]
        <4>1. q = [h EXCEPT !.pc = "message_claim", !.want = tasks[t].status]
          BY <1>1, <3>2
        <4> QED
          BY <1>1, <4>1 DEF HandlerRecords, SameTask
      <3> QED
        BY <1>17, <3>1, <3>2 DEF MessageNote
    <2>4. Minds(c) /\ \A u \in Tasks : ~HandlerOwns(c, u) /\ ~HandlerOwns(c, u)'
      BY <1>3, <2>1, <2>2, <2>3 DEF Minds, HandlerOwns, Acknowledging
    <2> QED
      BY <1>3, <2>1, <2>2, <2>3, <2>4
         DEF HandlerEffect, Proceeds, Acknowledging, Confirming
  <1>18. CASE MessageClaim(c)
    <2>1. h.pc = "message_claim" /\ t \in Tasks /\ UNCHANGED <<runs, mail>>
      BY <1>1, <1>18 DEF MessageClaim, At, HandlerOK
    <2>2. CASE Resumable(tasks[t])
      <3>1. ClaimTaskContinuation(t) /\ Goto(c, "message_dispatch")
        BY <1>18, <2>2 DEF MessageClaim, Row
      <3>2. tasks'[t] = Continued /\ \A u \in Tasks \ {t} : tasks'[u] = tasks[u]
        BY <1>1, <2>1, <3>1 DEF ClaimTaskContinuation
      <3>3. /\ tasks'[t].proc = NoRunner /\ tasks'[t].worker = NoRunner
            /\ tasks'[t].status = "continuing"
        BY <3>2 DEF Continued, NoTask
      <3>4. q = [h EXCEPT !.pc = "message_dispatch"]
        BY <1>1, <3>1 DEF Goto
      <3>5. q.pc = "message_dispatch" /\ q.task = t /\ SameTask(c)
        BY <1>1, <3>4 DEF HandlerRecords, SameTask
      <3> QED
        BY <2>1, <2>2, <3>2, <3>3, <3>5 DEF HandlerEffect, Claims, HandlerOwns
    <2>3. CASE ~Resumable(tasks[t])
      BY <1>7, <1>18, <2>1, <2>3
         DEF MessageClaim, Row, ledgerVars, HandlerOwns, Acknowledging
    <2> QED
      BY <2>2, <2>3
  <1>19. CASE CancelRequest(c)
    <2>1. /\ h.pc = "cancel_request" /\ UNCHANGED <<runs, mail>>
          /\ TransitionTask(t, Ask("stopping", "plain"))
      BY <1>19 DEF CancelRequest, At
    <2>2. \A u \in Tasks : Kept(u) /\ tasks'[u].status \in {tasks[u].status, "stopping"}
      <3>1. Ask("stopping", "plain") \in Requests
        BY AskedRequests
      <3>2. ~Terminal(Ask("stopping", "plain"))
        BY NamedInRequests DEF Terminal, TerminalTaskStatuses, FinalTaskStatuses,
                               RecoverableTerminalTaskStatuses
      <3> QED
        BY <1>4, <2>1, <3>1, <3>2, NamedInRequests DEF Kept
    <2>3. /\ \A u \in Tasks \ {t} : tasks'[u] = tasks[u]
          /\ t \in Tasks /\ h.task = t
      BY <1>4, <2>1, AskedRequests
    <2>4. \/ q = Idle
          \/ q.pc = "cancel_kill" /\ SameTask(c) /\ tasks'[q.task].status = "stopping"
      <3>1. CASE Return(c)
        BY <1>1, <3>1 DEF Return
      <3>2. CASE Goto(c, "cancel_kill") /\ tasks'[t].status = "stopping"
        <4>1. q = [h EXCEPT !.pc = "cancel_kill"]
          BY <1>1, <3>2 DEF Goto
        <4>2. q.pc = "cancel_kill" /\ q.task = t /\ q.run = h.run
          BY <1>1, <4>1 DEF HandlerRecords
        <4> QED
          BY <3>2, <4>2 DEF SameTask
      <3> QED
        BY <1>19, <3>1, <3>2 DEF CancelRequest
    <2>5. Possible("retry") => Minds(c)
      BY <1>3, <2>1, <2>4, <2>3 DEF Attended, Minds, HandlerOwns, Acknowledging
    <2>6. \A u \in Tasks : ~HandlerOwns(c, u)'
      BY <1>3, <2>4 DEF HandlerOwns
    <2> QED
      BY <1>3, <2>1, <2>2, <2>4, <2>5, <2>6
         DEF HandlerEffect, Proceeds, Acknowledging, Confirming
  <1>20. CASE CancelKill(c)
    <2> DEFINE r == h.run
    <2>1. h.pc = "cancel_kill" /\ r \in Runners /\ UNCHANGED tasks
      BY <1>1, <1>20 DEF CancelKill, At, HandlerOK, ledgerVars
    <2>2. CASE Return(c) /\ UNCHANGED <<runs, lock, mail>>
      BY <1>7, <2>1, <2>2 DEF HandlerOwns, Acknowledging
    <2>3. ASSUME /\ Live(r)
                 /\ runs' = [runs EXCEPT ![r].pc = "over", ![r].end = "error", ![r].want = None,
                               ![r].turn = IF Working(r) THEN "killed" ELSE @, ![r].hook = None]
                 /\ mail' = [mail EXCEPT ![r] = "error"]
                 /\ Goto(c, "cancel_confirm")
          PROVE  Kills(c)
      <3>1. runs[r] \in RunRecords
        BY <1>1, <2>1
      <3>2. runs'[r].turn = IF Working(r) THEN "killed" ELSE runs[r].turn
        BY <1>1, <2>1, <2>3, <3>1 DEF RunRecords
      <3>3. /\ runs'[r].pc = "over" /\ runs'[r].task = runs[r].task
            /\ runs'[r].cont = runs[r].cont
            /\ \A s \in Runners \ {r} : runs'[s] = runs[s] /\ mail'[s] = mail[s]
        BY <1>1, <2>1, <2>3, <3>1 DEF RunRecords
      <3>4. q = [h EXCEPT !.pc = "cancel_confirm"]
        BY <1>1, <2>3 DEF Goto
      <3>5. q.pc = "cancel_confirm" /\ SameTask(c)
        BY <1>1, <3>4 DEF HandlerRecords, SameTask
      <3> QED
        BY <2>1, <2>3, <3>3, <3>5, <3>2 DEF Kills
    <2> QED
      BY <1>20, <2>2, <2>3 DEF CancelKill, HandlerEffect
  <1>21. CASE NotifySettle(c)
    <2>1. h.pc = "notify_settle" /\ UNCHANGED <<tasks, runs, mail>>
      BY <1>21 DEF NotifySettle, At
    <2>2. CASE Return(c)
      BY <1>7, <2>1, <2>2 DEF HandlerOwns, Acknowledging
    <2>3. ASSUME NEW end \in {h.want, "unknown"}, Settles(Row(c), end),
                 ctl' = [ctl EXCEPT ![c].pc = "notify_write",
                                    ![c].want = SettledStatus(Row(c), end)]
          PROVE  HandlerEffect(c)
      <3>1. q = [h EXCEPT !.pc = "notify_write", !.want = SettledStatus(Row(c), end)]
        BY <1>1, <2>3
      <3>2. /\ q.pc = "notify_write" /\ q.task = h.task /\ SameTask(c)
            /\ q.want = SettledStatus(Row(c), end)
        BY <1>1, <3>1 DEF HandlerRecords, SameTask
      <3> QED
        BY <1>8, <2>1, <2>3, <3>2
           DEF HandlerEffect, Proceeds, HandlerOwns, Acknowledging, Confirming
    <2> QED
      BY <1>21, <2>2, <2>3 DEF NotifySettle
  <1>22. ASSUME NEW r \in Runners, NotifyFind(c, r) PROVE HandlerEffect(c)
    <2>1. /\ h.pc = "idle" /\ UNCHANGED <<tasks, runs>> /\ Possible("notify") /\ mail[r] # None
          /\ \A s \in Runners : mail'[s] \in {mail[s], None}
      BY <1>1, <1>22 DEF NotifyFind, At
    <2>2. CASE UNCHANGED ctl
      BY <2>1, <2>2
         DEF HandlerEffect, Proceeds, Minds, Kept, HandlerOwns, Acknowledging, Confirming,
             SameTask
    <2>3. ASSUME NEW u \in Tasks, tasks[u].proc = r,
                 ctl' = [ctl EXCEPT ![c] = [Idle EXCEPT !.pc = "notify_settle", !.task = u,
                                                        !.want = mail[r]]]
          PROVE  HandlerEffect(c)
      <3>1. /\ q.pc = "notify_settle" /\ q.task = u /\ q.run = NoRunner
            /\ q.want = mail[r]
        BY <1>1, <2>3 DEF Idle
      <3> QED
        BY <1>8, <2>1, <2>3, <3>1
           DEF HandlerEffect, Proceeds, HandlerOwns, Acknowledging, Confirming
    <2> QED
      BY <1>22, <2>2, <2>3 DEF NotifyFind
  <1>23. CASE ControllerCrash(c)
    BY <1>7, <1>23 DEF ControllerCrash, Orderly
  <1> QED
    BY <1>10, <1>11, <1>12, <1>13, <1>14, <1>15, <1>16, <1>17, <1>18, <1>19, <1>20, <1>21,
       <1>22, <1>23 DEF HandlerActs, ControllerCall, ControllerStep, HandlerRaises, Orderly

----------------------------------------------------------------------------
(* Ownership.  Notifications carry the end of a run to a handler that settles *)
(* the task with it, whoever works on the task by then: with one session that *)
(* is nobody.                                                                *)

OwnedIsOpen == \A t \in Tasks : Owned(t) => Open(tasks[t])

OneOwner ==
    \A t \in Tasks :
        /\ \A c, d \in Controllers : HandlerOwns(c, t) /\ HandlerOwns(d, t) => c = d
        /\ \A r, s \in Runners : RunnerOwns(r, t) /\ RunnerOwns(s, t) => r = s
        /\ \A c \in Controllers, r \in Runners : ~(HandlerOwns(c, t) /\ RunnerOwns(r, t))

Stopped(row) == row.status = "stopping" \/ Final(row)

\* A handler that records the end of a run has seen it end.
ConfirmedBy(c) ==
    \A t \in Tasks : ctl[c].task = t =>
        /\ ctl[c].pc \in Confirming => OneSession /\ ~Owned(t)
        /\ ctl[c].pc = "cancel_confirm" => ~Owned(t) /\ Stopped(tasks[t])
        /\ ctl[c].pc = "cancel_kill" =>
             \A r \in Runners : ctl[c].run = r /\ Live(r) => tasks[t].status = "stopping"

Confirmed == \A c \in Controllers : ConfirmedBy(c)

RunOf(r, t) == r \in Runners /\ runs[r].pc # "unused" /\ runs[r].task = t

\* A row and a handler name runs of their task only.
Named ==
    /\ \A t \in Tasks : /\ tasks[t].proc # NoRunner => RunOf(tasks[t].proc, t)
                        /\ tasks[t].worker # NoRunner => RunOf(tasks[t].worker, t)
    /\ \A c \in Controllers : ctl[c].run # NoRunner => RunOf(ctl[c].run, ctl[c].task)

\* With one session, the row of a task with an owner names no other process.
OwnerNamed ==
    /\ \A r \in Runners : mail[r] # None => runs[r].pc = "over"
    /\ OneSession =>
         \A t \in Tasks :
             /\ \A r \in Runners : RunnerOwns(r, t) => tasks[t].proc \in {NoRunner, r}
             /\ \A c \in Controllers : HandlerOwns(c, t) => tasks[t].proc = NoRunner
             /\ \A c \in Controllers, r \in Runners :
                    /\ ctl[c].pc \in Acknowledging /\ ctl[c].task = t
                    /\ RunnerOwns(r, t)
                    => r = ctl[c].run

Ownership == OwnedIsOpen /\ OneOwner /\ Confirmed /\ Named /\ OwnerNamed /\ Attended

\* What a step that makes nobody an owner has to keep.
NoNewOwner ==
    \A t \in Tasks :
        /\ \A c \in Controllers : HandlerOwns(c, t)' => HandlerOwns(c, t)
        /\ \A r \in Runners : RunnerOwns(r, t)' => RunnerOwns(r, t)

\* An effect that gives no row an owner and finishes no owned row keeps the
\* ownership.
LEMMA OwnersKept ==
    ASSUME OwnedIsOpen, OneOwner, NoNewOwner,
           \A t \in Tasks : Open(tasks[t]) => Open(tasks'[t]) \/ ~Owned(t)'
    PROVE  /\ OwnedIsOpen' /\ OneOwner'
           /\ \A t \in Tasks : Owned(t)' => Owned(t)
  <1>1. \A t \in Tasks : Owned(t)' => Owned(t)
    BY DEF NoNewOwner, Owned
  <1>2. OneOwner'
    BY DEF NoNewOwner, OneOwner
  <1>3. OwnedIsOpen'
    BY <1>1 DEF OwnedIsOpen
  <1> QED
    BY <1>1, <1>2, <1>3

\* A stopping or final row stays one, unless it gets an outcome that can be
\* continued.
LEMMA StoppedStays ==
    ASSUME LedgerInv, UNCHANGED ledgerVars \/ \E t \in Tasks : LedgerCall(t),
           NEW u \in Tasks, Stopped(tasks[u])
    PROVE  /\ (Open(tasks[u]) => Open(tasks'[u]) \/ tasks'[u].status = "cancelled")
              => Stopped(tasks'[u])
           /\ tasks[u].status = "stopping" /\ Open(tasks'[u]) => tasks'[u].status = "stopping"
  <1>1. /\ Final(tasks[u]) => tasks'[u] = tasks[u]
        /\ tasks[u].status = "stopping" =>
             tasks'[u].status = "stopping" \/ Terminal(tasks'[u])
    BY RowsOfOthersStay DEF ledgerVars
  <1>2. tasks'[u].status = "cancelled" => Final(tasks'[u])
    BY DEF Final, Resumable, FinalTaskStatuses, RecoverableTerminalTaskStatuses
  <1>3. tasks[u].status = "stopping" => Open(tasks[u])
    BY DEF Open, Terminal, TerminalTaskStatuses, FinalTaskStatuses,
           RecoverableTerminalTaskStatuses
  <1> QED
    BY <1>1, <1>2, <1>3 DEF Stopped, Open

\* A run that left no turn behind acts only while it lives.
LEMMA OnlyLiveRunsAct ==
    ASSUME BridgeTyped, TurnsAreRun, NEW r \in Runners, ~runs[r].left, RunActs(r)
    PROVE  Live(r)
  <1>1. RunOK(runs[r]) /\ (Working(r) => runs[r].pc = "run")
    BY DEF BridgeTyped, TurnsAreRun
  <1>2. runs[r].hook # None => Working(r)
    BY <1>1 DEF RunOK, Working
  <1>3. CASE BotStep(r) \/ BotHookRaises(r)
    <2>1. Working(r)
      BY <1>2, <1>3
         DEF BotStep, BotEnters, BotEndsUnobserved, BotExits, BotBind, BotActivity, BotUpdate,
             BotInbox, BotFinal, BotAbort, BotHookRaises, Between, Working, None
    <2> QED
      BY <1>1, <2>1 DEF Live
  <1> QED
    BY <1>3 DEF RunActs, RunnerStep, RunnerAcquire, RunnerPopen, RunnerCancelled, RunnerReap,
                RunnerSettle, RunnerWrite, RunnerBusy, RunnerRaises, RunnerForgets, RunnerCrash,
                Live

TurnsOfRetries == Possible("retry") => TurnsAreRun /\ NoneLeft

\* While calls are repeated no runner is killed and every stop succeeds, so a run
\* acts on a task it owns: nothing it does reopens a row, or has a repeated call
\* start it anew.
LEMMA RunsReopenNothing ==
    ASSUME BridgeTyped, LedgerInv, OwnedIsOpen, TurnsOfRetries,
           NEW r \in Runners, RunActs(r)
    PROVE  /\ Possible("retry") => \A u \in Tasks : Open(tasks'[u]) => Open(tasks[u])
           /\ \A c \in Controllers, u \in Tasks : HandlerOwns(c, u)' => HandlerOwns(c, u)
  <1> DEFINE t == runs[r].task
  <1>1. /\ ctl' = ctl /\ t \in Tasks
        /\ \A u \in Tasks : /\ u # t => tasks'[u] = tasks[u]
                            /\ tasks'[u].proc = tasks[u].proc
    BY RunEffects
  <1>2. Possible("retry") => RunnerOwns(r, t)
    BY OnlyLiveRunsAct DEF RunnerOwns, TurnsOfRetries, NoneLeft
  <1>3. Possible("retry") => Open(tasks[t])
    BY <1>1, <1>2 DEF OwnedIsOpen, Owned
  <1>4. \A u \in Tasks : Possible("retry") /\ StartsAnew(tasks'[u]) => StartsAnew(tasks[u])
    BY <1>1, <1>3 DEF StartsAnew, Open
  <1> QED
    BY <1>1, <1>3, <1>4 DEF HandlerOwns, Possible

\* A run and its Bot turn only ever give a task up.
LEMMA RunsKeepOwnership ==
    ASSUME BridgeTyped, LedgerInv, Ownership, TurnsOfRetries,
           NEW r \in Runners, RunActs(r)
    PROVE  Ownership'
  <1> DEFINE t == runs[r].task
  <1>1. /\ ctl' = ctl
        /\ runs[r].pc # "unused" /\ t \in Tasks
        /\ \A s \in Runners : /\ runs'[s].task = runs[s].task
                              /\ runs'[s].pc = "unused" <=> runs[s].pc = "unused"
                              /\ Live(s)' => Live(s)
                              /\ mail'[s] = mail[s] \/ runs'[s].pc = "over"
                              /\ s # r => runs'[s] = runs[s]
        /\ \A u \in Tasks : /\ u # t => tasks'[u] = tasks[u]
                            /\ tasks'[u].proc = tasks[u].proc
                            /\ tasks'[u].worker # tasks[u].worker =>
                                 u = t /\ tasks'[u].worker = r
                            /\ Open(tasks[u]) => \/ Open(tasks'[u])
                                                 \/ u = t /\ Live(r) /\ ~Live(r)'
                            /\ tasks'[u].status = "stopping" => tasks[u].status = "stopping"
    BY RunEffects
  <1>2. OwnedIsOpen /\ OneOwner /\ Confirmed /\ Named /\ OwnerNamed /\ Attended
    BY DEF Ownership
  <1>3. Possible("retry") => \A u \in Tasks : Open(tasks'[u]) => Open(tasks[u])
    BY <1>2, RunsReopenNothing
  <1>4. \A c \in Controllers, u \in Tasks : HandlerOwns(c, u)' => HandlerOwns(c, u)
    BY <1>2, RunsReopenNothing
  <1>5. NoNewOwner
    BY <1>1, <1>4 DEF NoNewOwner, RunnerOwns
  <1>6. \A u \in Tasks : Open(tasks[u]) => Open(tasks'[u]) \/ (RunnerOwns(r, u) /\ ~Owned(u)')
    BY <1>1, <1>2, <1>5 DEF RunnerOwns, Owned, OneOwner, NoNewOwner
  <1>7. /\ OwnedIsOpen' /\ OneOwner'
        /\ \A u \in Tasks : Owned(u)' => Owned(u)
    BY <1>2, <1>5, <1>6, OwnersKept
  <1>8. Named'
    BY <1>1, <1>2 DEF Named, RunOf
  <1>9. \A u \in Tasks : Stopped(tasks[u]) =>
            /\ ~Owned(u) => Stopped(tasks'[u])
            /\ tasks[u].status = "stopping" /\ Open(tasks'[u]) => tasks'[u].status = "stopping"
    BY <1>6, RunsCall, StoppedStays DEF Owned
  <1>10. Confirmed'
    <2>1. ASSUME NEW c \in Controllers, NEW u \in Tasks, ctl[c].task = u,
                 ctl[c].pc = "cancel_kill", NEW s \in Runners, ctl[c].run = s, Live(s)'
          PROVE  tasks'[u].status = "stopping"
      <3>1. tasks[u].status = "stopping"
        BY <1>1, <1>2, <2>1 DEF Confirmed, ConfirmedBy
      <3>2. RunnerOwns(s, u)'
        BY <1>1, <1>2, <2>1, RunnersAssumption DEF Named, RunOf, RunnerOwns
      <3>3. Open(tasks'[u])
        BY <1>7, <3>2 DEF OwnedIsOpen, Owned
      <3> QED
        BY <1>9, <3>1, <3>3 DEF Stopped
    <2> QED
      BY <1>1, <1>2, <1>7, <1>9, <2>1 DEF Confirmed, ConfirmedBy, OneSession
  <1>11. OwnerNamed'
    <2>1. \A s \in Runners : mail'[s] # None => runs'[s].pc = "over"
      BY <1>1, <1>2 DEF OwnerNamed, Live
    <2>2. \A s \in Runners, u \in Tasks : RunnerOwns(s, u)' => RunnerOwns(s, u)
      BY <1>5 DEF NoNewOwner
    <2> QED
      BY <1>1, <1>2, <1>4, <2>1, <2>2 DEF OwnerNamed, OneSession
  <1>12. Attended'
    <2>1. ASSUME Possible("retry"), NEW c \in Controllers, NEW u \in Tasks
          PROVE  /\ Attends(c, u)' => Attends(c, u)
                 /\ Attends(c, u) /\ Open(tasks'[u]) /\ tasks'[u].proc = NoRunner => Attends(c, u)'
      BY <1>1, <1>4, <2>1 DEF Attends, HandlerOwns, StartsAnew, Open
    <2> QED
      BY <1>1, <1>2, <1>3, <2>1 DEF Attended, Possible
  <1> QED
    BY <1>7, <1>8, <1>10, <1>11, <1>12 DEF Ownership

\* The only session there is leaves no task on the way to its first runner.
LEMMA HandlersKeepAttended ==
    ASSUME Orderly, BridgeTyped, LedgerInv, NewRows, Attended,
           NEW c \in Controllers, HandlerActs(c)
    PROVE  Attended'
  <1> DEFINE t == ctl[c].task
             q == ctl'[c]
  <1> SUFFICES ASSUME Possible("retry"), NEW u \in Tasks
               PROVE  /\ Open(tasks'[u]) /\ tasks'[u].proc = NoRunner => Attends(c, u)'
                      /\ Attends(c, u)' => tasks'[u].status # "stopping"
                      /\ q.pc = "cancel_request" /\ q.task = u => tasks'[u].proc # NoRunner
    BY DEF Attended, Possible, Orderly, OneSession
  <1>1. HandlerEffect(c)
    BY HandlerEffects
  <1>2. /\ Open(tasks[u]) /\ tasks[u].proc = NoRunner => Attends(c, u)
        /\ Attends(c, u) => tasks[u].status # "stopping"
    BY DEF Attended, Orderly, OneSession
  <1>3. /\ Attends(c, u) => t = u
        /\ Attends(c, u)' => q.task = u
    BY DEF Attends, HandlerOwns
  <1>4. Idle.pc = "idle"
    BY DEF Idle
  <1>5. CASE Claims(c)
    <2>1. PICK v \in Tasks :
             /\ ctl[c].pc \in {"idle", "message_claim"}
             /\ tasks'[v].status \in {"dispatching", "continuing"}
             /\ \A w \in Tasks \ {v} : tasks'[w] = tasks[w]
             /\ q.task = v /\ HandlerOwns(c, v)'
      BY <1>5 DEF Claims
    <2>2. ~Attends(c, u) /\ q.pc # "cancel_request" /\ Attends(c, v)'
      BY <2>1 DEF Attends, HandlerOwns, Acknowledging
    <2> QED
      BY <1>2, <1>3, <2>1, <2>2
  <1>6. CASE Launches(c)
    <2>1. /\ HandlerOwns(c, t) /\ q.task = t /\ q.pc \in Acknowledging
          /\ tasks' = tasks
      BY <1>6 DEF Launches
    <2>2. Attends(c, t) /\ (t = u => Attends(c, u)')
      BY <2>1 DEF Attends
    <2> QED
      BY <1>2, <1>3, <2>1, <2>2 DEF Acknowledging
  <1>7. CASE Acknowledges(c)
    <2>1. /\ ctl[c].pc \in Acknowledging /\ q.pc = "idle"
          /\ u # t => tasks'[u] = tasks[u]
          /\ u = t /\ tasks[u].status # "stopping" =>
                 ~Open(tasks'[u]) \/ tasks'[u].proc # NoRunner
      BY <1>4, <1>7 DEF Acknowledges
    <2>2. (u = t => Attends(c, u)) /\ ~Attends(c, u)'
      BY <2>1 DEF Attends, HandlerOwns, Acknowledging
    <2> QED
      BY <1>2, <1>3, <2>1, <2>2
  <1>8. CASE Concludes(c)
    <2>1. /\ q.pc = "idle" /\ tasks'[u].proc = tasks[u].proc
          /\ Open(tasks'[u]) => Open(tasks[u])
          /\ u = t => ~Open(tasks'[u])
      BY <1>4, <1>8 DEF Concludes
    <2>2. ~Attends(c, u)'
      BY <2>1 DEF Attends, HandlerOwns, Acknowledging
    <2> QED
      BY <1>2, <1>3, <2>1, <2>2
  <1>9. CASE Kills(c)
    <2>1. ctl[c].pc = "cancel_kill" /\ q.pc = "cancel_confirm" /\ tasks' = tasks
      BY <1>9 DEF Kills
    <2>2. ~Attends(c, u) /\ ~Attends(c, u)'
      BY <2>1 DEF Attends, HandlerOwns, Acknowledging
    <2> QED
      BY <1>2, <2>1, <2>2
  <1>10. CASE Proceeds(c)
    <2>1. /\ q.pc \notin Acknowledging /\ ctl[c].pc \notin Acknowledging
          /\ HandlerOwns(c, u)' <=> HandlerOwns(c, u)
          /\ HandlerOwns(c, u) => tasks'[u] = tasks[u]
          /\ Open(tasks'[u]) /\ tasks[u].proc = NoRunner => Open(tasks[u])
          /\ q.pc = "cancel_request" =>
                 ctl[c].pc = "idle" /\ Open(tasks[q.task]) /\ UNCHANGED tasks
          /\ tasks'[u].proc = tasks[u].proc
      BY <1>10 DEF Proceeds, Minds, Kept
    <2>2. (Attends(c, u) <=> HandlerOwns(c, u)) /\ (Attends(c, u)' <=> HandlerOwns(c, u)')
      BY <2>1 DEF Attends
    <2>3. ctl[c].pc = "idle" => ~HandlerOwns(c, u)
      BY DEF HandlerOwns
    <2> QED
      BY <1>2, <2>1, <2>2, <2>3
  <1> QED
    BY <1>1, <1>5, <1>6, <1>7, <1>8, <1>9, <1>10 DEF HandlerEffect

\* A session takes over only what nobody has, and gives up what it hands on.
LEMMA HandlersKeepOwnership ==
    ASSUME Orderly, BridgeTyped, BridgeTyped', LedgerInv, NewRows, Ownership,
           NEW c \in Controllers, HandlerActs(c)
    PROVE  Ownership'
  <1> DEFINE t == ctl[c].task
             q == ctl'[c]
  <1>1. HandlerEffect(c) /\ \A d \in Controllers \ {c} : ctl'[d] = ctl[d]
    BY HandlerEffects DEF Ownership
  <1>2. OwnedIsOpen /\ OneOwner /\ Confirmed /\ Named /\ OwnerNamed
    BY DEF Ownership
  <1>3. Attended'
    BY HandlersKeepAttended DEF Ownership
  <1>4. \A d \in Controllers \ {c} : \A u : HandlerOwns(d, u)' <=> HandlerOwns(d, u)
    BY <1>1, OthersOwnAsBefore
  <1>5. /\ \A d \in Controllers : /\ ctl[d].pc # "idle" => ctl[d].task \in Tasks
                                  /\ ctl[d].pc \in {"cancel_kill", "start_ack", "message_ack"} =>
                                         ctl[d].run \in Runners
        /\ q.pc # "idle" => q.task \in Tasks
        /\ q.pc = "cancel_kill" => q.run \in Runners
    BY DEF BridgeTyped, HandlerOK
  <1>6. UNCHANGED ledgerVars \/ \E u \in Tasks : LedgerCall(u)
    BY HandlersCall
  <1>7. Idle.pc = "idle" /\ Idle.run = NoRunner
    BY DEF Idle
  \* The other sessions, when nobody becomes an owner.
  <1>8. ASSUME OwnedIsOpen', Named', \A u \in Tasks : Owned(u)' => Owned(u),
               \A s \in Runners : Live(s)' => Live(s),
               NEW d \in Controllers \ {c},
               \A u \in Tasks : Open(tasks[u]) =>
                   \/ Open(tasks'[u]) \/ tasks'[u].status = "cancelled"
                   \/ Owned(u) \/ OneSession
        PROVE  ConfirmedBy(d)'
    <2> SUFFICES ASSUME NEW u \in Tasks, ctl[d].task = u
                 PROVE  /\ ctl[d].pc \in Confirming => OneSession /\ ~Owned(u)'
                        /\ ctl[d].pc = "cancel_confirm" => ~Owned(u)' /\ Stopped(tasks'[u])
                        /\ ctl[d].pc = "cancel_kill" =>
                             \A r \in Runners : ctl[d].run = r /\ Live(r)' =>
                                                    tasks'[u].status = "stopping"
      BY <1>1 DEF ConfirmedBy, OneSession
    <2>1. /\ ctl[d].pc \in Confirming => OneSession /\ ~Owned(u)
          /\ ctl[d].pc = "cancel_confirm" => ~Owned(u) /\ Stopped(tasks[u])
          /\ ctl[d].pc = "cancel_kill" =>
               \A r \in Runners : ctl[d].run = r /\ Live(r) => tasks[u].status = "stopping"
      BY <1>2 DEF Confirmed, ConfirmedBy
    <2>2. ~OneSession
      BY DEF OneSession
    <2>3. ctl[d].pc = "cancel_confirm" => ~Owned(u)' /\ Stopped(tasks'[u])
      BY <1>6, <1>8, <2>1, <2>2, StoppedStays
    <2>4. ASSUME ctl[d].pc = "cancel_kill", NEW r \in Runners, ctl[d].run = r, Live(r)'
          PROVE  tasks'[u].status = "stopping"
      <3>1. RunnerOwns(r, u)'
        BY <1>1, <1>8, <2>4, RunnersAssumption DEF Named, RunOf, RunnerOwns
      <3>2. Open(tasks'[u])
        BY <1>8, <3>1 DEF OwnedIsOpen, Owned
      <3> QED
        BY <1>6, <1>8, <2>1, <2>4, <3>2, StoppedStays DEF Stopped
    <2> QED
      BY <2>1, <2>2, <2>3, <2>4
  <1>9. CASE Claims(c)
    <2>1. PICK u \in Tasks :
             /\ tasks[u].status = "absent" \/ Resumable(tasks[u])
             /\ tasks'[u].proc = NoRunner /\ tasks'[u].worker = NoRunner
             /\ tasks'[u].status \in {"dispatching", "continuing"}
             /\ \A v \in Tasks \ {u} : tasks'[v] = tasks[v]
             /\ q.task = u /\ HandlerOwns(c, u)'
             /\ SameTask(c) \/ q.run = NoRunner
             /\ UNCHANGED <<runs, mail>>
      BY <1>9 DEF Claims
    <2>2. ~Open(tasks[u]) /\ ~Stopped(tasks[u]) /\ Open(tasks'[u])
      BY <2>1 DEF Open, Stopped, Terminal, Final, Resumable, TerminalTaskStatuses,
                  FinalTaskStatuses, RecoverableTerminalTaskStatuses
    <2>3. /\ ~Owned(u)
          /\ \A v \in Tasks, d \in Controllers : HandlerOwns(d, v)' <=>
                IF d = c THEN v = u ELSE HandlerOwns(d, v)
          /\ \A v \in Tasks, r \in Runners : /\ RunnerOwns(r, v)' <=> RunnerOwns(r, v)
                                             /\ Live(r)' <=> Live(r)
                                             /\ RunOf(r, v)' <=> RunOf(r, v)
      BY <1>1, <1>4, <1>2, <2>1, <2>2 DEF OwnedIsOpen, HandlerOwns, RunnerOwns, Live, RunOf
    <2>4. OneOwner'
      BY <1>2, <2>3 DEF OneOwner, Owned
    <2>5. OwnedIsOpen'
      BY <1>2, <2>1, <2>2, <2>3 DEF OwnedIsOpen, Owned
    <2>6. Confirmed'
      <3>1. ConfirmedBy(c)'
        BY <2>1, <2>3 DEF ConfirmedBy, HandlerOwns, Confirming
      <3>2. ASSUME NEW d \in Controllers \ {c} PROVE ConfirmedBy(d)'
        <4>1. \A v \in Tasks : v # u => (Owned(v)' => Owned(v))
          BY <2>3, <3>2 DEF Owned
        <4>2. ConfirmedBy(d) /\ ~OneSession
          BY <1>2, <3>2 DEF Confirmed, OneSession
        <4> QED
          BY <1>1, <2>1, <2>2, <2>3, <3>2, <4>1, <4>2 DEF ConfirmedBy, Stopped
      <3> QED
        BY <3>1, <3>2 DEF Confirmed
    <2>7. Named'
      <3>1. \A v \in Tasks : /\ tasks'[v].proc # NoRunner => RunOf(tasks'[v].proc, v)
                             /\ tasks'[v].worker # NoRunner => RunOf(tasks'[v].worker, v)
        BY <1>2, <2>1 DEF Named
      <3>2. \A d \in Controllers :
               ctl'[d].run # NoRunner => RunOf(ctl'[d].run, ctl'[d].task)
        BY <1>1, <1>2, <2>1 DEF Named, SameTask
      <3> QED
        BY <2>1, <3>1, <3>2 DEF Named, RunOf
    <2>8. OwnerNamed'
      BY <1>1, <1>4, <1>2, <2>1, <2>3
         DEF OwnerNamed, Owned, OneSession, HandlerOwns, Acknowledging
    <2> QED
      BY <1>3, <2>4, <2>5, <2>6, <2>7, <2>8 DEF Ownership
  <1>10. CASE Launches(c)
    <2>1. PICK r \in Runners :
             /\ HandlerOwns(c, t)
             /\ q.pc \in Acknowledging /\ q.task = t /\ q.run = r
             /\ runs[r].pc = "unused" /\ runs'[r].pc = "lock" /\ runs'[r].task = t
             /\ \A s \in Runners \ {r} : runs'[s] = runs[s]
             /\ UNCHANGED <<tasks, mail>>
      BY <1>10 DEF Launches
    <2>2. /\ t \in Tasks
          /\ \A v \in Tasks, d \in Controllers :
                HandlerOwns(d, v)' <=> d # c /\ HandlerOwns(d, v)
          /\ \A v \in Tasks, s \in Runners :
                /\ RunnerOwns(s, v)' <=> RunnerOwns(s, v) \/ (s = r /\ v = t)
                /\ RunOf(s, v) => RunOf(s, v)'
                /\ s # r => (Live(s)' <=> Live(s))
      BY <1>1, <1>4, <1>5, <2>1 DEF HandlerOwns, RunnerOwns, Acknowledging, Live, RunOf
    <2>3. \A v \in Tasks : Owned(v)' => Owned(v)
      BY <2>1, <2>2 DEF Owned
    <2>4. OneOwner'
      BY <1>2, <2>1, <2>2 DEF OneOwner
    <2>5. OwnedIsOpen'
      BY <1>2, <2>1, <2>3 DEF OwnedIsOpen
    <2>6. Confirmed'
      <3>1. ConfirmedBy(c)'
        BY <2>1 DEF ConfirmedBy, Acknowledging, Confirming
      <3>2. ASSUME NEW d \in Controllers \ {c} PROVE ConfirmedBy(d)'
        <4>1. ctl[d].run # r
          BY <1>2, <2>1, RunnersAssumption DEF Named, RunOf
        <4>2. ConfirmedBy(d) /\ ~OneSession
          BY <1>2, <3>2 DEF Confirmed, OneSession
        <4> QED
          BY <1>1, <2>1, <2>2, <2>3, <3>2, <4>1, <4>2 DEF ConfirmedBy
      <3> QED
        BY <3>1, <3>2 DEF Confirmed
    <2>7. Named'
      <3>1. RunOf(r, t)'
        BY <2>1 DEF RunOf
      <3>2. \A s \in Runners, v \in Tasks : RunOf(s, v) => RunOf(s, v)'
        BY <2>2
      <3> QED
        BY <1>1, <1>2, <2>1, <3>1, <3>2 DEF Named, RunOf
    <2>8. OwnerNamed'
      <3>1. \A s \in Runners : mail'[s] # None => runs'[s].pc = "over"
        BY <1>2, <2>1 DEF OwnerNamed
      <3> QED
        BY <1>1, <1>4, <1>2, <2>1, <2>2, <3>1
           DEF OwnerNamed, OneOwner, OneSession, HandlerOwns, Acknowledging
    <2> QED
      BY <1>3, <2>4, <2>5, <2>6, <2>7, <2>8 DEF Ownership
  <1>11. CASE Acknowledges(c)
    <2>1. /\ ctl[c].pc \in Acknowledging /\ t \in Tasks /\ q = Idle
          /\ \A u \in Tasks : /\ Open(tasks[u]) => Open(tasks'[u])
                              /\ tasks'[u].worker = tasks[u].worker
                              /\ tasks'[u].proc # tasks[u].proc =>
                                   u = t /\ tasks'[u].proc = ctl[c].run
          /\ UNCHANGED <<runs, mail>>
      BY <1>5, <1>11 DEF Acknowledges, Acknowledging
    <2>2. NoNewOwner
      BY <1>1, <1>4, <1>7, <2>1 DEF NoNewOwner, HandlerOwns, RunnerOwns, Live
    <2>3. /\ OwnedIsOpen' /\ OneOwner'
          /\ \A u \in Tasks : Owned(u)' => Owned(u)
      BY <1>2, <2>1, <2>2, OwnersKept
    <2>4. Named'
      <3>1. \A u \in Tasks : /\ tasks'[u].proc # NoRunner => RunOf(tasks'[u].proc, u)
                             /\ tasks'[u].worker # NoRunner => RunOf(tasks'[u].worker, u)
        BY <1>2, <2>1 DEF Named
      <3>2. \A d \in Controllers :
               ctl'[d].run # NoRunner => RunOf(ctl'[d].run, ctl'[d].task)
        BY <1>1, <1>2, <1>7, <2>1 DEF Named
      <3> QED
        BY <2>1, <3>1, <3>2 DEF Named, RunOf
    <2>5. Confirmed'
      <3>1. ConfirmedBy(c)'
        BY <1>7, <2>1 DEF ConfirmedBy, Confirming
      <3> QED
        BY <1>8, <2>1, <2>3, <2>4, <3>1 DEF Confirmed, Live
    <2>6. OwnerNamed'
      <3>1. \A r \in Runners, u \in Tasks : RunnerOwns(r, u)' <=> RunnerOwns(r, u)
        BY <2>1 DEF RunnerOwns, Live
      <3> QED
        BY <1>1, <1>4, <1>2, <1>7, <2>1, <3>1
           DEF OwnerNamed, OneSession, HandlerOwns, Acknowledging
    <2> QED
      BY <1>3, <2>3, <2>4, <2>5, <2>6 DEF Ownership
  <1>12. CASE Concludes(c)
    <2>1. PICK w \in Tasks :
          /\ ctl[c].pc \in {"start_fail", "message_undo", "cancel_confirm", "notify_write"}
          /\ ctl[c].task = w /\ q = Idle
          /\ \A u \in Tasks :
               /\ tasks'[u].proc = tasks[u].proc /\ tasks'[u].worker = tasks[u].worker
               /\ Open(tasks[u]) /\ ~Open(tasks'[u]) =>
                    /\ u = w
                    /\ ctl[c].pc = "cancel_confirm" => tasks'[u].status = "cancelled"
          /\ UNCHANGED <<runs, mail>>
      BY <1>5, <1>12 DEF Concludes
    <2>2. NoNewOwner
      BY <1>1, <1>4, <1>7, <2>1 DEF NoNewOwner, HandlerOwns, RunnerOwns, Live
    <2>3. /\ ctl[c].pc \in {"start_fail", "message_undo"} => HandlerOwns(c, w)
          /\ ctl[c].pc = "notify_write" => OneSession
          /\ ctl[c].pc \in {"cancel_confirm", "notify_write"} => ~Owned(w)
      BY <1>2, <2>1 DEF HandlerOwns, Confirmed, ConfirmedBy, Confirming
    <2>4. ~Owned(w)'
      <3>1. ~HandlerOwns(c, w)'
        BY <1>7, <2>1 DEF HandlerOwns
      <3> QED
        BY <1>2, <2>1, <2>2, <2>3, <3>1 DEF Owned, NoNewOwner, OneOwner
    <2>5. /\ OwnedIsOpen' /\ OneOwner'
          /\ \A u \in Tasks : Owned(u)' => Owned(u)
      BY <1>2, <2>1, <2>2, <2>4, OwnersKept
    <2>6. Named'
      BY <1>1, <1>2, <1>7, <2>1 DEF Named, RunOf
    <2>7. Confirmed'
      <3>1. ConfirmedBy(c)'
        BY <1>7, <2>1 DEF ConfirmedBy, Confirming
      <3>2. \A u \in Tasks : Open(tasks[u]) =>
                \/ Open(tasks'[u]) \/ tasks'[u].status = "cancelled"
                \/ Owned(u) \/ OneSession
        BY <2>1, <2>3 DEF Owned
      <3> QED
        BY <1>8, <2>1, <2>5, <2>6, <3>1, <3>2 DEF Confirmed, Live
    <2>8. OwnerNamed'
      <3>1. \A r \in Runners, u \in Tasks : RunnerOwns(r, u)' <=> RunnerOwns(r, u)
        BY <2>1 DEF RunnerOwns, Live
      <3> QED
        BY <1>1, <1>4, <1>2, <1>7, <2>1, <3>1
           DEF OwnerNamed, OneSession, HandlerOwns, Acknowledging
    <2> QED
      BY <1>3, <2>5, <2>6, <2>7, <2>8 DEF Ownership
  <1>13. CASE Kills(c)
    <2> DEFINE r == ctl[c].run
    <2>1. /\ ctl[c].pc = "cancel_kill" /\ q.pc = "cancel_confirm" /\ q.task = t /\ q.run = r
          /\ r \in Runners /\ t \in Tasks /\ Live(r)
          /\ runs'[r].pc = "over" /\ runs'[r].task = runs[r].task
          /\ \A s \in Runners \ {r} : runs'[s] = runs[s] /\ mail'[s] = mail[s]
          /\ UNCHANGED tasks
      BY <1>5, <1>13 DEF Kills, SameTask
    <2>2. NoNewOwner
      BY <1>1, <1>4, <2>1 DEF NoNewOwner, HandlerOwns, RunnerOwns, Live
    <2>3. /\ OwnedIsOpen' /\ OneOwner'
          /\ \A u \in Tasks : Owned(u)' => Owned(u)
      BY <1>2, <2>1, <2>2, OwnersKept
    <2>4. RunnerOwns(r, t) /\ ~RunnerOwns(r, t)' /\ tasks[t].status = "stopping"
      BY <1>2, <2>1, RunnersAssumption
         DEF Named, RunOf, RunnerOwns, Live, Confirmed, ConfirmedBy
    <2>5. ~Owned(t)'
      BY <1>2, <2>1, <2>2, <2>4 DEF Owned, OneOwner, NoNewOwner
    <2>6. \A s \in Runners, u \in Tasks : RunOf(s, u) => RunOf(s, u)'
      BY <2>1 DEF RunOf
    <2>7. Named'
      BY <1>1, <1>2, <2>1, <2>6 DEF Named, RunOf
    <2>8. Confirmed'
      <3>1. ConfirmedBy(c)'
        BY <2>1, <2>4, <2>5 DEF ConfirmedBy, Confirming, Stopped
      <3> QED
        BY <1>8, <2>1, <2>3, <2>7, <3>1 DEF Confirmed, Live
    <2>9. OwnerNamed'
      <3>1. \A s \in Runners : mail'[s] # None => runs'[s].pc = "over"
        BY <1>2, <2>1 DEF OwnerNamed
      <3> QED
        BY <1>1, <1>4, <1>2, <2>1, <2>2, <3>1
           DEF OwnerNamed, OneSession, NoNewOwner, HandlerOwns, Acknowledging
    <2> QED
      BY <1>3, <2>3, <2>7, <2>8, <2>9 DEF Ownership
  <1>14. CASE Proceeds(c)
    <2>1. /\ \A u \in Tasks : Kept(u) /\ (HandlerOwns(c, u)' => HandlerOwns(c, u))
          /\ q.pc \notin Acknowledging \union {"cancel_confirm"}
          /\ q.pc = "cancel_kill" => tasks'[q.task].status = "stopping"
          /\ q.pc \in Confirming =>
               /\ UNCHANGED tasks
               /\ \/ ctl[c].pc \in Confirming /\ q.task = t
                  \/ /\ Possible("notify") /\ ctl[c].pc = "idle"
                     /\ \E r \in Runners : mail[r] # None /\ tasks[q.task].proc = r
          /\ q.run # NoRunner =>
               \/ SameTask(c)
               \/ q.task \in Tasks /\ q.run = tasks[q.task].proc
          /\ \A r \in Runners : mail'[r] \in {mail[r], None}
          /\ UNCHANGED runs
      BY <1>14 DEF Proceeds, Confirming
    <2>2. NoNewOwner
      BY <1>1, <1>4, <2>1 DEF NoNewOwner, HandlerOwns, RunnerOwns, Live
    <2>3. /\ OwnedIsOpen' /\ OneOwner'
          /\ \A u \in Tasks : Owned(u)' => Owned(u)
      BY <1>2, <2>1, <2>2, OwnersKept DEF Kept
    <2>4. Named'
      <3>1. \A u \in Tasks : /\ tasks'[u].proc # NoRunner => RunOf(tasks'[u].proc, u)
                             /\ tasks'[u].worker # NoRunner => RunOf(tasks'[u].worker, u)
        BY <1>2, <2>1 DEF Named, Kept
      <3>2. \A d \in Controllers :
               ctl'[d].run # NoRunner => RunOf(ctl'[d].run, ctl'[d].task)
        BY <1>1, <1>2, <2>1 DEF Named, SameTask
      <3> QED
        BY <2>1, <3>1, <3>2 DEF Named, RunOf
    <2>5. Confirmed'
      <3>1. ASSUME q.pc \in Confirming PROVE OneSession /\ ~Owned(q.task)
        <4>1. CASE ctl[c].pc \in Confirming /\ q.task = t
          BY <1>2, <1>5, <4>1 DEF Confirmed, ConfirmedBy, Confirming
        <4>2. CASE /\ Possible("notify") /\ ctl[c].pc = "idle"
                   /\ \E r \in Runners : mail[r] # None /\ tasks[q.task].proc = r
          <5>1. PICK r \in Runners : mail[r] # None /\ tasks[q.task].proc = r
            BY <4>2
          <5>2. OneSession /\ q.task \in Tasks
            BY <1>5, <3>1, <4>2 DEF Orderly, Confirming
          <5>3. \A d \in Controllers : ~HandlerOwns(d, q.task)
            BY <4>2, <5>2 DEF OneSession, HandlerOwns
          <5>4. \A s \in Runners : RunnerOwns(s, q.task) => s = r
            BY <1>2, <5>1, <5>2, RunnersAssumption DEF OwnerNamed
          <5>5. ~Live(r)
            BY <1>2, <5>1 DEF OwnerNamed, Live
          <5> QED
            BY <5>2, <5>3, <5>4, <5>5 DEF Owned, RunnerOwns
        <4> QED
          BY <2>1, <3>1, <4>1, <4>2
      <3>2. ConfirmedBy(c)'
        BY <2>1, <2>3, <3>1 DEF ConfirmedBy, OneSession
      <3> QED
        BY <1>8, <2>1, <2>3, <2>4, <3>2 DEF Confirmed, Live, Kept
    <2>6. OwnerNamed'
      <3>1. \A r \in Runners, u \in Tasks : RunnerOwns(r, u)' <=> RunnerOwns(r, u)
        BY <2>1 DEF RunnerOwns, Live
      <3> QED
        BY <1>1, <1>4, <1>2, <2>1, <2>2, <3>1 DEF OwnerNamed, OneSession, NoNewOwner, Kept
    <2> QED
      BY <1>3, <2>3, <2>4, <2>5, <2>6 DEF Ownership
  <1> QED
    BY <1>1, <1>9, <1>10, <1>11, <1>12, <1>13, <1>14 DEF HandlerEffect

\* A run whose session repeats its calls is not killed, and stops its turn.
LEMMA RetriesKillNoTurn ==
    ASSUME Orderly
    PROVE  BridgeSpec => []TurnsOfRetries
  <1>1. CASE Possible("retry")
    <2>1. TurnsAreRun /\ NoneLeft => TurnsOfRetries
      BY DEF TurnsOfRetries
    <2>2. BridgeSpec => []NoneLeft
      BY <1>1, StoppedTurnsAreGone DEF Orderly
    <2> QED
      BY <2>1, <2>2, TurnsStopWithTheirRunner, PTL
  <1>2. CASE ~Possible("retry")
    <2>1. TurnsOfRetries
      BY <1>2 DEF TurnsOfRetries
    <2> QED
      BY <2>1, PTL
  <1> QED
    BY <1>1, <1>2

\* No step gives a task a second owner or an owned task an outcome.
LEMMA OwnershipInvariant ==
    ASSUME Orderly
    PROVE  BridgeSpec => []Ownership
  <1>1. BridgeInit => Ownership
    <2> SUFFICES ASSUME BridgeInit PROVE Ownership
      OBVIOUS
    <2>1. /\ \A c \in Controllers : ctl[c].pc = "idle" /\ ctl[c].run = NoRunner
          /\ \A r \in Runners : ~Live(r) /\ mail[r] = None
          /\ \A t \in Tasks : tasks[t].proc = NoRunner /\ tasks[t].worker = NoRunner
          /\ \A t \in Tasks : tasks[t].status = "absent"
      BY DEF BridgeInit, LedgerInit, Idle, NotStarted, Live, NoTask
    <2>2. \A t \in Tasks : ~Owned(t)
      BY <2>1 DEF Owned, HandlerOwns, RunnerOwns
    <2> QED
      BY <2>1, <2>2
         DEF Ownership, OwnedIsOpen, OneOwner, Owned, Confirmed, ConfirmedBy, Confirming, Named,
             OwnerNamed, Acknowledging, Attended, Attends, Open, HandlerOwns
  <1>2. /\ Ownership /\ BridgeTyped /\ BridgeTyped' /\ LedgerInv /\ NewRows /\ TurnsOfRetries
        /\ [BridgeNext]_vars
        => Ownership'
    <2> SUFFICES ASSUME Ownership, BridgeTyped, BridgeTyped', LedgerInv, UNCHANGED vars
                 PROVE  Ownership'
      BY Actors, RunsKeepOwnership, HandlersKeepOwnership DEF TurnsOfRetries
    <2>1. /\ \A c \in Controllers, t \in Tasks : HandlerOwns(c, t)' <=> HandlerOwns(c, t)
          /\ \A r \in Runners, t \in Tasks : RunnerOwns(r, t)' <=> RunnerOwns(r, t)
      BY DEF vars, HandlerOwns, RunnerOwns, Live, Possible
    <2> QED
      BY <2>1
         DEF vars, Ownership, OwnedIsOpen, OneOwner, Owned, Live, Confirmed, ConfirmedBy, Named,
             RunOf, OwnerNamed, OneSession, Attended, Attends, Possible
  <1>3. BridgeSpec => []LedgerInv /\ []NewRows
    BY BridgeImplementsLedger, LedgerInvariant, NewRowsInvariant, PTL
  <1> QED
    BY <1>1, <1>2, <1>3, RetriesKillNoTurn, BridgeInvariantTyped, PTL DEF BridgeSpec

\* Neither two callers of agent_task_message nor a cancellation, a late
\* acknowledgement or a process that is killed ever give a task a second runner,
\* when no ledger access fails and only a single session, alive, repeats calls.
THEOREM NoSecondRunner ==
    ASSUME Orderly
    PROVE  BridgeSpec => []OneLiveRunner
  <1>1. BridgeTyped /\ Ownership => OneLiveRunner
    <2> SUFFICES ASSUME BridgeTyped, Ownership, NEW r \in Runners, NEW s \in Runners,
                        Live(r), Live(s), runs[r].task = runs[s].task
                 PROVE  r = s
      BY DEF OneLiveRunner
    <2>1. runs[r].task \in Tasks
      BY DEF BridgeTyped, RunOK, Live
    <2> QED
      BY <2>1 DEF Ownership, OneOwner, RunnerOwns
  <1> QED
    BY <1>1, OwnershipInvariant, BridgeInvariantTyped, PTL

\* A task that agent_task_message may continue has no runner left, under the
\* same conditions.
THEOREM ContinuationsStartIdle ==
    ASSUME Orderly
    PROVE  BridgeSpec => []ResumableMeansIdle
  <1>1. BridgeTyped /\ Ownership => ResumableMeansIdle
    <2> SUFFICES ASSUME BridgeTyped, Ownership, NEW r \in Runners, Live(r)
                 PROVE  ~Resumable(tasks[runs[r].task])
      BY DEF ResumableMeansIdle
    <2>1. runs[r].task \in Tasks
      BY DEF BridgeTyped, RunOK, Live
    <2>2. Open(tasks[runs[r].task])
      BY <2>1 DEF Ownership, OwnedIsOpen, Owned, RunnerOwns
    <2> QED
      BY <2>2 DEF Open, Terminal, Resumable, TerminalTaskStatuses, FinalTaskStatuses
  <1> QED
    BY <1>1, OwnershipInvariant, BridgeInvariantTyped, PTL

----------------------------------------------------------------------------
(* The payload of a task.                                                    *)

\* A task that does not exist, or whose first runner is still to be started,
\* has had none.
Originals ==
    /\ \A t \in Tasks, r \in Runners : tasks[t].status = "absent" => ~RunOf(r, t)
    /\ \A c \in Controllers, t \in Tasks, r \in Runners :
           HandlerOwns(c, t) /\ ctl[c].pc \in {"start_check", "start_dispatch"} => ~RunOf(r, t)
    /\ OriginalSentOnce

\* A row is never deleted.
LEMMA RowsExistForever ==
    ASSUME LedgerInv, UNCHANGED ledgerVars \/ \E t \in Tasks : LedgerCall(t),
           NEW u \in Tasks, tasks'[u].status = "absent"
    PROVE  tasks[u].status = "absent"
  BY RowsStay DEF LedgerInv, LedgerTypeOK, ledgerVars

\* A runner or its Bot turn makes no run an original one.
LEMMA RunsKeepOriginals ==
    ASSUME BridgeTyped, LedgerInv, Ownership, Originals, TurnsOfRetries,
           NEW r \in Runners, RunActs(r)
    PROVE  Originals'
  <1>1. /\ ctl' = ctl
        /\ \A s \in Runners : /\ runs'[s].task = runs[s].task /\ runs'[s].cont = runs[s].cont
                              /\ runs'[s].pc = "unused" <=> runs[s].pc = "unused"
    BY RunEffects
  <1>2. \A s \in Runners, t \in Tasks : RunOf(s, t)' <=> RunOf(s, t)
    BY <1>1 DEF RunOf
  <1>3. \A c \in Controllers, t \in Tasks : HandlerOwns(c, t)' => HandlerOwns(c, t)
    BY RunsReopenNothing DEF Ownership
  <1>4. \A t \in Tasks : tasks'[t].status = "absent" => tasks[t].status = "absent"
    BY RunsCall, RowsExistForever
  <1>5. OriginalSentOnce'
    BY <1>1 DEF Originals, OriginalSentOnce
  <1> QED
    BY <1>1, <1>2, <1>3, <1>4, <1>5 DEF Originals

\* A handler starts an original run only where there is none.
LEMMA HandlersKeepOriginals ==
    ASSUME Orderly, BridgeTyped, LedgerInv, NewRows, Ownership, Originals,
           NEW c \in Controllers, HandlerActs(c)
    PROVE  Originals'
  <1>1. HandlerEffect(c) /\ \A d \in Controllers \ {c} : ctl'[d] = ctl[d]
    BY HandlerEffects DEF Ownership
  <1>2. \A d \in Controllers \ {c} : \A t : HandlerOwns(d, t)' <=> HandlerOwns(d, t)
    BY <1>1, OthersOwnAsBefore
  <1>3. \A t \in Tasks : tasks'[t].status = "absent" => tasks[t].status = "absent"
    BY HandlersCall, RowsExistForever
  <1>4. OwnedIsOpen /\ OneOwner
    BY DEF Ownership
  \* Nobody starts a run, and the handler comes no nearer to starting one.
  <1>5. ASSUME \A s \in Runners : /\ runs'[s].task = runs[s].task /\ runs'[s].cont = runs[s].cont
                                  /\ runs'[s].pc = "unused" <=> runs[s].pc = "unused",
               \A t \in Tasks :
                   HandlerOwns(c, t)' /\ ctl'[c].pc \in {"start_check", "start_dispatch"} =>
                       \/ HandlerOwns(c, t) /\ ctl[c].pc \in {"start_check", "start_dispatch"}
                       \/ tasks[t].status = "absent"
        PROVE  Originals'
    <2>1. \A s \in Runners, t \in Tasks : RunOf(s, t)' <=> RunOf(s, t)
      BY <1>5 DEF RunOf
    <2>2. OriginalSentOnce'
      BY <1>5 DEF Originals, OriginalSentOnce
    <2> QED
      BY <1>1, <1>2, <1>3, <1>5, <2>1, <2>2 DEF Originals
  <1>6. Idle.pc = "idle"
    BY DEF Idle
  <1>7. CASE Claims(c)
    BY <1>5, <1>7 DEF Claims, HandlerOwns
  <1>8. CASE Launches(c)
    <2> DEFINE t == ctl[c].task
    <2>1. PICK r \in Runners :
             /\ HandlerOwns(c, t) /\ ctl[c].pc \in {"start_dispatch", "message_dispatch"}
             /\ ctl'[c].pc \in Acknowledging /\ ctl'[c].task = t
             /\ runs[r].pc = "unused" /\ runs'[r].pc = "lock" /\ runs'[r].task = t
             /\ runs'[r].cont <=> ctl[c].pc = "message_dispatch"
             /\ \A s \in Runners \ {r} : runs'[s] = runs[s]
             /\ tasks' = tasks
      BY <1>8 DEF Launches
    <2>2. t \in Tasks /\ tasks[t].status # "absent"
      BY <1>4, <2>1 DEF BridgeTyped, HandlerOK, OwnedIsOpen, Owned, Open
    <2>3. \A s \in Runners, u \in Tasks : RunOf(s, u)' => RunOf(s, u) \/ (s = r /\ u = t)
      BY <2>1 DEF RunOf
    <2>4. \A d \in Controllers, u \in Tasks :
             HandlerOwns(d, u)' => d # c /\ u # t /\ HandlerOwns(d, u)
      BY <1>2, <1>4, <2>1, <2>2 DEF HandlerOwns, Acknowledging, OneOwner
    <2>5. OriginalSentOnce'
      <3>1. ~runs'[r].cont => \A s \in Runners : ~RunOf(s, t)
        BY <2>1, <2>2 DEF Originals
      <3>2. \A s \in Runners : runs[s].pc = "unused" => runs[s].task = None
        BY DEF BridgeTyped, RunOK, NotStarted
      <3>3. \A s \in Runners \ {r} : ~runs'[r].cont /\ runs'[s].task = t => t = None
        BY <2>1, <2>2, <3>1, <3>2 DEF RunOf
      <3> QED
        BY <2>1, <3>3 DEF Originals, OriginalSentOnce
    <2> QED
      BY <1>1, <2>1, <2>2, <2>3, <2>4, <2>5 DEF Originals
  <1>9. CASE Acknowledges(c) \/ Concludes(c)
    BY <1>5, <1>6, <1>9 DEF Acknowledges, Concludes
  <1>10. CASE Kills(c)
    <2>1. PICK r \in Runners : /\ Live(r) /\ runs'[r].pc = "over" /\ runs'[r].task = runs[r].task
                               /\ runs'[r].cont = runs[r].cont
                               /\ \A s \in Runners \ {r} : runs'[s] = runs[s]
                               /\ ctl'[c].pc = "cancel_confirm"
      BY <1>10 DEF Kills
    <2> QED
      BY <1>5, <2>1 DEF Live
  <1>11. CASE Proceeds(c)
    BY <1>5, <1>11 DEF Proceeds
  <1> QED
    BY <1>1, <1>7, <1>8, <1>9, <1>10, <1>11 DEF HandlerEffect

\* A call delivered again, while its handler runs, after the task has its runner
\* or after its outcome, finds the task started.
LEMMA RepeatedCallsSendOnce ==
    ASSUME Orderly
    PROVE  BridgeSpec => []OriginalSentOnce
  <1>1. BridgeInit => Originals
    BY DEF BridgeInit, Originals, OriginalSentOnce, RunOf, NotStarted
  <1>2. /\ Originals /\ Ownership /\ BridgeTyped /\ LedgerInv /\ NewRows /\ TurnsOfRetries
        /\ [BridgeNext]_vars
        => Originals'
    <2> SUFFICES ASSUME Originals, UNCHANGED vars PROVE Originals'
      BY Actors, RunsKeepOriginals, HandlersKeepOriginals DEF TurnsOfRetries
    <2>1. \A c \in Controllers, t \in Tasks : HandlerOwns(c, t)' <=> HandlerOwns(c, t)
      BY DEF vars, HandlerOwns, Possible
    <2> QED
      BY <2>1 DEF vars, Originals, RunOf, OriginalSentOnce
  <1>3. BridgeSpec => []LedgerInv /\ []NewRows
    BY BridgeImplementsLedger, LedgerInvariant, NewRowsInvariant, PTL
  <1>4. Originals => OriginalSentOnce
    BY DEF Originals
  <1> QED
    BY <1>1, <1>2, <1>3, <1>4, OwnershipInvariant, RetriesKillNoTurn, BridgeInvariantTyped, PTL
       DEF BridgeSpec

\* A handler of agent_task_start that has not started a runner yet.
Starting(c, t) == ctl[c].task = t /\ ctl[c].pc \in {"start_check", "start_dispatch"}

Original(r, t) == RunOf(r, t) /\ ~runs[r].cont

\* Without repetition, a task is created once, by the one handler that will start
\* its first runner, whatever else goes wrong.
FirstCalls ==
    /\ \A t \in Tasks : tasks[t].status = "absent" =>
           /\ \A c \in Controllers : ~Starting(c, t)
           /\ \A r \in Runners : ~Original(r, t)
    /\ \A t \in Tasks, c \in Controllers :
           Starting(c, t) => /\ \A d \in Controllers : Starting(d, t) => c = d
                             /\ \A r \in Runners : ~Original(r, t)
    /\ OriginalSentOnce

\* What a session does to the first runs: it begins a start, dispatches the
\* runner of one, or leaves them alone.
FirstEffect(c) ==
    \/ /\ \E t \in Tasks : tasks[t].status = "absent" /\ tasks'[t].status # "absent"
                           /\ \A u \in Tasks : Starting(c, u)' => u = t
       /\ UNCHANGED runs
    \/ \E r \in Runners :
          /\ \A u \in Tasks : ~Starting(c, u)'
          /\ runs[r].pc = "unused" /\ runs'[r].task = ctl[c].task
          /\ runs'[r].cont \/ Starting(c, ctl[c].task)
          /\ \A s \in Runners \ {r} : runs'[s] = runs[s]
    \/ /\ \A u \in Tasks : Starting(c, u)' => Starting(c, u)
       /\ \A s \in Runners : /\ runs'[s].task = runs[s].task /\ runs'[s].cont = runs[s].cont
                             /\ runs'[s].pc = "unused" <=> runs[s].pc = "unused"

\* What a handler does to runs and starts when calls are delivered once.
LEMMA FirstEffects ==
    ASSUME ~Possible("retry"), BridgeTyped, NEW c \in Controllers, HandlerActs(c)
    PROVE  FirstEffect(c) /\ \A d \in Controllers \ {c} : ctl'[d] = ctl[d]
  <1>1. /\ ctl \in [Controllers -> HandlerRecords] /\ ctl[c] \in HandlerRecords
        /\ HandlerOK(ctl[c])
        /\ runs \in [Runners -> RunRecords] /\ tasks \in [Tasks -> TaskRecords]
        /\ \A s \in Runners : runs[s].pc = "unused" => runs[s] = NotStarted
    BY DEF BridgeTyped, BridgeTypeOK, LedgerTypeOK, RunOK
  <1>2. \A d \in Controllers \ {c} : ctl'[d] = ctl[d]
    BY <1>1, HandlersMove DEF HandlerMoves
  <1> SUFFICES FirstEffect(c)
    BY <1>2
  <1>3. ASSUME UNCHANGED runs,
               ctl'[c].pc \notin {"start_check", "start_dispatch"} \/ UNCHANGED ctl
        PROVE  FirstEffect(c)
    BY <1>3 DEF FirstEffect, Starting
  <1>4. /\ Idle.pc = "idle"
        /\ Return(c) => ctl'[c] = Idle
        /\ \A pc : Goto(c, pc) => ctl'[c].pc = pc /\ ctl'[c].task = ctl[c].task
    BY <1>1 DEF Idle, Return, Goto, HandlerRecords
  <1>5. ASSUME NEW t \in Tasks, StartIntent(c, t)
        PROVE  FirstEffect(c)
    <2>1. /\ tasks[t] = NoTask /\ tasks'[t] = [NoTask EXCEPT !.status = "dispatching"]
          /\ ctl'[c].task = t /\ UNCHANGED runs
      BY <1>1, <1>5 DEF StartIntent, CreateTask, Enter, Idle
    <2> QED
      BY <2>1 DEF FirstEffect, Starting, NoTask
  <1>6. CASE StartCheck(c)
    <2>1. ctl[c].pc = "start_check" /\ UNCHANGED runs
      BY <1>6 DEF StartCheck, At
    <2>2. Return(c) \/ Goto(c, "start_dispatch") \/ Goto(c, "start_fail")
      BY <1>6 DEF StartCheck
    <2> QED
      BY <1>3, <1>4, <2>1, <2>2 DEF FirstEffect, Starting
  <1>7. ASSUME NEW cont \in BOOLEAN, NEW ack \in {"start_ack", "message_ack"},
               NEW fail \in {"start_fail", "message_undo"}, Dispatch(c, cont, ack, fail),
               cont \/ ctl[c].pc = "start_dispatch"
        PROVE  FirstEffect(c)
    <2>1. CASE Goto(c, fail) /\ UNCHANGED runs
      BY <1>3, <1>4, <2>1
    <2>2. ASSUME NEW r \in Runners, runs[r] = NotStarted, Launch(c, r, cont),
                 ctl' = [ctl EXCEPT ![c].pc = ack, ![c].run = r]
          PROVE  FirstEffect(c)
      <3>1. ctl'[c].pc = ack
        BY <1>1, <2>2 DEF HandlerRecords
      <3>2. /\ runs'[r].task = ctl[c].task /\ runs'[r].cont = cont
            /\ runs[r].pc = "unused" /\ \A s \in Runners \ {r} : runs'[s] = runs[s]
        BY <1>1, <2>2 DEF Launch, NotStarted
      <3> QED
        BY <1>7, <3>1, <3>2 DEF FirstEffect, Starting
    <2> QED
      BY <1>7, <2>1, <2>2 DEF Dispatch
  <1>8. CASE StartDispatch(c) \/ MessageDispatch(c)
    BY <1>7, <1>8 DEF StartDispatch, MessageDispatch, At
  <1>9. CASE CancelKill(c)
    <2>1. ctl[c].pc = "cancel_kill" /\ ctl[c].run \in Runners
      BY <1>1, <1>9 DEF CancelKill, At, HandlerOK
    <2>2. CASE Return(c) /\ UNCHANGED runs
      BY <1>3, <1>4, <2>2
    <2>3. CASE Goto(c, "cancel_confirm") /\ ~UNCHANGED runs
      <3> DEFINE r == ctl[c].run
      <3>1. /\ Live(r)
            /\ runs' = [runs EXCEPT ![r].pc = "over", ![r].end = "error", ![r].want = None,
                          ![r].turn = IF Working(r) THEN "killed" ELSE @, ![r].hook = None]
        BY <1>9, <2>3 DEF CancelKill
      <3>2. /\ runs'[r].pc = "over" /\ runs'[r].task = runs[r].task
            /\ runs'[r].cont = runs[r].cont /\ runs[r].pc # "unused"
            /\ \A s \in Runners \ {r} : runs'[s] = runs[s]
        BY <1>1, <2>1, <3>1 DEF RunRecords, Live
      <3> QED
        BY <1>4, <2>3, <3>2 DEF FirstEffect, Starting
    <2> QED
      BY <1>3, <1>4, <1>9, <2>2, <2>3 DEF CancelKill
  <1>10. CASE MessageNote(c) \/ NotifySettle(c)
    <2>1. UNCHANGED runs
      BY <1>10 DEF MessageNote, NotifySettle
    <2>2. ctl'[c].pc \notin {"start_check", "start_dispatch"}
      BY <1>1, <1>4, <1>10 DEF MessageNote, NotifySettle, HandlerRecords
    <2> QED
      BY <1>3, <2>1, <2>2
  <1>11. ASSUME NEW t \in Tasks, CancelRead(c, t) \/ \E key \in NoteKeys : MessageRead(c, t, key)
         PROVE  FirstEffect(c)
    <2>1. ctl'[c].pc \in {"cancel_request", "message_note"} /\ UNCHANGED runs
      BY <1>1, <1>11 DEF CancelRead, MessageRead, Idle
    <2> QED
      BY <1>3, <2>1
  <1>12. ASSUME NEW r \in Runners, NotifyFind(c, r)
         PROVE  FirstEffect(c)
    <2>1. (ctl'[c].pc = "notify_settle" \/ UNCHANGED ctl) /\ UNCHANGED runs
      BY <1>1, <1>12 DEF NotifyFind, Idle
    <2> QED
      BY <1>3, <2>1
  <1>13. CASE \/ StartAck(c) \/ StartFail(c) \/ MessageClaim(c) \/ MessageAck(c) \/ MessageUndo(c)
              \/ CancelRequest(c) \/ CancelConfirm(c) \/ NotifyWrite(c)
              \/ HandlerRaises(c) \/ ControllerCrash(c)
    BY <1>3, <1>4, <1>13
       DEF StartAck, StartFail, MessageClaim, MessageAck, MessageUndo, CancelRequest,
           CancelConfirm, NotifyWrite, HandlerRaises, ControllerCrash
  <1> QED
    BY <1>5, <1>6, <1>8, <1>9, <1>10, <1>11, <1>12, <1>13
       DEF HandlerActs, ControllerCall, ControllerStep

\* Calls that are delivered once send the payload once, though processes are
\* killed, ledger accesses fail and any number of sessions hear of any end.
LEMMA SingleCallsSendOnce ==
    ASSUME ~Possible("retry")
    PROVE  BridgeSpec => []OriginalSentOnce
  <1>1. BridgeInit => FirstCalls
    BY DEF BridgeInit, FirstCalls, Starting, Original, RunOf, OriginalSentOnce, Idle, NotStarted
  \* Nobody starts a run, and no handler begins a start.
  <1>2. ASSUME FirstCalls, BridgeTyped, LedgerInv,
               UNCHANGED ledgerVars \/ \E t \in Tasks : LedgerCall(t),
               \A c \in Controllers, u \in Tasks : Starting(c, u)' => Starting(c, u),
               \A s \in Runners : /\ runs'[s].task = runs[s].task /\ runs'[s].cont = runs[s].cont
                                  /\ runs'[s].pc = "unused" <=> runs[s].pc = "unused"
        PROVE  FirstCalls'
    <2>1. \A s \in Runners, t \in Tasks : Original(s, t)' <=> Original(s, t)
      BY <1>2 DEF Original, RunOf
    <2>2. \A t \in Tasks : tasks'[t].status = "absent" => tasks[t].status = "absent"
      BY <1>2, RowsExistForever
    <2>3. OriginalSentOnce'
      BY <1>2 DEF FirstCalls, OriginalSentOnce
    <2> QED
      BY <1>2, <2>1, <2>2, <2>3 DEF FirstCalls
  <1>3. ASSUME FirstCalls, BridgeTyped, LedgerInv, NEW c \in Controllers, HandlerActs(c)
        PROVE  FirstCalls'
    <2>1. /\ FirstEffect(c) /\ \A d \in Controllers \ {c} : ctl'[d] = ctl[d]
          /\ UNCHANGED ledgerVars \/ \E t \in Tasks : LedgerCall(t)
      BY <1>3, FirstEffects, HandlersCall
    <2>2. \A d \in Controllers \ {c}, u \in Tasks : Starting(d, u)' <=> Starting(d, u)
      BY <2>1 DEF Starting
    <2>3. \A t \in Tasks : tasks'[t].status = "absent" => tasks[t].status = "absent"
      BY <1>3, <2>1, RowsExistForever
    <2>4. ASSUME NEW t \in Tasks, tasks[t].status = "absent", tasks'[t].status # "absent",
                 \A u \in Tasks : Starting(c, u)' => u = t, UNCHANGED runs
          PROVE  FirstCalls'
      <3>1. \A s \in Runners, u \in Tasks : Original(s, u)' <=> Original(s, u)
        BY <2>4 DEF Original, RunOf
      <3>2. OriginalSentOnce'
        BY <1>3, <2>4 DEF FirstCalls, OriginalSentOnce
      <3> QED
        BY <1>3, <2>2, <2>3, <2>4, <3>1, <3>2 DEF FirstCalls
    <2>5. ASSUME NEW r \in Runners, \A u \in Tasks : ~Starting(c, u)',
                 runs[r].pc = "unused", runs'[r].task = ctl[c].task,
                 runs'[r].cont \/ Starting(c, ctl[c].task),
                 \A s \in Runners \ {r} : runs'[s] = runs[s]
          PROVE  FirstCalls'
      <3>1. \A s \in Runners : runs[s].pc = "unused" => runs[s].task = None
        BY <1>3 DEF BridgeTyped, RunOK, NotStarted
      <3>2. ~runs'[r].cont => Starting(c, ctl[c].task) /\ ctl[c].task \in Tasks
        BY <1>3, <2>5 DEF Starting, BridgeTyped, HandlerOK
      <3>3. \A s \in Runners, u \in Tasks :
               Original(s, u)' => Original(s, u) \/ (s = r /\ u = ctl[c].task /\ ~runs'[r].cont)
        BY <2>5 DEF Original, RunOf
      <3>4. OriginalSentOnce'
        <4>1. ~runs'[r].cont => \A s \in Runners : ~Original(s, ctl[c].task)
          BY <1>3, <3>2 DEF FirstCalls
        <4>2. \A s \in Runners \ {r} :
                 ~runs'[r].cont /\ ~runs[s].cont /\ runs[s].task = ctl[c].task =>
                     ctl[c].task = None
          BY <3>1, <4>1 DEF Original, RunOf
        <4> QED
          BY <1>3, <2>5, <4>2 DEF FirstCalls, OriginalSentOnce
      <3> QED
        BY <1>3, <2>2, <2>3, <2>5, <3>2, <3>3, <3>4 DEF FirstCalls
    <2>6. CASE /\ \A u \in Tasks : Starting(c, u)' => Starting(c, u)
               /\ \A s \in Runners : /\ runs'[s].task = runs[s].task
                                     /\ runs'[s].cont = runs[s].cont
                                     /\ runs'[s].pc = "unused" <=> runs[s].pc = "unused"
      BY <1>2, <1>3, <2>1, <2>2, <2>6
    <2> QED
      BY <2>1, <2>4, <2>5, <2>6 DEF FirstEffect
  <1>4. ASSUME FirstCalls, BridgeTyped, LedgerInv, NEW r \in Runners, RunActs(r)
        PROVE  FirstCalls'
    <2>1. /\ ctl' = ctl
          /\ \A s \in Runners : /\ runs'[s].task = runs[s].task /\ runs'[s].cont = runs[s].cont
                                /\ runs'[s].pc = "unused" <=> runs[s].pc = "unused"
      BY <1>4, RunEffects
    <2>2. \A c \in Controllers, u \in Tasks : Starting(c, u)' => Starting(c, u)
      BY <2>1 DEF Starting
    <2>3. UNCHANGED ledgerVars \/ \E t \in Tasks : LedgerCall(t)
      BY <1>4, RunsCall
    <2> QED
      BY <1>2, <1>4, <2>1, <2>2, <2>3
  <1>5. FirstCalls /\ BridgeTyped /\ LedgerInv /\ [BridgeNext]_vars => FirstCalls'
    <2> SUFFICES ASSUME FirstCalls, UNCHANGED vars PROVE FirstCalls'
      BY <1>3, <1>4, Actors
    <2> QED
      BY DEF vars, FirstCalls, Starting, Original, RunOf, OriginalSentOnce
  <1>6. BridgeSpec => []LedgerInv
    BY BridgeImplementsLedger, LedgerInvariant, PTL
  <1>7. FirstCalls => OriginalSentOnce
    BY DEF FirstCalls
  <1> QED
    BY <1>1, <1>5, <1>6, <1>7, BridgeInvariantTyped, PTL DEF BridgeSpec

\* The payload of agent_task_start is handed to one runner at most: under any
\* adversity when the call is delivered once, and however often it is delivered
\* to the only session there is while nothing fails and nobody is killed.
THEOREM OriginalPayloadOnce ==
    ASSUME Possible("retry") => Orderly
    PROVE  BridgeSpec => []OriginalSentOnce
  BY RepeatedCallsSendOnce, SingleCallsSendOnce
=============================================================================
