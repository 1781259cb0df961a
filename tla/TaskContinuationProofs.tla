----------------------- MODULE TaskContinuationProofs -----------------------
(* What the row of a task names, when a task is recorded as cancelled, and    *)
(* what a continuation is started for, with one controller session.          *)
EXTENDS TaskOwnerProofs

----------------------------------------------------------------------------
(* What a run reports, and what one that left its turn behind can report.    *)

\* A run that left its turn behind reports an error, and a cancellation is
\* settled by the run that was cancelled and notified by one without a turn.
RunReports(r) ==
    /\ mail[r] # None => runs[r].pc = "over"
    /\ mail[r] = "cancelled" => runs[r].turn = "none"
    /\ runs[r].left => /\ runs[r].pc \in {"settle", "write", "over"}
                       /\ runs[r].end = "error" /\ mail[r] \in {None, "error"}
    /\ runs[r].pc = "write" /\ runs[r].want = "cancelled" => runs[r].end = "cancelled"

\* Only a cancelled run settles a task as cancelled.
LEMMA CancelledBySettlement ==
    ASSUME NEW row, NEW end, SettledStatus(row, end) = "cancelled"
    PROVE  end = "cancelled"
  BY DEF SettledStatus

\* A run reports in this way when its session acts.
LEMMA HandlersKeepReports ==
    ASSUME BridgeTyped, NEW c \in Controllers, HandlerActs(c), NEW r \in Runners, RunReports(r)
    PROVE  RunReports(r)'
  <1>1. /\ runs \in [Runners -> RunRecords] /\ runs[r] \in RunRecords /\ RunOK(runs[r])
        /\ mail \in [Runners -> Ends \union {None}]
        /\ HandlerOK(ctl[c])
    BY DEF BridgeTyped, BridgeTypeOK
  <1>2. CASE UNCHANGED <<runs, mail>>
    BY <1>2 DEF RunReports
  <1>3. CASE StartDispatch(c) \/ MessageDispatch(c)
    <2>1. ASSUME NEW s \in Runners, NEW cont, runs[s] = NotStarted, Launch(c, s, cont), mail' = mail
          PROVE  RunReports(r)'
      <3>1. CASE r # s
        BY <1>1, <2>1, <3>1 DEF Launch, RunReports
      <3>2. CASE r = s
        <4>1. /\ runs'[r] = [NotStarted EXCEPT !.pc = "lock", !.by = c, !.task = ctl[c].task,
                                               !.cont = cont]
              /\ runs[r].pc = "unused"
          BY <1>1, <2>1, <3>2 DEF Launch, NotStarted
        <4>2. runs'[r].pc = "lock" /\ runs'[r].left = FALSE
          BY <4>1 DEF NotStarted
        <4> QED
          BY <2>1, <4>1, <4>2 DEF RunReports, None
      <3> QED
        BY <3>1, <3>2
    <2> QED
      BY <1>2, <1>3, <2>1 DEF StartDispatch, MessageDispatch, Dispatch
  <1>4. CASE CancelKill(c)
    <2> DEFINE s == ctl[c].run
    <2>1. ASSUME runs' = [runs EXCEPT ![s].pc = "over", ![s].end = "error", ![s].want = None,
                            ![s].turn = IF Working(s) THEN "killed" ELSE @, ![s].hook = None],
                 mail' = [mail EXCEPT ![s] = "error"], s \in Runners
          PROVE  RunReports(r)'
      <3>1. CASE r # s
        BY <1>1, <2>1, <3>1 DEF RunReports
      <3>2. CASE r = s
        <4>1. runs'[r].pc = "over" /\ runs'[r].end = "error" /\ mail'[r] = "error"
          BY <1>1, <2>1, <3>2 DEF RunRecords
        <4> QED
          BY <4>1 DEF RunReports, None
      <3> QED
        BY <3>1, <3>2
    <2> QED
      BY <1>1, <1>2, <1>4, <2>1 DEF CancelKill, At, HandlerOK
  <1>5. CASE \E s \in Runners : NotifyFind(c, s)
    <2>1. runs' = runs /\ mail'[r] \in {mail[r], None}
      BY <1>1, <1>5 DEF NotifyFind
    <2> QED
      BY <2>1 DEF RunReports, None
  <1> QED
    BY <1>2, <1>3, <1>4, <1>5
       DEF HandlerActs, ControllerCall, StartIntent, MessageRead, CancelRead, ControllerStep,
           StartCheck, StartAck, StartFail, MessageNote, MessageClaim, MessageAck, MessageUndo,
           CancelRequest, CancelConfirm, NotifySettle, NotifyWrite, HandlerRaises,
           ControllerCrash

\* And when a run does.
LEMMA RunsKeepReports ==
    ASSUME BridgeTyped, NEW s \in Runners, RunActs(s), NEW r \in Runners, RunReports(r)
    PROVE  RunReports(r)'
  <1>1. /\ runs \in [Runners -> RunRecords] /\ runs[r] \in RunRecords /\ RunOK(runs[r])
        /\ mail \in [Runners -> Ends \union {None}]
    BY DEF BridgeTyped, BridgeTypeOK
  <1>2. CASE r # s
    <2>1. runs'[r] = runs[r]
      BY <1>1, <1>2, RunsMove DEF RunMoves
    <2>2. mail'[r] = mail[r]
      BY <1>1, <1>2
         DEF RunActs, RunnerStep, RunnerAcquire, RunnerPopen, RunnerCancelled, RunnerReap,
             RunnerSettle, RunnerWrite, Finish, Report, Leave, StopFails, BotStep, BotEnters,
             BotEndsUnobserved, BotExits, BotBind, BotActivity, BotUpdate, BotInbox, BotFinal,
             BotAbort, RunnerBusy, RunnerRaises, RunnerForgets, RunnerCrash, BotHookRaises
    <2> QED
      BY <2>1, <2>2 DEF RunReports
  <1>3. ASSUME r = s, runs[r].pc \in {"lock", "start", "run"},
               (\E end : Report(r, end)) \/ Leave(r, "error")
        PROVE  RunReports(r)'
    <2>1. runs[r].left = FALSE /\ mail[r] = None /\ mail' = mail
      BY <1>1, <1>3 DEF RunReports, RunRecords, Report, Leave
    <2>2. /\ runs'[r].pc = "settle"
          /\ runs'[r].left = FALSE \/ runs'[r].end = "error"
      <3>1. ASSUME NEW end, Report(r, end)
            PROVE  runs'[r].pc = "settle" /\ runs'[r].left = runs[r].left
        BY <1>1, <3>1 DEF Report, RunRecords
      <3>2. Leave(r, "error") => runs'[r].pc = "settle" /\ runs'[r].end = "error"
        BY <1>1 DEF Leave, RunRecords
      <3> QED
        BY <1>3, <2>1, <3>1, <3>2
    <2> QED
      BY <2>1, <2>2 DEF RunReports, None
  <1>4. CASE r = s /\ \/ RunnerCancelled(r) \/ RunnerReap(r) \/ RunnerBusy(r)
                      \/ RunnerRaises(r)
    BY <1>3, <1>4 DEF RunnerCancelled, RunnerReap, RunnerBusy, RunnerRaises, StopFails
  <1>5. CASE r = s /\ (RunnerAcquire(r) \/ RunnerPopen(r))
    <2>1. /\ runs[r].left = FALSE /\ mail[r] = None /\ mail' = mail
          /\ runs'[r].left = FALSE /\ runs'[r].pc \in {"start", "run"}
      BY <1>1, <1>5 DEF RunnerAcquire, RunnerPopen, RunReports, RunRecords
    <2> QED
      BY <2>1 DEF RunReports, None
  <1>6. ASSUME r = s, runs[r].pc \in {"settle", "write"}, Finish(r, runs[r].end)
        PROVE  RunReports(r)'
    <2>1. /\ runs'[r].pc = "over" /\ runs'[r].end = runs[r].end
          /\ runs'[r].left = runs[r].left /\ runs'[r].turn = runs[r].turn
          /\ mail'[r] = IF runs[r].end = "cancelled" /\ runs[r].turn # "none"
                          THEN "error" ELSE runs[r].end
      BY <1>1, <1>6 DEF Finish, RunRecords
    <2> QED
      BY <1>1, <2>1 DEF RunReports, RunRecords, None
  <1>7. CASE r = s /\ RunnerSettle(r)
    <2>1. CASE Finish(r, runs[r].end)
      BY <1>6, <1>7, <2>1 DEF RunnerSettle
    <2>2. CASE /\ runs' = [runs EXCEPT ![r].pc = "write",
                                       ![r].want = SettledStatus(Ticket(r), runs[r].end)]
               /\ UNCHANGED mail
      <3>1. /\ runs'[r].pc = "write" /\ runs'[r].want = SettledStatus(Ticket(r), runs[r].end)
            /\ runs'[r].end = runs[r].end /\ runs'[r].left = runs[r].left
        BY <1>1, <2>2 DEF RunRecords
      <3>2. mail'[r] = None
        BY <1>7, <2>2 DEF RunReports, RunnerSettle
      <3>3. runs'[r].want = "cancelled" => runs'[r].end = "cancelled"
        BY <3>1, CancelledBySettlement
      <3> QED
        BY <3>1, <3>2, <3>3 DEF RunReports, None
    <2> QED
      BY <1>7, <2>1, <2>2 DEF RunnerSettle
  <1>8. CASE r = s /\ (RunnerWrite(r) \/ RunnerForgets(r))
    BY <1>6, <1>8 DEF RunnerWrite, RunnerForgets
  <1>9. CASE r = s /\ RunnerCrash(r)
    <2>1. runs'[r].pc = "over" /\ runs'[r].end = "error" /\ mail'[r] = "error"
      BY <1>1, <1>9 DEF RunnerCrash, RunRecords
    <2> QED
      BY <2>1 DEF RunReports, None
  <1>10. CASE r = s /\ (BotStep(r) \/ BotHookRaises(r))
    <2>1. /\ runs'[r].pc = runs[r].pc /\ runs'[r].end = runs[r].end
          /\ runs'[r].want = runs[r].want /\ runs'[r].left = runs[r].left
          /\ mail' = mail
      BY <1>1, <1>10
         DEF BotStep, BotEnters, BotEndsUnobserved, BotExits, BotBind, BotActivity, BotUpdate,
             BotInbox, BotFinal, BotAbort, BotHookRaises, AfterHook, RunRecords
    <2>2. runs[r].turn # "none"
      BY <1>1, <1>10
         DEF BotStep, BotEnters, BotEndsUnobserved, BotExits, BotBind, BotActivity, BotUpdate,
             BotInbox, BotFinal, BotAbort, BotHookRaises, Between, Working, RunOK, None
    <2> QED
      BY <2>1, <2>2 DEF RunReports
  <1> QED
    BY <1>2, <1>4, <1>5, <1>7, <1>8, <1>9, <1>10 DEF RunActs, RunnerStep

Reports == \A r \in Runners : RunReports(r)

LEMMA RunsReport == BridgeSpec => []Reports
  <1>1. BridgeInit => Reports
    <2>1. NotStarted.left = FALSE /\ NotStarted.pc = "unused"
      BY DEF NotStarted
    <2> QED
      BY <2>1 DEF BridgeInit, Reports, RunReports, None
  <1>2. BridgeTyped /\ Reports /\ [BridgeNext]_vars => Reports'
    <2>1. UNCHANGED vars /\ Reports => Reports'
      BY DEF vars, Reports, RunReports
    <2> QED
      BY <2>1, Actors, HandlersKeepReports, RunsKeepReports DEF Reports
  <1> QED
    BY <1>1, <1>2, BridgeInvariantTyped, PTL DEF BridgeSpec

\* What was left behind stays so, with its task.
LEMMA LeftStays ==
    ASSUME BridgeTyped, [BridgeNext]_vars
    PROVE  /\ \A r \in Runners : runs[r].left => runs'[r].left /\ runs'[r].task = runs[r].task
           /\ \A t : LeftBehind(t) => LeftBehind(t)'
  <1> SUFFICES ASSUME NEW r \in Runners, runs[r].left
               PROVE  runs'[r].left /\ runs'[r].task = runs[r].task
    BY DEF LeftBehind
  <1>1. /\ runs \in [Runners -> RunRecords] /\ runs[r] \in RunRecords /\ runs[r].left = TRUE
    BY DEF BridgeTyped, BridgeTypeOK, RunRecords
  <1>2. runs[r] # NotStarted
    <2>1. NotStarted.left = FALSE
      BY DEF NotStarted
    <2> QED
      BY <1>1, <2>1
  <1>3. CASE UNCHANGED runs
    BY <1>3
  <1>4. ASSUME NEW c \in Controllers, HandlerActs(c)
        PROVE  runs'[r].left /\ runs'[r].task = runs[r].task
    <2>1. CASE StartDispatch(c) \/ MessageDispatch(c)
      BY <1>1, <1>2, <1>3, <2>1 DEF StartDispatch, MessageDispatch, Dispatch, Launch
    <2>2. CASE CancelKill(c)
      BY <1>1, <1>3, <2>2 DEF CancelKill, RunRecords
    <2> QED
      BY <1>3, <1>4, <2>1, <2>2
         DEF HandlerActs, ControllerCall, StartIntent, MessageRead, CancelRead, ControllerStep,
             StartCheck, StartAck, StartFail, MessageNote, MessageClaim, MessageAck,
             MessageUndo, CancelRequest, CancelConfirm, NotifyFind, NotifySettle, NotifyWrite,
             HandlerRaises, ControllerCrash
  <1>5. ASSUME NEW s \in Runners, RunActs(s), s # r
        PROVE  runs'[r].left /\ runs'[r].task = runs[r].task
    BY <1>1, <1>5, RunsMove DEF RunMoves
  <1>6. CASE RunActs(r)
    <2>1. CASE RunnerCrash(r)
      <3>1. runs'[r] = [runs[r] EXCEPT !.pc = "over", !.end = "error", !.want = None,
                                       !.left = runs[r].left \/ Working(r)]
        BY <1>1, <2>1 DEF RunnerCrash
      <3>2. runs'[r].left = (runs[r].left \/ Working(r)) /\ runs'[r].task = runs[r].task
        BY <1>1, <3>1 DEF RunRecords
      <3> QED
        BY <1>1, <3>2
    <2>2. CASE ~RunnerCrash(r)
      BY <1>1, <1>6, <2>2
         DEF RunActs, RunnerStep, RunnerAcquire, RunnerPopen, RunnerCancelled, RunnerReap,
             RunnerSettle, RunnerWrite, Report, Leave, StopFails, Finish, BotStep, BotEnters,
             BotEndsUnobserved, BotExits, BotBind, BotActivity, BotUpdate, BotInbox, BotFinal,
             BotAbort, AfterHook, RunnerBusy, RunnerRaises, RunnerForgets, BotHookRaises,
             RunRecords
    <2> QED
      BY <2>1, <2>2
  <1> QED
    BY <1>3, <1>4, <1>5, <1>6, Actors DEF vars

\* A Bot turn begins once and ends for good.
LEMMA TurnsGoOn ==
    ASSUME BridgeTyped, [BridgeNext]_vars, NEW r \in Runners
    PROVE  /\ runs[r].turn \notin {"none", "new"} => runs'[r].turn \notin {"none", "new"}
           /\ Working(r)' => Working(r) \/ runs[r].pc = "start"
           /\ runs'[r].turn = "new" => runs[r].turn = "new" \/ runs[r].pc = "start"
  <1> DEFINE Goes == /\ runs[r].turn \notin {"none", "new"} => runs'[r].turn \notin {"none", "new"}
                     /\ Working(r)' => Working(r) \/ runs[r].pc = "start"
                     /\ runs'[r].turn = "new" => runs[r].turn = "new" \/ runs[r].pc = "start"
  <1> SUFFICES Goes
    OBVIOUS
  <1>1. /\ runs \in [Runners -> RunRecords] /\ runs[r] \in RunRecords /\ RunOK(runs[r])
        /\ \A c \in Controllers : HandlerOK(ctl[c])
    BY DEF BridgeTyped, BridgeTypeOK
  <1>2. CASE runs'[r].turn = runs[r].turn
    BY <1>2 DEF Working
  <1>3. ASSUME runs'[r].turn \in {"killed", "none"}, runs'[r].turn = "none" => runs[r].turn = "none"
        PROVE  Goes
    BY <1>3 DEF Working
  <1>4. ASSUME NEW c \in Controllers, HandlerActs(c)
        PROVE  Goes
    <2>1. CASE StartDispatch(c) \/ MessageDispatch(c)
      <3>1. ASSUME NEW s \in Runners, NEW cont, runs[s] = NotStarted, Launch(c, s, cont)
            PROVE  Goes
        <4>1. CASE r # s
          BY <1>1, <1>2, <3>1, <4>1 DEF Launch
        <4>2. CASE r = s
          <5>1. runs'[r] = [NotStarted EXCEPT !.pc = "lock", !.by = c, !.task = ctl[c].task,
                                              !.cont = cont]
            BY <1>1, <3>1, <4>2 DEF Launch
          <5>2. runs'[r].turn = "none" /\ runs[r].turn = "none"
            BY <3>1, <4>2, <5>1 DEF NotStarted
          <5> QED
            BY <1>3, <5>2
        <4> QED
          BY <4>1, <4>2
      <3> QED
        BY <1>2, <2>1, <3>1 DEF StartDispatch, MessageDispatch, Dispatch
    <2>2. CASE CancelKill(c)
      <3>1. ctl[c].run \in Runners
        BY <1>1, <2>2 DEF CancelKill, At, HandlerOK
      <3>2. runs'[r].turn = runs[r].turn \/ runs'[r].turn = "killed"
        BY <1>1, <2>2, <3>1 DEF CancelKill, RunRecords
      <3> QED
        BY <1>2, <1>3, <3>2
    <2> QED
      BY <1>2, <1>4, <2>1, <2>2
         DEF HandlerActs, ControllerCall, StartIntent, MessageRead, CancelRead,
             ControllerStep, StartCheck, StartAck, StartFail, MessageNote, MessageClaim,
             MessageAck, MessageUndo, CancelRequest, CancelConfirm, NotifyFind,
             NotifySettle, NotifyWrite, HandlerRaises, ControllerCrash
  <1>5. ASSUME NEW s \in Runners, RunActs(s), r # s
        PROVE  Goes
    BY <1>1, <1>2, <1>5, RunsMove DEF RunMoves
  <1>6. CASE RunActs(r)
    <2>1. ASSUME NEW end, Report(r, end)
          PROVE  Goes
      <3>1. runs'[r].turn = runs[r].turn \/ runs'[r].turn = "killed"
        BY <1>1, <2>1 DEF Report, RunRecords
      <3> QED
        BY <1>2, <1>3, <3>1
    <2>2. CASE Leave(r, "error")
      BY <1>1, <1>2, <2>2 DEF Leave, RunRecords
    <2>3. CASE RunnerCancelled(r) \/ RunnerReap(r) \/ RunnerBusy(r) \/ RunnerRaises(r)
      BY <2>1, <2>2, <2>3
         DEF RunnerCancelled, RunnerReap, RunnerBusy, RunnerRaises, StopFails
    <2>4. CASE \/ RunnerWrite(r) \/ RunnerForgets(r) \/ RunnerSettle(r) \/ RunnerAcquire(r)
               \/ RunnerCrash(r)
      BY <1>1, <1>2, <2>4
         DEF RunnerWrite, RunnerForgets, RunnerSettle, RunnerAcquire, RunnerCrash, Finish,
             RunRecords
    <2>5. CASE RunnerPopen(r)
      <3>1. runs[r].pc = "start" /\ runs[r].turn = "none" /\ runs'[r].turn = "new"
        BY <1>1, <2>5 DEF RunnerPopen, RunOK, RunRecords
      <3> QED
        BY <3>1
    <2>6. CASE BotStep(r) \/ BotHookRaises(r)
      <3>1. /\ Working(r)
            /\ runs'[r].turn = runs[r].turn \/ runs'[r].turn \notin {"none", "new"}
        BY <1>1, <2>6
           DEF BotStep, BotEnters, BotEndsUnobserved, BotExits, BotBind, BotActivity,
               BotUpdate, BotInbox, BotFinal, BotAbort, BotHookRaises, AfterHook, Between,
               Working, RunOK, RunRecords, None
      <3> QED
        BY <1>2, <3>1
    <2> QED
      BY <1>6, <2>3, <2>4, <2>5, <2>6 DEF RunActs, RunnerStep
  <1> QED
    BY <1>2, <1>4, <1>5, <1>6, Actors DEF vars

\* Only a runner that is told to stop its turn leaves one behind.
LEMMA LeavingRuns ==
    ASSUME BridgeTyped, ~Possible("crash"), ~Possible("faults"), [BridgeNext]_vars,
           NEW r \in Runners, runs'[r].left, ~runs[r].left
    PROVE  /\ RunActs(r) /\ Leave(r, "error")
           /\ runs[r].pc = "run" /\ Working(r) /\ CancellationRequested(r)
  <1>1. /\ runs \in [Runners -> RunRecords] /\ runs[r] \in RunRecords /\ RunOK(runs[r])
        /\ \A c \in Controllers : HandlerOK(ctl[c])
    BY DEF BridgeTyped, BridgeTypeOK
  <1>2. ~UNCHANGED runs
    OBVIOUS
  <1>3. ASSUME NEW c \in Controllers, HandlerActs(c)
        PROVE  FALSE
    <2>1. CASE StartDispatch(c) \/ MessageDispatch(c)
      <3>1. ASSUME NEW s \in Runners, NEW cont, Launch(c, s, cont)
            PROVE  FALSE
        <4>1. [NotStarted EXCEPT !.pc = "lock", !.by = c, !.task = ctl[c].task,
                                 !.cont = cont].left = FALSE
          BY DEF NotStarted
        <4> QED
          BY <1>1, <3>1, <4>1 DEF Launch
      <3> QED
        BY <1>2, <2>1, <3>1 DEF StartDispatch, MessageDispatch, Dispatch
    <2>2. CASE CancelKill(c)
      BY <1>1, <1>2, <2>2 DEF CancelKill, RunRecords
    <2> QED
      BY <1>2, <1>3, <2>1, <2>2
         DEF HandlerActs, ControllerCall, StartIntent, MessageRead, CancelRead,
             ControllerStep, StartCheck, StartAck, StartFail, MessageNote, MessageClaim,
             MessageAck, MessageUndo, CancelRequest, CancelConfirm, NotifyFind,
             NotifySettle, NotifyWrite, HandlerRaises, ControllerCrash
  <1>4. ASSUME NEW s \in Runners, RunActs(s)
        PROVE  s = r
    BY <1>1, <1>4, RunsMove DEF RunMoves
  <1>5. RunActs(r)
    BY <1>2, <1>3, <1>4, Actors DEF vars
  <1>6. ~\E end : Report(r, end) \/ Finish(r, end)
    <2>1. ASSUME NEW end, Report(r, end) \/ Finish(r, end) PROVE runs'[r].left = runs[r].left
      BY <1>1, <2>1 DEF Report, Finish, RunRecords
    <2> QED
      BY <2>1
  <1>7. CASE RunnerCancelled(r)
    BY <1>5, <1>6, <1>7 DEF RunnerCancelled, StopFails
  <1>8. ~RunnerCancelled(r) => FALSE
    BY <1>1, <1>5, <1>6
       DEF RunActs, RunnerStep, RunnerAcquire, RunnerPopen, RunnerReap, RunnerSettle,
           RunnerWrite, BotStep, BotEnters, BotEndsUnobserved, BotExits, BotBind, BotActivity,
           BotUpdate, BotInbox, BotFinal, BotAbort, AfterHook, RunnerBusy, RunnerRaises,
           RunnerForgets, RunnerCrash, BotHookRaises, RunRecords
  <1> QED
    BY <1>7, <1>8

----------------------------------------------------------------------------
(* The process and the Bot turn of a row.                                    *)

\* The Bot turn a row names is the one of the runner that owns the task, or
\* that an acknowledgement is about to name.
WorkerNamed ==
    \A t \in Tasks :
        /\ \A r \in Runners : RunnerOwns(r, t) => tasks[t].worker \in {NoRunner, r}
        /\ \A c \in Controllers : HandlerOwns(c, t) => tasks[t].worker = NoRunner
        /\ \A c \in Controllers :
               ctl[c].pc \in Acknowledging /\ ctl[c].task = t =>
                   tasks[t].worker \in {NoRunner, ctl[c].run}

\* It is a turn that has begun.
WorkerBegan ==
    \A t \in Tasks, r \in Runners : tasks[t].worker = r => runs[r].turn \notin {"none", "new"}

\* A turn that was left behind before it could name itself comes too late: its
\* task is over, or stopping and without any name, and nobody has it or settles
\* it but as failed.
Doomed(r, t) ==
    \/ Final(tasks[t])
    \/ /\ tasks[t].status = "stopping"
       /\ tasks[t].worker = NoRunner /\ tasks[t].proc \in {NoRunner, r}
       /\ runs[r].pc = "write" => runs[r].want = "failed"
       /\ \A s \in Runners : RunnerOwns(s, t) => s = r
       /\ \A c \in Controllers :
              ctl[c].task = t => /\ ~HandlerOwns(c, t)
                                 /\ ctl[c].pc = "notify_settle" => ctl[c].want = "error"
                                 /\ ctl[c].pc = "notify_write" => ctl[c].want = "failed"

\* While the row names a turn left behind, nobody records or is about to record
\* that the task was cancelled.
Spared(r, t) ==
    r \in {tasks[t].proc, tasks[t].worker} =>
        /\ tasks[t].status # "cancelled"
        /\ \A c \in Controllers :
               ctl[c].task = t => /\ ctl[c].pc # "cancel_confirm"
                                  /\ ctl[c].pc \in Confirming => ctl[c].want # "cancelled"

LeftTurn(r) ==
    runs[r].left /\ Working(r) =>
        /\ runs[r].turn = "new" => Doomed(r, runs[r].task)
        /\ Spared(r, runs[r].task)

LeftTurns == \A r \in Runners : LeftTurn(r)

Identity == WorkerNamed /\ WorkerBegan /\ IdentityMatches /\ LeftTurns

\* A row without a Bot turn that failed, or that was cancelled, is final.
LEMMA FinalOutcomes ==
    ASSUME NEW row
    PROVE  /\ row.status = "cancelled" => Final(row)
           /\ row.status = "failed" /\ row.worker = NoRunner => Final(row)
           /\ row.status = "stopping" => Open(row) /\ ~Resumable(row)
  BY DEF Final, Resumable, WorkerStarted, Open, Terminal, TerminalTaskStatuses,
         FinalTaskStatuses, RecoverableTerminalTaskStatuses

\* A stopping row names whom it named, whatever it becomes.
LEMMA StoppingKeepsNames ==
    ASSUME LedgerInv, UNCHANGED ledgerVars \/ \E t \in Tasks : LedgerCall(t),
           NEW u \in Tasks, tasks[u].status = "stopping"
    PROVE  /\ tasks'[u].proc = tasks[u].proc /\ tasks'[u].worker = tasks[u].worker
           /\ tasks'[u].status = "stopping" \/ Terminal(tasks'[u])
  <1>1. LedgerTypeOK /\ tasks \in [Tasks -> TaskRecords] /\ tasks[u] \in TaskRecords
    BY DEF LedgerInv, LedgerTypeOK
  <1>2. CASE UNCHANGED ledgerVars
    BY <1>2 DEF ledgerVars
  <1>3. ASSUME NEW t \in Tasks, LedgerCall(t)
        PROVE  /\ tasks'[u].proc = tasks[u].proc /\ tasks'[u].worker = tasks[u].worker
               /\ tasks'[u].status = "stopping" \/ Terminal(tasks'[u])
    <2>1. tasks'[u].status = "stopping" \/ Terminal(tasks'[u])
      BY <1>3, RowsOfOthersStay
    <2>2. u # t => tasks'[u] = tasks[u]
      BY <1>3, RowsOfOthersStay
    <2>3. ASSUME u = t, NEW q \in Requests, TransitionTask(t, q)
          PROVE  tasks'[u].proc = tasks[u].proc /\ tasks'[u].worker = tasks[u].worker
      <3>1. CASE Accepts(tasks[t], q)
        <4>1. q.status \in TerminalTaskStatuses
          BY <2>3, <3>1 DEF Accepts
        <4>2. q.proc = NoRunner /\ q.worker = NoRunner
          BY <4>1, NamedInRequests DEF Requests, TerminalTaskStatuses, FinalTaskStatuses,
                                       RecoverableTerminalTaskStatuses
        <4> QED
          BY <1>1, <2>3, <4>2, RequestedRow
      <3>2. CASE ~Accepts(tasks[t], q)
        BY <2>3, <3>2 DEF TransitionTask, ledgerVars
      <3> QED
        BY <3>1, <3>2
    <2>4. ASSUME u = t, ReadTaskNotes(t) \/ \E key \in NoteKeys : AddAgentTaskNote(t, key)
          PROVE  tasks'[u].proc = tasks[u].proc /\ tasks'[u].worker = tasks[u].worker
      <3>1. tasks'[u] = Touched(tasks[u])
        BY <1>1, <2>4 DEF ReadTaskNotes, AddAgentTaskNote
      <3> QED
        BY <1>1, <3>1 DEF Touched, TaskRecords
    <2>5. u = t => ~CreateTask(t) /\ ~ClaimTaskContinuation(t)
      BY FinalOutcomes DEF CreateTask, ClaimTaskContinuation, NoTask
    <2> QED
      BY <1>3, <2>1, <2>2, <2>3, <2>4, <2>5 DEF LedgerCall
  <1> QED
    BY <1>2, <1>3

\* A row that is over or stopping without any name is settled as failed.
LEMMA NamelessFails ==
    ASSUME NEW row, row.status = "stopping", row.worker = NoRunner,
           NEW end \in {"error", "unknown"}, Settles(row, end)
    PROVE  end = "error" /\ SettledStatus(row, end) = "failed"
  BY DEF Settles, SettledStatus, WorkerStarted

\* What a run that settles has decided on.
LEMMA RunsDecide ==
    ASSUME BridgeTyped, NEW s \in Runners, RunActs(s), NEW r \in Runners, runs'[r].pc = "write"
    PROVE  \/ runs[r].pc = "write" /\ runs'[r].want = runs[r].want
           \/ /\ runs[r].pc = "settle" /\ Settles(Ticket(r), runs[r].end)
              /\ runs'[r].want = SettledStatus(Ticket(r), runs[r].end)
  <1>1. runs \in [Runners -> RunRecords] /\ runs[r] \in RunRecords
    BY DEF BridgeTyped, BridgeTypeOK
  <1>2. CASE r # s
    BY <1>1, <1>2, RunsMove DEF RunMoves
  <1>3. CASE r = s /\ RunnerSettle(r)
    BY <1>1, <1>3 DEF RunnerSettle, Finish, RunRecords
  <1>4. CASE r = s /\ (BotStep(r) \/ BotHookRaises(r))
    BY <1>1, <1>4
       DEF BotStep, BotEnters, BotEndsUnobserved, BotExits, BotBind, BotActivity, BotUpdate,
           BotInbox, BotFinal, BotAbort, BotHookRaises, AfterHook, RunRecords
  <1>5. ASSUME NEW end, Report(r, end) \/ Leave(r, end) \/ Finish(r, end)
        PROVE  runs'[r].pc # "write"
    BY <1>1, <1>5 DEF Report, Leave, Finish, RunRecords
  <1>6. ~(r = s /\ (RunnerAcquire(r) \/ RunnerPopen(r) \/ RunnerCrash(r)))
    BY <1>1 DEF RunnerAcquire, RunnerPopen, RunnerCrash, RunRecords
  <1> QED
    BY <1>2, <1>3, <1>4, <1>5, <1>6
       DEF RunActs, RunnerStep, RunnerCancelled, RunnerReap, RunnerBusy, RunnerRaises,
           StopFails, RunnerWrite, RunnerForgets

\* A doomed turn stays so, whatever the runs do,
LEMMA RunsKeepDoomed ==
    ASSUME BridgeTyped, LedgerInv, NEW r \in Runners, NEW t \in Tasks, runs[r].task = t,
           runs[r].left, RunReports(r), Doomed(r, t), NEW s \in Runners, RunActs(s)
    PROVE  Doomed(r, t)'
  <1>1. /\ ctl' = ctl
        /\ \A x \in Runners : runs'[x].task = runs[x].task /\ (Live(x)' => Live(x))
        /\ Terminal(tasks'[t]) /\ tasks'[t].status # tasks[t].status =>
               t = runs[s].task /\ runs[s].pc = "write" /\ tasks'[t].status = runs[s].want
    BY RunEffects
  <1>2. UNCHANGED ledgerVars \/ \E u \in Tasks : LedgerCall(u)
    BY RunsCall
  <1>3. CASE Final(tasks[t])
    <2>1. tasks'[t] = tasks[t]
      BY <1>2, <1>3, RowsOfOthersStay DEF ledgerVars
    <2> QED
      BY <1>3, <2>1 DEF Doomed
  <1>4. CASE ~Final(tasks[t])
    <2>1. /\ tasks[t].status = "stopping"
          /\ tasks[t].worker = NoRunner /\ tasks[t].proc \in {NoRunner, r}
          /\ runs[r].pc = "write" => runs[r].want = "failed"
          /\ \A x \in Runners : RunnerOwns(x, t) => x = r
      BY <1>4 DEF Doomed
    <2>2. /\ tasks'[t].proc = tasks[t].proc /\ tasks'[t].worker = NoRunner
          /\ tasks'[t].status = "stopping" \/ Terminal(tasks'[t])
      BY <1>2, <2>1, StoppingKeepsNames
    <2>3. CASE Terminal(tasks'[t])
      <3>1. tasks'[t].status # "stopping"
        BY <2>3, FinalOutcomes DEF Open
      <3>2. RunnerOwns(s, t)
        BY <1>1, <2>1, <2>3, <3>1 DEF RunnerOwns, Live
      <3>3. tasks'[t].status = "failed"
        BY <1>1, <2>1, <2>3, <3>1, <3>2
      <3> QED
        BY <2>2, <3>3, FinalOutcomes DEF Doomed
    <2>4. CASE tasks'[t].status = "stopping"
      <3>1. runs'[r].pc = "write" => runs'[r].want = "failed"
        <4>1. runs[r].end = "error"
          BY DEF RunReports
        <4> QED
          BY <2>1, <4>1, RunsDecide, NamelessFails DEF Ticket
      <3>2. \A x \in Runners : RunnerOwns(x, t)' => RunnerOwns(x, t)
        BY <1>1 DEF RunnerOwns
      <3>3. \A c \in Controllers : HandlerOwns(c, t)' => HandlerOwns(c, t)
        BY <1>1, <2>1, <2>2, FinalOutcomes DEF HandlerOwns, StartsAnew, Open, Possible
      <3> QED
        BY <1>1, <1>4, <2>1, <2>2, <2>4, <3>1, <3>2, <3>3 DEF Doomed
    <2> QED
      BY <2>2, <2>3, <2>4
  <1> QED
    BY <1>3, <1>4

\* and whatever the only session does.
LEMMA HandlersKeepDoomed ==
    ASSUME Orderly, OneSession, BridgeTyped, LedgerInv, NewRows, Ownership,
           NEW r \in Runners, NEW t \in Tasks, runs[r].task = t,
           runs[r].left, RunReports(r), Doomed(r, t),
           NEW c \in Controllers, HandlerActs(c), Working(r)'
    PROVE  Doomed(r, t)'
  <1> DEFINE h == ctl[c]
             q == ctl'[c]
  <1>1. HandlerEffect(c) /\ \A d \in Controllers : d = c
    BY HandlerEffects DEF Ownership, OneSession
  <1>2. UNCHANGED ledgerVars \/ \E u \in Tasks : LedgerCall(u)
    BY HandlersCall
  <1>3. CASE Final(tasks[t])
    <2>1. tasks'[t] = tasks[t]
      BY <1>2, <1>3, RowsOfOthersStay DEF ledgerVars
    <2> QED
      BY <1>3, <2>1 DEF Doomed
  <1>4. CASE ~Final(tasks[t])
    <2>1. /\ tasks[t].status = "stopping" /\ Open(tasks[t]) /\ ~Resumable(tasks[t])
          /\ tasks[t].worker = NoRunner /\ tasks[t].proc \in {NoRunner, r}
          /\ runs[r].pc = "write" => runs[r].want = "failed"
          /\ \A s \in Runners : RunnerOwns(s, t) => s = r
          /\ h.task = t => /\ ~HandlerOwns(c, t)
                           /\ h.pc = "notify_settle" => h.want = "error"
                           /\ h.pc = "notify_write" => h.want = "failed"
      BY <1>4, FinalOutcomes DEF Doomed
    <2>2. /\ tasks'[t].proc = tasks[t].proc /\ tasks'[t].worker = NoRunner
          /\ tasks'[t].status = "stopping" \/ Terminal(tasks'[t])
      BY <1>2, <2>1, StoppingKeepsNames
    <2>3. ASSUME Open(tasks'[t]), runs'[r] = runs[r],
                 \A s \in Runners : RunnerOwns(s, t)' => RunnerOwns(s, t),
                 q.task = t => /\ ~HandlerOwns(c, t)'
                               /\ q.pc = "notify_settle" => q.want = "error"
                               /\ q.pc = "notify_write" => q.want = "failed"
          PROVE  Doomed(r, t)'
      BY <1>1, <2>1, <2>2, <2>3 DEF Doomed, Open
    <2>4. ASSUME runs' = runs
          PROVE  runs'[r] = runs[r] /\ \A s \in Runners : RunnerOwns(s, t)' => RunnerOwns(s, t)
      BY <2>4 DEF RunnerOwns, Live
    <2>5. Idle.pc = "idle"
      BY DEF Idle
    <2>6. CASE Claims(c)
      <3>1. q.task # t /\ tasks'[t] = tasks[t] /\ runs' = runs
        BY <2>1, <2>6 DEF Claims, Open
      <3> QED
        BY <2>1, <2>3, <2>4, <3>1
    <2>7. CASE Launches(c)
      <3>1. PICK s \in Runners :
               /\ HandlerOwns(c, h.task) /\ q.task = h.task
               /\ runs[s].pc = "unused" /\ runs'[s].task = h.task
               /\ \A x \in Runners \ {s} : runs'[x] = runs[x]
               /\ UNCHANGED tasks
        BY <2>7 DEF Launches
      <3>2. h.task # t /\ r # s
        BY <2>1, <3>1 DEF RunReports
      <3>3. \A x \in Runners : RunnerOwns(x, t)' => RunnerOwns(x, t)
        BY <3>1, <3>2 DEF RunnerOwns, Live
      <3> QED
        BY <2>1, <2>3, <3>1, <3>2, <3>3
    <2>8. CASE Acknowledges(c)
      <3>1. q.pc = "idle" /\ Open(tasks'[t]) /\ runs' = runs
        BY <2>1, <2>5, <2>8 DEF Acknowledges
      <3> QED
        BY <2>3, <2>4, <3>1 DEF HandlerOwns
    <2>9. CASE Concludes(c)
      <3>1. CASE h.task = t
        <4>1. /\ h.pc \in {"cancel_confirm", "notify_write"}
              /\ h.pc = "cancel_confirm" => tasks'[t].status = "cancelled"
              /\ h.pc = "notify_write" => tasks'[t].status = "failed"
          BY <2>1, <2>9, <3>1 DEF Concludes, HandlerOwns
        <4> QED
          BY <2>2, <4>1, FinalOutcomes DEF Doomed
      <3>2. CASE h.task # t
        <4>1. q.pc = "idle" /\ tasks'[t] = tasks[t] /\ runs' = runs
          BY <2>5, <2>9, <3>2 DEF Concludes
        <4> QED
          BY <2>1, <2>3, <2>4, <4>1 DEF HandlerOwns
      <3> QED
        BY <3>1, <3>2
    <2>10. CASE Kills(c)
      <3> DEFINE k == h.run
      <3>1. /\ q.pc = "cancel_confirm" /\ tasks' = tasks
            /\ runs'[k].pc = "over" /\ runs'[k].task = runs[k].task
            /\ runs'[k].turn = IF Working(k) THEN "killed" ELSE runs[k].turn
            /\ \A x \in Runners \ {k} : runs'[x] = runs[x]
        BY <2>10 DEF Kills
      <3>2. r # k
        BY <3>1 DEF Working
      <3>3. \A s \in Runners : RunnerOwns(s, t)' => RunnerOwns(s, t)
        BY <3>1 DEF RunnerOwns, Live
      <3> QED
        BY <2>1, <2>3, <3>1, <3>2, <3>3 DEF HandlerOwns
    <2>11. CASE Proceeds(c)
      <3>1. /\ Open(tasks'[t]) /\ runs' = runs
            /\ HandlerOwns(c, t)' => HandlerOwns(c, t)
        BY <2>1, <2>11 DEF Proceeds, Kept
      <3>2. HandlerOwns(c, t) => h.task = t
        BY DEF HandlerOwns
      <3>3. ASSUME q.task = t, q.pc = "notify_settle"
            PROVE  q.want = "error"
        <4>1. PICK s \in Runners : /\ mail[s] # None /\ tasks[t].proc = s
                                   /\ q.want = mail[s]
          BY <2>11, <3>3 DEF Proceeds, Confirming
        <4> QED
          BY <2>1, <4>1, RunnersAssumption DEF RunReports
      <3>4. ASSUME q.task = t, q.pc = "notify_write"
            PROVE  q.want = "failed"
        <4>1. /\ h.pc = "notify_settle" /\ h.task = t
              /\ \E end \in {h.want, "unknown"} :
                    Settles(Row(c), end) /\ q.want = SettledStatus(Row(c), end)
          BY <2>11, <3>4 DEF Proceeds, Confirming
        <4> QED
          BY <2>1, <4>1, NamelessFails DEF Row
      <3> QED
        BY <2>1, <2>3, <2>4, <3>1, <3>2, <3>3, <3>4
    <2> QED
      BY <1>1, <2>6, <2>7, <2>8, <2>9, <2>10, <2>11 DEF HandlerEffect
  <1> QED
    BY <1>3, <1>4

\* While a turn left behind is named, no cancellation is recorded, neither by a
\* run
LEMMA RunsSpare ==
    ASSUME OneSession, BridgeTyped, LedgerInv, Ownership, WorkerNamed, Reports,
           NEW r \in Runners, NEW t \in Tasks, runs[r].task = t, runs[r].left, LeftTurn(r),
           Working(r), NEW s \in Runners, RunActs(s)
    PROVE  Spared(r, t)'
  <1>1. /\ ctl' = ctl /\ runs[s].task \in Tasks
        /\ tasks'[t].proc = tasks[t].proc
        /\ \/ tasks'[t].worker = tasks[t].worker
           \/ t = runs[s].task /\ tasks'[t].worker = s /\ runs[s].turn = "new"
        /\ Terminal(tasks'[t]) /\ tasks'[t].status # tasks[t].status =>
               t = runs[s].task /\ runs[s].pc = "write" /\ tasks'[t].status = runs[s].want
    BY RunEffects
  <1>2. Spared(r, t) /\ (runs[r].turn = "new" => Doomed(r, t))
    BY DEF LeftTurn
  <1>3. tasks'[t].worker = r => tasks[t].worker = r
    <2>1. ASSUME tasks'[t].worker = r, s = r, runs[r].turn = "new" PROVE tasks[t].worker = r
      <3>1. UNCHANGED ledgerVars \/ \E u \in Tasks : LedgerCall(u)
        BY RunsCall
      <3>2. CASE Final(tasks[t])
        BY <2>1, <3>1, <3>2, RowsOfOthersStay DEF ledgerVars
      <3>3. CASE ~Final(tasks[t])
        BY <1>2, <2>1, <3>1, <3>3, StoppingKeepsNames DEF Doomed
      <3> QED
        BY <3>2, <3>3
    <2> QED
      BY <1>1, <2>1
  <1> SUFFICES ASSUME r \in {tasks[t].proc, tasks[t].worker}
               PROVE  tasks'[t].status # "cancelled"
    BY <1>1, <1>2, <1>3 DEF Spared
  <1>4. SUFFICES ASSUME tasks'[t].status = "cancelled" PROVE FALSE
    OBVIOUS
  <1>5. /\ t = runs[s].task /\ runs[s].pc = "write" /\ runs[s].want = "cancelled"
    BY <1>1, <1>2, <1>4 DEF Spared, Terminal, TerminalTaskStatuses, FinalTaskStatuses
  <1>6. s # r
    BY <1>5 DEF Reports, RunReports
  <1>7. RunnerOwns(s, t)
    BY <1>5 DEF RunnerOwns, Live
  <1>8. tasks[t].proc \in {NoRunner, s} /\ tasks[t].worker \in {NoRunner, s}
    BY <1>7 DEF Ownership, OwnerNamed, WorkerNamed
  <1> QED
    BY <1>6, <1>8, RunnersAssumption

\* nor by a session.
LEMMA HandlersSpare ==
    ASSUME Orderly, OneSession, BridgeTyped, LedgerInv, NewRows, Ownership,
           WorkerNamed, IdentityMatches, Reports,
           NEW r \in Runners, NEW t \in Tasks, runs[r].task = t, runs[r].left, LeftTurn(r),
           Working(r), NEW c \in Controllers, HandlerActs(c), Working(r)'
    PROVE  Spared(r, t)'
  <1> DEFINE h == ctl[c]
             q == ctl'[c]
             Calm == q.task = t => /\ q.pc # "cancel_confirm"
                                   /\ q.pc \in Confirming => q.want # "cancelled"
  <1>1. HandlerEffect(c) /\ \A d \in Controllers : d = c
    BY HandlerEffects DEF Ownership, OneSession
  <1>2. r \in {tasks[t].proc, tasks[t].worker} =>
            /\ tasks[t].status # "cancelled"
            /\ h.task = t => /\ h.pc # "cancel_confirm"
                             /\ h.pc \in Confirming => h.want # "cancelled"
    BY DEF LeftTurn, Spared
  <1> SUFFICES ASSUME r \in {tasks'[t].proc, tasks'[t].worker}
               PROVE  tasks'[t].status # "cancelled" /\ Calm
    BY <1>1 DEF Spared
  <1>3. Idle.pc = "idle" /\ "idle" \notin Confirming
    BY DEF Idle, Confirming
  <1>4. CASE Claims(c)
    <2>1. q.task # t /\ tasks'[t] = tasks[t]
      BY <1>4, RunnersAssumption DEF Claims
    <2> QED
      BY <1>2, <2>1
  <1>5. CASE Launches(c)
    BY <1>2, <1>5 DEF Launches, Acknowledging, Confirming
  <1>6. CASE Acknowledges(c)
    BY <1>2, <1>3, <1>6 DEF Acknowledges
  <1>7. CASE Concludes(c)
    BY <1>2, <1>3, <1>7 DEF Concludes, Confirming
  <1>8. CASE Kills(c)
    <2> DEFINE k == h.run
    <2>1. /\ q.task = h.task /\ tasks' = tasks
          /\ h.pc = "cancel_kill" /\ q.pc = "cancel_confirm"
          /\ k \in Runners /\ Live(k)
          /\ runs'[k].turn = IF Working(k) THEN "killed" ELSE runs[k].turn
      BY <1>8 DEF Kills, SameTask
    <2>2. CASE h.task = t
      <3>1. RunnerOwns(k, t)
        BY <2>1, <2>2, RunnersAssumption DEF Ownership, Named, RunOf, RunnerOwns
      <3>2. tasks[t].proc \in {NoRunner, k} /\ tasks[t].worker \in {NoRunner, k}
        BY <2>1, <3>1 DEF Ownership, OwnerNamed, WorkerNamed
      <3>3. r = k
        BY <2>1, <3>2, RunnersAssumption
      <3> QED
        BY <2>1, <3>3 DEF Working
    <2>3. CASE h.task # t
      BY <1>2, <2>1, <2>3
    <2> QED
      BY <2>2, <2>3
  <1>9. CASE Proceeds(c)
    <2>1. /\ r \in {tasks[t].proc, tasks[t].worker} /\ q.pc # "cancel_confirm"
          /\ tasks'[t].status \in {tasks[t].status, "stopping"}
      BY <1>9 DEF Proceeds, Kept
    <2>2. ASSUME q.task = t, q.pc = "notify_settle", q.want = "cancelled"
          PROVE  FALSE
      <3>1. PICK s \in Runners : /\ mail[s] # None /\ tasks[t].proc = s
                                 /\ q.want = mail[s]
        BY <1>9, <2>2 DEF Proceeds, Confirming
      <3>2. s # r
        BY <2>2, <3>1 DEF Reports, RunReports, Working
      <3> QED
        BY <2>1, <3>1, <3>2, RunnersAssumption DEF IdentityMatches, WorkerStarted
    <2>3. ASSUME q.task = t, q.pc = "notify_write", q.want = "cancelled"
          PROVE  FALSE
      <3>1. /\ h.pc = "notify_settle" /\ h.task = t
            /\ \E end \in {h.want, "unknown"} : q.want = SettledStatus(Row(c), end)
        BY <1>9, <2>3 DEF Proceeds, Confirming
      <3>2. h.want = "cancelled"
        BY <2>3, <3>1, CancelledBySettlement
      <3> QED
        BY <1>2, <2>1, <3>1, <3>2 DEF Confirming
    <2> QED
      BY <1>2, <2>1, <2>2, <2>3 DEF Confirming
  <1> QED
    BY <1>1, <1>4, <1>5, <1>6, <1>7, <1>8, <1>9 DEF HandlerEffect

\* A turn is left behind by the owner of a stopping task, which nobody settles.
LEMMA LeavingIsSound ==
    ASSUME OneSession, BridgeTyped, Ownership, WorkerNamed, WorkerBegan,
           NEW r \in Runners, Leave(r, "error"), runs[r].pc = "run", CancellationRequested(r)
    PROVE  LeftTurn(r)'
  <1> DEFINE t == runs[r].task
  <1>1. runs \in [Runners -> RunRecords] /\ runs[r] \in RunRecords /\ t \in Tasks
    BY DEF BridgeTyped, BridgeTypeOK, RunOK
  <1>2. /\ ctl' = ctl /\ tasks' = tasks
        /\ runs'[r].task = t /\ runs'[r].pc = "settle" /\ runs'[r].turn = runs[r].turn
        /\ \A s \in Runners \ {r} : runs'[s] = runs[s]
    BY <1>1 DEF Leave, RunRecords
  <1>3. RunnerOwns(r, t)
    BY DEF RunnerOwns, Live
  <1>4. tasks[t].status = "stopping"
    BY <1>1, <1>3
       DEF Ownership, OwnedIsOpen, Owned, Open, Terminal, CancellationRequested, Ticket,
           TerminalTaskStatuses, FinalTaskStatuses
  <1>5. /\ tasks[t].worker \in {NoRunner, r} /\ tasks[t].proc \in {NoRunner, r}
        /\ \A s \in Runners : RunnerOwns(s, t) => s = r
        /\ \A c \in Controllers : ~HandlerOwns(c, t)
    BY <1>1, <1>3 DEF WorkerNamed, Ownership, OwnerNamed, OneOwner
  <1>6. \A c \in Controllers :
            ctl[c].task = t => ctl[c].pc # "cancel_confirm" /\ ctl[c].pc \notin Confirming
    BY <1>1, <1>3 DEF Ownership, Confirmed, ConfirmedBy, Owned
  <1>7. Spared(r, t)'
    BY <1>2, <1>4, <1>6 DEF Spared
  <1>8. ASSUME runs[r].turn = "new" PROVE Doomed(r, t)'
    <2>1. tasks[t].worker = NoRunner
      BY <1>1, <1>5, <1>8 DEF WorkerBegan
    <2>2. \A s \in Runners : RunnerOwns(s, t)' => s = r
      BY <1>2, <1>5 DEF RunnerOwns, Live
    <2>3. \A c \in Controllers : ~HandlerOwns(c, t)'
      BY <1>2, <1>5 DEF HandlerOwns, Possible
    <2> QED
      BY <1>2, <1>4, <1>5, <1>6, <2>1, <2>2, <2>3 DEF Doomed, Confirming
  <1> QED
    BY <1>2, <1>7, <1>8 DEF LeftTurn

\* What a session does to the turn a row names: it claims the task without one.
LEMMA HandlersNameNoTurn ==
    ASSUME NEW c \in Controllers, HandlerEffect(c), NEW u \in Tasks
    PROVE  tasks'[u].worker \in {tasks[u].worker, NoRunner}
  BY DEF HandlerEffect, Claims, Launches, Acknowledges, Concludes, Kills, Proceeds, Kept

\* Turns left behind and the turns that rows name, from one step to the next.
LEMMA TurnsKept ==
    ASSUME Orderly, OneSession, ~Possible("crash"), BridgeTyped, LedgerInv, NewRows,
           Ownership, Reports, Identity, [BridgeNext]_vars
    PROVE  LeftTurns' /\ WorkerBegan'
  <1>1. ASSUME NEW r \in Runners
        PROVE  LeftTurn(r)'
    <2> SUFFICES ASSUME runs'[r].left, Working(r)' PROVE LeftTurn(r)'
      BY DEF LeftTurn
    <2>1. ASSUME ~runs[r].left PROVE LeftTurn(r)'
      <3>1. Leave(r, "error") /\ runs[r].pc = "run" /\ CancellationRequested(r)
        BY <2>1, LeavingRuns DEF Orderly
      <3> QED
        BY <3>1, LeavingIsSound DEF Identity
    <2>2. ASSUME runs[r].left PROVE LeftTurn(r)'
      <3>1. PICK t \in Tasks :
               /\ runs[r].task = t /\ runs'[r].task = t
               /\ Working(r) /\ (runs'[r].turn = "new" => runs[r].turn = "new")
               /\ RunReports(r) /\ LeftTurn(r)
        <4>1. runs[r].pc \in {"settle", "write", "over"} /\ RunReports(r) /\ LeftTurn(r)
          BY <2>2 DEF Reports, RunReports, Identity, LeftTurns
        <4> QED
          BY <2>2, <4>1, TurnsGoOn, LeftStays DEF BridgeTyped, RunOK
      <3>2. ASSUME NEW s \in Runners, RunActs(s) PROVE LeftTurn(r)'
        <4>1. Spared(r, t)'
          BY <2>2, <3>1, <3>2, RunsSpare DEF Identity
        <4>2. runs[r].turn = "new" => Doomed(r, t)'
          BY <2>2, <3>1, <3>2, RunsKeepDoomed DEF LeftTurn
        <4> QED
          BY <3>1, <4>1, <4>2 DEF LeftTurn, Spared, Doomed
      <3>3. ASSUME NEW c \in Controllers, HandlerActs(c) PROVE LeftTurn(r)'
        <4>1. Spared(r, t)'
          BY <2>2, <3>1, <3>3, HandlersSpare DEF Identity
        <4>2. runs[r].turn = "new" => Doomed(r, t)'
          BY <2>2, <3>1, <3>3, HandlersKeepDoomed DEF LeftTurn
        <4> QED
          BY <3>1, <4>1, <4>2 DEF LeftTurn, Spared, Doomed
      <3>4. CASE UNCHANGED vars
        BY <3>1, <3>4 DEF vars, LeftTurn, Doomed, Spared, RunnerOwns, HandlerOwns, Live, Working,
                          Possible
      <3> QED
        BY <3>2, <3>3, <3>4, Actors
    <2> QED
      BY <2>1, <2>2
  <1>2. ASSUME NEW u \in Tasks, NEW r \in Runners, tasks'[u].worker = r
        PROVE  runs'[r].turn \notin {"none", "new"}
    <2>1. CASE tasks[u].worker = r
      BY <2>1, TurnsGoOn DEF Identity, WorkerBegan
    <2>2. CASE tasks[u].worker # r
      <3>1. ~UNCHANGED vars
        BY <1>2, <2>2 DEF vars
      <3>2. ASSUME NEW c \in Controllers, HandlerActs(c) PROVE FALSE
        <4>1. HandlerEffect(c)
          BY <3>2, HandlerEffects DEF Ownership
        <4> QED
          BY <1>2, <2>2, <4>1, HandlersNameNoTurn, RunnersAssumption
      <3>3. PICK s \in Runners : RunActs(s)
        BY <3>1, <3>2, Actors
      <3> QED
        BY <1>2, <2>2, <3>3, RunEffects
    <2> QED
      BY <2>1, <2>2
  <1> QED
    BY <1>1, <1>2 DEF LeftTurns, WorkerBegan

\* A runner or its Bot turn writes its own name only, and a turn left behind none.
LEMMA RunsKeepIdentity ==
    ASSUME OneSession, BridgeTyped, LedgerInv, Ownership, TurnsAreRun, TurnsOfRetries,
           Identity, NEW r \in Runners, RunActs(r)
    PROVE  WorkerNamed' /\ IdentityMatches'
  <1> DEFINE t == runs[r].task
  <1>1. /\ ctl' = ctl /\ t \in Tasks
        /\ \A s \in Runners : runs'[s].task = runs[s].task /\ (Live(s)' => Live(s))
        /\ \A u \in Tasks : /\ tasks'[u].proc = tasks[u].proc
                            /\ tasks'[u].worker # tasks[u].worker =>
                                 u = t /\ tasks'[u].worker = r /\ runs[r].turn = "new"
    BY RunEffects
  <1>2. /\ \A s \in Runners, u \in Tasks : RunnerOwns(s, u)' => RunnerOwns(s, u)
        /\ \A c \in Controllers, u \in Tasks : HandlerOwns(c, u)' => HandlerOwns(c, u)
    BY <1>1, RunsReopenNothing DEF RunnerOwns, Ownership
  <1>3. tasks'[t].worker # tasks[t].worker => RunnerOwns(r, t)
    <2>1. CASE ~runs[r].left
      BY <2>1, OnlyLiveRunsAct DEF RunnerOwns
    <2>2. CASE runs[r].left
      <3>1. UNCHANGED ledgerVars \/ \E u \in Tasks : LedgerCall(u)
        BY RunsCall
      <3>2. runs[r].turn = "new" => Doomed(r, t)
        BY <2>2 DEF Identity, LeftTurns, LeftTurn, Working
      <3>3. Final(tasks[t]) => tasks'[t] = tasks[t]
        BY <1>1, <3>1, RowsOfOthersStay DEF ledgerVars
      <3>4. tasks[t].status = "stopping" => tasks'[t].worker = tasks[t].worker
        BY <1>1, <3>1, StoppingKeepsNames
      <3> QED
        BY <1>1, <3>2, <3>3, <3>4 DEF Doomed
    <2> QED
      BY <2>1, <2>2
  <1>4. RunnerOwns(r, t) =>
            /\ \A s \in Runners : RunnerOwns(s, t) => s = r
            /\ \A c \in Controllers : ~HandlerOwns(c, t)
            /\ tasks[t].proc \in {NoRunner, r}
            /\ \A c \in Controllers :
                  ctl[c].pc \in Acknowledging /\ ctl[c].task = t => ctl[c].run = r
    BY <1>1 DEF Ownership, OneOwner, OwnerNamed
  <1>5. WorkerNamed'
    BY <1>1, <1>2, <1>3, <1>4 DEF Identity, WorkerNamed
  <1>6. IdentityMatches'
    BY <1>1, <1>3, <1>4 DEF Identity, IdentityMatches, WorkerStarted
  <1> QED
    BY <1>5, <1>6

\* A handler names a runner in a row only where no other turn is named.
LEMMA HandlersKeepIdentity ==
    ASSUME Orderly, OneSession, BridgeTyped, LedgerInv, NewRows, Ownership, Identity,
           NEW c \in Controllers, HandlerActs(c)
    PROVE  WorkerNamed' /\ IdentityMatches'
  <1>1. HandlerEffect(c) /\ \A d \in Controllers : d = c
    BY HandlerEffects DEF Ownership, OneSession
  <1>2. WorkerNamed /\ IdentityMatches
    BY DEF Identity
  <1>3. ASSUME \A u \in Tasks : tasks'[u].proc = tasks[u].proc /\ tasks'[u].worker = tasks[u].worker
        PROVE  IdentityMatches'
    BY <1>2, <1>3 DEF IdentityMatches, WorkerStarted
  <1>4. ASSUME \A u \in Tasks : tasks'[u].worker = tasks[u].worker,
               \A r \in Runners, u \in Tasks : RunnerOwns(r, u)' => RunnerOwns(r, u),
               \A u \in Tasks : HandlerOwns(c, u)' => HandlerOwns(c, u),
               ctl'[c].pc \notin Acknowledging
        PROVE  WorkerNamed'
    BY <1>1, <1>2, <1>4 DEF WorkerNamed
  <1>5. CASE Claims(c)
    <2>1. PICK t \in Tasks :
             /\ tasks'[t].proc = NoRunner /\ tasks'[t].worker = NoRunner
             /\ \A u \in Tasks \ {t} : tasks'[u] = tasks[u]
             /\ ctl'[c].task = t /\ HandlerOwns(c, t)'
             /\ UNCHANGED runs
      BY <1>5 DEF Claims
    <2>2. \A r \in Runners, u \in Tasks : RunnerOwns(r, u)' => RunnerOwns(r, u)
      BY <2>1 DEF RunnerOwns, Live
    <2>3. \A u \in Tasks \ {t} : ~HandlerOwns(c, u)' /\ ctl'[c].pc \notin Acknowledging
      BY <2>1 DEF HandlerOwns, Acknowledging
    <2>4. WorkerNamed'
      BY <1>1, <1>2, <2>1, <2>2, <2>3 DEF WorkerNamed, HandlerOwns, Acknowledging
    <2>5. IdentityMatches'
      BY <1>2, <2>1 DEF IdentityMatches
    <2> QED
      BY <2>4, <2>5
  <1>6. CASE Launches(c)
    <2>1. PICK r \in Runners, t \in Tasks :
             /\ HandlerOwns(c, t)
             /\ ctl'[c].pc \in Acknowledging /\ ctl'[c].task = t /\ ctl'[c].run = r
             /\ runs'[r].task = t
             /\ \A s \in Runners \ {r} : runs'[s] = runs[s]
             /\ UNCHANGED tasks
      BY <1>6 DEF Launches, HandlerOwns, BridgeTyped, HandlerOK
    <2>2. /\ tasks[t].worker = NoRunner
          /\ \A s \in Runners, u \in Tasks : RunnerOwns(s, u)' => RunnerOwns(s, u) \/ u = t
          /\ \A u \in Tasks : ~HandlerOwns(c, u)'
      BY <1>2, <2>1 DEF WorkerNamed, RunnerOwns, Live, HandlerOwns, Acknowledging
    <2>3. WorkerNamed'
      BY <1>1, <1>2, <2>1, <2>2 DEF WorkerNamed
    <2> QED
      BY <1>3, <2>1, <2>3
  <1>7. CASE Acknowledges(c)
    <2>1. /\ ctl[c].pc \in Acknowledging /\ ctl'[c] = Idle
          /\ \A u \in Tasks : /\ tasks'[u].worker = tasks[u].worker
                              /\ tasks'[u].proc # tasks[u].proc =>
                                   u = ctl[c].task /\ tasks'[u].proc = ctl[c].run
          /\ UNCHANGED runs
      BY <1>7 DEF Acknowledges
    <2>2. WorkerNamed'
      BY <1>4, <2>1 DEF RunnerOwns, HandlerOwns, Live, Idle, Acknowledging
    <2>3. IdentityMatches'
      BY <1>2, <2>1 DEF WorkerNamed, IdentityMatches, WorkerStarted
    <2> QED
      BY <2>2, <2>3
  <1>8. CASE Concludes(c)
    BY <1>3, <1>4, <1>8
       DEF Concludes, RunnerOwns, HandlerOwns, Live, Idle, Acknowledging
  <1>9. CASE Kills(c)
    BY <1>3, <1>4, <1>9
       DEF Kills, RunnerOwns, HandlerOwns, Live, Acknowledging
  <1>10. CASE Proceeds(c)
    BY <1>3, <1>4, <1>10 DEF Proceeds, Kept, RunnerOwns, Live
  <1> QED
    BY <1>1, <1>5, <1>6, <1>7, <1>8, <1>9, <1>10 DEF HandlerEffect

\* The identity a row keeps, and what it rests on.
LEMMA IdentityInvariant ==
    ASSUME Orderly, OneSession, ~Possible("crash")
    PROVE  BridgeSpec => []Identity
  <1>1. BridgeInit => Identity
    <2>1. NotStarted.left = FALSE
      BY DEF NotStarted
    <2> QED
      BY <2>1, RunnersAssumption
         DEF BridgeInit, LedgerInit, Identity, WorkerNamed, WorkerBegan, IdentityMatches,
             WorkerStarted, LeftTurns, LeftTurn, NoTask
  <1>2. /\ Identity /\ Ownership /\ TurnsAreRun /\ TurnsOfRetries /\ Reports /\ BridgeTyped
        /\ LedgerInv /\ NewRows /\ [BridgeNext]_vars
        => Identity'
    <2> SUFFICES ASSUME Identity, Ownership, TurnsAreRun, TurnsOfRetries, Reports, BridgeTyped,
                        LedgerInv, NewRows, [BridgeNext]_vars
                 PROVE  WorkerNamed' /\ IdentityMatches'
      BY TurnsKept DEF Identity
    <2>1. UNCHANGED vars => WorkerNamed' /\ IdentityMatches'
      BY DEF vars, Identity, WorkerNamed, IdentityMatches, WorkerStarted, RunnerOwns,
             HandlerOwns, Live, Possible
    <2> QED
      BY <2>1, Actors, RunsKeepIdentity, HandlersKeepIdentity
  <1>3. BridgeSpec => []LedgerInv /\ []NewRows
    BY BridgeImplementsLedger, LedgerInvariant, NewRowsInvariant, PTL
  <1> QED
    BY <1>1, <1>2, <1>3, OwnershipInvariant, RetriesKillNoTurn, RunsReport,
       TurnsStopWithTheirRunner, BridgeInvariantTyped, PTL DEF BridgeSpec

\* The process and the Bot turn a row names belong to one run, through every
\* continuation, late acknowledgement and cancellation of its only session, and
\* with turns that cannot be stopped.
THEOREM RowsNameOneRun ==
    ASSUME Orderly, OneSession, ~Possible("crash")
    PROVE  BridgeSpec => []IdentityMatches
  <1>1. Identity => IdentityMatches
    BY DEF Identity
  <1> QED
    BY <1>1, IdentityInvariant, PTL

\* While a task is recorded as cancelled, no Bot turn that its row names is at
\* work, nor any other but one that an earlier runner could not stop: a runner
\* that fails to stop its turn has the task end as interrupted or failed.
THEOREM CancelledTasksAreStill ==
    ASSUME Orderly, OneSession, ~Possible("crash")
    PROVE  BridgeSpec => []CancelledMeansStopped
  <1>1. BridgeTyped /\ Ownership /\ TurnsAreRun /\ Identity => CancelledMeansStopped
    <2> SUFFICES ASSUME BridgeTyped, Ownership, TurnsAreRun, Identity, NEW r \in Runners,
                        Working(r), Ticket(r).status = "cancelled"
                 PROVE  runs[r].left /\ r \notin {Ticket(r).proc, Ticket(r).worker}
      BY DEF CancelledMeansStopped
    <2>1. runs[r].task \in Tasks
      BY DEF BridgeTyped, RunOK, Working, NotStarted
    <2>2. runs[r].left
      <3>1. ASSUME ~runs[r].left PROVE FALSE
        <4>1. Live(r)
          BY <3>1 DEF TurnsAreRun, Live
        <4>2. Open(Ticket(r))
          BY <2>1, <4>1 DEF Ownership, OwnedIsOpen, Owned, RunnerOwns, Ticket
        <4> QED
          BY <4>2 DEF Open, Terminal, TerminalTaskStatuses, FinalTaskStatuses
      <3> QED
        BY <3>1
    <2>3. Spared(r, runs[r].task)
      BY <2>2 DEF Identity, LeftTurns, LeftTurn
    <2> QED
      BY <2>2, <2>3 DEF Spared, Ticket
  <1> QED
    BY <1>1, IdentityInvariant, OwnershipInvariant, TurnsStopWithTheirRunner,
       BridgeInvariantTyped, PTL

----------------------------------------------------------------------------
(* The instruction of a continuation.                                        *)

\* Unread notes of a task stay so until its turn reads them or its inbox is
\* closed.
LEMMA UnreadStays ==
    ASSUME LedgerTypeOK, NEW u \in Tasks, NEW t \in Tasks, Held(t, "unread") # {},
           \/ UNCHANGED notes
           \/ \E q \in Requests : TransitionTask(u, q)
           \/ \E key \in NoteKeys : AddAgentTaskNote(u, key)
           \/ t # u /\ ReadTaskNotes(u)
    PROVE  Held(t, "unread")' # {} \/ (t = u /\ ClosesNotes(tasks'[u]))
  <1>1. notes \in Seq(Notes) /\ tasks \in [Tasks -> TaskRecords]
    BY DEF LedgerTypeOK
  <1>2. PICK i \in DOMAIN notes : notes[i].task = t /\ notes[i].status = "unread"
    BY DEF Held
  <1>3. ASSUME UNCHANGED notes PROVE Held(t, "unread")' # {}
    BY <1>3 DEF Held
  <1>4. ASSUME NEW indices, NEW status \in {"read", "missed"}, i \notin indices,
               notes' = Marked(indices, status)
        PROVE  Held(t, "unread")' # {}
    <2>1. i \in DOMAIN notes' /\ notes'[i].task = t /\ notes'[i].status = "unread"
      BY <1>1, <1>2, <1>4, MarkedNotes
    <2> QED
      BY <2>1 DEF Held
  <1>5. ASSUME NEW q \in Requests, TransitionTask(u, q)
        PROVE  Held(t, "unread")' # {} \/ (t = u /\ ClosesNotes(tasks'[u]))
    <2>1. CASE Accepts(tasks[u], q) /\ ClosesNotes(Transitioned(tasks[u], q))
      <3>1. tasks'[u] = Transitioned(tasks[u], q) /\ notes' = Marked(Held(u, "unread"), "missed")
        BY <1>1, <1>5, <2>1 DEF TransitionTask, CloseInbox
      <3>2. t # u => i \notin Held(u, "unread")
        BY <1>2 DEF Held
      <3> QED
        BY <1>4, <2>1, <3>1, <3>2
    <2>2. CASE ~(Accepts(tasks[u], q) /\ ClosesNotes(Transitioned(tasks[u], q)))
      BY <1>3, <1>5, <2>2 DEF TransitionTask, ledgerVars
    <2> QED
      BY <2>1, <2>2
  <1>6. ASSUME NEW key \in NoteKeys, AddAgentTaskNote(u, key)
        PROVE  Held(t, "unread")' # {}
    <2>1. notes' = Append(notes, [task |-> u, key |-> key, status |-> "unread"])
      BY <1>6 DEF AddAgentTaskNote
    <2>2. i \in DOMAIN notes' /\ notes'[i] = notes[i]
      BY <1>1, <2>1, AppendProperties, LenProperties DEF Notes
    <2> QED
      BY <1>2, <2>2 DEF Held
  <1>7. ASSUME ReadTaskNotes(u), t # u
        PROVE  Held(t, "unread")' # {}
    <2>1. notes' = Marked(Inbox(u), "read") /\ i \notin Inbox(u)
      BY <1>2, <1>7 DEF ReadTaskNotes, Inbox, Held
    <2> QED
      BY <1>4, <2>1
  <1> QED
    BY <1>3, <1>5, <1>6, <1>7

\* A note is unread when it is added.
LEMMA AddedIsUnread ==
    ASSUME notes \in Seq(Notes), NEW t \in Tasks, NEW key \in NoteKeys, AddAgentTaskNote(t, key)
    PROVE  Held(t, "unread")' # {}
  <1> DEFINE e == [task |-> t, key |-> key, status |-> "unread"]
  <1>1. notes' = Append(notes, e) /\ e \in Notes
    BY DEF AddAgentTaskNote, Notes
  <1>2. Len(notes) + 1 \in DOMAIN notes' /\ notes'[Len(notes) + 1] = e
    BY <1>1, AppendProperties, LenProperties
  <1> QED
    BY <1>2 DEF Held

\* Neither a transition nor an inbox read records a new key.
LEMMA KeysStay ==
    ASSUME LedgerTypeOK, NEW t \in Tasks, NEW key,
           ReadTaskNotes(t) \/ \E q \in Requests : TransitionTask(t, q)
    PROVE  Recorded(key)' => Recorded(key)
  <1>1. notes \in Seq(Notes)
    BY DEF LedgerTypeOK
  <1>2. \/ UNCHANGED notes
        \/ notes' = Marked(Inbox(t), "read") \/ notes' = Marked(Held(t, "unread"), "missed")
    BY DEF ReadTaskNotes, TransitionTask, CloseInbox, ledgerVars
  <1>3. ASSUME NEW indices, NEW status \in {"read", "missed"}, notes' = Marked(indices, status)
        PROVE  \A i \in DOMAIN notes' : i \in DOMAIN notes /\ notes'[i].key = notes[i].key
    <2>1. DOMAIN notes' = DOMAIN notes
      BY <1>1, <1>3, MarkedNotes
    <2>2. \A i \in DOMAIN notes : notes[i] \in Notes
      BY <1>1, ElementOfSeq, LenProperties
    <2> QED
      BY <1>3, <2>1, <2>2 DEF Marked, Notes
  <1> QED
    BY <1>2, <1>3 DEF Recorded

\* A run that has not started its turn leaves the ledger alone.
LEMMA WaitingRunsAreSilent ==
    ASSUME BridgeTyped, NEW r \in Runners, RunActs(r), runs[r].pc \in {"lock", "start"}
    PROVE  UNCHANGED ledgerVars
  <1>1. runs[r].turn = "none" /\ runs[r].hook = None
    BY DEF BridgeTyped, RunOK
  <1> QED
    BY <1>1 DEF RunActs, RunnerStep, RunnerAcquire, RunnerPopen, RunnerCancelled, RunnerReap,
                RunnerSettle, RunnerWrite, Report, StopFails, RunnerBusy, RunnerRaises,
                RunnerForgets, RunnerCrash, BotStep, BotEnters, BotEndsUnobserved, BotExits,
                BotBind, BotActivity, BotUpdate, BotInbox, BotFinal, BotAbort, BotHookRaises, Between,
                Working, None, ledgerVars

\* A session neither reads notes nor reports a final reply.
LEMMA HandlersSpareNotes ==
    ASSUME BridgeTyped, LedgerInv, NEW c \in Controllers, HandlerActs(c), NEW t \in Tasks
    PROVE  /\ Held(t, "unread") # {} => Held(t, "unread")' # {} \/ ClosesNotes(tasks'[t])
           /\ tasks'[t].status = "returning" => tasks[t].status = "returning"
  <1>1. /\ LedgerTypeOK /\ tasks \in [Tasks -> TaskRecords] /\ notes \in Seq(Notes)
        /\ HandlerOK(ctl[c])
    BY DEF LedgerInv, LedgerTypeOK, BridgeTyped
  <1> DEFINE u == ctl[c].task
  <1>2. CASE UNCHANGED <<tasks, notes>>
    BY <1>2 DEF Held
  <1>3. ASSUME NEW q \in Requests, TransitionTask(u, q), ctl[c].pc # "idle",
               q.status # "returning"
        PROVE  /\ Held(t, "unread") # {} => Held(t, "unread")' # {} \/ ClosesNotes(tasks'[t])
               /\ tasks'[t].status = "returning" => tasks[t].status = "returning"
    <2>1. u \in Tasks
      BY <1>1, <1>3 DEF HandlerOK
    <2>2. Held(t, "unread") # {} => Held(t, "unread")' # {} \/ ClosesNotes(tasks'[t])
      BY <1>1, <1>3, <2>1, UnreadStays
    <2>3. tasks' = tasks \/ tasks' = [tasks EXCEPT ![u] = Transitioned(tasks[u], q)]
      BY <1>3 DEF TransitionTask, ledgerVars
    <2>4. Transitioned(tasks[u], q).status = q.status
      BY DEF Transitioned
    <2> QED
      BY <1>1, <1>3, <2>1, <2>2, <2>3, <2>4
  <1>4. CASE StartAck(c) \/ MessageAck(c)
    <2>1. \E s \in {"dispatched", "continuing"} :
            /\ TransitionTask(u, AskWithProcess(s, ctl[c].run))
            /\ AskWithProcess(s, ctl[c].run) \in Requests
      BY <1>1, <1>4, AskedRequests DEF StartAck, MessageAck, At, HandlerOK
    <2> QED
      BY <1>3, <1>4, <2>1, NamedInRequests DEF StartAck, MessageAck, At
  <1>5. CASE StartFail(c) \/ CancelRequest(c) \/ CancelConfirm(c)
    BY <1>1, <1>3, <1>5, AskedRequests, NamedInRequests
       DEF StartFail, CancelRequest, CancelConfirm, At
  <1>6. CASE MessageUndo(c)
    BY <1>1, <1>3, <1>6, AskedRequests, NamedInRequests DEF MessageUndo, At, HandlerOK
  <1>7. CASE NotifyWrite(c)
    <2>1. /\ ctl[c].want \in TerminalTaskStatuses
          /\ TransitionTask(u, Outcome(ctl[c].want))
      BY <1>1, <1>7 DEF NotifyWrite, At, HandlerOK
    <2> QED
      BY <1>3, <1>7, <2>1, AskedRequests, NamedInRequests
         DEF NotifyWrite, At, TerminalTaskStatuses, FinalTaskStatuses,
             RecoverableTerminalTaskStatuses
  <1>8. CASE MessageNote(c)
    <2>1. u \in Tasks /\ ctl[c].key \in NoteKeys
      BY <1>1, <1>8 DEF MessageNote, At, HandlerOK
    <2>2. CASE AddAgentTaskNote(u, ctl[c].key)
      <3>1. tasks' = [tasks EXCEPT ![u] = Touched(tasks[u])]
        BY <2>2 DEF AddAgentTaskNote
      <3>2. tasks[u] \in TaskRecords /\ Touched(tasks[u]).status = tasks[u].status
        BY <1>1, <2>1 DEF Touched, TaskRecords
      <3>3. tasks'[t].status = tasks[t].status
        BY <1>1, <2>1, <3>1, <3>2
      <3> QED
        BY <1>1, <2>1, <2>2, <3>3, UnreadStays
    <2> QED
      BY <1>2, <1>8, <2>2 DEF MessageNote, ledgerVars
  <1>9. ASSUME NEW v \in Tasks, StartIntent(c, v)
        PROVE  /\ Held(t, "unread") # {} => Held(t, "unread")' # {} \/ ClosesNotes(tasks'[t])
               /\ tasks'[t].status = "returning" => tasks[t].status = "returning"
    <2>1. CASE CreateTask(v)
      BY <1>1, <2>1 DEF CreateTask, NoTask, Held
    <2> QED
      BY <1>2, <1>9, <2>1 DEF StartIntent, ledgerVars
  <1>10. CASE MessageClaim(c)
    <2>1. u \in Tasks
      BY <1>1, <1>10 DEF MessageClaim, At, HandlerOK
    <2>2. CASE ClaimTaskContinuation(u)
      BY <1>1, <2>1, <2>2 DEF ClaimTaskContinuation, Continued, NoTask, Held
    <2> QED
      BY <1>2, <1>10, <2>2 DEF MessageClaim, ledgerVars
  <1>11. CASE HandlerRaises(c)
    <2>1. CASE /\ ctl[c].pc = "start_ack"
               /\ TransitionTask(u, AskWithProcess("dispatched", ctl[c].run))
      <3>1. AskWithProcess("dispatched", ctl[c].run) \in Requests
        BY <1>1, <2>1, AskedRequests DEF HandlerOK
      <3> QED
        BY <1>3, <2>1, <3>1, NamedInRequests
    <2> QED
      BY <1>2, <1>11, <2>1 DEF HandlerRaises, At, ledgerVars
  <1> QED
    BY <1>2, <1>4, <1>5, <1>6, <1>7, <1>8, <1>9, <1>10, <1>11
       DEF HandlerActs, ControllerCall, MessageRead, CancelRead, ControllerStep,
           StartCheck, StartDispatch, MessageDispatch, Dispatch, CancelKill, ledgerVars,
           NotifySettle, NotifyFind, ControllerCrash

\* The places of agent_task_message before its runner exists.
LEMMA MessagePlaces ==
    ASSUME BridgeTyped, NEW c \in Controllers, HandlerActs(c),
           ctl'[c].pc \in {"message_note", "message_claim", "message_dispatch"}
    PROVE  \/ MessageNote(c) \/ MessageClaim(c)
           \/ \E t \in Tasks, key \in NoteKeys : MessageRead(c, t, key)
  <1>1. ctl \in [Controllers -> HandlerRecords] /\ ctl[c] \in HandlerRecords
    BY DEF BridgeTyped, BridgeTypeOK
  <1>2. Idle.pc = "idle"
    BY DEF Idle
  <1>3. ASSUME NEW pc, Goto(c, pc) PROVE ctl'[c].pc = pc
    BY <1>1, <1>3 DEF Goto, HandlerRecords
  <1>4. ~Return(c) /\ (UNCHANGED ctl => ctl[c].pc # "idle")
    BY <1>1, <1>2 DEF Return
  <1>5. ~\E t \in Tasks : StartIntent(c, t) \/ CancelRead(c, t)
    BY <1>1 DEF StartIntent, CancelRead, Enter, Idle
  <1>6. ~(StartCheck(c) \/ StartAck(c) \/ StartFail(c) \/ MessageAck(c) \/ MessageUndo(c)
          \/ CancelRequest(c) \/ CancelKill(c) \/ CancelConfirm(c) \/ NotifyWrite(c)
          \/ HandlerRaises(c) \/ ControllerCrash(c))
    BY <1>3, <1>4 DEF StartCheck, StartAck, StartFail, MessageAck, MessageUndo, CancelRequest,
                      CancelKill, CancelConfirm, NotifyWrite, HandlerRaises, ControllerCrash
  <1>7. ~(StartDispatch(c) \/ MessageDispatch(c))
    <2>1. ASSUME NEW cont, NEW ack \in {"start_ack", "message_ack"},
                 NEW fail \in {"start_fail", "message_undo"}, Dispatch(c, cont, ack, fail)
          PROVE  FALSE
      BY <1>1, <1>3, <2>1 DEF Dispatch, HandlerRecords
    <2> QED
      BY <2>1 DEF StartDispatch, MessageDispatch
  <1>8. ~NotifySettle(c)
    BY <1>1, <1>4 DEF NotifySettle, HandlerRecords
  <1>9. ~\E r \in Runners : NotifyFind(c, r)
    BY <1>1, <1>4 DEF NotifyFind, At, Idle
  <1> QED
    BY <1>5, <1>6, <1>7, <1>8, <1>9 DEF HandlerActs, ControllerCall, ControllerStep

\* A continuation has been claimed for the task and its turn has not started.
Waiting(t) ==
    \/ \E c \in Controllers : ctl[c].pc = "message_dispatch" /\ ctl[c].task = t
    \/ \E r \in Runners : /\ runs[r].task = t /\ runs[r].cont
                          /\ runs[r].pc \in {"lock", "start"}

\* The note of a message is new when it is added and unread until the turn that
\* was started for it, or a turn left behind, reads it.
Instructed ==
    /\ \A c \in Controllers : ctl[c].pc = "message_note" => ~Recorded(ctl[c].key)
    /\ \A c \in Controllers, t \in Tasks :
           ctl[c].pc = "message_claim" /\ ctl[c].task = t =>
               ~Owned(t) /\ (Held(t, "unread") # {} \/ LeftBehind(t))
    /\ \A t \in Tasks :
           Waiting(t) => \/ Held(t, "unread") # {} /\ tasks[t].status # "returning"
                         \/ LeftBehind(t)

\* No run comes back to where it waits for its turn.
LEMMA NoRunWaitsAgain ==
    ASSUME BridgeTyped, NEW r \in Runners, RunActs(r),
           NEW s \in Runners, runs'[s].pc \in {"lock", "start"}
    PROVE  runs[s].pc \in {"lock", "start"} /\ runs'[s].cont = runs[s].cont
  <1>1. /\ runs \in [Runners -> RunRecords] /\ runs[s] \in RunRecords /\ RunOK(runs[r])
        /\ s # r => runs'[s] = runs[s]
    BY RunsMove DEF BridgeTyped, BridgeTypeOK, RunMoves
  <1>2. ASSUME s = r, RunnerAcquire(r) \/ RunnerPopen(r)
        PROVE  runs[s].pc \in {"lock", "start"} /\ runs'[s].cont = runs[s].cont
    BY <1>1, <1>2 DEF RunnerAcquire, RunnerPopen, RunRecords
  <1>3. ASSUME NEW end, s = r, Report(r, end) \/ Leave(r, end) \/ Finish(r, end)
        PROVE  FALSE
    BY <1>1, <1>3 DEF Report, Leave, Finish, RunRecords
  <1>4. ASSUME s = r, RunnerSettle(r)
        PROVE  FALSE
    BY <1>1, <1>3, <1>4 DEF RunnerSettle, RunRecords
  <1>5. ASSUME s = r, BotStep(r) \/ BotHookRaises(r)
        PROVE  runs'[s].pc = runs[s].pc /\ runs'[s].cont = runs[s].cont
    BY <1>1, <1>5
       DEF BotStep, BotEnters, BotEndsUnobserved, BotExits, BotBind, BotActivity, BotUpdate,
           BotInbox, BotFinal, BotAbort, BotHookRaises, AfterHook, RunRecords
  <1>6. ~(s = r /\ RunnerCrash(r))
    BY <1>1 DEF RunnerCrash, RunRecords
  <1> QED
    BY <1>1, <1>2, <1>3, <1>4, <1>5, <1>6
       DEF RunActs, RunnerStep, RunnerCancelled, RunnerReap, RunnerBusy, RunnerRaises,
           StopFails, RunnerWrite, RunnerForgets

\* A run that starts its turn takes no instruction from another continuation.
LEMMA RunsKeepInstructed ==
    ASSUME ~Possible("retry"), BridgeTyped, LedgerInv, Ownership, TurnsAreRun, Instructed,
           NEW r \in Runners, RunActs(r)
    PROVE  Instructed'
  <1> DEFINE u == runs[r].task
  <1>1. /\ ctl' = ctl /\ u \in Tasks
        /\ \A s \in Runners : runs'[s].task = runs[s].task /\ (Live(s)' => Live(s))
        /\ \A t \in Tasks : t # u => tasks'[t] = tasks[t]
    BY RunEffects
  <1>2. /\ LedgerTypeOK /\ OwnedIsOpen /\ OneOwner
        /\ ~LeftBehind(u) => RunnerOwns(r, u)
    BY OnlyLiveRunsAct DEF LedgerInv, Ownership, RunnerOwns, LeftBehind
  <1>3. \/ UNCHANGED ledgerVars
        \/ \E q \in Requests : TransitionTask(u, q)
        \/ ReadTaskNotes(u)
    BY RunsCall
  <1>4. /\ \A t \in Tasks : t # u /\ Held(t, "unread") # {} => Held(t, "unread")' # {}
        /\ \A t \in Tasks : LeftBehind(t) => LeftBehind(t)'
    BY <1>1, <1>2, <1>3, UnreadStays, LeftStays, Actors DEF ledgerVars
  <1>5. \A t \in Tasks : Owned(t)' => Owned(t)
    BY <1>1, <1>2, RunsReopenNothing DEF Owned, RunnerOwns, TurnsOfRetries
  <1>6. \A c \in Controllers : (ctl[c].pc = "message_note" => ~Recorded(ctl[c].key))'
    <2>1. \A key : Recorded(key)' => Recorded(key)
      <3>1. CASE UNCHANGED ledgerVars
        BY <3>1 DEF ledgerVars, Recorded
      <3> QED
        BY <1>1, <1>2, <1>3, <3>1, KeysStay
    <2> QED
      BY <1>1, <2>1 DEF Instructed
  <1>7. ASSUME NEW c \in Controllers, NEW t \in Tasks,
               ctl[c].pc = "message_claim", ctl[c].task = t
        PROVE  ~Owned(t)' /\ (Held(t, "unread")' # {} \/ LeftBehind(t)')
    <2>1. ~Owned(t) /\ (Held(t, "unread") # {} \/ LeftBehind(t))
      BY <1>7 DEF Instructed
    <2>2. t # u \/ LeftBehind(t)
      BY <1>2, <2>1 DEF Owned
    <2> QED
      BY <1>4, <1>5, <2>1, <2>2
  <1>8. ASSUME NEW t \in Tasks, Waiting(t)', ~LeftBehind(t)'
        PROVE  Held(t, "unread")' # {} /\ tasks'[t].status # "returning"
    <2>1. Waiting(t)
      BY <1>1, <1>8, NoRunWaitsAgain DEF Waiting
    <2>2. Held(t, "unread") # {} /\ tasks[t].status # "returning" /\ ~LeftBehind(t)
      BY <1>4, <1>8, <2>1 DEF Instructed
    <2>3. CASE t # u
      BY <1>1, <1>4, <2>2, <2>3, <1>8
    <2>4. CASE t = u
      <3>1. ~\E c \in Controllers : ctl[c].pc = "message_dispatch" /\ ctl[c].task = t
        BY <1>2, <2>2, <2>4 DEF OneOwner, HandlerOwns
      <3>2. runs[r].pc \in {"lock", "start"}
        BY <1>2, <2>1, <2>2, <2>4, <3>1 DEF Waiting, OneOwner, RunnerOwns, Live
      <3>3. UNCHANGED ledgerVars
        BY <3>2, WaitingRunsAreSilent
      <3> QED
        BY <2>2, <3>3 DEF ledgerVars, Held
    <2> QED
      BY <2>3, <2>4
  <1> QED
    BY <1>1, <1>6, <1>7, <1>8 DEF Instructed

\* A handler claims, dispatches and acknowledges with its note still unread.
LEMMA HandlersKeepInstructed ==
    ASSUME Orderly, OneSession, ~Possible("retry"), BridgeTyped, LedgerInv, NewRows,
           Ownership, Ownership', Instructed,
           NEW c \in Controllers, HandlerActs(c)
    PROVE  Instructed'
  <1> DEFINE h == ctl[c]
             q == ctl'[c]
  <1>1. /\ HandlerEffect(c) /\ \A d \in Controllers : d = c
        /\ ctl \in [Controllers -> HandlerRecords] /\ h \in HandlerRecords /\ HandlerOK(h)
        /\ notes \in Seq(Notes) /\ tasks \in [Tasks -> TaskRecords]
    BY HandlerEffects
       DEF Ownership, OneSession, BridgeTyped, BridgeTypeOK, LedgerInv, LedgerTypeOK
  \* Where MessageNote and MessageClaim lead.
  <1>2. /\ MessageNote(c) => q = Idle \/ q = [h EXCEPT !.pc = "message_claim",
                                                     !.want = tasks[h.task].status]
        /\ MessageClaim(c) => q = Idle \/ q = [h EXCEPT !.pc = "message_dispatch"]
        /\ Idle.pc = "idle"
    BY <1>1 DEF MessageNote, MessageClaim, Goto, Return, Idle
  <1>3. /\ MessageNote(c) => q.pc \in {"idle", "message_claim"}
        /\ MessageClaim(c) => q.pc \in {"idle", "message_dispatch"}
    BY <1>1, <1>2 DEF HandlerRecords
  <1>4. ASSUME q.pc = "message_note" PROVE ~Recorded(ctl[c].key)'
    <2>1. PICK t \in Tasks, key \in NoteKeys : MessageRead(c, t, key)
      BY <1>4, <1>3, MessagePlaces
    <2>2. q = [Idle EXCEPT !.pc = "message_note", !.task = t, !.key = key]
      BY <1>1, <2>1 DEF MessageRead
    <2>3. q.key = key
      BY <2>2 DEF Idle
    <2>4. ~Recorded(key) /\ notes' = notes
      BY <1>1, <2>1 DEF MessageRead, NewCall, RetriedCall
    <2> QED
      BY <2>3, <2>4 DEF Recorded
  <1>5. \A t \in Tasks : LeftBehind(t) => LeftBehind(t)'
    BY LeftStays, Actors
  <1>6. ASSUME NEW t \in Tasks, q.pc = "message_claim", q.task = t
        PROVE  ~Owned(t)' /\ Held(t, "unread")' # {}
    <2>1. MessageNote(c)
      <3>1. ~MessageClaim(c)
        BY <1>6, <1>3
      <3>2. ~\E v \in Tasks, key \in NoteKeys : MessageRead(c, v, key)
        BY <1>1, <1>6 DEF MessageRead, Idle
      <3> QED
        BY <1>6, <3>1, <3>2, MessagePlaces
    <2>2. /\ h.pc = "message_note" /\ h.key \in NoteKeys /\ UNCHANGED runs
          /\ TakesNotes(tasks[h.task]) /\ Resumable(tasks[h.task])
          /\ Recorded(h.key) \/ AddAgentTaskNote(h.task, h.key)
      <3>1. ~Return(c)
        BY <1>1, <1>6, <1>2 DEF Return
      <3> QED
        BY <1>1, <2>1, <3>1 DEF MessageNote, At, HandlerOK
    <2>3. h.task = t
      BY <1>1, <1>6, <1>2, <2>1 DEF HandlerRecords
    <2>4. Held(t, "unread")' # {}
      <3>1. AddAgentTaskNote(t, h.key)
        BY <2>2, <2>3 DEF Instructed
      <3> QED
        BY <1>1, <2>2, <3>1, AddedIsUnread
    <2>5. ~Owned(t)
      BY <2>2, <2>3 DEF Ownership, OwnedIsOpen, Open, Terminal, Resumable, TerminalTaskStatuses,
                        FinalTaskStatuses
    <2>6. ~Owned(t)'
      BY <1>1, <1>6, <2>2, <2>5 DEF Owned, HandlerOwns, RunnerOwns, Live
    <2> QED
      BY <2>4, <2>6
  <1>7. ASSUME NEW t \in Tasks, q.pc = "message_dispatch", q.task = t, ~LeftBehind(t)'
        PROVE  Held(t, "unread")' # {} /\ tasks'[t].status # "returning"
    <2>1. MessageClaim(c)
      <3>1. ~MessageNote(c)
        BY <1>7, <1>3
      <3>2. ~\E v \in Tasks, key \in NoteKeys : MessageRead(c, v, key)
        BY <1>1, <1>7 DEF MessageRead, Idle
      <3> QED
        BY <1>7, <3>1, <3>2, MessagePlaces
    <2>2. h.pc = "message_claim" /\ ClaimTaskContinuation(h.task)
      <3>1. ~Return(c)
        BY <1>1, <1>7, <1>2 DEF Return
      <3> QED
        BY <2>1, <3>1 DEF MessageClaim, At
    <2>3. h.task = t
      BY <1>1, <1>7, <1>2, <2>1 DEF HandlerRecords
    <2>4. Held(t, "unread") # {}
      BY <1>7, <1>5, <2>2, <2>3 DEF Instructed
    <2>5. notes' = notes /\ tasks'[t] = Continued
      BY <1>1, <2>2, <2>3 DEF ClaimTaskContinuation
    <2> QED
      BY <2>4, <2>5 DEF Held, Continued, NoTask
  <1>8. ASSUME NEW t \in Tasks, NEW r \in Runners,
               runs'[r].task = t, runs'[r].cont, runs'[r].pc \in {"lock", "start"},
               ~LeftBehind(t)'
        PROVE  Held(t, "unread")' # {} /\ tasks'[t].status # "returning"
    <2>1. Waiting(t)
      <3>1. CASE Launches(c)
        <4>1. PICK s \in Runners : /\ runs'[s].task = h.task
                                   /\ runs'[s].cont => h.pc = "message_dispatch"
                                   /\ \A x \in Runners \ {s} : runs'[x] = runs[x]
          BY <3>1 DEF Launches
        <4> QED
          BY <1>8, <4>1 DEF Waiting
      <3>2. CASE Kills(c)
        <4>1. runs'[r] = runs[r]
          BY <1>8, <3>2 DEF Kills
        <4> QED
          BY <1>8, <4>1 DEF Waiting
      <3>3. CASE UNCHANGED runs
        BY <1>8, <3>3 DEF Waiting
      <3> QED
        BY <1>1, <3>1, <3>2, <3>3 DEF HandlerEffect, Claims, Acknowledges, Concludes, Proceeds
    <2>2. Held(t, "unread") # {} /\ tasks[t].status # "returning"
      BY <1>8, <1>5, <2>1 DEF Instructed
    <2>3. /\ Held(t, "unread")' # {} \/ ClosesNotes(tasks'[t])
          /\ tasks'[t].status # "returning"
      BY <2>2, HandlersSpareNotes
    <2>4. Open(tasks'[t])
      BY <1>8 DEF Ownership, OwnedIsOpen, Owned, RunnerOwns, Live
    <2> QED
      BY <2>3, <2>4 DEF Open, Terminal, ClosesNotes, Final, TerminalTaskStatuses
  <1> QED
    BY <1>1, <1>4, <1>6, <1>7, <1>8 DEF Instructed, Waiting

\* A continuation runner starts its turn for a note that is still unread: the
\* one its only session has added, which nothing reads but that turn or one that
\* an earlier runner, killed or unable to stop it, has left behind.
THEOREM ContinuationsAreInstructed ==
    ASSUME Orderly, OneSession, ~Possible("retry")
    PROVE  BridgeSpec => []ContinuationHasInstruction
  <1>1. BridgeInit => Instructed
    BY DEF BridgeInit, LedgerInit, Idle, NotStarted, Instructed, Waiting
  <1>2. /\ Instructed /\ Ownership /\ Ownership' /\ TurnsAreRun /\ BridgeTyped /\ LedgerInv
        /\ NewRows /\ [BridgeNext]_vars
        => Instructed'
    <2> SUFFICES ASSUME Instructed, UNCHANGED vars PROVE Instructed'
      BY Actors, RunsKeepInstructed, HandlersKeepInstructed
    <2> QED
      BY DEF vars, Instructed, Waiting, Recorded, Held, Owned, HandlerOwns, RunnerOwns, Live,
             LeftBehind, Possible
  <1>3. BridgeSpec => []LedgerInv /\ []NewRows
    BY BridgeImplementsLedger, LedgerInvariant, NewRowsInvariant, PTL
  <1>4. BridgeTyped /\ Instructed => ContinuationHasInstruction
    <2> SUFFICES ASSUME BridgeTyped, Instructed, NEW r \in Runners, runs[r].cont,
                        runs[r].pc \in {"lock", "start"}
                 PROVE  Held(runs[r].task, "unread") # {} \/ LeftBehind(runs[r].task)
      BY DEF ContinuationHasInstruction
    <2>1. runs[r].task \in Tasks
      BY DEF BridgeTyped, RunOK
    <2> QED
      BY <2>1 DEF Instructed, Waiting
  <1> QED
    BY <1>1, <1>2, <1>3, <1>4, OwnershipInvariant, TurnsStopWithTheirRunner,
       BridgeInvariantTyped, PTL DEF BridgeSpec
=============================================================================
