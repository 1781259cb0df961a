------------------------- MODULE TaskOutcomeProofs -------------------------
(* What becomes of a final reply, and of the notes it leaves unread, with one *)
(* controller session, no cancellation, no process killed, every turn stopped *)
(* that is to be, and every completion recorded.                             *)
EXTENDS TaskContinuationProofs

\* Notifications may come, with or without an exit code, and calls may be
\* delivered again.
Undisturbed ==
    /\ OneSession
    /\ \A choice \in {"cancel", "lateack", "faults", "forgets", "nostop", "crash"} :
          ~Possible(choice)

\* A turn past its final hook.
Past == {"answered", "killed"} \union Exited

----------------------------------------------------------------------------
(* Final replies.                                                            *)

\* No handler is at a cancellation, and one that acknowledges a runner finds no
\* turn in the row yet, which it would put back to work.
Uncancelled ==
    \A c \in Controllers :
        /\ ctl[c].pc \notin {"cancel_request", "cancel_kill", "cancel_confirm"}
        /\ ctl[c].pc \in Acknowledging => tasks[ctl[c].task].worker = NoRunner

\* The reply a run has recorded stands in the row until its runner has made a
\* completion of it.
ReplyOf(r) ==
    LET row == tasks[runs[r].task]
    IN  /\ runs[r].end # "unknown"
        /\ runs[r].answered => runs[r].turn \in Past
        /\ runs[r].hook = "final" => row.worker = r
        /\ runs[r].answered /\ row.worker = r =>
             IF Live(r)
               THEN row.status = "returning" /\ (runs[r].pc = "write" => runs[r].want = "completed")
               ELSE row.status = "completed"

\* What a row calls a final reply is one, of the turn the row names.
Replied(t) ==
    tasks[t].status = "returning" =>
        \E r \in Runners : RunOf(r, t) /\ tasks[t].worker = r /\ runs[r].answered

Replies ==
    /\ Uncancelled
    /\ \A r \in Runners : ReplyOf(r)
    /\ \A t \in Tasks : Replied(t)

\* A recorded reply is only ever followed by the completion of its task.
RepliesStand ==
    \A t \in Tasks :
        tasks[t].status = "returning" => tasks'[t].status \in {"returning", "completed"}

\* What a run, undisturbed, does to its reply and to the row it is recorded in.
ReplyEffect(r) ==
    LET row == tasks[runs[r].task]
        new == tasks'[runs[r].task]
    IN  /\ runs'[r].end # "unknown"
        /\ runs[r].answered => runs'[r].answered
        /\ runs'[r].answered =>
             \/ runs[r].answered
             \/ /\ runs[r].hook = "final" /\ new.status = "returning"
                /\ runs'[r].turn = "answered" /\ runs'[r].pc = runs[r].pc
        /\ runs[r].turn \in Past => runs'[r].turn \in Past
        /\ runs'[r].hook = "final" =>
             new.worker = row.worker /\ (runs[r].hook = "final" \/ row.worker = r)
        /\ new.worker # row.worker => runs[r].turn = "new" /\ PromptAck(r)
        /\ new.status = "returning" =>
             row.status = "returning" \/ (runs[r].hook = "final" /\ runs'[r].answered)
        /\ row.status = "returning" /\ runs[r].turn \in Past =>
             \/ /\ new.status = "returning" /\ (Live(r) => Live(r)')
                /\ \/ runs'[r].pc = "write" => runs'[r].want = "completed"
                   \/ runs[r].pc = "write" /\ runs'[r].want = runs[r].want
             \/ /\ runs[r].pc = "write" /\ runs'[r].pc = "over"
                /\ runs[r].want = "completed" => new.status = "completed"

\* The hooks of a turn: only the final one records a reply.
LEMMA TurnsReply ==
    ASSUME Undisturbed, BridgeTyped, LedgerInv, NEW r \in Runners, BotStep(r), ReplyOf(r)
    PROVE  ReplyEffect(r)
  <1> DEFINE t == runs[r].task
  <1>1. /\ runs \in [Runners -> RunRecords] /\ runs[r] \in RunRecords /\ RunOK(runs[r])
        /\ tasks \in [Tasks -> TaskRecords] /\ LedgerTypeOK
        /\ runs[r].end # "unknown" /\ ~Possible("lateack")
        /\ runs[r].answered => runs[r].turn \in Past
        /\ runs[r].hook # None => runs[r].turn = "bound"
    BY DEF BridgeTyped, BridgeTypeOK, LedgerTypeOK, RunOK, Undisturbed, ReplyOf
  <1>2. t \in Tasks /\ runs'[r].pc = runs[r].pc
    <2>1. t \in Tasks
      BY RunEffects DEF RunActs
    <2>2. runs'[r].pc = runs[r].pc
      BY <1>1 DEF BotStep, BotEnters, BotEndsUnobserved, BotExits, BotBind, BotActivity,
                  BotUpdate, BotInbox, BotFinal, BotAbort, AfterHook, RunRecords
    <2> QED
      BY <2>1, <2>2
  <1>3. CASE BotBind(r)
    <2>1. /\ runs[r].turn = "new" /\ PromptAck(r)
          /\ runs'[r] = [runs[r] EXCEPT !.turn = "bound"]
      BY <1>1, <1>3 DEF BotBind
    <2>2. tasks'[t].status \in {tasks[t].status, "running"}
      BY <1>1, <1>2, <1>3, RequestedRow, AskedRequests, NamedInRequests DEF BotBind
    <2>3. runs'[r].hook = None /\ runs'[r].end = runs[r].end /\ runs'[r].answered = runs[r].answered
      BY <1>1, <2>1 DEF RunRecords
    <2> QED
      BY <1>1, <2>1, <2>2, <2>3 DEF ReplyEffect, Past, Exited, None
  <1>4. ASSUME NEW q \in Requests, TransitionTask(t, q), q.worker = NoRunner
        PROVE  /\ tasks'[t].worker = tasks[t].worker
               /\ tasks'[t].status \in {tasks[t].status, q.status}
    BY <1>1, <1>2, <1>4, RequestedRow
  <1>5. CASE BotActivity(r) \/ BotUpdate(r) \/ BotAbort(r)
    <2>1. PICK s \in {"running", "waiting", "blocked", "settling"}, e \in {"plain", "explicit"} :
              TransitionTask(t, Ask(s, e)) /\ Ask(s, e) \in Requests
      BY <1>5, AskedRequests DEF BotActivity, BotUpdate, BotAbort
    <2>2. tasks'[t].worker = tasks[t].worker /\ tasks'[t].status \in {tasks[t].status, s}
      BY <1>4, <2>1, NamedInRequests
    <2>3. /\ runs[r].turn = "bound" /\ runs'[r].hook = None
          /\ runs'[r].end = runs[r].end /\ runs'[r].answered = runs[r].answered
      BY <1>1, <1>5 DEF BotActivity, BotUpdate, BotAbort, AfterHook, RunRecords, None
    <2> QED
      BY <1>1, <2>1, <2>2, <2>3 DEF ReplyEffect, Past, Exited, None
  <1>6. CASE BotInbox(r)
    <2>1. tasks'[t].worker = tasks[t].worker /\ tasks'[t].status = tasks[t].status
      <3>1. CASE UNCHANGED ledgerVars
        BY <3>1 DEF ledgerVars
      <3>2. CASE ReadTaskNotes(t)
        <4>1. tasks'[t] = Touched(tasks[t]) /\ tasks[t] \in TaskRecords
          BY <1>1, <1>2, <3>2 DEF ReadTaskNotes
        <4> QED
          BY <4>1 DEF Touched, TaskRecords
      <3> QED
        BY <1>6, <3>1, <3>2 DEF BotInbox
    <2>2. /\ runs[r].turn = "bound" /\ runs'[r].hook = None
          /\ runs'[r].end = runs[r].end /\ runs'[r].answered = runs[r].answered
      BY <1>1, <1>6 DEF BotInbox, AfterHook, RunRecords, None
    <2> QED
      BY <1>1, <2>1, <2>2 DEF ReplyEffect, Past, Exited, None
  <1>7. CASE BotFinal(r)
    <2>1. TransitionTask(t, Ask("returning", "final")) /\ Ask("returning", "final") \in Requests
      BY <1>7, AskedRequests DEF BotFinal
    <2>2. tasks'[t].worker = tasks[t].worker /\ tasks'[t].status \in {tasks[t].status, "returning"}
      BY <1>4, <2>1, NamedInRequests
    <2>3. /\ runs[r].hook = "final" /\ runs[r].turn = "bound"
          /\ runs'[r].hook = None /\ runs'[r].turn = "answered" /\ runs'[r].end = runs[r].end
          /\ runs'[r].answered = (tasks'[t].status = "returning")
      BY <1>1, <1>7 DEF BotFinal, RunRecords, None
    <2>4. ~runs[r].answered
      BY <1>1, <2>3 DEF Past, Exited
    <2> QED
      BY <1>1, <1>2, <2>2, <2>3, <2>4 DEF ReplyEffect, Past, Exited, None
  <1>8. ASSUME tasks' = tasks, runs'[r].end = runs[r].end, runs'[r].answered = runs[r].answered,
               runs'[r].want = runs[r].want,
               runs[r].turn \in Past => runs'[r].turn \in Past,
               runs'[r].hook = "final" => tasks[t].worker = r
        PROVE  ReplyEffect(r)
    BY <1>1, <1>2, <1>8 DEF ReplyEffect, Live
  <1>9. ASSUME NEW hook \in {"activity", "update", "inbox", "final", "abort"}, BotEnters(r, hook)
        PROVE  ReplyEffect(r)
    <2>1. runs'[r] = [runs[r] EXCEPT !.hook = hook] /\ tasks' = tasks
      BY <1>1, <1>9 DEF BotEnters
    <2>2. hook = "final" => tasks[t].worker = r
      BY <1>9 DEF BotEnters, Observes, BoundTurn, Ticket
    <2> QED
      BY <1>1, <1>8, <2>1, <2>2 DEF RunRecords
  <1>10. CASE BotEndsUnobserved(r)
    <2>1. PICK turn \in {"answered", "aborted"} : runs'[r] = [runs[r] EXCEPT !.turn = turn]
      BY <1>1, <1>10 DEF BotEndsUnobserved
    <2>2. runs[r].turn = "bound" /\ runs[r].hook = None /\ tasks' = tasks
      BY <1>10 DEF BotEndsUnobserved, Between
    <2> QED
      BY <1>1, <1>8, <2>1, <2>2 DEF RunRecords, Past, Exited, None
  <1>11. CASE BotExits(r)
    <2>1. PICK exit \in Exited : runs'[r] = [runs[r] EXCEPT !.turn = exit]
      BY <1>1, <1>11 DEF BotExits, Working, Exited
    <2>2. runs[r].hook = None /\ tasks' = tasks
      BY <1>11 DEF BotExits
    <2> QED
      BY <1>1, <1>8, <2>1, <2>2 DEF RunRecords, Past, None
  <1> QED
    BY <1>3, <1>5, <1>6, <1>7, <1>9, <1>10, <1>11 DEF BotStep

\* The runner makes a completion of the reply, whatever the exit code.
LEMMA RunnersReply ==
    ASSUME Undisturbed, BridgeTyped, LedgerInv, NEW r \in Runners, ReplyOf(r),
           RunnerStep(r) \/ RunnerBusy(r)
    PROVE  ReplyEffect(r)
  <1> DEFINE t == runs[r].task
             row == tasks[runs[r].task]
  <1>1. /\ runs \in [Runners -> RunRecords] /\ runs[r] \in RunRecords /\ RunOK(runs[r])
        /\ tasks \in [Tasks -> TaskRecords] /\ LedgerTypeOK
        /\ runs[r].end # "unknown"
    BY DEF BridgeTyped, BridgeTypeOK, LedgerTypeOK, ReplyOf
  <1>2. t \in Tasks /\ row \in TaskRecords
    BY <1>1, RunEffects DEF RunActs
  <1>3. ASSUME tasks' = tasks, runs'[r].end # "unknown", runs'[r].answered = runs[r].answered,
               runs[r].turn \in Past => runs'[r].turn \in Past,
               runs'[r].hook \in {None, runs[r].hook},
               row.status = "returning" /\ runs[r].turn \in Past =>
                   /\ Live(r) => Live(r)'
                   /\ runs'[r].pc = "write" => runs'[r].want = "completed"
        PROVE  ReplyEffect(r)
    BY <1>1, <1>3 DEF ReplyEffect, None
  <1>4. ASSUME NEW end, Report(r, end), end # "unknown"
        PROVE  ReplyEffect(r)
    <2>1. /\ runs'[r].pc = "settle" /\ runs'[r].end = end /\ runs'[r].hook = None
          /\ runs'[r].answered = runs[r].answered /\ tasks' = tasks
          /\ runs'[r].turn = IF Working(r) THEN "killed" ELSE runs[r].turn
      BY <1>1, <1>4 DEF Report, RunRecords
    <2> QED
      BY <1>3, <1>4, <2>1 DEF Past, Live
  <1>5. CASE RunnerCancelled(r) \/ RunnerReap(r) \/ RunnerBusy(r)
    BY <1>4, <1>5 DEF RunnerCancelled, StopFails, RunnerReap, RunnerBusy, Exited, Undisturbed
  <1>6. CASE RunnerAcquire(r) \/ RunnerPopen(r)
    <2>1. /\ tasks' = tasks /\ runs[r].turn = "none" /\ runs'[r].answered = runs[r].answered
          /\ runs'[r].end = runs[r].end /\ runs'[r].hook = runs[r].hook
      BY <1>1, <1>6 DEF RunnerAcquire, RunnerPopen, RunRecords, RunOK
    <2> QED
      BY <1>1, <1>3, <2>1 DEF Past, Exited
  <1>7. CASE RunnerSettle(r)
    <2>1. runs[r].pc = "settle" /\ tasks' = tasks /\ Ticket(r) = row
      BY <1>7 DEF RunnerSettle, Ticket
    <2>2. row.status = "returning" =>
              /\ Settles(row, runs[r].end)
              /\ SettledStatus(row, runs[r].end) = "completed"
      BY <1>1 DEF Settles, SettledStatus, Terminal, TerminalTaskStatuses, FinalTaskStatuses,
                  RecoverableTerminalTaskStatuses
    <2>3. CASE Settles(row, runs[r].end)
      <3>1. /\ runs'[r].pc = "write" /\ runs'[r].want = SettledStatus(row, runs[r].end)
            /\ runs'[r].answered = runs[r].answered /\ runs'[r].turn = runs[r].turn
            /\ runs'[r].end = runs[r].end /\ runs'[r].hook = runs[r].hook
        BY <1>1, <1>7, <2>1, <2>3 DEF RunnerSettle, RunRecords
      <3> QED
        BY <1>1, <1>3, <2>1, <2>2, <3>1 DEF Live
    <2>4. CASE ~Settles(row, runs[r].end)
      <3>1. /\ runs'[r].pc = "over"
            /\ runs'[r].answered = runs[r].answered /\ runs'[r].turn = runs[r].turn
            /\ runs'[r].end = runs[r].end /\ runs'[r].hook = runs[r].hook
        BY <1>1, <1>7, <2>1, <2>4 DEF RunnerSettle, Finish, RunRecords
      <3> QED
        BY <1>1, <1>3, <2>1, <2>2, <2>4, <3>1
    <2> QED
      BY <2>3, <2>4
  <1>8. CASE RunnerWrite(r)
    <2>1. /\ runs[r].pc = "write" /\ runs[r].want \in TerminalTaskStatuses
          /\ TransitionTask(t, Outcome(runs[r].want)) /\ Outcome(runs[r].want) \in Requests
      BY <1>1, <1>8, AskedRequests DEF RunnerWrite, RunOK
    <2>2. /\ runs'[r].pc = "over" /\ runs'[r].end = runs[r].end
          /\ runs'[r].answered = runs[r].answered /\ runs'[r].turn = runs[r].turn
          /\ runs'[r].hook = runs[r].hook
      BY <1>1, <1>8 DEF RunnerWrite, Finish, RunRecords
    <2>3. /\ tasks'[t].worker = row.worker
          /\ tasks'[t].status \in {row.status, runs[r].want}
      BY <1>1, <1>2, <2>1, RequestedRow, NamedInRequests
    <2>4. row.status = "returning" => tasks'[t].status = runs[r].want
      <3>1. row.status = "returning" => Accepts(row, Outcome(runs[r].want))
        BY DEF Accepts, Terminal, TerminalTaskStatuses, FinalTaskStatuses,
               RecoverableTerminalTaskStatuses
      <3> QED
        BY <1>1, <1>2, <2>1, <3>1, NamedInRequests DEF TransitionTask, Transitioned
    <2>5. runs[r].want # "returning"
      BY <2>1 DEF TerminalTaskStatuses, FinalTaskStatuses, RecoverableTerminalTaskStatuses
    <2>6. runs'[r].hook = "final" => runs[r].hook = "final"
      BY <2>2
    <2> QED
      BY <1>1, <2>1, <2>2, <2>3, <2>4, <2>5, <2>6 DEF ReplyEffect
  <1> QED
    BY <1>5, <1>6, <1>7, <1>8 DEF RunnerStep

\* A run answers for the row of its own task; every other is out of its reach.
LEMMA RunsKeepReplies ==
    ASSUME Undisturbed, BridgeTyped, LedgerInv, Ownership, TurnsAreRun, NoneLeft, Identity,
           Replies, NEW r \in Runners, RunActs(r)
    PROVE  Replies' /\ RepliesStand
  <1> DEFINE u == runs[r].task
  <1>1. /\ ctl' = ctl /\ u \in Tasks
        /\ \A s \in Runners : /\ s # r => runs'[s] = runs[s]
                              /\ runs'[s].task = runs[s].task
                              /\ runs'[s].pc = "unused" <=> runs[s].pc = "unused"
                              /\ Live(s)' => Live(s)
        /\ \A t \in Tasks \ {u} : tasks'[t] = tasks[t]
        /\ tasks'[u].worker \in {tasks[u].worker, r}
    BY RunEffects
  <1>2. Live(r) /\ RunnerOwns(r, u)
    BY OnlyLiveRunsAct DEF RunnerOwns, NoneLeft
  <1>3. /\ Uncancelled /\ (\A s \in Runners : ReplyOf(s)) /\ (\A t \in Tasks : Replied(t))
        /\ RunOK(runs[r]) /\ (Working(r) => runs[r].pc = "run")
    BY DEF Replies, BridgeTyped, TurnsAreRun, NoneLeft
  <1>4. ReplyEffect(r)
    <2>1. RunnerStep(r) \/ RunnerBusy(r) \/ BotStep(r)
      BY DEF RunActs, RunnerRaises, RunnerForgets, RunnerCrash, BotHookRaises, Undisturbed
    <2> QED
      BY <1>3, <2>1, TurnsReply, RunnersReply
  <1>5. /\ \A s \in Runners : RunnerOwns(s, u) => s = r
        /\ Open(tasks[u])
        /\ tasks[u].worker \in {NoRunner, r}
        /\ \A c \in Controllers :
              ctl[c].pc \in Acknowledging /\ ctl[c].task = u => ctl[c].run = r
    BY <1>1, <1>2
       DEF Ownership, OneOwner, OwnedIsOpen, Owned, OwnerNamed, Identity, WorkerNamed, Undisturbed
  <1>6. runs[r].hook = "final" => runs[r].turn = "bound" /\ runs[r].pc = "run"
    BY <1>3 DEF RunOK, Working, None
  <1>7. Uncancelled'
    <2>1. ASSUME NEW c \in Controllers, ctl[c].pc \in Acknowledging
          PROVE  tasks'[ctl[c].task].worker = NoRunner
      <3>1. ctl[c].task \in Tasks /\ tasks[ctl[c].task].worker = NoRunner
        BY <1>3, <2>1 DEF BridgeTyped, HandlerOK, Acknowledging, Uncancelled
      <3>2. tasks'[u].worker # tasks[u].worker => PromptAck(r)
        BY <1>4 DEF ReplyEffect
      <3>3. ctl[c].task = u => tasks'[u].worker = tasks[u].worker
        BY <1>5, <2>1, <3>2 DEF PromptAck, Acknowledging
      <3> QED
        BY <1>1, <3>1, <3>3
    <2> QED
      BY <1>1, <1>3, <2>1 DEF Uncancelled
  <1>8. ReplyOf(r)'
    <2>1. /\ runs'[r].end # "unknown"
          /\ runs'[r].answered => runs'[r].turn \in Past
      BY <1>3, <1>4 DEF ReplyEffect, ReplyOf, Past
    <2>2. runs'[r].hook = "final" => tasks'[u].worker = r
      BY <1>3, <1>4 DEF ReplyEffect, ReplyOf
    <2>3. ASSUME runs'[r].answered, tasks'[u].worker = r
          PROVE  IF Live(r)'
                   THEN /\ tasks'[u].status = "returning"
                        /\ runs'[r].pc = "write" => runs'[r].want = "completed"
                   ELSE tasks'[u].status = "completed"
      <3>1. CASE runs[r].answered
        <4>1. runs[r].turn \in Past /\ runs[r].turn # "new"
          BY <1>3, <3>1 DEF ReplyOf, Past, Exited
        <4>2. tasks[u].worker = r
          BY <1>4, <2>3, <4>1 DEF ReplyEffect
        <4>3. tasks[u].status = "returning" /\ (runs[r].pc = "write" => runs[r].want = "completed")
          BY <1>2, <1>3, <3>1, <4>2 DEF ReplyOf
        <4> QED
          BY <1>2, <1>4, <4>1, <4>3 DEF ReplyEffect, Live
      <3>2. CASE ~runs[r].answered
        BY <1>2, <1>4, <1>6, <2>3, <3>2 DEF ReplyEffect, Live
      <3> QED
        BY <3>1, <3>2
    <2> QED
      BY <1>1, <2>1, <2>2, <2>3 DEF ReplyOf
  <1>9. ASSUME NEW s \in Runners \ {r}
        PROVE  ReplyOf(s)'
    <2>1. runs'[s] = runs[s] /\ ReplyOf(s) /\ (Live(s)' <=> Live(s))
      BY <1>1, <1>3 DEF Live
    <2>2. CASE runs[s].task \in Tasks \ {u}
      BY <1>1, <2>1, <2>2 DEF ReplyOf
    <2>3. CASE runs[s].task = u
      <3>1. ~Live(s) /\ runs[s].hook # "final"
        BY <1>5, <2>3
           DEF RunnerOwns, BridgeTyped, RunOK, TurnsAreRun, NoneLeft, Working, Live, None
      <3>2. ~(runs[s].answered /\ tasks[u].worker = s)
        BY <1>5, <2>1, <2>3, <3>1
           DEF ReplyOf, Open, Terminal, TerminalTaskStatuses, FinalTaskStatuses
      <3>3. runs[s].answered => tasks'[u].worker # s
        BY <1>1, <3>2
      <3> QED
        BY <2>1, <2>3, <3>1, <3>3 DEF ReplyOf
    <2>4. CASE runs[s].task \notin Tasks
      <3>1. runs[s] = NotStarted
        BY <2>4 DEF BridgeTyped, RunOK
      <3> QED
        BY <2>1, <3>1 DEF ReplyOf, NotStarted, None
    <2> QED
      BY <2>2, <2>3, <2>4
  <1>10. ASSUME NEW t \in Tasks, tasks'[t].status = "returning"
         PROVE  \E s \in Runners : RunOf(s, t)' /\ tasks'[t].worker = s /\ runs'[s].answered
    <2>1. CASE tasks[t].status = "returning"
      <3>1. PICK s \in Runners : RunOf(s, t) /\ tasks[t].worker = s /\ runs[s].answered
        BY <1>3, <2>1 DEF Replied
      <3>2. RunOf(s, t)'
        BY <1>1, <3>1 DEF RunOf
      <3>3. CASE t = u
        <4>1. s = r
          BY <1>5, <3>1, <3>3, RunnersAssumption
        <4> QED
          BY <1>1, <1>4, <3>1, <3>2, <3>3, <4>1 DEF ReplyEffect
      <3>4. CASE t # u
        <4>1. s # r
          BY <3>1, <3>4 DEF RunOf
        <4> QED
          BY <1>1, <3>1, <3>2, <3>4, <4>1
      <3> QED
        BY <3>3, <3>4
    <2>2. CASE tasks[t].status # "returning"
      <3>1. t = u
        BY <1>1, <1>10, <2>2
      <3>2. runs[r].hook = "final" /\ runs'[r].answered
        BY <1>4, <1>10, <2>2, <3>1 DEF ReplyEffect
      <3>3. tasks'[u].worker = r
        BY <1>3, <1>4, <1>6, <3>2 DEF ReplyEffect, ReplyOf
      <3>4. RunOf(r, t)'
        BY <1>1, <1>2, <3>1 DEF RunOf, Live
      <3> QED
        BY <3>1, <3>2, <3>3, <3>4
    <2> QED
      BY <2>1, <2>2
  <1>11. RepliesStand
    <2> SUFFICES ASSUME tasks[u].status = "returning"
                 PROVE  tasks'[u].status \in {"returning", "completed"}
      BY <1>1 DEF RepliesStand
    <2>1. tasks[u].worker = r /\ runs[r].answered
      BY <1>1, <1>3, <1>5, RunnersAssumption DEF Replied
    <2> QED
      BY <1>2, <1>3, <1>4, <2>1 DEF ReplyEffect, ReplyOf
  <1> QED
    BY <1>7, <1>8, <1>9, <1>10, <1>11 DEF Replies, Replied

\* A session gives a task an outcome only when nobody works on it, so a reply
\* that is on its way to its completion meets no other.
LEMMA HandlersKeepReplies ==
    ASSUME Undisturbed, BridgeTyped, LedgerInv, NewRows, Ownership, TurnsAreRun, NoneLeft,
           Identity, Replies, NEW c \in Controllers, HandlerActs(c)
    PROVE  Replies' /\ RepliesStand
  <1>1. HandlerEffect(c) /\ \A d \in Controllers : d = c
    BY HandlerEffects DEF Ownership, Undisturbed, Orderly, OneSession
  <1>2. /\ Uncancelled /\ (\A s \in Runners : ReplyOf(s)) /\ (\A t \in Tasks : Replied(t))
        /\ Idle.pc = "idle" /\ ~Possible("cancel")
    BY DEF Replies, Idle, Undisturbed
  <1>3. \A s \in Runners : /\ Live(s) => runs[s].task \in Tasks /\ Open(tasks[runs[s].task])
                           /\ runs[s].hook = "final" => Live(s)
                           /\ runs[s].answered => runs[s].task \in Tasks
    BY DEF Ownership, OwnedIsOpen, Owned, RunnerOwns, BridgeTyped, RunOK, NotStarted, TurnsAreRun,
           NoneLeft, Working, Live, None
  <1>4. \A s \in Runners : runs[s].answered /\ tasks[runs[s].task].worker = s /\ ~Live(s) =>
                               tasks'[runs[s].task] = tasks[runs[s].task]
    <2>1. \A t \in Tasks : Final(tasks[t]) => tasks'[t] = tasks[t]
      BY HandlersCall, RowsOfOthersStay DEF ledgerVars
    <2>2. \A t \in Tasks : tasks[t].status = "completed" => Final(tasks[t])
      BY DEF Final, Resumable, FinalTaskStatuses, RecoverableTerminalTaskStatuses
    <2> QED
      BY <1>2, <1>3, <2>1, <2>2 DEF ReplyOf
  \* A final reply on its way is that of a runner that still owns the task.
  <1>5. ASSUME NEW t \in Tasks, tasks[t].status = "returning"
        PROVE  \E s \in Runners : /\ RunOf(s, t) /\ tasks[t].worker = s /\ runs[s].answered
                                  /\ RunnerOwns(s, t)
    BY <1>2, <1>5 DEF Replied, ReplyOf, RunOf, RunnerOwns
  <1>6. \A t \in Tasks : tasks'[t].status = "returning" => tasks[t].status = "returning"
    BY HandlersSpareNotes
  \* The rows keep their turns, and a run at work finds its row as it was.
  <1>7. ASSUME UNCHANGED runs, \A t \in Tasks : tasks'[t].worker = tasks[t].worker,
               \A s \in Runners :
                   Live(s) /\ tasks[runs[s].task].worker = s =>
                       tasks'[runs[s].task].status = tasks[runs[s].task].status
        PROVE  (\A s \in Runners : ReplyOf(s)') /\ (\A t \in Tasks : Replied(t)') /\ RepliesStand
    <2>1. ASSUME NEW s \in Runners PROVE ReplyOf(s)'
      BY <1>2, <1>3, <1>4, <1>7, <2>1 DEF ReplyOf, Live
    <2>2. ASSUME NEW t \in Tasks PROVE Replied(t)'
      BY <1>2, <1>6, <1>7, <2>2 DEF Replied, RunOf
    <2>3. RepliesStand
      BY <1>5, <1>7 DEF RepliesStand, RunnerOwns
    <2> QED
      BY <2>1, <2>2, <2>3
  <1>8. CASE Claims(c)
    <2>1. PICK t \in Tasks :
             /\ tasks[t].status = "absent" \/ Resumable(tasks[t])
             /\ tasks'[t].worker = NoRunner /\ tasks'[t].status \in {"dispatching", "continuing"}
             /\ \A u \in Tasks \ {t} : tasks'[u] = tasks[u]
             /\ ctl'[c].task = t /\ HandlerOwns(c, t)'
             /\ UNCHANGED runs
      BY <1>8 DEF Claims
    <2>2. ~Open(tasks[t]) /\ tasks[t].status # "returning"
      BY <2>1 DEF Open, Terminal, Resumable, TerminalTaskStatuses, FinalTaskStatuses,
                  RecoverableTerminalTaskStatuses
    <2>3. Uncancelled'
      BY <1>1, <2>1 DEF Uncancelled, HandlerOwns, Acknowledging
    <2>4. ASSUME NEW s \in Runners PROVE ReplyOf(s)'
      BY <1>2, <1>3, <2>1, <2>2, <2>4, RunnersAssumption DEF ReplyOf, Live
    <2>5. (\A u \in Tasks : Replied(u)') /\ RepliesStand
      BY <1>2, <2>1, <2>2 DEF Replied, RepliesStand, RunOf
    <2> QED
      BY <2>3, <2>4, <2>5 DEF Replies
  <1>9. CASE Launches(c)
    <2>1. PICK r \in Runners :
             /\ HandlerOwns(c, ctl[c].task)
             /\ ctl'[c].pc \in Acknowledging /\ ctl'[c].task = ctl[c].task
             /\ ctl[c].pc \in {"start_dispatch", "message_dispatch"}
             /\ runs[r].pc = "unused"
             /\ ~runs'[r].answered /\ runs'[r].hook = None /\ runs'[r].end = None
             /\ \A s \in Runners \ {r} : runs'[s] = runs[s]
             /\ UNCHANGED tasks
      BY <1>9 DEF Launches
    <2>2. tasks[ctl[c].task].worker = NoRunner
      BY <2>1 DEF BridgeTyped, HandlerOK, Identity, WorkerNamed
    <2>3. Uncancelled'
      BY <1>1, <2>1, <2>2 DEF Uncancelled, Acknowledging
    <2>4. ASSUME NEW s \in Runners PROVE ReplyOf(s)'
      BY <1>2, <2>1, <2>4 DEF ReplyOf, Live, None
    <2>5. (\A u \in Tasks : Replied(u)') /\ RepliesStand
      BY <1>2, <2>1 DEF Replied, RepliesStand, RunOf
    <2> QED
      BY <2>3, <2>4, <2>5 DEF Replies
  <1>10. CASE Acknowledges(c)
    <2>1. /\ ctl[c].pc \in Acknowledging /\ ctl'[c] = Idle /\ UNCHANGED runs
          /\ \A u \in Tasks : /\ tasks'[u].worker = tasks[u].worker
                              /\ u # ctl[c].task => tasks'[u] = tasks[u]
      BY <1>10 DEF Acknowledges
    <2>2. tasks[ctl[c].task].worker = NoRunner
      BY <1>2, <2>1 DEF Uncancelled
    <2>3. \A s \in Runners : Live(s) /\ tasks[runs[s].task].worker = s =>
                                 tasks'[runs[s].task].status = tasks[runs[s].task].status
      BY <1>3, <2>1, <2>2, RunnersAssumption
    <2>4. Uncancelled'
      BY <1>1, <1>2, <2>1 DEF Uncancelled, Acknowledging
    <2> QED
      BY <1>7, <2>1, <2>3, <2>4 DEF Replies
  <1>11. CASE Concludes(c)
    <2>1. /\ ctl[c].pc \in {"start_fail", "message_undo", "notify_write"} /\ ctl'[c] = Idle
          /\ UNCHANGED runs
          /\ \A u \in Tasks : /\ tasks'[u].worker = tasks[u].worker
                              /\ u # ctl[c].task => tasks'[u] = tasks[u]
      BY <1>2, <1>11 DEF Concludes, Uncancelled
    <2>2. \A s \in Runners : ~RunnerOwns(s, ctl[c].task)
      <3>1. ctl[c].task \in Tasks
        BY <2>1 DEF BridgeTyped, HandlerOK
      <3>2. CASE ctl[c].pc \in {"start_fail", "message_undo"}
        BY <3>1, <3>2 DEF HandlerOwns, Ownership, OneOwner
      <3>3. CASE ctl[c].pc = "notify_write"
        BY <3>1, <3>3 DEF Ownership, Confirmed, ConfirmedBy, Confirming, Owned
      <3> QED
        BY <2>1, <3>2, <3>3
    <2>3. \A s \in Runners : Live(s) => tasks'[runs[s].task] = tasks[runs[s].task]
      BY <1>3, <2>1, <2>2 DEF RunnerOwns
    <2>4. Uncancelled'
      BY <1>1, <1>2, <2>1 DEF Uncancelled, Acknowledging
    <2> QED
      BY <1>7, <2>1, <2>3, <2>4 DEF Replies
  <1>12. CASE Kills(c)
    BY <1>2, <1>12 DEF Kills, Uncancelled
  <1>13. CASE Proceeds(c)
    <2>1. /\ UNCHANGED runs
          /\ \A u \in Tasks : tasks'[u].worker = tasks[u].worker
                              /\ tasks'[u].status = tasks[u].status
          /\ ctl'[c].pc \notin Acknowledging \union {"cancel_confirm"}
          /\ ctl'[c].pc \notin {"cancel_request", "cancel_kill"}
      BY <1>2, <1>13 DEF Proceeds, Kept, Uncancelled
    <2>2. Uncancelled'
      BY <1>1, <1>2, <2>1 DEF Uncancelled
    <2> QED
      BY <1>3, <1>7, <2>1, <2>2 DEF Replies
  <1> QED
    BY <1>1, <1>8, <1>9, <1>10, <1>11, <1>12, <1>13 DEF HandlerEffect

UndisturbedInv ==
    /\ Replies /\ Identity /\ Ownership /\ TurnsAreRun /\ NoneLeft
    /\ BridgeTyped /\ LedgerInv /\ NewRows

\* The replies of an undisturbed bridge, with what they rest on.
LEMMA RepliesInvariant ==
    ASSUME Undisturbed
    PROVE  BridgeSpec => []UndisturbedInv
  <1>1. Orderly /\ OneSession /\ ~Possible("crash") /\ ~Possible("nostop")
    BY DEF Undisturbed, Orderly
  <1>2. BridgeInit => Replies
    <2> SUFFICES ASSUME BridgeInit PROVE Replies
      OBVIOUS
    <2>1. /\ \A c \in Controllers : ctl[c].pc = "idle"
          /\ \A r \in Runners : runs[r] = NotStarted
          /\ \A t \in Tasks : tasks[t].status = "absent"
      BY DEF BridgeInit, LedgerInit, Idle, NoTask
    <2>2. Uncancelled
      BY <2>1 DEF Uncancelled, Acknowledging
    <2>3. \A r \in Runners : ReplyOf(r)
      <3>1. /\ NotStarted.end # "unknown" /\ NotStarted.answered = FALSE
            /\ NotStarted.hook # "final"
        BY DEF NotStarted, None
      <3> QED
        BY <2>1, <3>1 DEF ReplyOf
    <2>4. \A t \in Tasks : Replied(t)
      BY <2>1 DEF Replied
    <2> QED
      BY <2>2, <2>3, <2>4 DEF Replies
  <1>3. UndisturbedInv /\ [BridgeNext]_vars => Replies'
    <2> SUFFICES ASSUME Replies, UNCHANGED vars PROVE Replies'
      BY Actors, RunsKeepReplies, HandlersKeepReplies DEF UndisturbedInv
    <2> QED
      BY DEF vars, Replies, Uncancelled, ReplyOf, Replied, RunOf, Live
  <1>4. BridgeSpec => []LedgerInv /\ []NewRows
    BY BridgeImplementsLedger, LedgerInvariant, NewRowsInvariant, PTL
  <1>5. BridgeSpec => []Ownership /\ []TurnsAreRun /\ []NoneLeft /\ []BridgeTyped
    BY <1>1, OwnershipInvariant, TurnsStopWithTheirRunner, StoppedTurnsAreGone,
       BridgeInvariantTyped, PTL
  <1>6. BridgeSpec => []Identity
    BY <1>1, IdentityInvariant
  <1>7. UndisturbedInv <=>
          /\ Replies /\ Identity /\ Ownership /\ TurnsAreRun /\ NoneLeft
          /\ BridgeTyped /\ LedgerInv /\ NewRows
    BY DEF UndisturbedInv
  <1> QED
    BY <1>2, <1>3, <1>4, <1>5, <1>6, <1>7, PTL DEF BridgeSpec

\* A final reply that the ledger has recorded is not lost to the exit code of
\* the clean-up that follows it: no notification, repeated call or continuation
\* makes anything but a completion of it.
THEOREM FinalRepliesSurvive ==
    ASSUME Undisturbed
    PROVE  BridgeSpec => []FinalSurvives
  <1>1. UndisturbedInv => FinalSurvives
    BY DEF UndisturbedInv, Replies, ReplyOf, FinalSurvives
  <1> QED
    BY <1>1, RepliesInvariant, PTL

----------------------------------------------------------------------------
(* Missed notes.  One notice per task is ever queued, so a task must not      *)
(* leave notes unread a second time: it closes its inbox once.                *)

Told ==
    \A t \in Tasks :
        /\ ~ClosesNotes(tasks[t]) => Held(t, "missed") = {} /\ notices[t] = 0
        /\ Cardinality(Held(t, "missed")) <= notices[t]

InboxesStayClosed == \A t \in Tasks : ClosesNotes(tasks[t]) => ClosesNotes(tasks'[t])

\* What marking unread notes does to the missed ones.
LEMMA MarkedMissed ==
    ASSUME notes \in Seq(Notes), NEW t, NEW u, NEW status \in {"read", "missed"},
           NEW indices \in SUBSET Held(u, "unread"), notes' = Marked(indices, status)
    PROVE  /\ status = "read" \/ t # u \/ indices = {} => Held(t, "missed")' = Held(t, "missed")
           /\ status = "missed" /\ t = u /\ indices = Held(u, "unread") /\ Held(u, "missed") = {}
                => Held(t, "missed")' = indices
  <1>1. /\ DOMAIN notes' = DOMAIN notes
        /\ \A i \in DOMAIN notes :
             /\ notes'[i].task = notes[i].task
             /\ notes'[i].status = IF i \in indices THEN status ELSE notes[i].status
    BY MarkedNotes
  <1>2. \A i \in indices : i \in DOMAIN notes /\ notes[i].task = u /\ notes[i].status = "unread"
    BY DEF Held
  <1>3. CASE status = "read" \/ t # u \/ indices = {}
    BY <1>1, <1>2, <1>3 DEF Held
  <1>4. CASE status = "missed" /\ t = u /\ indices = Held(u, "unread") /\ Held(u, "missed") = {}
    BY <1>1, <1>2, <1>4 DEF Held
  <1> QED
    BY <1>3, <1>4

\* As long as no inbox is opened again, the first notice counts every note its
\* task will ever miss.
LEMMA ToldKept ==
    ASSUME LedgerInv, Told, InboxesStayClosed,
           UNCHANGED ledgerVars \/ \E t \in Tasks : LedgerCall(t)
    PROVE  Told'
  <1>1. /\ notes \in Seq(Notes) /\ tasks \in [Tasks -> TaskRecords]
        /\ notices \in [Tasks -> Nat]
        /\ \A t \in Tasks : ClosesNotes(tasks[t]) => Held(t, "unread") = {}
    BY DEF LedgerInv, LedgerTypeOK, ClosedInboxDrained
  <1>2. ASSUME \A t \in Tasks : Held(t, "missed")' = Held(t, "missed"), UNCHANGED notices
        PROVE  Told'
    BY <1>2 DEF Told, InboxesStayClosed
  <1>3. CASE UNCHANGED <<notes, notices>>
    BY <1>2, <1>3 DEF Held
  <1>4. ASSUME NEW t \in Tasks, NEW key \in NoteKeys, AddAgentTaskNote(t, key)
        PROVE  Told'
    <2> DEFINE e == [task |-> t, key |-> key, status |-> "unread"]
    <2>1. notes' = Append(notes, e) /\ e \in Notes /\ UNCHANGED notices
      BY <1>4 DEF AddAgentTaskNote, Notes
    <2>2. /\ DOMAIN notes' = DOMAIN notes \union {Len(notes) + 1}
          /\ \A i \in DOMAIN notes : notes'[i] = notes[i]
          /\ notes'[Len(notes) + 1] = e
      BY <1>1, <2>1, AppendProperties, LenProperties
    <2>3. \A u \in Tasks : Held(u, "missed")' = Held(u, "missed")
      BY <2>2 DEF Held
    <2> QED
      BY <1>2, <2>1, <2>3
  <1>5. ASSUME NEW t \in Tasks, ReadTaskNotes(t)
        PROVE  Told'
    <2>1. /\ notes' = Marked(Inbox(t), "read") /\ Inbox(t) \in SUBSET Held(t, "unread")
          /\ UNCHANGED notices
      BY <1>5 DEF ReadTaskNotes, Inbox
    <2> QED
      BY <1>1, <1>2, <2>1, MarkedMissed
  <1>6. ASSUME NEW t \in Tasks, CloseInbox(t), ClosesNotes(tasks'[t])
        PROVE  Told'
    <2>1. notes' = Marked(Held(t, "unread"), "missed")
      BY <1>6 DEF CloseInbox
    <2>2. /\ \A u \in Tasks \ {t} : Held(u, "missed")' = Held(u, "missed")
          /\ Held(t, "unread") = {} => Held(t, "missed")' = Held(t, "missed")
          /\ Held(t, "missed") = {} => Held(t, "missed")' = Held(t, "unread")
      BY <1>1, <2>1, MarkedMissed
    <2>3. CASE Held(t, "unread") = {}
      BY <1>2, <1>6, <2>2, <2>3 DEF CloseInbox
    <2>4. CASE Held(t, "unread") # {}
      <3>1. Held(t, "missed") = {} /\ notices[t] = 0
        BY <1>1, <2>4 DEF Told
      <3>2. /\ notices'[t] = Cardinality(Held(t, "unread"))
            /\ \A u \in Tasks \ {t} : notices'[u] = notices[u]
        BY <1>1, <1>6, <2>4, <3>1 DEF CloseInbox
      <3>3. Cardinality(Held(t, "missed")') <= notices'[t]
        <4>1. Cardinality(Held(t, "unread")) \in Nat
          BY <1>1, HeldCount
        <4> QED
          BY <2>2, <3>1, <3>2, <4>1
      <3> QED
        BY <1>6, <2>2, <3>2, <3>3 DEF Told, InboxesStayClosed
    <2> QED
      BY <2>3, <2>4
  <1>7. ASSUME NEW t \in Tasks, NEW q \in Requests, TransitionTask(t, q)
        PROVE  Told'
    <2>1. CASE Accepts(tasks[t], q) /\ ClosesNotes(Transitioned(tasks[t], q))
      <3>1. CloseInbox(t) /\ tasks'[t] = Transitioned(tasks[t], q)
        BY <1>1, <1>7, <2>1 DEF TransitionTask
      <3> QED
        BY <1>6, <2>1, <3>1
    <2>2. CASE ~(Accepts(tasks[t], q) /\ ClosesNotes(Transitioned(tasks[t], q)))
      BY <1>3, <1>7, <2>2 DEF TransitionTask, ledgerVars
    <2> QED
      BY <2>1, <2>2
  <1> QED
    BY <1>3, <1>4, <1>5, <1>7 DEF LedgerCall, ledgerVars, CreateTask, ClaimTaskContinuation

\* Every note a task leaves unread is counted in the notice to the user: once a
\* reply or an outcome has closed the inbox, nothing opens it again and leaves
\* a note that its only notice does not count.
THEOREM MissedNotesAreAnnounced ==
    ASSUME Undisturbed
    PROVE  BridgeSpec => []MissedNotesAnnounced
  <1>1. BridgeInit => Told
    <2>1. LedgerInit => \A t \in Tasks : Held(t, "missed") = {} /\ notices[t] = 0
      BY DEF LedgerInit, Held
    <2> QED
      BY <2>1, FS_EmptySet DEF BridgeInit, Told
  <1>2. Told /\ UndisturbedInv /\ [BridgeNext]_vars => Told'
    <2> SUFFICES ASSUME Told, UndisturbedInv, [BridgeNext]_vars PROVE Told'
      OBVIOUS
    <2>1. UNCHANGED ledgerVars \/ \E t \in Tasks : LedgerCall(t)
      BY Actors, HandlersCall, RunsCall DEF vars, ledgerVars, UndisturbedInv
    <2>2. RepliesStand
      BY Actors, RunsKeepReplies, HandlersKeepReplies DEF vars, RepliesStand, UndisturbedInv
    <2>3. InboxesStayClosed
      <3>1. \A t \in Tasks : Final(tasks[t]) => tasks'[t] = tasks[t]
        BY <2>1, RowsOfOthersStay DEF ledgerVars, UndisturbedInv
      <3>2. \A t \in Tasks : tasks'[t].status = "completed" => Final(tasks'[t])
        BY DEF Final, Resumable, FinalTaskStatuses, RecoverableTerminalTaskStatuses
      <3> QED
        BY <2>2, <3>1, <3>2 DEF InboxesStayClosed, ClosesNotes, RepliesStand
    <2> QED
      BY <2>1, <2>3, ToldKept DEF UndisturbedInv
  <1>3. Told => MissedNotesAnnounced
    BY DEF Told, MissedNotesAnnounced
  <1> QED
    BY <1>1, <1>2, <1>3, RepliesInvariant, PTL DEF BridgeSpec
=============================================================================
