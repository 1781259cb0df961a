-------------------------- MODULE TaskBridgeProofs --------------------------
(* What TaskBridge promises, proved for any sets of tasks, runners, sessions *)
(* and note keys.                                                            *)
EXTENDS TaskBridge, TaskLedgerProofs

----------------------------------------------------------------------------
(* Types.  What a handler or a runner carries from one step to the next is    *)
(* fit for the ledger call it is carried to.                                  *)

\* A handler has a task, and what its place needs of a runner, a note key and
\* a status.
HandlerOK(h) ==
    /\ h.pc # "idle" => h.task \in Tasks
    /\ h.pc \in {"start_ack", "message_ack", "cancel_kill", "cancel_confirm"} =>
           h.run \in Runners
    /\ h.pc = "message_note" => h.key \in NoteKeys
    /\ h.pc \in {"message_claim", "message_dispatch", "message_undo"} =>
           h.want \in {"interrupted", "unconfirmed", "failed"}
    /\ h.pc = "notify_settle" => h.want \in Ends
    /\ h.pc = "notify_write" => h.want \in TerminalTaskStatuses

\* A runner has a task, and an end and an outcome when it is to report them;
\* a hook belongs to a bound turn, a turn to a runner that got as far.
RunOK(x) ==
    /\ x.pc # "unused" => x.task \in Tasks
    /\ x.pc = "unused" => x = NotStarted
    /\ x.pc \in {"settle", "write"} => x.end \in Ends
    /\ x.pc = "write" => x.want \in TerminalTaskStatuses
    /\ x.turn # "none" => x.pc \in {"run", "settle", "write", "over"}
    /\ x.hook # None => x.turn = "bound"

BridgeTyped ==
    /\ BridgeTypeOK
    /\ \A c \in Controllers : HandlerOK(ctl[c])
    /\ \A r \in Runners : RunOK(runs[r])

\* What the callers ask of the ledger is what it was built for.
LEMMA AskedRequests ==
    /\ \A r \in Runners : /\ AskWithProcess("dispatched", r) \in Requests
                          /\ AskWithProcess("continuing", r) \in Requests
                          /\ AskWithWorker(r) \in Requests
    /\ \A s \in {"running", "waiting", "blocked"} : Ask(s, "explicit") \in Requests
    /\ \A s \in {"running", "settling", "stopping", "interrupted", "unconfirmed",
                 "failed", "cancelled"} : Ask(s, "plain") \in Requests
    /\ Ask("returning", "final") \in Requests
    /\ \A s \in TerminalTaskStatuses : Outcome(s) \in Requests
  BY DEF Requests, Outcome, TerminalTaskStatuses, FinalTaskStatuses,
         RecoverableTerminalTaskStatuses

\* Every end is settled as an outcome.
LEMMA SettledIsOutcome ==
    ASSUME NEW row, NEW end
    PROVE  SettledStatus(row, end) \in TerminalTaskStatuses
  BY DEF SettledStatus, TerminalTaskStatuses, FinalTaskStatuses,
         RecoverableTerminalTaskStatuses

\* The status a failed continuation goes back to.
LEMMA ResumableStatus ==
    ASSUME NEW row, Resumable(row)
    PROVE  row.status \in {"interrupted", "unconfirmed", "failed"}
  BY DEF Resumable, RecoverableTerminalTaskStatuses

\* The two ways the processes change their own state: a session moves to a
\* sound place of its handler, a run to a sound place of its own, and only then
\* does the lock change hands.
HandlerMoves(c) ==
    \E h \in HandlerRecords : HandlerOK(h) /\ ctl' = [ctl EXCEPT ![c] = h]

RunMoves(r) ==
    /\ \E x \in RunRecords : RunOK(x) /\ runs' = [runs EXCEPT ![r] = x]
    /\ \/ lock' = lock /\ (runs'[r].pc \in {"start", "run"} <=> lock = r)
       \/ lock' = Freed(r) /\ runs'[r].pc \notin {"start", "run"}
       \/ lock = NoRunner /\ lock' = r /\ runs'[r].pc \in {"start", "run"}

HandlerActs(c) ==
    \/ ControllerCall(c) \/ ControllerStep(c)
    \/ \E r \in Runners : NotifyFind(c, r)
    \/ HandlerRaises(c) \/ ControllerCrash(c)

RunActs(r) ==
    \/ RunnerStep(r) \/ BotStep(r)
    \/ RunnerBusy(r) \/ RunnerRaises(r) \/ RunnerForgets(r) \/ RunnerCrash(r)
    \/ BotHookRaises(r)

LEMMA Actors ==
    BridgeNext <=> (\E c \in Controllers : HandlerActs(c)) \/ (\E r \in Runners : RunActs(r))
  BY DEF BridgeNext, Failures, HandlerActs, RunActs

LEMMA HandlersMove ==
    ASSUME BridgeTyped, NEW c \in Controllers, HandlerActs(c)
    PROVE  HandlerMoves(c)
  <1> DEFINE Fit(h) == h \in HandlerRecords /\ HandlerOK(h) /\ ctl' = [ctl EXCEPT ![c] = h]
  <1> SUFFICES \E h : Fit(h)
    BY DEF HandlerMoves
  <1>1. /\ ctl \in [Controllers -> HandlerRecords] /\ ctl[c] \in HandlerRecords
        /\ HandlerOK(ctl[c])
        /\ tasks \in [Tasks -> TaskRecords]
    BY DEF BridgeTyped, BridgeTypeOK, LedgerTypeOK
  <1>2. Idle \in HandlerRecords /\ HandlerOK(Idle)
    BY DEF Idle, HandlerRecords, HandlerOK, RunnerOrNone
  <1>3. CASE Return(c)
    BY <1>2, <1>3 DEF Return
  <1>4. CASE ctl' = ctl
    <2>1. ctl' = [ctl EXCEPT ![c] = ctl[c]]
      BY <1>1, <1>4
    <2> QED
      BY <1>1, <2>1
  <1>5. ASSUME NEW pc, Goto(c, pc), [ctl[c] EXCEPT !.pc = pc] \in HandlerRecords,
               HandlerOK([ctl[c] EXCEPT !.pc = pc])
        PROVE  \E h : Fit(h)
    BY <1>1, <1>5 DEF Goto
  <1>6. ASSUME NEW t \in Tasks,
               \/ StartIntent(c, t) \/ CancelRead(c, t)
               \/ \E key \in NoteKeys : MessageRead(c, t, key)
        PROVE  \E h : Fit(h)
    <2>1. CASE StartIntent(c, t)
      <3> DEFINE h == [Idle EXCEPT !.pc = "start_check", !.task = t]
      <3>1. h \in HandlerRecords /\ HandlerOK(h)
        BY DEF Idle, HandlerRecords, HandlerOK, RunnerOrNone
      <3> QED
        BY <2>1, <3>1 DEF StartIntent, Enter
    <2>2. CASE CancelRead(c, t)
      <3> DEFINE h == [Idle EXCEPT !.pc = "cancel_request", !.task = t, !.run = tasks[t].proc]
      <3>1. h \in HandlerRecords /\ HandlerOK(h)
        BY <1>1 DEF Idle, HandlerRecords, HandlerOK, TaskRecords
      <3> QED
        BY <2>2, <3>1 DEF CancelRead
    <2>3. ASSUME NEW key \in NoteKeys, MessageRead(c, t, key)
          PROVE  \E h : Fit(h)
      <3> DEFINE h == [Idle EXCEPT !.pc = "message_note", !.task = t, !.key = key]
      <3>1. h \in HandlerRecords /\ HandlerOK(h)
        BY DEF Idle, HandlerRecords, HandlerOK, RunnerOrNone
      <3> QED
        BY <2>3, <3>1 DEF MessageRead
    <2> QED
      BY <1>6, <2>1, <2>2, <2>3
  <1>7. ASSUME NEW r \in Runners, NotifyFind(c, r)
        PROVE  \E h : Fit(h)
    <2>1. mail[r] \in Ends
      BY <1>7 DEF NotifyFind, BridgeTyped, BridgeTypeOK
    <2>2. ASSUME NEW t \in Tasks
          PROVE  /\ [Idle EXCEPT !.pc = "notify_settle", !.task = t, !.want = mail[r]]
                      \in HandlerRecords
                 /\ HandlerOK([Idle EXCEPT !.pc = "notify_settle", !.task = t,
                                           !.want = mail[r]])
      BY <2>1 DEF Idle, HandlerRecords, HandlerOK, RunnerOrNone
    <2> QED
      BY <1>4, <1>7, <2>2 DEF NotifyFind
  <1>8. ASSUME NEW cont, NEW ack \in {"start_ack", "message_ack"},
               NEW fail \in {"start_fail", "message_undo"}, Dispatch(c, cont, ack, fail),
               ctl[c].pc # "idle",
               fail = "message_undo" => ctl[c].want \in {"interrupted", "unconfirmed", "failed"}
        PROVE  \E h : Fit(h)
    <2>1. ASSUME NEW r \in Runners, ctl' = [ctl EXCEPT ![c].pc = ack, ![c].run = r]
          PROVE  \E h : Fit(h)
      <3> DEFINE h == [ctl[c] EXCEPT !.pc = ack, !.run = r]
      <3>1. h \in HandlerRecords /\ HandlerOK(h)
        BY <1>1, <1>8 DEF HandlerRecords, HandlerOK, RunnerOrNone
      <3> QED
        BY <1>1, <2>1, <3>1
    <2>2. CASE Goto(c, fail)
      BY <1>1, <1>5, <1>8, <2>2 DEF HandlerRecords, HandlerOK
    <2> QED
      BY <1>8, <2>1, <2>2 DEF Dispatch
  <1>9. CASE StartDispatch(c) \/ MessageDispatch(c)
    BY <1>1, <1>8, <1>9 DEF StartDispatch, MessageDispatch, At, HandlerOK
  <1>10. CASE StartCheck(c)
    BY <1>1, <1>3, <1>5, <1>10 DEF StartCheck, At, HandlerRecords, HandlerOK
  <1>11. CASE MessageNote(c)
    <2> DEFINE h == [ctl[c] EXCEPT !.pc = "message_claim", !.want = tasks[ctl[c].task].status]
    <2>1. CASE Return(c)
      BY <1>3, <2>1
    <2>2. ASSUME Resumable(tasks[ctl[c].task]),
                 ctl' = [ctl EXCEPT ![c].pc = "message_claim",
                                    ![c].want = tasks[ctl[c].task].status]
          PROVE  Fit(h)
      <3>1. tasks[ctl[c].task].status \in {"interrupted", "unconfirmed", "failed"}
        BY <2>2, ResumableStatus
      <3>2. h \in HandlerRecords /\ HandlerOK(h)
        BY <1>1, <1>11, <3>1
           DEF MessageNote, At, HandlerRecords, HandlerOK, TaskStatuses, TerminalTaskStatuses,
               RecoverableTerminalTaskStatuses, FinalTaskStatuses
      <3> QED
        BY <1>1, <2>2, <3>2
    <2> QED
      BY <1>11, <2>1, <2>2 DEF MessageNote
  <1>12. CASE MessageClaim(c)
    BY <1>1, <1>3, <1>5, <1>12 DEF MessageClaim, At, HandlerRecords, HandlerOK
  <1>13. CASE CancelRequest(c)
    BY <1>1, <1>3, <1>5, <1>13 DEF CancelRequest, At, HandlerRecords, HandlerOK, RunnerOrNone
  <1>14. CASE CancelKill(c)
    BY <1>1, <1>3, <1>5, <1>14 DEF CancelKill, At, HandlerRecords, HandlerOK
  <1>15. CASE NotifySettle(c)
    <2>1. ASSUME NEW end
          PROVE  /\ [ctl[c] EXCEPT !.pc = "notify_write",
                                   !.want = SettledStatus(Row(c), end)] \in HandlerRecords
                 /\ HandlerOK([ctl[c] EXCEPT !.pc = "notify_write",
                                             !.want = SettledStatus(Row(c), end)])
      BY <1>1, <1>15, SettledIsOutcome
         DEF NotifySettle, At, HandlerRecords, HandlerOK, TaskStatuses
    <2> QED
      BY <1>1, <1>3, <1>15, <2>1 DEF NotifySettle
  <1>16. CASE HandlerRaises(c)
    BY <1>1, <1>3, <1>5, <1>16 DEF HandlerRaises, At, HandlerRecords, HandlerOK
  <1> QED
    BY <1>3, <1>6, <1>7, <1>9, <1>10, <1>11, <1>12, <1>13, <1>14, <1>15, <1>16
       DEF HandlerActs, ControllerCall, ControllerStep, StartAck, StartFail, MessageAck,
           MessageUndo, CancelConfirm, NotifyWrite, ControllerCrash

\* Neither a runner nor its Bot turn takes a run anywhere else.
LEMMA RunsMove ==
    ASSUME BridgeTyped, NEW r \in Runners, RunActs(r)
    PROVE  RunMoves(r) /\ mail' \in [Runners -> Ends \union {None}]
  <1> DEFINE Fit(x) == x \in RunRecords /\ RunOK(x) /\ runs' = [runs EXCEPT ![r] = x]
             Lock == \/ lock' = lock /\ (runs'[r].pc \in {"start", "run"} <=> lock = r)
                     \/ lock' = Freed(r) /\ runs'[r].pc \notin {"start", "run"}
                     \/ lock = NoRunner /\ lock' = r /\ runs'[r].pc \in {"start", "run"}
             Mail == mail' \in [Runners -> Ends \union {None}]
  <1> SUFFICES (\E x : Fit(x)) /\ Lock /\ Mail
    BY DEF RunMoves
  <1>1. /\ runs \in [Runners -> RunRecords] /\ runs[r] \in RunRecords /\ RunOK(runs[r])
        /\ mail \in [Runners -> Ends \union {None}]
        /\ lock = r <=> runs[r].pc \in {"start", "run"}
    BY DEF BridgeTyped, BridgeTypeOK
  <1>2. ASSUME NEW x \in RunRecords, RunOK(x), runs' = [runs EXCEPT ![r] = x],
               \/ lock' = lock /\ (x.pc \in {"start", "run"} <=> runs[r].pc \in {"start", "run"})
               \/ lock' = Freed(r) /\ x.pc \notin {"start", "run"}
               \/ lock = NoRunner /\ lock' = r /\ x.pc \in {"start", "run"},
               Mail
        PROVE  (\E y : Fit(y)) /\ Lock /\ Mail
    <2>1. runs'[r] = x
      BY <1>1, <1>2
    <2> QED
      BY <1>1, <1>2, <2>1
  <1>3. ASSUME NEW end \in Ends, Report(r, end), runs[r].pc \in {"lock", "start", "run"}
        PROVE  (\E x : Fit(x)) /\ Lock /\ Mail
    <2> DEFINE x == [runs[r] EXCEPT !.pc = "settle", !.end = end,
                        !.turn = IF Working(r) THEN "killed" ELSE runs[r].turn, !.hook = None]
    <2>1. x \in RunRecords /\ RunOK(x) /\ x.pc = "settle"
      BY <1>1, <1>3 DEF RunRecords, RunOK
    <2>2. runs' = [runs EXCEPT ![r] = x] /\ lock' = Freed(r) /\ Mail
      BY <1>1, <1>3 DEF Report
    <2> HIDE DEF x
    <2> QED
      BY <1>2, <2>1, <2>2
  <1>4. ASSUME NEW end \in Ends, Finish(r, end), runs[r].pc # "unused",
               \/ lock' = lock /\ runs[r].pc \notin {"start", "run"}
               \/ lock' = Freed(r)
        PROVE  (\E x : Fit(x)) /\ Lock /\ Mail
    <2> DEFINE x == [runs[r] EXCEPT !.pc = "over", !.end = end, !.want = None]
    <2>1. x \in RunRecords /\ RunOK(x) /\ x.pc = "over"
      BY <1>1, <1>4 DEF RunRecords, RunOK
    <2>2. runs' = [runs EXCEPT ![r] = x]
      BY <1>1, <1>4 DEF Finish
    <2>3. Mail
      BY <1>1, <1>4 DEF Finish, Ends
    <2> HIDE DEF x
    <2> QED
      BY <1>2, <1>4, <2>1, <2>2, <2>3
  <1>5. CASE RunnerAcquire(r)
    <2> DEFINE x == [runs[r] EXCEPT !.pc = "start"]
    <2>1. x \in RunRecords /\ RunOK(x) /\ x.pc = "start"
      BY <1>1, <1>5 DEF RunnerAcquire, RunRecords, RunOK
    <2>2. runs' = [runs EXCEPT ![r] = x] /\ lock = NoRunner /\ lock' = r /\ Mail
      BY <1>1, <1>5 DEF RunnerAcquire
    <2> HIDE DEF x
    <2> QED
      BY <1>2, <2>1, <2>2
  <1>6. CASE RunnerPopen(r)
    <2> DEFINE x == [runs[r] EXCEPT !.pc = "run", !.turn = "new"]
    <2>1. x \in RunRecords /\ RunOK(x) /\ x.pc = "run" /\ runs[r].pc = "start"
      BY <1>1, <1>6 DEF RunnerPopen, RunRecords, RunOK
    <2>2. runs' = [runs EXCEPT ![r] = x] /\ lock' = lock /\ Mail
      BY <1>1, <1>6 DEF RunnerPopen
    <2> HIDE DEF x
    <2> QED
      BY <1>2, <2>1, <2>2
  <1>7. ASSUME Leave(r, "error"), runs[r].pc = "run"
         PROVE  (\E x : Fit(x)) /\ Lock /\ Mail
    <2> DEFINE x == [runs[r] EXCEPT !.pc = "settle", !.end = "error", !.left = TRUE]
    <2>1. x \in RunRecords /\ RunOK(x) /\ x.pc = "settle"
      BY <1>1, <1>7 DEF RunRecords, RunOK, Ends
    <2>2. runs' = [runs EXCEPT ![r] = x] /\ lock' = Freed(r) /\ Mail
      BY <1>1, <1>7 DEF Leave
    <2> HIDE DEF x
    <2> QED
      BY <1>2, <2>1, <2>2
  <1>8. CASE RunnerCancelled(r) \/ RunnerReap(r) \/ RunnerBusy(r) \/ RunnerRaises(r)
    BY <1>3, <1>8, <1>7
       DEF RunnerCancelled, RunnerReap, RunnerBusy, RunnerRaises, StopFails, Exited, Ends
  <1>9. CASE RunnerSettle(r) /\ Settles(Ticket(r), runs[r].end)
    <2> DEFINE x == [runs[r] EXCEPT !.pc = "write",
                                    !.want = SettledStatus(Ticket(r), runs[r].end)]
    <2>1. x \in RunRecords /\ RunOK(x) /\ x.pc = "write" /\ runs[r].pc = "settle"
      BY <1>1, <1>9, SettledIsOutcome DEF RunnerSettle, RunRecords, RunOK
    <2>2. runs' = [runs EXCEPT ![r] = x] /\ lock' = lock /\ Mail
      BY <1>1, <1>9 DEF RunnerSettle
    <2> HIDE DEF x
    <2> QED
      BY <1>2, <2>1, <2>2
  <1>10. CASE \/ RunnerSettle(r) /\ ~Settles(Ticket(r), runs[r].end)
             \/ RunnerWrite(r) \/ RunnerForgets(r)
    BY <1>1, <1>4, <1>10 DEF RunnerSettle, RunnerWrite, RunnerForgets, RunOK
  <1>11. CASE RunnerCrash(r)
    <2>1. PICK left \in BOOLEAN : left = (runs[r].left \/ Working(r))
      OBVIOUS
    <2> DEFINE x == [runs[r] EXCEPT !.pc = "over", !.end = "error", !.want = None,
                                    !.left = left]
    <2>2. x \in RunRecords /\ RunOK(x) /\ x.pc = "over"
      BY <1>1, <1>11 DEF RunnerCrash, Live, RunRecords, RunOK, Ends
    <2>3. runs' = [runs EXCEPT ![r] = x] /\ lock' = Freed(r)
      BY <1>1, <1>11, <2>1 DEF RunnerCrash
    <2>4. Mail
      BY <1>1, <1>11 DEF RunnerCrash, Ends
    <2> HIDE DEF x
    <2> QED
      BY <1>2, <2>2, <2>3, <2>4
  <1>12. ASSUME NEW x \in RunRecords, RunOK(x), runs' = [runs EXCEPT ![r] = x],
                x.pc = runs[r].pc, UNCHANGED <<lock, mail>>
         PROVE  (\E y : Fit(y)) /\ Lock /\ Mail
    BY <1>1, <1>2, <1>12
  <1>13. ASSUME NEW turn \in {"bound", "answered", "aborted"} \union Exited,
                runs[r].turn # "none", runs[r].hook = None \/ turn = "bound",
                runs' = [runs EXCEPT ![r].turn = turn], UNCHANGED <<lock, mail>>
         PROVE  (\E x : Fit(x)) /\ Lock /\ Mail
    <2> DEFINE x == [runs[r] EXCEPT !.turn = turn]
    <2>1. x \in RunRecords /\ RunOK(x) /\ x.pc = runs[r].pc
      BY <1>1, <1>13 DEF RunRecords, RunOK, Exited
    <2>2. runs' = [runs EXCEPT ![r] = x]
      BY <1>1, <1>13
    <2> HIDE DEF x
    <2> QED
      BY <1>12, <1>13, <2>1, <2>2
  <1>14. ASSUME NEW hook \in {None, "activity", "update", "inbox", "final", "abort"},
                runs[r].turn = "bound",
                runs' = [runs EXCEPT ![r].hook = hook], UNCHANGED <<lock, mail>>
         PROVE  (\E x : Fit(x)) /\ Lock /\ Mail
    <2> DEFINE x == [runs[r] EXCEPT !.hook = hook]
    <2>1. x \in RunRecords /\ RunOK(x) /\ x.pc = runs[r].pc
      BY <1>1, <1>14 DEF RunRecords, RunOK
    <2>2. runs' = [runs EXCEPT ![r] = x]
      BY <1>1, <1>14
    <2> HIDE DEF x
    <2> QED
      BY <1>12, <1>14, <2>1, <2>2
  <1>15. ASSUME NEW turn \in {"answered", "aborted"}, runs[r].turn = "bound",
                \/ runs' = [runs EXCEPT ![r].hook = None, ![r].turn = turn]
                \/ \E answered \in BOOLEAN :
                     runs' = [runs EXCEPT ![r].hook = None, ![r].turn = turn,
                                          ![r].answered = answered],
                UNCHANGED <<lock, mail>>
         PROVE  (\E x : Fit(x)) /\ Lock /\ Mail
    <2>1. PICK answered \in BOOLEAN :
                 \/ runs' = [runs EXCEPT ![r].hook = None, ![r].turn = turn]
                 \/ runs' = [runs EXCEPT ![r].hook = None, ![r].turn = turn,
                                         ![r].answered = answered]
      BY <1>15
    <2> DEFINE x == [runs[r] EXCEPT !.hook = None, !.turn = turn]
               y == [runs[r] EXCEPT !.hook = None, !.turn = turn, !.answered = answered]
    <2>2. x \in RunRecords /\ RunOK(x) /\ x.pc = runs[r].pc
      BY <1>1, <1>15 DEF RunRecords, RunOK
    <2>3. y \in RunRecords /\ RunOK(y) /\ y.pc = runs[r].pc
      BY <1>1, <1>15 DEF RunRecords, RunOK
    <2>4. runs' = [runs EXCEPT ![r] = x] \/ runs' = [runs EXCEPT ![r] = y]
      BY <1>1, <2>1
    <2> HIDE DEF x, y
    <2> QED
      BY <1>12, <1>15, <2>2, <2>3, <2>4
  <1>16. CASE BotBind(r) \/ BotEndsUnobserved(r) \/ BotExits(r)
    <2>1. /\ runs[r].turn # "none" /\ UNCHANGED <<lock, mail>>
          /\ \E turn \in {"bound", "answered", "aborted"} \union Exited :
                /\ runs' = [runs EXCEPT ![r].turn = turn]
                /\ runs[r].hook = None \/ turn = "bound"
      BY <1>16 DEF BotBind, BotEndsUnobserved, BotExits, Between, Working, Exited
    <2> QED
      BY <1>13, <2>1
  <1>17. CASE \/ \E hook \in {"activity", "update", "inbox", "final", "abort"} : BotEnters(r, hook)
              \/ BotActivity(r) \/ BotUpdate(r) \/ BotInbox(r)
    BY <1>1, <1>14, <1>17
       DEF BotEnters, Between, BotActivity, BotUpdate, BotInbox, AfterHook, RunOK, None
  <1>18. CASE BotFinal(r) \/ BotAbort(r)
    <2>1. runs[r].turn = "bound" /\ UNCHANGED <<lock, mail>>
      BY <1>1, <1>18 DEF BotFinal, BotAbort, RunOK, None
    <2> QED
      BY <1>15, <1>18, <2>1 DEF BotFinal, BotAbort
  <1>19. CASE BotHookRaises(r)
    <2>1. runs[r].turn # "none" /\ (runs[r].hook # None => runs[r].turn = "bound")
      BY <1>1, <1>19 DEF BotHookRaises, RunOK, None
    <2> QED
      BY <1>13, <1>14, <1>15, <1>19, <2>1 DEF BotHookRaises, AfterHook
  <1> QED
    BY <1>5, <1>6, <1>8, <1>9, <1>10, <1>11, <1>16, <1>17, <1>18, <1>19
       DEF RunActs, RunnerStep, BotStep

\* What a session does to a run: it starts one, or kills one.
LEMMA HandlersMoveRuns ==
    ASSUME BridgeTyped, NEW c \in Controllers, HandlerActs(c)
    PROVE  /\ UNCHANGED <<runs, lock>> \/ \E r \in Runners : RunMoves(r)
           /\ mail' \in [Runners -> Ends \union {None}]
  <1>1. /\ runs \in [Runners -> RunRecords] /\ \A r \in Runners : RunOK(runs[r])
        /\ mail \in [Runners -> Ends \union {None}]
        /\ \A r \in Runners : lock = r <=> runs[r].pc \in {"start", "run"}
        /\ ctl[c] \in HandlerRecords /\ HandlerOK(ctl[c])
    BY DEF BridgeTyped, BridgeTypeOK
  <1>2. ASSUME NEW r \in Runners, NEW cont \in BOOLEAN, runs[r] = NotStarted,
               Launch(c, r, cont), ctl[c].task \in Tasks, lock' = lock
        PROVE  RunMoves(r)
    <2> DEFINE x == [NotStarted EXCEPT !.pc = "lock", !.by = c, !.task = ctl[c].task,
                                       !.cont = cont]
    <2>1. x \in RunRecords /\ RunOK(x) /\ x.pc = "lock"
      BY <1>2 DEF NotStarted, RunRecords, RunOK
    <2>2. runs' = [runs EXCEPT ![r] = x] /\ runs[r].pc = "unused"
      BY <1>2 DEF Launch, NotStarted
    <2> HIDE DEF x
    <2>3. runs'[r].pc = "lock" /\ lock # r
      BY <1>1, <2>1, <2>2
    <2> QED
      BY <1>2, <2>1, <2>2, <2>3 DEF RunMoves
  <1>3. CASE StartDispatch(c) \/ MessageDispatch(c)
    BY <1>1, <1>2, <1>3 DEF StartDispatch, MessageDispatch, Dispatch, At, HandlerOK
  <1>4. CASE CancelKill(c)
    <2> DEFINE r == ctl[c].run
               x == [runs[r] EXCEPT !.pc = "over", !.end = "error", !.want = None,
                        !.turn = IF Working(r) THEN "killed" ELSE runs[r].turn, !.hook = None]
    <2>1. r \in Runners /\ mail' \in [Runners -> Ends \union {None}]
      BY <1>1, <1>4 DEF CancelKill, At, HandlerOK, Ends
    <2>2. CASE UNCHANGED <<runs, lock, mail>>
      BY <2>1, <2>2
    <2>3. CASE ~UNCHANGED <<runs, lock, mail>>
      <3>1. Live(r) /\ runs' = [runs EXCEPT ![r] = x] /\ lock' = Freed(r)
        <4>1. /\ Live(r) /\ lock' = Freed(r)
              /\ runs' = [runs EXCEPT ![r].pc = "over", ![r].end = "error", ![r].want = None,
                            ![r].turn = IF Working(r) THEN "killed" ELSE @, ![r].hook = None]
          BY <1>4, <2>3 DEF CancelKill
        <4> QED
          BY <1>1, <2>1, <4>1
      <3>2. x \in RunRecords /\ RunOK(x) /\ x.pc = "over"
        <4>1. runs[r] \in RunRecords /\ RunOK(runs[r]) /\ runs[r].pc # "unused"
          BY <1>1, <2>1, <3>1 DEF Live
        <4>2. x \in RunRecords
          <5>1. "error" \in Ends
            BY DEF Ends
          <5> QED
            BY <4>1, <5>1 DEF RunRecords
        <4>3. x.pc = "over" /\ x.hook = None /\ x.task = runs[r].task
          BY <4>1 DEF RunRecords
        <4>4. RunOK(x)
          <5> HIDE DEF x
          <5> QED
            BY <4>1, <4>3 DEF RunOK
        <4> QED
          BY <4>2, <4>3, <4>4
      <3> HIDE DEF x
      <3>3. runs'[r].pc = "over"
        BY <1>1, <2>1, <3>1, <3>2
      <3> QED
        BY <2>1, <3>1, <3>2, <3>3 DEF RunMoves
    <2> QED
      BY <2>2, <2>3
  <1>5. CASE \E r \in Runners : NotifyFind(c, r)
    BY <1>1, <1>5 DEF NotifyFind
  <1>6. CASE UNCHANGED <<runs, lock, mail>>
    BY <1>1, <1>6
  <1> QED
    BY <1>3, <1>4, <1>5, <1>6
       DEF HandlerActs, ControllerCall, StartIntent, MessageRead, CancelRead, ControllerStep,
           StartCheck, StartAck, StartFail, MessageNote, MessageClaim, MessageAck, MessageUndo,
           CancelRequest, CancelConfirm, NotifySettle, NotifyWrite, HandlerRaises,
           ControllerCrash

\* Every access of a session to the ledger is a call the ledger provides for.
LEMMA HandlersCall ==
    ASSUME BridgeTyped, NEW c \in Controllers, HandlerActs(c)
    PROVE  UNCHANGED ledgerVars \/ \E t \in Tasks : LedgerCall(t)
  <1>1. HandlerOK(ctl[c])
    BY DEF BridgeTyped
  <1>2. ASSUME NEW q \in Requests, TransitionTask(ctl[c].task, q), ctl[c].pc # "idle"
        PROVE  \E t \in Tasks : LedgerCall(t)
    BY <1>1, <1>2 DEF HandlerOK, LedgerCall
  <1>3. ASSUME NEW t \in Tasks, StartIntent(c, t)
        PROVE  UNCHANGED ledgerVars \/ LedgerCall(t)
    BY <1>3 DEF StartIntent, LedgerCall
  <1>4. CASE StartAck(c) \/ StartFail(c) \/ MessageAck(c) \/ CancelRequest(c) \/ CancelConfirm(c)
    BY <1>1, <1>2, <1>4, AskedRequests
       DEF StartAck, StartFail, MessageAck, CancelRequest, CancelConfirm, At, HandlerOK
  <1>5. CASE MessageUndo(c)
    BY <1>1, <1>2, <1>5, AskedRequests DEF MessageUndo, At, HandlerOK
  <1>6. CASE NotifyWrite(c)
    BY <1>1, <1>2, <1>6, AskedRequests DEF NotifyWrite, At, HandlerOK
  <1>7. CASE MessageNote(c) \/ MessageClaim(c)
    BY <1>1, <1>7 DEF MessageNote, MessageClaim, At, HandlerOK, LedgerCall
  <1>8. CASE UNCHANGED <<tasks, notes, notices>>
    BY <1>8 DEF ledgerVars
  <1>9. CASE HandlerRaises(c)
    BY <1>1, <1>2, <1>9, AskedRequests DEF HandlerRaises, At, HandlerOK
  <1> QED
    BY <1>3, <1>4, <1>5, <1>6, <1>7, <1>8, <1>9
       DEF HandlerActs, ControllerCall, MessageRead, CancelRead, ControllerStep,
           StartCheck, StartDispatch, MessageDispatch, Dispatch, CancelKill, ledgerVars,
           NotifySettle, NotifyFind, ControllerCrash

\* And so is every access of a runner or a Bot turn, about its own task: it
\* asks for a transition or reads its notes.
LEMMA RunsCall ==
    ASSUME BridgeTyped, NEW r \in Runners, RunActs(r)
    PROVE  \/ UNCHANGED ledgerVars
           \/ /\ runs[r].task \in Tasks /\ LedgerCall(runs[r].task)
              /\ \/ \E q \in Requests : TransitionTask(runs[r].task, q)
                 \/ ReadTaskNotes(runs[r].task)
  <1>1. RunOK(runs[r])
    BY DEF BridgeTyped
  <1>2. ASSUME NEW q \in Requests, TransitionTask(runs[r].task, q), runs[r].pc # "unused"
        PROVE  runs[r].task \in Tasks /\ LedgerCall(runs[r].task)
    BY <1>1, <1>2 DEF RunOK, LedgerCall
  <1>3. CASE RunnerWrite(r)
    BY <1>1, <1>2, <1>3, AskedRequests DEF RunnerWrite, RunOK
  <1>4. runs[r].turn # "none" \/ runs[r].hook # None => runs[r].pc # "unused"
    BY <1>1 DEF RunOK, NotStarted
  <1>5. CASE BotBind(r) \/ BotActivity(r) \/ BotUpdate(r) \/ BotFinal(r) \/ BotAbort(r)
    BY <1>2, <1>4, <1>5, AskedRequests
       DEF BotBind, BotActivity, BotUpdate, BotFinal, BotAbort, None
  <1>6. CASE BotInbox(r)
    BY <1>1, <1>4, <1>6 DEF BotInbox, None, RunOK, LedgerCall
  <1>7. CASE UNCHANGED <<tasks, notes, notices>>
    BY <1>7 DEF ledgerVars
  <1> QED
    BY <1>3, <1>5, <1>6, <1>7
       DEF RunActs, RunnerStep, RunnerAcquire, RunnerPopen, RunnerCancelled, RunnerReap,
           RunnerSettle, Report, Leave, StopFails, BotStep, BotEnters, BotEndsUnobserved,
           BotExits, RunnerBusy, RunnerRaises, RunnerForgets, RunnerCrash, BotHookRaises

LEMMA BridgeCallsLedger ==
    BridgeTyped /\ [BridgeNext]_vars => [LedgerNext]_ledgerVars
  BY HandlersCall, RunsCall, Actors DEF vars, ledgerVars, LedgerNext

LEMMA BridgeTypedInductive == BridgeTyped /\ [BridgeNext]_vars => BridgeTyped'
  <1> SUFFICES ASSUME BridgeTyped, [BridgeNext]_vars PROVE BridgeTyped'
    OBVIOUS
  <1>1. LedgerTypeOK'
    BY BridgeCallsLedger, LedgerTypeInductive DEF BridgeTyped, BridgeTypeOK
  <1>2. /\ ctl \in [Controllers -> HandlerRecords] /\ \A c \in Controllers : HandlerOK(ctl[c])
        /\ runs \in [Runners -> RunRecords] /\ \A r \in Runners : RunOK(runs[r])
        /\ lock \in RunnerOrNone
        /\ \A r \in Runners : lock = r <=> runs[r].pc \in {"start", "run"}
        /\ mail \in [Runners -> Ends \union {None}]
    BY DEF BridgeTyped, BridgeTypeOK
  <1>3. \/ UNCHANGED vars
        \/ \E c \in Controllers : HandlerActs(c)
        \/ \E r \in Runners : RunActs(r)
    BY Actors
  <1>4. UNCHANGED ctl \/ \E c \in Controllers : HandlerMoves(c)
    BY <1>3, HandlersMove
       DEF vars, RunActs, RunnerStep, RunnerAcquire, RunnerPopen, RunnerCancelled, RunnerReap,
           RunnerSettle, RunnerWrite, Report, Leave, StopFails, BotStep, BotEnters,
           BotEndsUnobserved, BotExits, BotBind, BotActivity, BotUpdate, BotInbox, BotFinal,
           BotAbort, RunnerBusy, RunnerRaises, RunnerForgets, RunnerCrash, BotHookRaises
  <1>5. /\ UNCHANGED <<runs, lock>> \/ \E r \in Runners : RunMoves(r)
        /\ mail' \in [Runners -> Ends \union {None}]
    BY <1>2, <1>3, HandlersMoveRuns, RunsMove DEF vars
  <1>6. ctl' \in [Controllers -> HandlerRecords] /\ \A c \in Controllers : HandlerOK(ctl'[c])
    BY <1>2, <1>4 DEF HandlerMoves
  <1>7. /\ runs' \in [Runners -> RunRecords] /\ \A r \in Runners : RunOK(runs'[r])
        /\ lock' \in RunnerOrNone
        /\ \A r \in Runners : lock' = r <=> runs'[r].pc \in {"start", "run"}
    <2>1. CASE UNCHANGED <<runs, lock>>
      BY <1>2, <2>1
    <2>2. ASSUME NEW r \in Runners, RunMoves(r)
          PROVE  /\ runs' \in [Runners -> RunRecords] /\ \A s \in Runners : RunOK(runs'[s])
                 /\ \A s \in Runners \ {r} : runs'[s] = runs[s]
      BY <1>2, <2>2 DEF RunMoves
    <2>3. ASSUME NEW r \in Runners, RunMoves(r)
          PROVE  /\ lock' \in RunnerOrNone
                 /\ \A s \in Runners : lock' = s <=> runs'[s].pc \in {"start", "run"}
      BY <1>2, <2>2, <2>3, RunnersAssumption DEF RunMoves, Freed, RunnerOrNone
    <2> QED
      BY <1>5, <2>1, <2>2, <2>3
  <1> QED
    BY <1>1, <1>5, <1>6, <1>7 DEF BridgeTyped, BridgeTypeOK

LEMMA BridgeInvariantTyped == BridgeSpec => []BridgeTyped
  <1>1. BridgeInit => BridgeTyped
    <2> SUFFICES ASSUME BridgeInit PROVE BridgeTyped
      OBVIOUS
    <2>1. LedgerTypeOK
      BY LedgerInvInitially DEF BridgeInit, LedgerInv
    <2>2. Idle \in HandlerRecords /\ HandlerOK(Idle)
      BY DEF Idle, HandlerRecords, HandlerOK, RunnerOrNone
    <2>3. NotStarted \in RunRecords /\ RunOK(NotStarted) /\ NotStarted.pc = "unused"
      BY DEF NotStarted, RunRecords, RunOK
    <2> QED
      BY <2>1, <2>2, <2>3, RunnersAssumption
         DEF BridgeInit, BridgeTyped, BridgeTypeOK, RunnerOrNone
  <1> QED
    BY <1>1, BridgeTypedInductive, PTL DEF BridgeSpec

\* Every handler, runner, Bot turn and notification has its type, in whatever
\* order they meet, and the profile lock belongs to a runner that needs it.
THEOREM BridgeTypeCorrect == BridgeSpec => []BridgeTypeOK
  <1>1. BridgeTyped => BridgeTypeOK
    BY DEF BridgeTyped
  <1> QED
    BY <1>1, BridgeInvariantTyped, PTL

\* The tools, the runners and the hooks use the ledger as it expects to be
\* used, so everything the ledger promises holds of the bridge.
THEOREM BridgeImplementsLedger == BridgeSpec => LedgerSpec
  <1>1. BridgeInit => LedgerInit
    BY DEF BridgeInit
  <1> QED
    BY <1>1, BridgeCallsLedger, BridgeInvariantTyped, PTL DEF BridgeSpec, LedgerSpec

----------------------------------------------------------------------------
(* The profile lock.                                                         *)

\* A Bot turn that its runner has not left behind is at work under the runner
\* that waits for it.
TurnsAreRun == \A r \in Runners : Working(r) /\ ~runs[r].left => runs[r].pc = "run"

\* Whatever ends the wait of a runner ends the Bot turn with it or leaves it
\* behind: an error of the stop and a kill of the runner do.
LEMMA TurnsStopWithTheirRunner == BridgeSpec => []TurnsAreRun
  <1>1. BridgeInit => TurnsAreRun
    BY DEF BridgeInit, TurnsAreRun, Working, NotStarted
  <1>2. TurnsAreRun /\ BridgeTyped /\ [BridgeNext]_vars => TurnsAreRun'
    <2> SUFFICES ASSUME TurnsAreRun, BridgeTyped, [BridgeNext]_vars,
                        NEW r \in Runners, Working(r)', ~runs'[r].left
                 PROVE  runs'[r].pc = "run"
      BY DEF TurnsAreRun
    <2>1. /\ runs \in [Runners -> RunRecords] /\ runs[r] \in RunRecords /\ RunOK(runs[r])
          /\ Working(r) /\ ~runs[r].left => runs[r].pc = "run"
      BY DEF BridgeTyped, BridgeTypeOK, TurnsAreRun
    <2>2. ASSUME runs'[r].turn = runs[r].turn \/ runs[r].hook # None,
                 runs'[r].pc = runs[r].pc, runs'[r].left = runs[r].left
          PROVE  runs'[r].pc = "run"
      BY <2>1, <2>2 DEF Working, RunOK
    <2>3. ASSUME NEW c \in Controllers, HandlerActs(c), ~UNCHANGED runs
          PROVE  runs'[r].pc = "run"
      <3>1. CASE StartDispatch(c) \/ MessageDispatch(c)
        <4>1. PICK s \in Runners, cont \in BOOLEAN : Launch(c, s, cont)
          BY <2>3, <3>1 DEF StartDispatch, MessageDispatch, Dispatch
        <4>2. r # s
          BY <2>1, <4>1 DEF Launch, NotStarted, Working
        <4> QED
          BY <2>1, <2>2, <4>1, <4>2 DEF Launch
      <3>2. CASE CancelKill(c)
        <4>1. runs' = [runs EXCEPT ![ctl[c].run].pc = "over", ![ctl[c].run].end = "error",
                         ![ctl[c].run].want = None,
                         ![ctl[c].run].turn = IF Working(ctl[c].run) THEN "killed" ELSE @,
                         ![ctl[c].run].hook = None]
          BY <2>3, <3>2 DEF CancelKill
        <4>2. CASE r # ctl[c].run
          BY <2>1, <2>2, <4>1, <4>2
        <4>3. CASE r = ctl[c].run
          BY <2>1, <4>1, <4>3 DEF Working
        <4> QED
          BY <4>2, <4>3
      <3> QED
        BY <2>3, <3>1, <3>2
           DEF HandlerActs, ControllerCall, StartIntent, MessageRead, CancelRead,
               ControllerStep, StartCheck, StartAck, StartFail, MessageNote, MessageClaim,
               MessageAck, MessageUndo, CancelRequest, CancelConfirm, NotifyFind,
               NotifySettle, NotifyWrite, HandlerRaises, ControllerCrash
    <2>4. ASSUME NEW s \in Runners, RunActs(s), r # s
          PROVE  runs'[r].pc = "run"
      BY <2>1, <2>2, <2>4, RunsMove DEF RunMoves
    <2>5. CASE RunActs(r)
      <3>1. ASSUME NEW end, Report(r, end)
            PROVE  runs'[r].pc = "run"
        BY <2>1, <3>1 DEF Report, Working
      <3>2. ~\E end : Leave(r, end)
        <4>1. ASSUME NEW end, Leave(r, end) PROVE runs'[r].left = TRUE
          BY <2>1, <4>1 DEF Leave, RunRecords
        <4> QED
          BY <4>1
      <3>3. CASE RunnerCancelled(r) \/ RunnerReap(r) \/ RunnerBusy(r) \/ RunnerRaises(r)
        BY <3>1, <3>3, <3>2
           DEF RunnerCancelled, RunnerReap, RunnerBusy, RunnerRaises, StopFails
      <3>4. ASSUME NEW end, Finish(r, end), runs[r].pc # "run"
            PROVE  runs'[r].pc = "run"
        BY <2>1, <3>4 DEF Finish, Working, RunRecords
      <3>5. CASE RunnerWrite(r) \/ RunnerForgets(r) \/ RunnerSettle(r)
        BY <2>1, <3>4, <3>5 DEF RunnerWrite, RunnerForgets, RunnerSettle, Working, RunRecords
      <3>6. CASE RunnerAcquire(r) \/ RunnerPopen(r)
        BY <2>1, <3>6 DEF RunnerAcquire, RunnerPopen, Working, RunRecords
      <3>7. CASE \/ BotBind(r) \/ BotFinal(r) \/ BotAbort(r) \/ BotEndsUnobserved(r)
                 \/ BotExits(r) \/ BotHookRaises(r)
        BY <2>1, <3>7
           DEF BotBind, BotFinal, BotAbort, BotEndsUnobserved, BotExits, Between,
               BotHookRaises, AfterHook, Working, RunRecords, RunOK, None
      <3>8. CASE \/ \E hook \in {"activity", "update", "inbox", "final", "abort"} :
                        BotEnters(r, hook)
                 \/ BotActivity(r) \/ BotUpdate(r) \/ BotInbox(r)
        BY <2>1, <2>2, <3>8
           DEF BotEnters, BotActivity, BotUpdate, BotInbox, AfterHook, RunRecords
      <3>9. ~RunnerCrash(r)
        <4>1. ASSUME RunnerCrash(r) PROVE FALSE
          <5>1. /\ runs'[r].left = (runs[r].left \/ Working(r))
                /\ runs'[r].turn = runs[r].turn
            BY <2>1, <4>1 DEF RunnerCrash, RunRecords
          <5>2. Working(r)' <=> Working(r)
            BY <5>1 DEF Working
          <5> QED
            BY <5>1, <5>2
        <4> QED
          BY <4>1
      <3> QED
        BY <2>5, <3>3, <3>5, <3>6, <3>7, <3>8, <3>9 DEF RunActs, RunnerStep, BotStep
    <2> QED
      BY <2>1, <2>2, <2>3, <2>4, <2>5, Actors DEF vars
  <1> QED
    BY <1>1, <1>2, BridgeInvariantTyped, PTL DEF BridgeSpec

\* Nothing is left behind where every stop succeeds and no runner is killed.
NoneLeft == \A r \in Runners : ~runs[r].left

LEMMA StoppedTurnsAreGone ==
    ASSUME ~Possible("crash"), ~Possible("nostop")
    PROVE  BridgeSpec => []NoneLeft
  <1>1. BridgeInit => NoneLeft
    <2>1. NotStarted.left = FALSE
      BY DEF NotStarted
    <2> QED
      BY <2>1 DEF BridgeInit, NoneLeft
  <1>2. NoneLeft /\ BridgeTyped /\ [BridgeNext]_vars => NoneLeft'
    <2> SUFFICES ASSUME NoneLeft, BridgeTyped, [BridgeNext]_vars, NEW r \in Runners
                 PROVE  ~runs'[r].left
      BY DEF NoneLeft
    <2>1. runs \in [Runners -> RunRecords] /\ runs[r] \in RunRecords /\ ~runs[r].left
      BY DEF BridgeTyped, BridgeTypeOK, NoneLeft
    <2>2. CASE UNCHANGED runs
      BY <2>1, <2>2
    <2>3. ASSUME NEW c \in Controllers, HandlerActs(c)
          PROVE  ~runs'[r].left
      <3>1. CASE StartDispatch(c) \/ MessageDispatch(c)
        <4>1. ASSUME NEW s \in Runners, NEW cont, Launch(c, s, cont) PROVE ~runs'[r].left
          <5>1. [NotStarted EXCEPT !.pc = "lock", !.by = c, !.task = ctl[c].task,
                                   !.cont = cont].left = FALSE
            BY DEF NotStarted
          <5> QED
            BY <2>1, <4>1, <5>1 DEF Launch
        <4> QED
          BY <2>2, <3>1, <4>1 DEF StartDispatch, MessageDispatch, Dispatch
      <3>2. CASE CancelKill(c)
        BY <2>1, <2>2, <3>2 DEF CancelKill, RunRecords
      <3> QED
        BY <2>2, <2>3, <3>1, <3>2
           DEF HandlerActs, ControllerCall, StartIntent, MessageRead, CancelRead,
               ControllerStep, StartCheck, StartAck, StartFail, MessageNote, MessageClaim,
               MessageAck, MessageUndo, CancelRequest, CancelConfirm, NotifyFind,
               NotifySettle, NotifyWrite, HandlerRaises, ControllerCrash
    <2>4. ASSUME NEW s \in Runners, RunActs(s), s # r
          PROVE  ~runs'[r].left
      BY <2>1, <2>4, RunsMove DEF RunMoves
    <2>5. CASE RunActs(r)
      BY <2>1, <2>5
         DEF RunActs, RunnerStep, RunnerAcquire, RunnerPopen, RunnerCancelled, RunnerReap,
             RunnerSettle, RunnerWrite, Report, StopFails, Finish, BotStep, BotEnters,
             BotEndsUnobserved, BotExits, BotBind, BotActivity, BotUpdate, BotInbox, BotFinal,
             BotAbort, AfterHook, RunnerBusy, RunnerRaises, RunnerForgets, RunnerCrash,
             BotHookRaises, RunRecords
    <2> QED
      BY <2>2, <2>3, <2>4, <2>5, Actors DEF vars
  <1> QED
    BY <1>1, <1>2, BridgeInvariantTyped, PTL DEF BridgeSpec

\* The lock that every runner takes before it starts a Bot turn keeps the turns
\* of a profile apart, whatever is cancelled, repeated, fails or is killed: only
\* a turn that its runner left behind may meet another.
THEOREM TurnsNeverOverlap == BridgeSpec => []OneTurnPerProfile
  <1>1. BridgeTyped /\ TurnsAreRun => OneTurnPerProfile
    BY DEF BridgeTyped, BridgeTypeOK, TurnsAreRun, OneTurnPerProfile
  <1> QED
    BY <1>1, BridgeInvariantTyped, TurnsStopWithTheirRunner, PTL
=============================================================================
