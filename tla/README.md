# A verification of the Telegram canonical bridge

The bridge is a Hermes plugin. A *controller* session hands a task to another
Bot profile with `agent_task_start`, follows it up with `agent_task_message`,
and may call it off with `agent_task_cancel`. Each call starts, at most, one
background *runner*, which runs one turn of the Bot in a process of its own.
Controller sessions, runners and Bot turns are separate processes; all they
share is a SQLite ledger, a profile lock, and process handles. What happens to a
task is queued in an *outbox* of the ledger and sent to the user by short-lived
delivery runners. The modules here model that protocol: the ledger as a component
with its own promises, the processes, step by step, on top of it, and beside them
the delivery of events and the files that hold text to be used verbatim.

## Inventory

| Component | State it keeps | Operations | What makes it correct |
|---|---|---|---|
| task record, `task_model.py` | none: enums and derived properties | classification of statuses and evidence | which failures may be continued |
| durable ledger, `state.py` (`BridgeState`) | `tasks`, `task_notes`, `task_events`, `outbox` | `create_task`, `transition_task`, `claim_task_continuation`, `add_agent_task_note`, `read_task_notes`, `bind_worker`, `complete_worker_turn`, outbox claim / mark / defer, `_reconcile_closed_task_notes` when it is opened | outcomes are stable, cancellations sticky, no accepted instruction forgotten |
| completion rules, `task_completion.py` | none | `settle_task_completion` | every end of a runner gets one outcome; a recorded reply outlives the exit code |
| controller tools, `agent_tasks.py` | the stack of each running handler | `agent_task_start`, `_message`, `_cancel`, `_status`, slash commands | at most one runner per task, the original payload at most once |
| hooks and worker tools, `task_features.py` | the stack of each running hook | `_observe_process_completion`, `_before_llm`, `_before_tool`, `_after_tool`, `_after_llm`, `_on_session_end`, `bridge_task_update`, `bridge_task_inbox` | observations are attributed to the right run, and never overwrite a decision |
| task runner, `agent_task_runner.py` | a process, the profile lock, a child process | `run` | Bot turns of a profile one at a time; cancellation reaches the turn; every end recorded |
| native delivery, `native_delivery.py`, `native_delivery_runner.py` | outbox leases, delivery lock, the batch a flusher has claimed | `kick_native_outbox`, `flush_native_outbox`, `_send_text`, the runner's `run` | events of a task in order and none skipped; each eventually sent; one sender per event |
| exact payload, `exact_payload.py` | artifact, manifest, binding files | `create_exact_text_payload`, `read_exact_text_payload` | a bound payload verifies at any time, and is the one dispatched |
| configuration, registration | read-only settings | - | - |

How they interact: a tool handler is a sequence of ledger transactions with
process starts and kills between them; nothing but `BEGIN IMMEDIATE` makes two
accesses atomic. Runner and Bot turn write to the same rows, unasked. Completion
notifications come back to the dispatching session, at any later time, and are
matched by process id in one transaction and applied by task id in another.
Nearly every transaction on a task queues an event; whoever made it then kicks the
outbox, and so does every turn of a controller. A start call creates the exact
payload before it dispatches; the runner and status queries read it again.

What is hard to test: a decision taken on a row read earlier (cancel, settle,
notification); an acknowledgement that arrives after what it acknowledges is
over; several callers of `agent_task_message`; the same tool call delivered
twice; a runner that is killed, or cannot stop its Bot turn, and the turn that lives on;
the same fields reused by
successive runs of one task; two flushers on one outbox, a lease that ends during a send, the
moment a delivery runner decides to leave; three files that are one payload only
together. `PROJECT.json` lists each of these at its line.

## Modules

```
TaskModel ─┬─ TaskLedger ─┬─ TaskLedgerProofs ──────┐
           │              ├─ TaskTimeline ─┬─ TaskTimelineProofs
           │              │                └─ MCTaskLedger
           └─ TaskCompletion ─── TaskBridge ─┬─ MCTaskBridge     (also extends TaskLedger)
                                             └─ TaskBridgeProofs ─ TaskOwnerProofs
                                                (also extends TaskLedgerProofs)
TaskOwnerProofs ─ TaskContinuationProofs ─ TaskOutcomeProofs
EventTimeline ◁── NativeOutbox ─┬─ MCNativeOutbox                (◁── refines)
                                └─ NativeOutboxProofs
ExactPayload ─┬─ MCExactPayload
              └─ ExactPayloadProofs
```

* **TaskModel**: statuses, derived properties of a row (`Resumable`, `Final`,
  ...), and `Requests`: exactly the transitions some caller in the code asks for.
  A runner starts one Bot turn, so one name stands for `process_id` and
  `worker_turn_id`; free text is reduced to the class of evidence that a test in
  the code tells apart (`plain`, `explicit`, `final`).
* **TaskLedger**: `BridgeState` on tasks, notes and the missed-notes notice. Each
  method is one SQLite transaction and therefore one action. `LedgerSpec` is the
  abstract promise to any number of callers in any order.
* **TaskCompletion**: the decision table of `settle_task_completion`, over the
  class of end that `completion_reason` and `completion_reply_summary` yield.
* **TaskBridge**: controllers (`ctl`), runners and Bot turns (`runs`), the profile
  lock (`lock`) and undelivered notifications (`mail`), all composed from the
  ledger's actions. An action is what happens between two points where another
  process may intervene: `pc` of a controller or runner, `hook` of a Bot turn name
  the point reached. All tasks target the same Bot profile.
* **TaskTimeline**: the same ledger calls with what they tell the user: `noted` is the
  newest status in `task_events`, `told` the newest in the outbox. `QueueTaskEvent` may
  drop an automatic event that repeats the status, when less than 12 s have passed;
  whether they have is a free choice.
* **EventTimeline**: the abstract promise of the delivery: a log of events, and per
  task how far the user has seen it. `Show` shows the next one; showing the same one
  again is a stutter, since delivery is at least once.
* **NativeOutbox**: the outbox table and the processes that empty it. A step is one
  transaction (`Claim`, `MarkSent`, `Defer`, `Record`), one send, or one look at the
  lock. `due` stands for all clocks: it is false while `next_attempt_at` or
  `lease_until` lies ahead. A send that fails may have reached the user. Callers
  (`Kick`, `Spawn`, `SpawnFails`) flush without the lock, runners with it.
* **ExactPayload**: one file operation per step, several processes; `WriteArtifact`,
  `WriteManifest`, `WriteBinding`, then the three reads. A digest is the text it
  belongs to: tasks with one text share artifact and manifest.

| Action group in TaskBridge | Code |
|---|---|
| `StartIntent`, `StartCheck`, `StartDispatch`, `StartAck`, `StartFail` | `prepare_start`, `agent_task_start`, `_dispatch_runner` |
| `MessageRead` ... `MessageUndo` | `agent_task_message` |
| `CancelRead` ... `CancelConfirm` | `agent_task_cancel` |
| `NotifyFind`, `NotifySettle`, `NotifyWrite` | `_observe_process_completion`, `settle_task_completion` |
| `RunnerAcquire` ... `RunnerWrite`, with the stop of the turn in `Report` and `StopFails` | `run`, `_run_worker_command`, `_stop_owned_process_tree`, `_record_completion` |
| `BotBind` ... `BotExits` | hooks and worker tools, the end of `hermes chat` |
| `HandlerRaises`, `ControllerCrash`, `RunnerRaises`, `RunnerForgets`, `RunnerCrash`, `BotHookRaises` | exceptions and kills at each of those points |

`Environment` selects which of the adversities may occur, so that each run says
exactly under which conditions its properties hold: `cancel` (the user
cancels), `notify` (notifications arrive), `noexit` (a notification may lack the
exit code), `lateack` (a Bot turn may start before the handler that dispatched it
wrote the acknowledgement), `retry` (a tool call is delivered again),
`faults` (a ledger access of a handler, a hook or a runner at work raises), `forgets`
(so does the one by which a runner records its completion, which it does not retry),
`nostop` (a runner may fail to stop its Bot turn), `crash` (a process is killed). Failed
and refused calls, busy locks and failed dispatches are always possible.

A Bot turn can outlive its runner's wait in two ways, and the field `left` of a run
records both. The runner is killed: the lock goes with it, the turn is in a session of its
own (`agent_task_runner.py:201`). Or the stop raises, because `taskkill` fails while the
child is alive (`:178-179`) or the child does not end in time (`:184`): the except clause
tries once more and may raise again (`:212-214`), leaving the `with` block releases the
profile lock (`:309`), and the runner records a `runner_error` (`:353-356`). `StopFails` is
this path, with the second attempt succeeding (`Report`) or not (`Leave`). The turn left
behind goes on: its hooks and tools keep writing to the ledger, it may read the notes of a
continuation, and nobody waits for its end. `OneTurnPerProfile`, `CancelledMeansStopped`,
`ContinuationHasInstruction` and the liveness properties say of every other turn what they
say, and name this one as the exception; `failed_stop` shows what a user sees of it.

Assumed of the surroundings, which are not in the repository: a notification is
delivered at most once, to the session that dispatched the runner; the process
manager's `killed` means the process and its children are gone, the Bot turn included
(`CancelKill`; the code trusts the answer and so does the model); a task keeps its
conversation, so the session of a Bot turn identifies the task and the turn
identifies the runner (the worker tools check the session only, and the model
lets any turn of the task through them); a file lock goes with its process.

The definitions that begin with "Faulty:" are plausible mistakes in the code.
Each property has one in `PROJECT.json` that it is known to detect.

## What TLC checks

| Run | Instance | Shows |
|---|---|---|
| `ledger` | 2 tasks, 2 notes | the promises of the ledger under all sequences of calls; unread instructions are given up only with their inbox; the last event queued for a task tells its status |
| `bridge_race` | 2 sessions, 3 runners, 2 notes; cancel | one live runner, idle when resumable, where two sessions compete for a continuation or a cancellation |
| `bridge_lock` | 2 tasks, 2 runners, no notes; faults, nostop, crash | turns of one profile do not overlap, but for one that was left behind |
| `bridge_retry` | 1 session, 3 runners, 2 notes; notify, noexit, retry | one live runner per task, and process and turn of a row match, through three runs; original payload once, recorded replies kept, missed notes announced |
| `bridge_restart` | 1 session, 2 runners, 2 notes; cancel, notify, noexit, lateack, forgets, nostop, crash | kills between any two steps, failed stops and forgotten completions never lead to two runners, nor to a runner beside a resumable task, nor to a continuation for nothing; `TaskBridge` implements `LedgerSpec` |
| `bridge_live` | 1 session, 2 runners, 1 note; cancel, notify, lateack, forgets, nostop, fair | process and turn of a row match; a cancelled task has no turn at work that its row names, nor any its runner could stop; every run that ends is settled, also when it forgets to do so itself; every cancellation is resolved |
| `delivery` | 2 tasks, one of them on the local route, 2 events, 2 callers, 2 runners, 2 mishaps; fair | `NativeOutbox` implements `EventTimeline`; sent means shown; one sender per event; without a mishap somebody always cares for an event; every event is shown in the end |
| `payload` | 2 tasks, 2 texts, 3 processes | a binding verifies from the moment it exists; what is verified is what is bound and was asked for; a binding never changes |

Bounds. In the ledger, bridge and payload runs no counter is bounded in a guard:
rows are finite, a note key is used once, and a runner is used once, so all instances are finite by themselves. The
set of runners bounds the continuations (when it is used up, a dispatch fails,
which the code can also meet). Two runners are enough to have an old and a new
run of one task, three to have a continuation that follows another (in `bridge_race` and
`bridge_retry`; what `bridge_restart` and `bridge_live` check with two is proved for any
number, liveness apart); two notes
with `InboxLimit` 1 make a partial read possible; two sessions make every race
of two handlers possible. Deadlock is not checked in the bridge runs: a system
in which nobody calls anything any more is at rest; nor in the delivery runs, where all may be
sent. In the ledger and payload runs it is checked. `NativeOutbox` bounds the events
ever queued (`MaxEvents`) and the mishaps (`MaxMishaps`: a death, a run time used up,
a process that cannot be started). Two events are enough for one of a task to wait
for another and for two tasks to share a batch; two mishaps, for a failed start
followed by a death. The limits of a flush, 8 and 32, become 1 and 2, so that both
are reached; `LeaseSends` is 2, the 60 s of a lease over the 30 s of a send. With two
tasks no batch outlasts its lease: `late_lease` has three.
Runs under symmetry check safety only; the liveness runs use none.

Fairness. A handler, a runner and a hook that has begun go on (weak fairness of
each): they are ordinary code without waits on other processes, the profile
lock apart, and a runner waiting for that only has to move while it is free or
a cancellation is there. The gateway delivers a notification to a session that
is idle time and again (strong fairness of `NotifyFind` per runner). Neither a
user's call nor the end of a Bot turn is assumed. In `delivery`, callers and runners
that have begun go on and time passes (weak fairness of each process, retry and
lease), a send that is tried time and again succeeds (strong fairness of `SendOk` per
event: `README.md:293` speaks of temporary failures), and each controller gets a turn
when it is idle for good (weak fairness of `ControllerTurn`: without it an event whose
runner died waits for the next one who kicks, as the code's comments say).

### Where code and documents differ

Four runs are expected to fail; each checks a statement of the documents or
comments, and TLC's trace shows how the code comes to contradict it.

* `failed_stop`: a cancelled runner cannot stop its Bot turn and releases the profile
  lock, and the turn of the next task starts beside it, where `README.md:33` promises that
  the runners of a profile work one after the other.
* `late_cancel`: a cancellation decided on an older row overwrites `returning`,
  and the exit code of the clean-up then makes an interruption of a recorded reply.
* `stale_notice`: a notification is matched to a task, another session claims a
  continuation, the old exit settles the new claim, and a second continuation
  runs beside the first.
* `late_lease`: three events of different tasks are claimed together; the third waits
  for two sends that time out, its lease ends, another flusher sends it and the next
  event of its task, and then the first shows the old event after the new one. It
  takes a flush outside the lock (here a caller whose runner could not be started).

### The conditions

The passing runs leave out an adversity only where the property does not hold
under it. What TLC shows when it is added:

* `FinalSurvives` with `lateack`: the acknowledgement overwrites `returning`, as the
  cancellation does in `late_cancel`; with two sessions, the acknowledgement of the first
  runner does so after the other session's continuation. With `faults`, an
  acknowledgement that raises fails the task after the reply; with `crash` and `notify`, the
  turn of a killed runner replies while the end of that runner is being settled.
* `RunEndsSettled` without `notify`: an acknowledgement written after the settlement
  reopens the task, and only the notification can settle it again. A turn that was left
  behind is an exception in the property: its `bridge_task_update` reopens the interrupted
  task (`state.py:427`) after the run and its notification are spent.
* `OneLiveRunner` with two sessions and `retry`: a start call delivered to both before
  the first has recorded the process id starts two runners; with one session, `retry` and
  `crash`: the call is delivered again after the session was killed between dispatch and
  acknowledgement; with two sessions and `notify`: `stale_notice`. With `faults`: an
  acknowledgement that raises makes `agent_task_start` fail the task under its live runner;
  with the Bot bound, the failed task may be continued. With `cancel`, `retry` and
  `nostop`: a stop fails, the interrupted task is claimed for a continuation, which clears
  the process, and no runner can be created; then a hook of the turn left behind makes the
  task active again, and a start call delivered again finds it active and without a process.
  Delivered twice, it starts two runners.
* `OneTurnPerProfile` needs no condition; a turn left behind is the exception in it, and
  `failed_stop` shows that it has to be.
* `CancelledMeansStopped` with `crash` and `notify`, with `faults`, or with two
  sessions, `lateack` and `nostop`: a row comes to name a turn that was left behind, and
  the task is cancelled. That a turn of an earlier run, which could not be stopped and which
  the row no longer names, is still at work when a continuation is cancelled is an exception
  in the property: nobody can stop that turn any more.
* `IdentityMatches` with `crash` and `notify`: the runner of a continuation is killed before
  its turn has begun, the task is settled from the notification and continued again, and
  then the old turn names itself (three runners; two when the notification lacks the exit
  code). With `faults` and three runners an acknowledgement that raises fails the task under
  its live runner, whose end then settles the continuation; the next one runs beside it, and
  the row takes the process of one and the turn of the other. With two sessions and either
  `crash` or `lateack`, an acknowledgement or a turn of the old run comes after the claim of
  the new one.
* `CancelResolves` with a turn left behind: it reopens the interrupted task, and a second
  cancellation finds no process to kill and no runner to confirm it (an exception in the
  property). With two sessions: `stopping`, decided before the runner settled and
  written after it, reopens the interrupted task (`state.py:427`), and nobody is left
  to confirm the cancellation.
* `OriginalSentOnce` with `cancel`, `retry` and `nostop`, as `OneLiveRunner`; with two
  sessions and `retry`: a start call delivered again before
  its acknowledgement has recorded the process id (`agent_tasks.py:492`) starts a
  second runner; with one session, `retry` and `crash`, the same after a kill.
* `MissedNotesAnnounced` with `cancel`: the notice of missed notes is issued once per
  task (`state.py:360`), and a task can close its inbox twice. It can do so as well
  under each of the other conditions that lose a recorded reply, and with `forgets` and
  `noexit`, when the completion of a reply is not recorded, the notification without an exit
  code makes the task `unconfirmed`, and a continuation closes the inbox again.
* `ContinuationHasInstruction` with two sessions or `retry`: a message call
  delivered again, or overtaken by another, may claim a continuation whose
  instruction has been read already. With `faults`, an acknowledgement that raises fails the
  task under a live turn, which reads the note of its continuation. A turn left behind may read it too, between the note
  and the claim or later: an exception in the property.
* `OneSender` with three tasks, on the instance of `late_lease`: two flushers hold the
  event whose lease has ended.
* `SomeoneCares` with three tasks, two of them on the local route, three callers and one
  runner, without any mishap: the third event of a batch loses its lease, another
  flusher sends it and rests, and then the failure of the first puts it back to waiting
  (`defer_outbox` does not ask whose lease it is) when nobody is left to see it.
* `SomeoneCares` for the local route: a caller whose flush has used up its budget leaves
  the rest, also when another process looked in vain while the last event was claimed.
  The next turn takes it (`EveryEventShown` holds for both routes).

The delivery model further assumes that a process that gives up after 3 s has seen a
holder of the lock that has not yet decided to leave (which releases it at once); that
a send of a flusher that was killed ends within that flusher's lease; and that marking
and deferring take no time compared with a send. The payload model assumes that calls
for one task that overlap carry one text (the task id is derived from the tool call),
and that a file operation is atomic and durable in its order: the loss of a directory
entry in a power failure, and a replacement that fails because Windows has the file
open, are not modelled.

A controller that dies between claim and dispatch leaves a task `continuing` that
only a cancellation moves, to `stopping`: no property speaks about it.

## What is proved

`TaskLedgerProofs` proves, for any sets of tasks, runners and note keys and any
inbox limit, all the promises of `LedgerSpec` that the `ledger` run checks:

* `LedgerTypeCorrect`: types, and the foreign key of the notes;
* `InboxNeverForgets`, `FinishedExactlyWhenTerminal`, `CompletionKeepsEvidence`;
* `FinalOutcomesAreStable`, `CancellationsAreSticky`, `InstructionsWaitForTheirTask`:
  the three action properties.

The inductive invariant is `LedgerInv`, the conjunction of the four state
invariants. They need each other: reading the inbox rewrites a row's evidence, so
a completed task keeps its evidence only because a closed inbox has nothing to
read (`ClosedInboxDrained`); and `finished` after a transition is right only if it
was right before. `OneRowChanges` says once what an operation does to the row
it is about and to the inboxes of all tasks, with one step per operation (`NewRows`: a row
that is only being dispatched has the columns it was created with); the
invariant, `FinalOutcomesAreStable` and `CancellationsAreSticky` follow from it. `RequestsTyped` is where the
callers matter: a completion always brings its evidence. The constants' assumptions
(`RunnersAssumption`, `InboxLimitAssumption`) say that NULL is no process and a read
may return a note.

`ReconcileFindsNothing` is the lemma that a ledger written by this version never has
anything to clean up when it is opened: `_reconcile_closed_task_notes` is an operation
of the ledger and, in every reachable state, a stutter.

`TaskTimelineProofs` builds on it: `NewsAreOfTheLedger` (the timeline implements the
ledger) carries the types over, and `TheTruthIsTold` is `NewsIsTold`. Its inductive
invariant `NewsInv` adds that the newest row of `task_events` tells the status too,
since that row is what the interval compares with; `OneTaskIsNoted` says what an
operation does to the row, the event and the outbox of its task.

`ExactPayloadProofs` proves the four properties of the `payload` run, for any sets of
tasks, texts and processes. `PayloadInv` says which files are in place once a call has
passed each write (`CallOK`), that a binding is there only with its artifact and
manifest (`FilesOK`), and that overlapping calls for a task agree on its text
(`OneTextAtWork`, from the guard of `CreateBegins`). `FilesStay` is the frame: a step
leaves what is written in place and binds an unbound task at most. The assumption on
the constants (`TextsAssumption`) says that a missing or torn file is no text.

**The bridge.** `TaskBridgeProofs` is about every adversity the model knows, unless it
says otherwise. `BridgeTyped`, its inductive invariant, adds to `BridgeTypeOK` what a
handler must carry at the place it has reached (`HandlerOK`: a runner where one will be
acknowledged, a status where one will be written) and which places a runner and the hooks
of its turn may be in together (`RunOK`).

* `BridgeTypeCorrect`: the types.
* `BridgeImplementsLedger`: `BridgeSpec => LedgerSpec`. Each action makes one call of the
  ledger on one task or none, and asks only for transitions in `Requests`. So every
  theorem above holds of the bridge, whoever is killed between two steps.
* `TurnsNeverOverlap`: whatever ends a runner's wait ends its Bot turn or leaves it behind
  (`TurnsAreRun`), and the lock is with the runner until then. It has no hypothesis.

`TaskOwnerProofs` shows why no task gets a second runner. A task has at most one *owner*:
a handler that is about to start a runner for it or to record that it could not, or the
runner itself. `Ownership` says that an owned task is open (`OwnedIsOpen`), which keeps
`claim_task_continuation` out; that there is one owner (`OneOwner`); that a handler which
records the end of a run has seen that end and still sees it (`Confirmed`); that row
and handlers name no runner but the owner (`Named`, `OwnerNamed`: a cancellation kills whom
the row names, a notification is about the run it names); and, for calls delivered again,
that a task nobody has recorded a process for is with the handler that starts its runner
or will acknowledge it (`Attended`), so that a repeated start finds it started.
`RunEffects` and `HandlerEffects` say once, for every action, which of a few things it does
to rows and owners; the rest never looks at an action again. From it, under `Orderly`:

`NoSecondRunner` and `ContinuationsStartIdle`.

`Orderly` has three parts: no ledger access of a handler or a hook raises; notifications
come only with one session; calls are repeated only to one session, where nothing is killed
and every stop succeeds. Otherwise sessions, kills, failed stops, forgotten completions,
cancellations, late acknowledgements and notifications without an exit code are free. A
trace under "The conditions" needs each part.

`OriginalPayloadOnce` has a weaker hypothesis: when calls are delivered once, the payload
is sent once whatever goes wrong, faults, kills and any number of sessions included
(`FirstCalls`: a task is created by the one handler that will start its first runner); when
they are repeated, under `Orderly` (`Originals`: the owner that is about to start a run
finds none of its task).

`TaskContinuationProofs`, with one session and under `Orderly`:

* `RowsNameOneRun`, without kills. `WorkerNamed`: the row of an owned task names no turn but
  its runner's. With failed stops a turn may name itself when its runner has given up
  already. Either it had done so before, and its own continuation clears the name; or it is
  `Doomed`: it was left for a cancellation before it had begun, so its task is still
  `stopping`, or final, and can only end as `failed`, which without a Bot turn nobody continues.
* `CancelledTasksAreStill`, under the same conditions. The invariant `LeftTurns` says of
  a turn left behind that while the row names it (`Spared`) nobody has recorded or is about
  to record a cancellation: its runner reports an error (`RunReports`), and what settles a
  task as cancelled is a cancelled run or the handler whose kill was confirmed.
* `ContinuationsAreInstructed`, without repeated calls, kills and failed stops included
  (`Instructed`: from `message_claim` until its turn binds, a note of the task is unread, or
  a turn has been left behind; a session that has added a note is the only one to add any,
  and no other turn of that task is there to read it).

All three rest on `Ownership` and so on the absence of `faults`, which each of them needs,
as the first two need the absence of kills when notifications come (see "The conditions").

`TaskOutcomeProofs`, under `Undisturbed`, the conditions of the run `bridge_retry`: one
session, none of `cancel`, `lateack`, `faults`, `forgets`, `nostop` and `crash`, while
notifications come, with or without an exit code, and calls are delivered again.

* `FinalRepliesSurvive`. The invariant `Replies` follows the reply from the final hook to
  the settlement: while a run that has answered, and that its row names, is live the row
  is `returning`, afterwards it is `completed` (`ReplyOf`), and a row is `returning` only
  for such a reply (`Replied`). Who could overwrite it is absent: no handler cancels, and
  one that acknowledges a runner finds no turn in the row yet (`Uncancelled`); a
  notification finds no live owner, hence no `returning` row.
* `MissedNotesAreAnnounced`. Because a recorded reply is only ever followed by its
  completion (`RepliesStand`), an inbox that a reply has closed stays closed
  (`InboxesStayClosed`), so a task has its notes marked missed once, and the one notice
  that its row can issue counts them all (`Told`).

With two runners, a task and two notes TLC violates both as soon as a second session,
`cancel`, `lateack`, `faults` or `crash` is allowed, and `MissedNotesAnnounced` with
`forgets`. That `FinalRepliesSurvive` excludes `forgets` as well may be a limit of the
proof; `nostop` changes nothing there, since without `cancel` and `faults` no runner stops
a turn.

**The outbox.** `NativeOutboxProofs` proves, with any number of tasks, callers, runners,
events and mishaps:

* `OutboxTypeCorrect`: the types, and that a batch is always a finite set of events with
  a first one to send;
* under `[]SmallBatches`, `NeverSentByTwo`, `NothingSentUnseen`, `OutboxKeepsTimeline`
  (`NativeOutbox` implements `EventTimeline`, under the mapping of `ShownInOrder`) and
  `NobodyForgetsTheOutbox`;
* `FewTasksInOrder`: all four without that hypothesis, when there are no more tasks than
  `LeaseSends`, since a batch has one event of a task.

`SmallBatches` says that no batch is larger than the number of sends a lease covers. With
the times in the code that number is two, while a batch may have as many events as the flush may still send, 8 or 32
(`native_delivery.py:88`): `late_lease` and the instance named under "The conditions" show that
order, `OneSender` and `SomeoneCares` are lost without it. `OutboxMoves` reduces every
step to one of six effects (an event is queued, becomes due, is claimed, shown, recorded,
or nothing of this happens). `InOrder` is inductive over them: what is left of a batch can
be sent before its lease ends (`InTime`); so its events stay claimed, and the earliest
unsent ones of their tasks (`HeldOK`); so the user has seen the events marked sent, and
nothing past the first unsent one (`CursorOK`), nor anything of the task between a send and
its record (`MarkOK`); and no two flushers hold one event (`OneSender`). `Cared` adds, for
`SomeoneCares`, that without a mishap some process is on its way while a remote event is
unsent: a runner that leaves has seen the table empty, or leaves another behind.
TLC checked `InOrder` on a small instance before it was proved.

**Only model-checked.** Liveness (`EveryEventShown`, `RunEndsSettled`, `CancelResolves`):
fairness and ENABLED are not in the prover's reach. Every safety invariant and action
property that a passing run checks is stated by a theorem, under the hypotheses named
above.

## What is not modelled

Texts: progress, errors, results and their sanitising and truncation, prompts,
rendered status, revisions and timestamps. Status queries and slash commands: they
change nothing, or call the handlers above. Attachments, spool and message files:
written before the process that reads them exists, and named for it alone. The clean-up
of ledgers that older versions left with unread notes in closed inboxes: the operation
is modelled, such a ledger is not an initial state. The checks of malformed arguments
and contracts. The length of the back-off. Configuration and registration: settings
read once, no protocol.

`TaskBridge` and `NativeOutbox` are not composed: the bridge reaches the outbox only by
inserting events (`Record` allows any) and by kicking it, and reads nothing from it.

## What is left

* A composition of `TaskBridge` with `NativeOutbox`, should the bridge ever read the
  outbox.
