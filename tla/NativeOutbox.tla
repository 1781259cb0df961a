---------------------------- MODULE NativeOutbox ----------------------------
(* native_delivery.py and native_delivery_runner.py over the outbox table of  *)
(* state.py.  Whoever queues an event kicks the outbox: it starts a delivery  *)
(* runner, or flushes by itself, without the delivery lock, when every event  *)
(* is for the local route or no process can be started.  Runners hold the     *)
(* lock while they live.  A step is one transaction or one send.              *)
EXTENDS Naturals, Sequences, FiniteSets

CONSTANTS Tasks,
          LocalTasks,    \* the tasks whose delivery target is local
          Callers,       \* processes that queue events and kick the outbox
          Runners,       \* delivery runners alive at a time
          InlineLimit,   \* how many events a flush by a caller takes
          RunnerLimit,   \* how many events a flush by a runner takes
          LeaseSends,    \* how many send timeouts fit into one lease
          MaxEvents,     \* bound: events ever queued
          Environment,   \* which mishaps may occur: "crash", "deadline", "nospawn"
          MaxMishaps     \* bound: mishaps ever

ASSUME OutboxAssumption ==
    /\ LocalTasks \subseteq Tasks
    /\ Callers \cap Runners = {}
    /\ {InlineLimit, RunnerLimit, LeaseSends} \subseteq Nat \ {0}
    /\ {MaxEvents, MaxMishaps} \subseteq Nat

VARIABLES outbox,    \* the outbox table, in id order
          flusher,   \* per process, where it is and what it has claimed
          last,      \* per task, the event the user was shown last
          mishaps    \* how many mishaps there were

outboxVars == <<outbox, flusher, last, mishaps>>

Flushers == Callers \union Runners

\* status "waiting" is pending or retry, due whether next_attempt_at, or the
\* lease of a sending event, has passed.
Events == [task : Tasks, status : {"waiting", "sending", "sent"}, due : BOOLEAN]

NewEvent(t) == [task |-> t, status |-> "waiting", due |-> TRUE]

Places == {"rest", "kick", "spawn", "lock", "claim", "send", "mark", "defer", "poll", "leave"}

\* batch: the claimed events not handled yet; budget: how many more this flush
\* may claim; finished: sends finished since the claim.
Resting == [pc |-> "rest", batch |-> {}, budget |-> 0, finished |-> 0]

At(p, pc) == flusher[p].pc = pc

Goes(p, pc) == flusher' = [flusher EXCEPT ![p].pc = pc]

Rests(p) == flusher' = [flusher EXCEPT ![p] = Resting]

Unsent == {i \in DOMAIN outbox : outbox[i].status # "sent"}

\* The earliest unsent event of each task.
Heads == {i \in Unsent : \A j \in Unsent : j < i => outbox[j].task # outbox[i].task}

\* Faulty: a later event need not wait for an earlier one.
DueAnyway == {i \in Unsent : outbox[i].due}

\* Faulty: an event whose flusher died is never claimed again.
DueNotSending == {i \in Heads : outbox[i].due /\ outbox[i].status = "waiting"}

\* Faulty: the lease is not looked at.
DueWithoutLease == {i \in Heads : outbox[i].due \/ outbox[i].status = "sending"}

Due == {i \in Heads : outbox[i].due}

Oldest(S, n) == {i \in S : Cardinality({j \in S : j <= i}) <= n}

----------------------------------------------------------------------------
(* Callers: tools, hooks, task runners, and every turn of a controller.       *)

\* A ledger transaction queues up to two events of one task.
Record(c, t, n) ==
    /\ At(c, "rest")
    /\ Len(outbox) + n <= MaxEvents
    /\ outbox' = outbox \o [i \in 1..n |-> NewEvent(t)]
    /\ Goes(c, "kick")
    /\ UNCHANGED <<last, mishaps>>

\* A turn of the controller kicks what may have been left.
ControllerTurn(c) ==
    /\ At(c, "rest")
    /\ Goes(c, "kick")
    /\ UNCHANGED <<outbox, last, mishaps>>

\* An event the local route cannot take.
SomeRemote == \E i \in Unsent : outbox[i].task \notin LocalTasks

Flush(p, limit) ==
    flusher' = [flusher EXCEPT ![p] = [Resting EXCEPT !.pc = "claim", !.budget = limit]]

\* kick_native_outbox reads the pending targets ...
Kick(c) ==
    /\ At(c, "kick")
    /\ \/ Unsent = {} /\ Rests(c)
       \/ Unsent # {} /\ ~SomeRemote /\ Flush(c, RunnerLimit)
       \/ SomeRemote /\ Goes(c, "spawn")
    /\ UNCHANGED <<outbox, last, mishaps>>

Mishap(kind) ==
    /\ kind \in Environment
    /\ mishaps < MaxMishaps
    /\ mishaps' = mishaps + 1

\* ... and then starts a runner ...
Spawn(c, r) ==
    /\ At(c, "spawn")
    /\ At(r, "rest")
    /\ flusher' = [flusher EXCEPT ![c] = Resting, ![r].pc = "lock"]
    /\ UNCHANGED <<outbox, last, mishaps>>

\* ... or, when it cannot, flushes once itself.
SpawnFails(c) ==
    /\ At(c, "spawn")
    /\ Mishap("nospawn")
    /\ Flush(c, InlineLimit)
    /\ UNCHANGED <<outbox, last>>

----------------------------------------------------------------------------
(* flush_native_outbox, the same for callers and runners.                     *)

Flushed(p) == IF p \in Runners THEN [Resting EXCEPT !.pc = "poll"] ELSE Resting

Marked(i, status) == [outbox EXCEPT ![i].status = status, ![i].due = FALSE]

Leased(i) == [outbox[i] EXCEPT !.status = "sending", !.due = FALSE]

Sending(claimed, budget) ==
    [pc |-> "send", batch |-> claimed, budget |-> budget - Cardinality(claimed), finished |-> 0]

\* Faulty: an empty claim does not end the flush.
ClaimWithoutBreak(p) ==
    LET claimed == Oldest(Due, flusher[p].budget)
    IN  /\ At(p, "claim")
        /\ outbox' = [i \in DOMAIN outbox |-> IF i \in claimed THEN Leased(i) ELSE outbox[i]]
        /\ flusher' = [flusher EXCEPT ![p] = Sending(claimed, @.budget)]
        /\ UNCHANGED <<last, mishaps>>

\* claim_due_outbox: the due heads, under a new lease.
Claim(p) ==
    LET claimed == Oldest(Due, flusher[p].budget)
    IN  /\ At(p, "claim")
        /\ outbox' = [i \in DOMAIN outbox |-> IF i \in claimed THEN Leased(i) ELSE outbox[i]]
        /\ flusher' = [flusher EXCEPT ![p] =
                IF claimed = {} THEN Flushed(p) ELSE Sending(claimed, @.budget)]
        /\ UNCHANGED <<last, mishaps>>

\* A batch is handled in the order of the ids.
Current(p) == CHOOSE i \in flusher[p].batch : \A j \in flusher[p].batch : i <= j

\* After a record: the next of the batch, another claim, or the end of the flush.
Handled(p) ==
    LET rest == flusher[p].batch \ {Current(p)}
    IN  flusher' = [flusher EXCEPT ![p] =
            CASE rest # {} -> [flusher[p] EXCEPT !.pc = "send", !.batch = rest,
                                                 !.finished = flusher[p].finished + 1]
              [] rest = {} /\ flusher[p].budget > 0 ->
                     [Resting EXCEPT !.pc = "claim", !.budget = flusher[p].budget]
              [] OTHER -> Flushed(p)]

Shown(i) == last' = [last EXCEPT ![outbox[i].task] = i]

\* An event for the local route is acknowledged without being sent anywhere.
SendLocal(p) ==
    /\ At(p, "send")
    /\ outbox[Current(p)].task \in LocalTasks
    /\ outbox' = Marked(Current(p), "sent")
    /\ Shown(Current(p))
    /\ Handled(p)
    /\ UNCHANGED mishaps

Sends(p, i) ==
    /\ At(p, "send")
    /\ Current(p) = i
    /\ outbox[i].task \notin LocalTasks
    /\ UNCHANGED <<outbox, mishaps>>

SendOk(p, i) == Sends(p, i) /\ Shown(i) /\ Goes(p, "mark")

\* Faulty: nobody looks at what became of the send.
SendFailsUnnoticed(p, i) == Sends(p, i) /\ (Shown(i) \/ UNCHANGED last) /\ Goes(p, "mark")

\* A send that fails, or runs into its timeout, may have been delivered or not.
SendFails(p, i) == Sends(p, i) /\ (Shown(i) \/ UNCHANGED last) /\ Goes(p, "defer")

\* mark_outbox_sent and defer_outbox look at the id alone.
MarkSent(p) ==
    /\ At(p, "mark")
    /\ outbox' = Marked(Current(p), "sent")
    /\ Handled(p)
    /\ UNCHANGED <<last, mishaps>>

Defer(p) ==
    /\ At(p, "defer")
    /\ outbox' = Marked(Current(p), "waiting")
    /\ Handled(p)
    /\ UNCHANGED <<last, mishaps>>

----------------------------------------------------------------------------
(* The delivery runner.                                                       *)

\* The lock goes with the process that holds it.
Locked == \E r \in Runners : flusher[r].pc \notin {"rest", "lock"}

RunnerLocks(r) ==
    /\ At(r, "lock")
    /\ ~Locked
    /\ Flush(r, RunnerLimit)
    /\ UNCHANGED <<outbox, last, mishaps>>

\* Faulty: one look at the lock is enough.
GivesUpAtOnce(r) ==
    /\ At(r, "lock")
    /\ Locked
    /\ Rests(r)
    /\ UNCHANGED <<outbox, last, mishaps>>

\* The lock was held for 3 s.  A holder that has decided to leave releases it at
\* once, so the one seen after 3 s has looked at the outbox since, or will.
RunnerGivesUp(r) ==
    /\ At(r, "lock")
    /\ Locked
    /\ \A h \in Runners : ~At(h, "leave")
    /\ Rests(r)
    /\ UNCHANGED <<outbox, last, mishaps>>

\* next_outbox_wait: None exactly when all is sent, and then the runner leaves
\* after a grace period.
RunnerPolls(r) ==
    /\ At(r, "poll")
    /\ \/ Flush(r, RunnerLimit)
       \/ Unsent = {} /\ Goes(r, "leave")
    /\ UNCHANGED <<outbox, last, mishaps>>

RunnerExpires(r) ==
    /\ At(r, "poll")
    /\ Mishap("deadline")
    /\ Goes(r, "leave")
    /\ UNCHANGED <<outbox, last>>

RunnerLeaves(r) ==
    /\ At(r, "leave")
    /\ Rests(r)
    /\ UNCHANGED <<outbox, last, mishaps>>

----------------------------------------------------------------------------
(* Time and failure.                                                          *)

RetryDue(i) ==
    /\ i \in DOMAIN outbox
    /\ outbox[i].status = "waiting"
    /\ ~outbox[i].due
    /\ outbox' = [outbox EXCEPT ![i].due = TRUE]
    /\ UNCHANGED <<flusher, last, mishaps>>

Holds(p, i) == i \in flusher[p].batch

\* The lease of 60 s outlasts LeaseSends sends, each cut off after 30 s, and
\* whatever a flusher that is gone has left.
LeaseExpires(i) ==
    /\ i \in DOMAIN outbox
    /\ outbox[i].status = "sending"
    /\ ~outbox[i].due
    /\ \A p \in Flushers : Holds(p, i) => flusher[p].finished >= LeaseSends
    /\ outbox' = [outbox EXCEPT ![i].due = TRUE]
    /\ UNCHANGED <<flusher, last, mishaps>>

Crash(p) ==
    /\ ~At(p, "rest")
    /\ Mishap("crash")
    /\ Rests(p)
    /\ UNCHANGED <<outbox, last>>

----------------------------------------------------------------------------

OutboxInit ==
    /\ outbox = << >>
    /\ flusher = [p \in Flushers |-> Resting]
    /\ last = [t \in Tasks |-> 0]
    /\ mishaps = 0

FlusherStep(p) ==
    \/ Claim(p)
    \/ SendLocal(p)
    \/ \E i \in DOMAIN outbox : SendOk(p, i) \/ SendFails(p, i)
    \/ MarkSent(p)
    \/ Defer(p)

CallerStep(c) ==
    \/ Kick(c)
    \/ \E r \in Runners : Spawn(c, r)
    \/ FlusherStep(c)

RunnerStep(r) ==
    \/ RunnerLocks(r)
    \/ RunnerGivesUp(r)
    \/ RunnerPolls(r)
    \/ RunnerLeaves(r)
    \/ FlusherStep(r)

TimePasses(i) == RetryDue(i) \/ LeaseExpires(i)

OutboxNext ==
    \/ \E c \in Callers : \/ \E t \in Tasks, n \in 1..2 : Record(c, t, n)
                          \/ ControllerTurn(c)
                          \/ CallerStep(c)
                          \/ SpawnFails(c)
    \/ \E r \in Runners : RunnerStep(r) \/ RunnerExpires(r)
    \/ \E i \in DOMAIN outbox : TimePasses(i)
    \/ \E p \in Flushers : Crash(p)

OutboxSpec == OutboxInit /\ [][OutboxNext]_outboxVars

\* Processes that have begun go on, time passes, a controller gets another turn,
\* and a send that is tried again and again succeeds.
FairOutboxSpec ==
    /\ OutboxSpec
    /\ \A c \in Callers : WF_outboxVars(CallerStep(c)) /\ WF_outboxVars(ControllerTurn(c))
    /\ \A r \in Runners : WF_outboxVars(RunnerStep(r))
    /\ \A i \in 1..MaxEvents : /\ WF_outboxVars(TimePasses(i))
                               /\ SF_outboxVars(\E p \in Flushers : SendOk(p, i))

----------------------------------------------------------------------------

\* Every event, flusher and cursor has its type; a batch is claimed, in order.
OutboxTypeOK ==
    /\ outbox \in Seq(Events)
    /\ last \in [Tasks -> 0..MaxEvents]
    /\ mishaps \in 0..MaxMishaps
    /\ flusher \in [Flushers -> [pc : Places, batch : SUBSET DOMAIN outbox,
                                budget : 0..(InlineLimit + RunnerLimit),
                                finished : 0..MaxEvents]]
    /\ \A p \in Flushers :
        flusher[p].batch # {} <=> flusher[p].pc \in {"send", "mark", "defer"}

\* An event is marked sent only after the user was shown it, whichever of two
\* flushers marks it (mark_outbox_sent does not ask whose lease it is).
SentIsShown ==
    \A i \in DOMAIN outbox : outbox[i].status = "sent" => last[outbox[i].task] >= i

\* Two live flushers never hold the same event: the lock keeps runners apart,
\* the lease keeps them apart from a flush by a caller.
OneSender ==
    \A p, q \in Flushers : \A i \in DOMAIN outbox :
        Holds(p, i) /\ Holds(q, i) => p = q

\* Without a mishap an event that has to be sent away always has a process on its
\* way to it: a runner gives up the race for the lock, or leaves, and a caller
\* rests, only if another process will look at the outbox again.
SomeoneCares ==
    mishaps = 0 /\ SomeRemote => \E p \in Flushers : ~At(p, "rest")

Timeline == INSTANCE EventTimeline
    WITH log <- [i \in DOMAIN outbox |-> outbox[i].task], seen <- last

\* The user sees the events of a task in order, none left out, through retries,
\* crashes and flushers at work at the same time.
ShownInOrder == Timeline!TimelineSpec

\* With another controller turn to come, every event is shown, whatever crashes,
\* runs into the run time limit, or could not be started.
EveryEventShown == Timeline!Delivered(MaxEvents)
=============================================================================
