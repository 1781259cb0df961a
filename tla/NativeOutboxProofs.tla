------------------------- MODULE NativeOutboxProofs -------------------------
(* Why the user sees the events of a task in order, for any number of tasks,  *)
(* callers and delivery runners, as long as no batch outlasts its lease.      *)
EXTENDS NativeOutbox, FiniteSetTheorems, SequenceTheorems, WellFoundedInduction, TLAPS

----------------------------------------------------------------------------
(* Batches are finite, so they have a first and a last event.                *)

LEMMA HasLeast ==
    ASSUME NEW S \in SUBSET Nat, S # {}
    PROVE  \E i \in S : \A j \in S : i <= j
  <1>1. PICK i \in S : \A j \in S : ~ (<<j, i>> \in OpToRel(<, Nat))
    BY NatLessThanWellFounded, WFMin
  <1>2. \A j \in S : ~ (j < i)
    BY <1>1 DEF OpToRel
  <1> QED
    BY <1>2

LEMMA HasGreatest ==
    ASSUME NEW n \in Nat, NEW S \in SUBSET (0..n), S # {}
    PROVE  \E i \in S : \A j \in S : j <= i
  <1> DEFINE T == {n - i : i \in S}
  <1>1. T \in SUBSET Nat /\ T # {}
    <2>1. \A i \in S : n - i \in Nat
      OBVIOUS
    <2> QED
      BY <2>1
  <1>2. PICK k \in T : \A j \in T : k <= j
    BY <1>1, HasLeast
  <1>3. PICK i \in S : k = n - i
    BY <1>2
  <1>4. \A j \in S : n - i <= n - j
    BY <1>2, <1>3
  <1> QED
    BY <1>4

LEMMA FiniteBelow ==
    ASSUME NEW n \in Nat, NEW S \in SUBSET (1..n)
    PROVE  /\ IsFiniteSet(S) /\ Cardinality(S) \in Nat /\ Cardinality(S) <= n
           /\ S = {} <=> Cardinality(S) = 0
  <1>1. IsFiniteSet(1..n) /\ Cardinality(1..n) = n
    <2>1. 1 \in Int /\ n \in Int
      OBVIOUS
    <2>2. IsFiniteSet(1..n) /\ Cardinality(1..n) = IF 1 > n THEN 0 ELSE n - 1 + 1
      BY <2>1, FS_Interval
    <2> QED
      BY <2>2
  <1>2. IsFiniteSet(S) /\ Cardinality(S) <= n
    BY <1>1, FS_Subset
  <1>3. Cardinality(S) \in Nat
    BY <1>2, FS_CardinalityType
  <1> QED
    BY <1>2, <1>3, FS_EmptySet

\* A batch is as large as was asked for, and of what was asked for.
LEMMA OldestBound ==
    ASSUME NEW n \in Nat, NEW S \in SUBSET (1..n), NEW k \in Nat
    PROVE  /\ Oldest(S, k) \subseteq S
           /\ IsFiniteSet(Oldest(S, k)) /\ Cardinality(Oldest(S, k)) \in Nat
           /\ Cardinality(Oldest(S, k)) <= k /\ Cardinality(Oldest(S, k)) <= n
  <1> DEFINE O == Oldest(S, k)
  <1>1. O \subseteq S /\ O \in SUBSET (1..n)
    BY DEF Oldest
  <1>2. IsFiniteSet(O) /\ Cardinality(O) \in Nat /\ Cardinality(O) <= n
    BY <1>1, FiniteBelow
  <1>3. CASE O = {}
    BY <1>1, <1>2, <1>3, FS_EmptySet
  <1>4. CASE O # {}
    <2>1. O \in SUBSET (0..n)
      BY <1>1
    <2>2. PICK i \in O : \A j \in O : j <= i
      BY <1>4, <2>1, HasGreatest
    <2> DEFINE T == {j \in S : j <= i}
    <2>3. Cardinality(T) <= k
      BY <2>2 DEF Oldest
    <2>4. O \in SUBSET T /\ T \in SUBSET (1..n)
      BY <1>1, <2>2
    <2>5. IsFiniteSet(T) /\ Cardinality(T) \in Nat
      BY <2>4, FiniteBelow
    <2>6. Cardinality(O) <= Cardinality(T)
      BY <2>4, <2>5, FS_Subset
    <2> QED
      BY <1>1, <1>2, <2>3, <2>5, <2>6
  <1> QED
    BY <1>3, <1>4

----------------------------------------------------------------------------
(* Types.  A flusher has finished and still holds no more events than there   *)
(* are.                                                                      *)

Busy == {"send", "mark", "defer"}

FlusherRecords ==
    [pc : Places, batch : SUBSET Nat, budget : 0..(InlineLimit + RunnerLimit), finished : Nat]

Fits(f, n) ==
    /\ f \in FlusherRecords
    /\ f.batch \subseteq 1..n
    /\ f.batch # {} <=> f.pc \in Busy
    /\ f.finished + Cardinality(f.batch) <= n

OutboxTyped ==
    /\ outbox \in Seq(Events) /\ Len(outbox) <= MaxEvents
    /\ last \in [Tasks -> 0..MaxEvents]
    /\ \A t \in Tasks : last[t] <= Len(outbox)
    /\ mishaps \in 0..MaxMishaps
    /\ flusher \in [Flushers -> FlusherRecords]
    /\ \A p \in Flushers : Fits(flusher[p], Len(outbox))

\* A claim in hand is finite and has a first event.
LEMMA BatchFacts ==
    ASSUME NEW n \in Nat, NEW f, Fits(f, n)
    PROVE  /\ IsFiniteSet(f.batch) /\ Cardinality(f.batch) \in Nat
           /\ f.batch = {} <=> Cardinality(f.batch) = 0
           /\ f.batch # {} => \E i \in f.batch : \A j \in f.batch : i <= j
           /\ \A i \in f.batch : /\ IsFiniteSet(f.batch \ {i})
                                 /\ Cardinality(f.batch \ {i}) = Cardinality(f.batch) - 1
  <1>1. f.batch \in SUBSET (1..n) /\ f.batch \in SUBSET Nat
    BY DEF Fits
  <1>2. IsFiniteSet(f.batch) /\ Cardinality(f.batch) \in Nat
    BY <1>1, FiniteBelow
  <1>3. f.batch = {} <=> Cardinality(f.batch) = 0
    BY <1>1, FiniteBelow
  <1>4. f.batch # {} => \E i \in f.batch : \A j \in f.batch : i <= j
    BY <1>1, HasLeast
  <1>5. \A i \in f.batch : /\ IsFiniteSet(f.batch \ {i})
                           /\ Cardinality(f.batch \ {i}) = Cardinality(f.batch) - 1
    BY <1>2, FS_RemoveElement
  <1> QED
    BY <1>2, <1>3, <1>4, <1>5

LEMMA CurrentIsFirst ==
    ASSUME OutboxTyped, NEW p \in Flushers, flusher[p].pc \in Busy
    PROVE  /\ Current(p) \in flusher[p].batch /\ Current(p) \in DOMAIN outbox
           /\ Current(p) \in 1..Len(outbox)
           /\ \A j \in flusher[p].batch : Current(p) <= j
  <1>1. /\ Fits(flusher[p], Len(outbox)) /\ Len(outbox) \in Nat
        /\ DOMAIN outbox = 1..Len(outbox)
    BY LenProperties DEF OutboxTyped
  <1>2. flusher[p].batch # {} /\ flusher[p].batch \subseteq DOMAIN outbox
    BY <1>1 DEF Fits
  <1>3. \E i \in flusher[p].batch : \A j \in flusher[p].batch : i <= j
    BY <1>1, <1>2, BatchFacts
  <1> QED
    BY <1>1, <1>2, <1>3 DEF Current

\* Where a flusher may go.
LEMMA RestingFits ==
    ASSUME NEW n \in Nat, NEW pc \in Places \ Busy,
           NEW budget \in 0..(InlineLimit + RunnerLimit)
    PROVE  /\ Fits(Resting, n) /\ Fits([Resting EXCEPT !.pc = pc], n)
           /\ Fits([Resting EXCEPT !.pc = pc, !.budget = budget], n)
  <1>1. Cardinality({}) = 0
    BY FS_EmptySet
  <1>2. InlineLimit \in Nat /\ RunnerLimit \in Nat
    BY OutboxAssumption
  <1> DEFINE x == [Resting EXCEPT !.pc = pc]
             y == [Resting EXCEPT !.pc = pc, !.budget = budget]
  <1>3. /\ Resting \in FlusherRecords /\ Resting.batch = {} /\ Resting.finished = 0
        /\ Resting.pc \notin Busy
    BY <1>2 DEF FlusherRecords, Resting, Places, Busy
  <1>4. x \in FlusherRecords /\ x.batch = {} /\ x.finished = 0 /\ x.pc \notin Busy
    BY <1>2 DEF FlusherRecords, Resting
  <1>5. y \in FlusherRecords /\ y.batch = {} /\ y.finished = 0 /\ y.pc \notin Busy
    BY <1>2 DEF FlusherRecords, Resting
  <1> HIDE DEF x, y
  <1>6. Fits(Resting, n) /\ Fits(x, n) /\ Fits(y, n)
    BY <1>1, <1>3, <1>4, <1>5 DEF Fits
  <1> QED
    BY <1>6 DEF x, y

LEMMA MovingFits ==
    ASSUME NEW n \in Nat, NEW f, Fits(f, n), NEW pc \in Places, f.pc \in Busy <=> pc \in Busy
    PROVE  Fits([f EXCEPT !.pc = pc], n)
  BY DEF Fits, FlusherRecords

LEMMA SendingFits ==
    ASSUME NEW n \in Nat, NEW S \in SUBSET (1..n), S # {},
           NEW budget \in 0..(InlineLimit + RunnerLimit), Cardinality(S) <= budget
    PROVE  Fits(Sending(S, budget), n)
  <1>1. Cardinality(S) \in Nat /\ Cardinality(S) <= n
    BY FiniteBelow
  <1>2. InlineLimit \in Nat /\ RunnerLimit \in Nat
    BY OutboxAssumption
  <1>3. budget - Cardinality(S) \in 0..(InlineLimit + RunnerLimit)
    BY <1>1, <1>2
  <1> QED
    BY <1>1, <1>3 DEF Fits, FlusherRecords, Sending, Places, Busy

\* After a record: what is left of the batch, or none of it.
LEMMA HandledFits ==
    ASSUME OutboxTyped, NEW p \in Flushers, flusher[p].pc \in Busy, Handled(p)
    PROVE  \E f : /\ Fits(f, Len(outbox)) /\ flusher' = [flusher EXCEPT ![p] = f]
                  /\ f.batch = flusher[p].batch \ {Current(p)}
                  /\ f.batch # {} => f.finished = flusher[p].finished + 1
                  /\ f.pc \notin {"mark", "defer"}
  <1> DEFINE g == flusher[p]
             rest == g.batch \ {Current(p)}
             sending == [g EXCEPT !.pc = "send", !.batch = rest, !.finished = g.finished + 1]
             claiming == [Resting EXCEPT !.pc = "claim", !.budget = g.budget]
  <1>1. /\ Fits(g, Len(outbox)) /\ Len(outbox) \in Nat /\ Current(p) \in g.batch
        /\ flusher \in [Flushers -> FlusherRecords]
    BY CurrentIsFirst, LenProperties DEF OutboxTyped
  <1>2. /\ Cardinality(g.batch) \in Nat /\ Cardinality(rest) = Cardinality(g.batch) - 1
    BY <1>1, BatchFacts
  <1>3. g \in FlusherRecords /\ g.batch \subseteq 1..Len(outbox)
        /\ g.finished + Cardinality(g.batch) <= Len(outbox)
    BY <1>1 DEF Fits
  <1>4. CASE rest # {}
    <2>1. flusher' = [flusher EXCEPT ![p] = sending]
      BY <1>1, <1>4 DEF Handled
    <2>2. sending \in FlusherRecords /\ sending.pc = "send" /\ sending.batch = rest
          /\ sending.finished = g.finished + 1
      <3>1. g.finished + 1 \in Nat /\ rest \in SUBSET Nat /\ "send" \in Places
        BY <1>3 DEF FlusherRecords, Places
      <3> HIDE DEF rest
      <3> QED
        BY <1>3, <3>1 DEF FlusherRecords
    <2>3. sending.finished + Cardinality(sending.batch) <= Len(outbox)
      BY <1>1, <1>2, <1>3, <2>2 DEF FlusherRecords
    <2>4. Fits(sending, Len(outbox))
      BY <1>3, <1>4, <2>2, <2>3 DEF Fits, Busy
    <2> QED
      BY <2>1, <2>2, <2>4
  <1>5. CASE rest = {} /\ g.budget > 0
    <2>1. flusher' = [flusher EXCEPT ![p] = claiming]
      BY <1>1, <1>5 DEF Handled
    <2>2. Fits(claiming, Len(outbox))
      BY <1>1, <1>3, RestingFits DEF FlusherRecords, Places, Busy
    <2>3. claiming.batch = {} /\ claiming.pc = "claim"
      BY DEF Resting
    <2> QED
      BY <1>5, <2>1, <2>2, <2>3
  <1>6. CASE rest = {} /\ ~(g.budget > 0)
    <2>1. flusher' = [flusher EXCEPT ![p] = Flushed(p)]
      BY <1>1, <1>6 DEF Handled
    <2>2. "poll" \in Places \ Busy /\ 0 \in 0..(InlineLimit + RunnerLimit)
      BY OutboxAssumption DEF Places, Busy
    <2>3. Fits(Flushed(p), Len(outbox))
      BY <1>1, <2>2, RestingFits DEF Flushed
    <2>4. Flushed(p).batch = {} /\ Flushed(p).pc \in {"poll", "rest"}
      BY DEF Flushed, Resting
    <2> QED
      BY <1>6, <2>1, <2>3, <2>4
  <1> QED
    BY <1>4, <1>5, <1>6

\* An event is marked in place.
LEMMA MarkedEvents ==
    ASSUME outbox \in Seq(Events), NEW i \in DOMAIN outbox, NEW status \in {"waiting", "sent"}
    PROVE  /\ Marked(i, status) \in Seq(Events) /\ Len(Marked(i, status)) = Len(outbox)
           /\ DOMAIN Marked(i, status) = DOMAIN outbox
           /\ \A j \in DOMAIN outbox :
                /\ Marked(i, status)[j].task = outbox[j].task
                /\ j # i => Marked(i, status)[j] = outbox[j]
                /\ j = i => Marked(i, status)[j].status = status
  <1> DEFINE e == [outbox[i] EXCEPT !.status = status, !.due = FALSE]
  <1>1. /\ DOMAIN outbox = 1..Len(outbox) /\ outbox[i] \in Events
        /\ outbox \in [1..Len(outbox) -> Events]
    BY LenProperties, ElementOfSeq
  <1>2. e \in Events /\ e.task = outbox[i].task /\ e.status = status
    BY <1>1 DEF Events
  <1>3. Marked(i, status) = [outbox EXCEPT ![i] = e]
    BY <1>1 DEF Marked
  <1>4. /\ [outbox EXCEPT ![i] = e] \in Seq(Events)
        /\ Len([outbox EXCEPT ![i] = e]) = Len(outbox)
        /\ \A j \in 1 .. Len(outbox) : [outbox EXCEPT ![i] = e][j] = IF j = i THEN e ELSE outbox[j]
    BY <1>1, <1>2, ExceptSeq
  <1> HIDE DEF e
  <1> QED
    BY <1>1, <1>2, <1>3, <1>4

----------------------------------------------------------------------------
(* What a step does to the events, to what the user has seen and to the       *)
(* claims of the flushers: it queues events, or claims some, shows one,       *)
(* records what became of it, lets one become due, or does none of this.      *)

\* Each flusher keeps its claim as it is, or gives it up.
ClaimsKept(Others) ==
    \A p \in Others :
        \/ flusher'[p].batch = {}
        \/ /\ flusher'[p].batch = flusher[p].batch
           /\ flusher'[p].finished = flusher[p].finished
           /\ At(p, "mark")' => At(p, "mark")

Queues ==
    /\ \E t \in Tasks, n \in 1..2 : outbox' = outbox \o [i \in 1..n |-> NewEvent(t)]
    /\ UNCHANGED last /\ ClaimsKept(Flushers)

Claims(p) ==
    /\ \E k \in Nat : flusher'[p].batch = Oldest(Due, k)
    /\ flusher'[p].batch # {} => flusher'[p].finished = 0
    /\ ~At(p, "mark")'
    /\ outbox' = [i \in DOMAIN outbox |-> IF i \in flusher'[p].batch THEN Leased(i)
                                                                     ELSE outbox[i]]
    /\ UNCHANGED last /\ ClaimsKept(Flushers \ {p})

Shows(p) ==
    /\ At(p, "send") /\ Shown(Current(p)) /\ UNCHANGED outbox
    /\ flusher'[p].batch = flusher[p].batch /\ flusher'[p].finished = flusher[p].finished
    /\ ClaimsKept(Flushers \ {p})

\* One event of the batch is dealt with.
Records(p) ==
    /\ flusher'[p].batch = flusher[p].batch \ {Current(p)}
    /\ flusher'[p].batch # {} => flusher'[p].finished = flusher[p].finished + 1
    /\ ~At(p, "mark")'
    /\ \/ At(p, "send") /\ Shown(Current(p)) /\ outbox' = Marked(Current(p), "sent")
       \/ At(p, "mark") /\ UNCHANGED last /\ outbox' = Marked(Current(p), "sent")
       \/ At(p, "defer") /\ UNCHANGED last /\ outbox' = Marked(Current(p), "waiting")
    /\ ClaimsKept(Flushers \ {p})

Ripens ==
    /\ \E i \in DOMAIN outbox :
         /\ outbox' = [outbox EXCEPT ![i].due = TRUE]
         /\ \/ outbox[i].status = "waiting"
            \/ \A p \in Flushers : Holds(p, i) => flusher[p].finished >= LeaseSends
    /\ UNCHANGED last /\ ClaimsKept(Flushers)

OutboxEffect ==
    \/ Queues \/ Ripens \/ (UNCHANGED <<outbox, last>> /\ ClaimsKept(Flushers))
    \/ \E p \in Flushers : Claims(p) \/ Shows(p) \/ Records(p)

LEMMA OutboxMoves ==
    ASSUME OutboxTyped, OutboxNext
    PROVE  OutboxTyped' /\ OutboxEffect
  <1> DEFINE n == Len(outbox)
  <1>1. /\ outbox \in Seq(Events) /\ n \in Nat /\ DOMAIN outbox = 1..n /\ n <= MaxEvents
        /\ outbox \in [1..n -> Events]
        /\ last \in [Tasks -> 0..MaxEvents] /\ \A t \in Tasks : last[t] <= n
        /\ mishaps \in 0..MaxMishaps
        /\ flusher \in [Flushers -> FlusherRecords]
        /\ \A p \in Flushers : Fits(flusher[p], n) /\ flusher[p] \in FlusherRecords
        /\ MaxEvents \in Nat /\ MaxMishaps \in Nat
    BY LenProperties, OutboxAssumption DEF OutboxTyped, Fits
  <1>2. /\ InlineLimit \in 0..(InlineLimit + RunnerLimit)
        /\ RunnerLimit \in 0..(InlineLimit + RunnerLimit)
        /\ 0 \in 0..(InlineLimit + RunnerLimit)
    BY OutboxAssumption
  \* One flusher moves.
  <1>3. ASSUME NEW p \in Flushers, NEW f, Fits(f, n), flusher' = [flusher EXCEPT ![p] = f],
               outbox' \in Seq(Events), Len(outbox') = n,
               last' \in [Tasks -> 0..MaxEvents], \A t \in Tasks : last'[t] <= n,
               mishaps' \in 0..MaxMishaps
        PROVE  /\ OutboxTyped' /\ flusher'[p] = f
               /\ \A q \in Flushers \ {p} : flusher'[q] = flusher[q]
    <2>1. flusher'[p] = f /\ \A q \in Flushers \ {p} : flusher'[q] = flusher[q]
      BY <1>1, <1>3
    <2>2. \A q \in Flushers : Fits(flusher'[q], n)
      BY <1>1, <1>3, <2>1
    <2>3. flusher' \in [Flushers -> FlusherRecords]
      BY <1>1, <1>3 DEF Fits
    <2> QED
      BY <1>1, <1>3, <2>1, <2>2, <2>3 DEF OutboxTyped
  \* ... and gives up what it has, if anything.
  <1>4. ASSUME NEW p \in Flushers, NEW f, Fits(f, n), f.batch = {},
               flusher' = [flusher EXCEPT ![p] = f], UNCHANGED <<outbox, last>>,
               mishaps' \in 0..MaxMishaps
        PROVE  OutboxTyped' /\ OutboxEffect
    <2>1. /\ OutboxTyped' /\ flusher'[p] = f
          /\ \A q \in Flushers \ {p} : flusher'[q] = flusher[q]
      BY <1>1, <1>3, <1>4
    <2> QED
      BY <1>4, <2>1 DEF OutboxEffect, ClaimsKept, At
  <1>5. ASSUME NEW p \in Flushers, NEW limit \in {InlineLimit, RunnerLimit}, Flush(p, limit),
               UNCHANGED <<outbox, last>>, mishaps' \in 0..MaxMishaps
        PROVE  OutboxTyped' /\ OutboxEffect
    <2> DEFINE f == [Resting EXCEPT !.pc = "claim", !.budget = limit]
    <2>1. Fits(f, n) /\ f.batch = {}
      BY <1>1, <1>2, RestingFits DEF Places, Busy, Resting
    <2> QED
      BY <1>4, <1>5, <2>1 DEF Flush
  <1>6. ASSUME NEW p \in Flushers, Rests(p), UNCHANGED <<outbox, last>>, mishaps' \in 0..MaxMishaps
        PROVE  OutboxTyped' /\ OutboxEffect
    <2>1. "rest" \in Places \ Busy
      BY DEF Places, Busy
    <2>2. Fits(Resting, n) /\ Resting.batch = {}
      BY <1>1, <1>2, <2>1, RestingFits DEF Resting
    <2> QED
      BY <1>4, <1>6, <2>2 DEF Rests
  <1>7. ASSUME NEW p \in Flushers, NEW pc \in Places \ Busy, flusher[p].pc \notin Busy,
               Goes(p, pc), UNCHANGED <<outbox, last>>, mishaps' \in 0..MaxMishaps
        PROVE  OutboxTyped' /\ OutboxEffect
    <2> DEFINE f == [flusher[p] EXCEPT !.pc = pc]
    <2>1. Fits(f, n)
      BY <1>1, <1>7, MovingFits
    <2>2. f.batch = {}
      BY <1>1, <1>7 DEF Fits, FlusherRecords
    <2>3. flusher' = [flusher EXCEPT ![p] = f]
      BY <1>1, <1>7 DEF Goes
    <2> HIDE DEF f
    <2> QED
      BY <1>4, <1>7, <2>1, <2>2, <2>3
  <1>8. \A kind : Mishap(kind) => mishaps' \in 0..MaxMishaps
    BY <1>1 DEF Mishap
  <1>9. ASSUME NEW c \in Callers, NEW t \in Tasks, NEW k \in 1..2, Record(c, t, k)
        PROVE  OutboxTyped' /\ OutboxEffect
    <2> DEFINE new == [i \in 1..k |-> NewEvent(t)]
               f == [flusher[c] EXCEPT !.pc = "kick"]
    <2>1. new \in Seq(Events) /\ Len(new) = k
      <3>1. NewEvent(t) \in Events
        BY DEF NewEvent, Events
      <3>2. new \in [1..k -> Events]
        BY <3>1
      <3>3. new \in Seq(Events)
        BY <3>2, SeqDef
      <3> QED
        BY <3>2, <3>3, LenProperties
    <2>2. outbox' = outbox \o new /\ n + k <= MaxEvents /\ flusher[c].pc = "rest"
          /\ UNCHANGED <<last, mishaps>>
      BY <1>9 DEF Record, At
    <2>3. outbox' \in Seq(Events) /\ Len(outbox') = n + k
      BY <1>1, <2>1, <2>2, ConcatProperties
    <2>4. c \in Flushers /\ flusher' = [flusher EXCEPT ![c] = f]
      BY <1>1, <1>9 DEF Record, Goes, Flushers
    <2>5. Fits(f, n) /\ f.batch = {}
      <3>1. Fits(f, n)
        BY <1>1, <2>2, <2>4, MovingFits DEF Places, Busy
      <3> QED
        BY <1>1, <2>2, <2>4, <3>1 DEF Fits, FlusherRecords, Busy
    <2> HIDE DEF f, new
    <2>6. flusher'[c] = f /\ \A q \in Flushers \ {c} : flusher'[q] = flusher[q]
      BY <1>1, <2>4
    <2>7. \A q \in Flushers : Fits(flusher'[q], n + k)
      <3>1. ASSUME NEW x, Fits(x, n) PROVE Fits(x, n + k)
        <4>1. x.finished + Cardinality(x.batch) \in Nat
          BY <1>1, <3>1, BatchFacts DEF Fits, FlusherRecords
        <4>2. 1..n \subseteq 1..(n + k)
          BY <1>1
        <4> QED
          BY <1>1, <3>1, <4>1, <4>2 DEF Fits
      <3> QED
        BY <1>1, <2>5, <2>6, <3>1
    <2>8. flusher' \in [Flushers -> FlusherRecords]
      BY <1>1, <2>4, <2>5 DEF Fits
    <2>9. OutboxTyped'
      BY <1>1, <2>2, <2>3, <2>7, <2>8 DEF OutboxTyped
    <2>10. ClaimsKept(Flushers)
      BY <2>5, <2>6 DEF ClaimsKept, At
    <2> QED
      BY <2>2, <2>9, <2>10 DEF OutboxEffect, Queues, new
  <1>10. ASSUME NEW c \in Callers, ControllerTurn(c) \/ Kick(c) \/ SpawnFails(c)
         PROVE  OutboxTyped' /\ OutboxEffect
    <2>1. c \in Flushers /\ {"kick", "spawn"} \subseteq Places \ Busy
          /\ {"rest", "kick", "spawn"} \cap Busy = {} /\ mishaps' \in 0..MaxMishaps
      BY <1>1, <1>8, <1>10 DEF Flushers, Places, Busy, ControllerTurn, Kick, SpawnFails
    <2>2. CASE ControllerTurn(c)
      BY <1>7, <2>1, <2>2 DEF ControllerTurn, At
    <2>3. CASE Kick(c)
      BY <1>5, <1>6, <1>7, <2>1, <2>3 DEF Kick, At
    <2>4. CASE SpawnFails(c)
      BY <1>5, <2>1, <2>4 DEF SpawnFails
    <2> QED
      BY <1>10, <2>2, <2>3, <2>4
  <1>11. ASSUME NEW c \in Callers, NEW r \in Runners, Spawn(c, r)
         PROVE  OutboxTyped' /\ OutboxEffect
    <2> DEFINE f == [flusher[r] EXCEPT !.pc = "lock"]
    <2>1. c \in Flushers /\ r \in Flushers /\ c # r /\ flusher[r].pc = "rest"
          /\ UNCHANGED <<outbox, last, mishaps>>
      BY <1>11, OutboxAssumption DEF Flushers, Spawn, At
    <2>2. {"rest", "lock"} \subseteq Places \ Busy
      BY DEF Places, Busy
    <2>3. Fits(f, n)
      BY <1>1, <2>1, <2>2, MovingFits
    <2>4. f.batch = {}
      BY <1>1, <2>1, <2>2 DEF Fits, FlusherRecords
    <2>5. Fits(Resting, n) /\ Resting.batch = {}
      BY <1>1, <1>2, <2>2, RestingFits DEF Resting
    <2>6. /\ flusher'[c] = Resting /\ flusher'[r] = f
          /\ \A q \in Flushers \ {c, r} : flusher'[q] = flusher[q]
          /\ flusher' \in [Flushers -> FlusherRecords]
      <3>1. Resting \in FlusherRecords /\ f \in FlusherRecords
        BY <2>3, <2>5 DEF Fits
      <3> HIDE DEF f
      <3>2. flusher' = [flusher EXCEPT ![c] = Resting, ![r] = f]
        BY <1>1, <1>11, <2>1 DEF Spawn, f
      <3> QED
        BY <1>1, <2>1, <3>1, <3>2
    <2> HIDE DEF f
    <2>7. OutboxTyped'
      BY <1>1, <2>1, <2>3, <2>5, <2>6 DEF OutboxTyped
    <2>8. ClaimsKept(Flushers)
      BY <2>4, <2>5, <2>6 DEF ClaimsKept, At
    <2> QED
      BY <2>1, <2>7, <2>8 DEF OutboxEffect
  <1>12. ASSUME NEW p \in Flushers, Claim(p)
         PROVE  OutboxTyped' /\ OutboxEffect
    <2> DEFINE S == Oldest(Due, flusher[p].budget)
               f == IF S = {} THEN Flushed(p) ELSE Sending(S, flusher[p].budget)
    <2>1. /\ flusher[p].pc = "claim" /\ flusher' = [flusher EXCEPT ![p] = f]
          /\ outbox' = [i \in DOMAIN outbox |-> IF i \in S THEN Leased(i) ELSE outbox[i]]
          /\ UNCHANGED <<last, mishaps>>
      BY <1>1, <1>12 DEF Claim, At
    <2>2. flusher[p].budget \in 0..(InlineLimit + RunnerLimit) /\ flusher[p].budget \in Nat
      <3>1. InlineLimit \in Nat /\ RunnerLimit \in Nat
        BY OutboxAssumption
      <3> QED
        BY <1>1, <3>1 DEF FlusherRecords
    <2>3. /\ S \in SUBSET (1..n) /\ Cardinality(S) \in Nat
          /\ Cardinality(S) <= flusher[p].budget
      <3>1. Due \in SUBSET (1..n)
        BY <1>1 DEF Due, Heads, Unsent
      <3> QED
        BY <1>1, <2>2, <3>1, OldestBound
    <2>4. Fits(f, n) /\ f.batch = S /\ (f.batch # {} => f.finished = 0) /\ f.pc # "mark"
      <3>1. CASE S = {}
        <4>1. {"rest", "poll"} \subseteq Places \ Busy
          BY DEF Places, Busy
        <4>2. Fits(Flushed(p), n)
          BY <1>1, <1>2, <4>1, RestingFits DEF Flushed
        <4> QED
          BY <3>1, <4>2 DEF Flushed, Resting
      <3>2. CASE S # {}
        <4>1. Fits(Sending(S, flusher[p].budget), n)
          BY <1>1, <2>2, <2>3, <3>2, SendingFits
        <4> QED
          BY <3>2, <4>1 DEF Sending
      <3> QED
        BY <3>1, <3>2
    <2>5. outbox' \in Seq(Events) /\ Len(outbox') = n
      <3>1. \A i \in 1..n : Leased(i) \in Events
        BY <1>1 DEF Leased, Events
      <3>2. outbox' \in [1..n -> Events]
        BY <1>1, <2>1, <3>1
      <3>3. outbox' \in Seq(Events)
        BY <1>1, <3>2, SeqDef
      <3> QED
        BY <1>1, <3>2, <3>3, LenProperties
    <2> HIDE DEF f
    <2>6. /\ OutboxTyped' /\ flusher'[p] = f
          /\ \A q \in Flushers \ {p} : flusher'[q] = flusher[q]
      BY <1>1, <1>3, <2>1, <2>4, <2>5
    <2>7. Claims(p)
      BY <2>1, <2>2, <2>4, <2>6 DEF Claims, ClaimsKept, At
    <2> QED
      BY <2>6, <2>7 DEF OutboxEffect
  \* The user is shown an event there is.
  <1>13. ASSUME NEW i \in DOMAIN outbox, Shown(i)
         PROVE  last' \in [Tasks -> 0..MaxEvents] /\ \A t \in Tasks : last'[t] <= n
    <2>1. i \in 1..n /\ i <= MaxEvents /\ i \in 0..MaxEvents /\ outbox[i].task \in Tasks
      BY <1>1 DEF Events
    <2> QED
      BY <1>1, <1>13, <2>1 DEF Shown
  \* An event of the batch is dealt with.
  <1>14. ASSUME NEW p \in Flushers, flusher[p].pc \in Busy, Handled(p),
                NEW status \in {"waiting", "sent"}, outbox' = Marked(Current(p), status),
                UNCHANGED mishaps,
                last' \in [Tasks -> 0..MaxEvents], \A t \in Tasks : last'[t] <= n
         PROVE  /\ OutboxTyped'
                /\ flusher'[p].batch = flusher[p].batch \ {Current(p)}
                /\ flusher'[p].batch # {} => flusher'[p].finished = flusher[p].finished + 1
                /\ ~At(p, "mark")' /\ ClaimsKept(Flushers \ {p})
    <2>1. PICK f : /\ Fits(f, n) /\ flusher' = [flusher EXCEPT ![p] = f]
                   /\ f.batch = flusher[p].batch \ {Current(p)}
                   /\ f.batch # {} => f.finished = flusher[p].finished + 1
                   /\ f.pc \notin {"mark", "defer"}
      BY <1>14, HandledFits
    <2>2. outbox' \in Seq(Events) /\ Len(outbox') = n
      BY <1>1, <1>14, CurrentIsFirst, MarkedEvents
    <2>3. /\ OutboxTyped' /\ flusher'[p] = f
          /\ \A q \in Flushers \ {p} : flusher'[q] = flusher[q]
      BY <1>1, <1>3, <1>14, <2>1, <2>2
    <2> QED
      BY <2>1, <2>3 DEF ClaimsKept, At
  <1>15. ASSUME NEW p \in Flushers, SendLocal(p) \/ MarkSent(p) \/ Defer(p)
         PROVE  OutboxTyped' /\ OutboxEffect
    <2>1. flusher[p].pc \in Busy /\ Handled(p) /\ UNCHANGED mishaps
      BY <1>15 DEF SendLocal, MarkSent, Defer, At, Busy
    <2>2. Current(p) \in DOMAIN outbox
      BY <2>1, CurrentIsFirst
    <2>3. /\ last' \in [Tasks -> 0..MaxEvents] /\ \A t \in Tasks : last'[t] <= n
          /\ \E status \in {"waiting", "sent"} : outbox' = Marked(Current(p), status)
      BY <1>1, <1>13, <1>15, <2>2 DEF SendLocal, MarkSent, Defer
    <2>4. /\ OutboxTyped'
          /\ flusher'[p].batch = flusher[p].batch \ {Current(p)}
          /\ flusher'[p].batch # {} => flusher'[p].finished = flusher[p].finished + 1
          /\ ~At(p, "mark")' /\ ClaimsKept(Flushers \ {p})
      BY <1>14, <2>1, <2>3
    <2>5. Records(p)
      BY <1>15, <2>4 DEF Records, SendLocal, MarkSent, Defer
    <2> QED
      BY <2>4, <2>5 DEF OutboxEffect
  <1>16. ASSUME NEW p \in Flushers, NEW i \in DOMAIN outbox, SendOk(p, i) \/ SendFails(p, i)
         PROVE  OutboxTyped' /\ OutboxEffect
    <2>1. /\ At(p, "send") /\ Current(p) = i /\ UNCHANGED <<outbox, mishaps>>
          /\ \/ Shown(i) /\ (Goes(p, "mark") \/ Goes(p, "defer"))
             \/ UNCHANGED last /\ Goes(p, "defer")
      BY <1>16 DEF SendOk, SendFails, Sends
    <2>2. PICK pc \in {"mark", "defer"} : Goes(p, pc) /\ (UNCHANGED last => pc = "defer" \/ Shown(i))
      BY <2>1
    <2> DEFINE f == [flusher[p] EXCEPT !.pc = pc]
    <2>3. Fits(f, n)
      BY <1>1, <2>1, MovingFits DEF At, Places, Busy
    <2>4. flusher' = [flusher EXCEPT ![p] = f]
      BY <1>1, <2>2 DEF Goes
    <2>5. f.batch = flusher[p].batch /\ f.finished = flusher[p].finished /\ f.pc = pc
      BY <1>1 DEF FlusherRecords
    <2>6. last' \in [Tasks -> 0..MaxEvents] /\ \A t \in Tasks : last'[t] <= n
      BY <1>1, <1>13, <2>1
    <2> HIDE DEF f
    <2>7. /\ OutboxTyped' /\ flusher'[p] = f
          /\ \A q \in Flushers \ {p} : flusher'[q] = flusher[q]
      BY <1>1, <1>3, <2>1, <2>3, <2>4, <2>6
    <2>8. ClaimsKept(Flushers \ {p})
      BY <2>7 DEF ClaimsKept, At
    <2>9. CASE Shown(i)
      BY <2>1, <2>5, <2>7, <2>8, <2>9 DEF OutboxEffect, Shows
    <2>10. CASE ~Shown(i)
      <3>1. UNCHANGED last /\ pc = "defer"
        BY <2>1, <2>2, <2>10
      <3>2. ClaimsKept(Flushers)
        BY <2>5, <2>7, <3>1 DEF ClaimsKept, At
      <3> QED
        BY <2>1, <2>7, <3>1, <3>2 DEF OutboxEffect
    <2> QED
      BY <2>9, <2>10
  <1>17. ASSUME NEW r \in Runners, \/ RunnerLocks(r) \/ RunnerGivesUp(r) \/ RunnerPolls(r)
                                   \/ RunnerLeaves(r) \/ RunnerExpires(r)
         PROVE  OutboxTyped' /\ OutboxEffect
    <2>1. r \in Flushers /\ "leave" \in Places \ Busy /\ "poll" \notin Busy
      BY DEF Flushers, Places, Busy
    <2>2. mishaps' \in 0..MaxMishaps /\ UNCHANGED <<outbox, last>>
      BY <1>1, <1>8, <1>17
         DEF RunnerLocks, RunnerGivesUp, RunnerPolls, RunnerLeaves, RunnerExpires
    <2>3. CASE RunnerLocks(r)
      BY <1>5, <2>1, <2>2, <2>3 DEF RunnerLocks
    <2>4. CASE RunnerGivesUp(r) \/ RunnerLeaves(r)
      BY <1>6, <2>1, <2>2, <2>4 DEF RunnerGivesUp, RunnerLeaves
    <2>5. CASE RunnerPolls(r) \/ RunnerExpires(r)
      BY <1>5, <1>7, <2>1, <2>2, <2>5 DEF RunnerPolls, RunnerExpires, At
    <2> QED
      BY <1>17, <2>3, <2>4, <2>5
  <1>18. ASSUME NEW i \in DOMAIN outbox, TimePasses(i)
         PROVE  OutboxTyped' /\ OutboxEffect
    <2> DEFINE e == [outbox[i] EXCEPT !.due = TRUE]
    <2>1. outbox' = [outbox EXCEPT ![i] = e] /\ UNCHANGED <<flusher, last, mishaps>>
      BY <1>1, <1>18 DEF TimePasses, RetryDue, LeaseExpires
    <2>2. e \in Events
      BY <1>1 DEF Events
    <2>3. outbox' \in Seq(Events) /\ Len(outbox') = n
      BY <1>1, <2>1, <2>2, ExceptSeq
    <2>4. OutboxTyped'
      BY <1>1, <2>1, <2>3 DEF OutboxTyped
    <2>5. ClaimsKept(Flushers)
      BY <2>1 DEF ClaimsKept, At
    <2>6. Ripens
      BY <1>18, <2>1, <2>5 DEF Ripens, TimePasses, RetryDue, LeaseExpires
    <2> QED
      BY <2>4, <2>6 DEF OutboxEffect
  <1>19. ASSUME NEW p \in Flushers, Crash(p)
         PROVE  OutboxTyped' /\ OutboxEffect
    BY <1>6, <1>8, <1>19 DEF Crash
  <1>20. ASSUME NEW p \in Flushers, FlusherStep(p)
         PROVE  OutboxTyped' /\ OutboxEffect
    BY <1>12, <1>15, <1>16, <1>20 DEF FlusherStep
  <1> QED
    <2>1. Callers \subseteq Flushers /\ Runners \subseteq Flushers
      BY DEF Flushers
    <2> QED
      BY <1>9, <1>10, <1>11, <1>17, <1>18, <1>19, <1>20, <2>1
         DEF OutboxNext, CallerStep, RunnerStep

LEMMA StartsTyped ==
    ASSUME OutboxInit
    PROVE  OutboxTyped
  <1>1. outbox \in Seq(Events) /\ Len(outbox) = 0
    BY EmptySeq DEF OutboxInit
  <1>2. MaxEvents \in Nat /\ MaxMishaps \in Nat
    BY OutboxAssumption
  <1>3. "rest" \in Places \ Busy /\ 0 \in 0..(InlineLimit + RunnerLimit)
    BY OutboxAssumption DEF Places, Busy
  <1>4. Fits(Resting, 0)
    BY <1>3, RestingFits
  <1>5. Resting \in FlusherRecords
    BY <1>4 DEF Fits
  <1>6. flusher \in [Flushers -> FlusherRecords] /\ \A p \in Flushers : flusher[p] = Resting
    BY <1>5 DEF OutboxInit
  <1>7. /\ last \in [Tasks -> 0..MaxEvents] /\ mishaps \in 0..MaxMishaps
        /\ \A t \in Tasks : last[t] = 0
    BY <1>2 DEF OutboxInit
  <1> QED
    BY <1>1, <1>2, <1>4, <1>6, <1>7 DEF OutboxTyped

LEMMA OutboxInvariant == OutboxSpec => []OutboxTyped
  <1>1. OutboxTyped /\ [OutboxNext]_outboxVars => OutboxTyped'
    <2>1. OutboxTyped /\ UNCHANGED outboxVars => OutboxTyped'
      BY DEF OutboxTyped, outboxVars
    <2> QED
      BY <2>1, OutboxMoves
  <1> QED
    BY <1>1, StartsTyped, PTL DEF OutboxSpec

\* Queueing, delivering and the passing of time keep every type.
THEOREM OutboxTypeCorrect == OutboxSpec => []OutboxTypeOK
  <1>1. OutboxTyped => OutboxTypeOK
    <2> SUFFICES ASSUME OutboxTyped PROVE OutboxTypeOK
      OBVIOUS
    <2>1. /\ Len(outbox) \in Nat /\ Len(outbox) <= MaxEvents /\ DOMAIN outbox = 1..Len(outbox)
          /\ MaxEvents \in Nat
      BY LenProperties, OutboxAssumption DEF OutboxTyped
    <2>2. ASSUME NEW p \in Flushers
          PROVE  /\ flusher[p] \in [pc : Places, batch : SUBSET DOMAIN outbox,
                                    budget : 0..(InlineLimit + RunnerLimit),
                                    finished : 0..MaxEvents]
                 /\ flusher[p].batch # {} <=> flusher[p].pc \in Busy
      <3>1. Fits(flusher[p], Len(outbox))
        BY DEF OutboxTyped
      <3>2. Cardinality(flusher[p].batch) \in Nat
        BY <2>1, <3>1, BatchFacts
      <3>3. flusher[p].finished \in Nat
        BY <3>1 DEF Fits, FlusherRecords
      <3>4. flusher[p].finished \in 0..MaxEvents
        BY <2>1, <3>1, <3>2, <3>3 DEF Fits
      <3> QED
        BY <2>1, <3>1, <3>4 DEF Fits, FlusherRecords
    <2> QED
      BY <2>2 DEF OutboxTyped, OutboxTypeOK, Busy
  <1> QED
    BY <1>1, OutboxInvariant, PTL

----------------------------------------------------------------------------
(* Order.  A claim is good as long as its lease: nobody else can claim what   *)
(* is not due.  As long as no batch takes longer to send than a lease lasts,  *)
(* a held event stays the earliest of its task until its holder records it.   *)

\* No batch outlasts its lease.
SmallBatches == \A p \in Flushers : Cardinality(flusher[p].batch) <= LeaseSends

\* What is left of a batch can be sent before the lease ends ...
InTime ==
    \A p \in Flushers : flusher[p].batch # {} =>
        flusher[p].finished + Cardinality(flusher[p].batch) <= LeaseSends

\* ... so that its events stay claimed, and nothing of their tasks overtakes them.
HeldOK ==
    \A p \in Flushers : \A i \in flusher[p].batch :
        i \in Heads /\ outbox[i].status = "sending" /\ ~outbox[i].due

\* The user has been shown exactly the sent events, and perhaps one more.
CursorOK ==
    \A i \in DOMAIN outbox :
        IF outbox[i].status = "sent" THEN i <= last[outbox[i].task] ELSE last[outbox[i].task] <= i

\* Nothing of the task was shown between a send and its record.
MarkOK ==
    \A p \in Flushers : At(p, "mark") => last[outbox[Current(p)].task] = Current(p)

InOrder == InTime /\ HeldOK /\ CursorOK /\ MarkOK /\ OneSender

\* Events keep their task, and are not unsent.
Lasting ==
    \A j \in DOMAIN outbox :
        /\ j \in DOMAIN outbox' /\ outbox'[j].task = outbox[j].task
        /\ outbox[j].status = "sent" => outbox'[j].status = "sent"

\* The earliest unsent event of a task stays so until it is sent.
LEMMA StillHead ==
    ASSUME OutboxTyped, OutboxTyped', Lasting, NEW i \in Heads, outbox'[i].status # "sent"
    PROVE  i \in Heads'
  <1>1. /\ DOMAIN outbox = 1..Len(outbox) /\ Len(outbox) \in Nat
        /\ DOMAIN outbox' = 1..Len(outbox') /\ Len(outbox') \in Nat
    BY LenProperties DEF OutboxTyped
  <1>2. i \in DOMAIN outbox /\ i \in DOMAIN outbox' /\ outbox'[i].task = outbox[i].task
    BY DEF Heads, Unsent, Lasting
  <1>3. ASSUME NEW j \in DOMAIN outbox', outbox'[j].status # "sent", j < i
        PROVE  outbox'[j].task # outbox'[i].task
    <2>1. j \in DOMAIN outbox
      BY <1>1, <1>2, <1>3
    <2>2. outbox[j].status # "sent" /\ outbox'[j].task = outbox[j].task
      BY <1>3, <2>1 DEF Lasting
    <2> QED
      BY <1>2, <1>3, <2>1, <2>2 DEF Heads, Unsent
  <1> QED
    BY <1>2, <1>3 DEF Heads, Unsent

\* Two heads of one task are the same event.
LEMMA OneHead ==
    ASSUME OutboxTyped, NEW i \in Heads, NEW j \in Unsent, outbox[i].task = outbox[j].task
    PROVE  i <= j
  <1>1. DOMAIN outbox = 1..Len(outbox) /\ Len(outbox) \in Nat
    BY LenProperties DEF OutboxTyped
  <1>2. i \in Nat /\ j \in Nat
    BY <1>1 DEF Heads, Unsent
  <1> QED
    BY <1>2 DEF Heads

\* What a flusher that only keeps or gives up its claim leaves true.
LEMMA KeptClaims ==
    ASSUME NEW Others \in SUBSET Flushers, ClaimsKept(Others), InOrder, NEW p \in Others
    PROVE  /\ flusher'[p].batch \subseteq flusher[p].batch
           /\ flusher'[p].batch # {} =>
                flusher'[p].finished + Cardinality(flusher'[p].batch) <= LeaseSends
           /\ At(p, "mark")' /\ flusher'[p].batch # {} => At(p, "mark") /\ Current(p)' = Current(p)
  BY DEF ClaimsKept, InOrder, InTime, Current

\* Whoever holds an event after the step held it before.
HeldBefore(Others) ==
    \A p \in Others : \A i \in flusher'[p].batch : i \in flusher[p].batch /\ outbox'[i] = outbox[i]

LEMMA StillHeld ==
    ASSUME OutboxTyped, OutboxTyped', InOrder, Lasting, NEW Others \in SUBSET Flushers,
           HeldBefore(Others), NEW p \in Others, NEW i \in flusher'[p].batch
    PROVE  i \in Heads' /\ outbox'[i].status = "sending" /\ ~outbox'[i].due
  <1>1. /\ i \in Heads /\ outbox[i].status = "sending" /\ ~outbox[i].due
        /\ outbox'[i] = outbox[i]
    BY DEF HeldBefore, InOrder, HeldOK
  <1> QED
    BY <1>1, StillHead

\* Nobody claims, sends or records anything: what is held stays in order.
LEMMA OthersInOrder ==
    ASSUME OutboxTyped, OutboxTyped', InOrder, Lasting, UNCHANGED last,
           ClaimsKept(Flushers), HeldBefore(Flushers), CursorOK'
    PROVE  InOrder'
  <1>1. InTime'
    BY KeptClaims DEF InTime
  <1>2. HeldOK'
    BY StillHeld DEF HeldOK
  <1>3. MarkOK'
    <2> SUFFICES ASSUME NEW p \in Flushers, At(p, "mark")'
                 PROVE  last'[outbox'[Current(p)'].task] = Current(p)'
      BY DEF MarkOK
    <2>1. flusher'[p].batch # {}
      BY DEF At, OutboxTyped, Fits, Busy
    <2>2. At(p, "mark") /\ Current(p)' = Current(p)
      BY <2>1, KeptClaims
    <2>3. Current(p) \in DOMAIN outbox
      BY <2>2, CurrentIsFirst DEF At, Busy
    <2> QED
      BY <2>2, <2>3 DEF InOrder, MarkOK, Lasting
  <1>4. OneSender'
    <2> SUFFICES ASSUME NEW p \in Flushers, NEW q \in Flushers, NEW i \in DOMAIN outbox',
                        i \in flusher'[p].batch, i \in flusher'[q].batch
                 PROVE  p = q
      BY DEF OneSender, Holds
    <2>1. i \in flusher[p].batch /\ i \in flusher[q].batch
      BY DEF HeldBefore
    <2>2. i \in DOMAIN outbox
      BY <2>1 DEF InOrder, HeldOK, Heads, Unsent
    <2> QED
      BY <2>1, <2>2 DEF InOrder, OneSender, Holds
  <1> QED
    BY <1>1, <1>2, <1>3, <1>4 DEF InOrder

LEMMA QueueingInOrder ==
    ASSUME OutboxTyped, OutboxTyped', InOrder, Queues
    PROVE  InOrder' /\ Lasting
  <1>1. PICK t \in Tasks, k \in 1..2 : outbox' = outbox \o [i \in 1..k |-> NewEvent(t)]
    BY DEF Queues
  <1> DEFINE n == Len(outbox)
             new == [i \in 1..k |-> NewEvent(t)]
  <1>2. /\ n \in Nat /\ DOMAIN outbox = 1..n /\ outbox \in Seq(Events)
        /\ last \in [Tasks -> 0..MaxEvents] /\ \A u \in Tasks : last[u] <= n /\ last[u] \in Nat
        /\ MaxEvents \in Nat
    BY LenProperties, OutboxAssumption DEF OutboxTyped
  <1>3. new \in Seq(Events) /\ Len(new) = k /\ \A i \in 1..k : new[i] = NewEvent(t)
    <2>1. NewEvent(t) \in Events
      BY DEF NewEvent, Events
    <2>2. new \in [1..k -> Events]
      BY <2>1
    <2>3. new \in Seq(Events)
      BY <2>2, SeqDef
    <2> QED
      BY <2>2, <2>3, LenProperties
  <1> HIDE DEF new
  <1>4. /\ Len(outbox') = n + k /\ DOMAIN outbox' = 1..(n + k)
        /\ \A i \in 1..n : outbox'[i] = outbox[i]
        /\ \A i \in 1..(n + k) : i > n => outbox'[i] = NewEvent(t)
    <2>1. outbox' = outbox \o new
      BY <1>1 DEF new
    <2>2. /\ Len(outbox') = n + k /\ outbox' \in Seq(Events)
          /\ \A i \in 1..(n + k) : outbox'[i] = IF i <= n THEN outbox[i] ELSE new[i - n]
      BY <1>2, <1>3, <2>1, ConcatProperties
    <2>3. DOMAIN outbox' = 1..(n + k)
      BY <2>2, LenProperties
    <2>4. \A i \in 1..n : i \in 1..(n + k) /\ i <= n
      BY <1>2
    <2>5. \A i \in 1..(n + k) : i > n => i - n \in 1..k /\ ~(i <= n)
      BY <1>2
    <2>6. \A i \in 1..n : outbox'[i] = outbox[i]
      BY <2>2, <2>4
    <2>7. \A i \in 1..(n + k) : i > n => outbox'[i] = NewEvent(t)
      BY <1>3, <2>2, <2>5
    <2> QED
      BY <2>2, <2>3, <2>6, <2>7
  <1>5. Lasting
    BY <1>2, <1>4 DEF Lasting
  <1>6. UNCHANGED last /\ ClaimsKept(Flushers)
    BY DEF Queues
  <1>7. HeldBefore(Flushers)
    <2>1. \A p \in Flushers : \A i \in flusher[p].batch : i \in 1..n
      BY DEF OutboxTyped, Fits
    <2> QED
      BY <1>4, <1>6, <2>1 DEF HeldBefore, ClaimsKept
  <1>8. CursorOK'
    <2> SUFFICES ASSUME NEW i \in 1..(n + k)
                 PROVE  IF outbox'[i].status = "sent" THEN i <= last[outbox'[i].task]
                                                      ELSE last[outbox'[i].task] <= i
      BY <1>4, <1>6 DEF CursorOK
    <2>1. CASE i <= n
      BY <1>2, <1>4, <2>1 DEF InOrder, CursorOK
    <2>2. CASE i > n
      BY <1>2, <1>4, <2>2 DEF NewEvent
    <2> QED
      BY <1>2, <2>1, <2>2
  <1> QED
    BY <1>5, <1>6, <1>7, <1>8, OthersInOrder

LEMMA WaitingInOrder ==
    ASSUME OutboxTyped, OutboxTyped', InOrder, Ripens
    PROVE  InOrder' /\ Lasting
  <1>1. PICK i \in DOMAIN outbox :
           /\ outbox' = [outbox EXCEPT ![i].due = TRUE]
           /\ \/ outbox[i].status = "waiting"
              \/ \A p \in Flushers : Holds(p, i) => flusher[p].finished >= LeaseSends
    BY DEF Ripens
  <1>2. /\ Len(outbox) \in Nat /\ DOMAIN outbox = 1..Len(outbox)
        /\ outbox \in [DOMAIN outbox -> Events] /\ LeaseSends \in Nat
    BY LenProperties, OutboxAssumption DEF OutboxTyped
  <1>3. /\ DOMAIN outbox' = DOMAIN outbox
        /\ \A j \in DOMAIN outbox : /\ outbox'[j].task = outbox[j].task
                                    /\ outbox'[j].status = outbox[j].status
                                    /\ j # i => outbox'[j] = outbox[j]
    BY <1>1, <1>2 DEF Events
  <1>4. Lasting
    BY <1>3 DEF Lasting
  <1>5. UNCHANGED last /\ ClaimsKept(Flushers)
    BY DEF Ripens
  <1>6. ASSUME NEW p \in Flushers, i \in flusher[p].batch PROVE FALSE
    <2>1. outbox[i].status = "sending"
      BY <1>6 DEF InOrder, HeldOK
    <2>2. flusher[p].finished >= LeaseSends
      BY <1>1, <1>6, <2>1 DEF Holds
    <2>3. Fits(flusher[p], Len(outbox)) /\ flusher[p].finished \in Nat
      BY DEF OutboxTyped, Fits, FlusherRecords
    <2>4. Cardinality(flusher[p].batch) \in Nat /\ Cardinality(flusher[p].batch) # 0
      BY <1>2, <1>6, <2>3, BatchFacts
    <2> QED
      BY <1>2, <1>6, <2>2, <2>3, <2>4 DEF InOrder, InTime
  <1>7. HeldBefore(Flushers)
    <2>1. \A p \in Flushers : \A j \in flusher[p].batch : j \in DOMAIN outbox
      BY <1>2 DEF OutboxTyped, Fits
    <2> QED
      BY <1>3, <1>5, <1>6, <2>1 DEF HeldBefore, ClaimsKept
  <1>8. CursorOK'
    BY <1>3, <1>5 DEF InOrder, CursorOK
  <1> QED
    BY <1>4, <1>5, <1>7, <1>8, OthersInOrder

LEMMA RestingInOrder ==
    ASSUME OutboxTyped, OutboxTyped', InOrder, UNCHANGED <<outbox, last>>, ClaimsKept(Flushers)
    PROVE  InOrder' /\ Lasting
  <1>1. Lasting /\ HeldBefore(Flushers) /\ CursorOK'
    BY DEF Lasting, HeldBefore, ClaimsKept, InOrder, CursorOK
  <1> QED
    BY <1>1, OthersInOrder

LEMMA ClaimingInOrder ==
    ASSUME OutboxTyped, OutboxTyped', InOrder, SmallBatches', NEW p \in Flushers, Claims(p)
    PROVE  InOrder' /\ Lasting
  <1> DEFINE batch == flusher'[p].batch
             Others == Flushers \ {p}
  <1>1. /\ batch \subseteq Due /\ ~At(p, "mark")' /\ UNCHANGED last /\ ClaimsKept(Others)
        /\ batch # {} => flusher'[p].finished = 0
    BY DEF Claims, Oldest
  <1>2. /\ DOMAIN outbox' = DOMAIN outbox
        /\ \A j \in DOMAIN outbox :
              outbox'[j] = IF j \in batch THEN Leased(j) ELSE outbox[j]
    BY DEF Claims
  <1>3. DOMAIN outbox = 1..Len(outbox) /\ outbox \in [DOMAIN outbox -> Events]
    BY LenProperties DEF OutboxTyped
  <1>4. \A j \in batch : /\ j \in DOMAIN outbox /\ j \in Heads /\ outbox[j].due
                         /\ outbox'[j].task = outbox[j].task /\ outbox[j].status # "sent"
                         /\ outbox'[j].status = "sending" /\ ~outbox'[j].due
    BY <1>1, <1>2, <1>3 DEF Due, Heads, Unsent, Leased, Events
  <1>5. Lasting
    BY <1>2, <1>4 DEF Lasting
  <1>6. \A q \in Flushers : \A i \in flusher[q].batch :
            i \in DOMAIN outbox /\ i \notin batch
    BY <1>4 DEF InOrder, HeldOK, Heads, Unsent
  <1>7. HeldBefore(Others)
    <2>1. \A q \in Others : flusher'[q].batch \subseteq flusher[q].batch
      BY <1>1 DEF ClaimsKept
    <2> QED
      BY <1>2, <1>6, <2>1 DEF HeldBefore
  <1>8. HeldOK'
    <2> SUFFICES ASSUME NEW q \in Flushers, NEW i \in flusher'[q].batch
                 PROVE  i \in Heads' /\ outbox'[i].status = "sending" /\ ~outbox'[i].due
      BY DEF HeldOK
    <2>1. CASE q = p
      <3>1. i \in Heads /\ outbox'[i].status = "sending" /\ ~outbox'[i].due
        BY <1>4, <2>1
      <3> QED
        BY <1>5, <3>1, StillHead
    <2>2. CASE q # p
      BY <1>5, <1>7, <2>2, StillHeld
    <2> QED
      BY <2>1, <2>2
  <1>9. InTime'
    <2> SUFFICES ASSUME NEW q \in Flushers, flusher'[q].batch # {}
                 PROVE  flusher'[q].finished + Cardinality(flusher'[q].batch) <= LeaseSends
      BY DEF InTime
    <2>1. CASE q = p
      <3>1. Fits(flusher'[p], Len(outbox')) /\ Len(outbox') \in Nat
        BY LenProperties DEF OutboxTyped
      <3>2. Cardinality(batch) \in Nat
        BY <3>1, BatchFacts
      <3>3. Cardinality(batch) <= LeaseSends /\ LeaseSends \in Nat
        BY OutboxAssumption DEF SmallBatches
      <3> QED
        BY <1>1, <2>1, <3>2, <3>3
    <2>2. CASE q # p
      BY <1>1, <2>2, KeptClaims
    <2> QED
      BY <2>1, <2>2
  <1>10. CursorOK'
    <2> SUFFICES ASSUME NEW i \in DOMAIN outbox
                 PROVE  IF outbox'[i].status = "sent" THEN i <= last[outbox'[i].task]
                                                      ELSE last[outbox'[i].task] <= i
      BY <1>1, <1>2 DEF CursorOK
    <2> QED
      BY <1>2, <1>4 DEF InOrder, CursorOK
  <1>11. MarkOK'
    <2> SUFFICES ASSUME NEW q \in Flushers, At(q, "mark")'
                 PROVE  last'[outbox'[Current(q)'].task] = Current(q)'
      BY DEF MarkOK
    <2>1. flusher'[q].batch # {} /\ q # p
      BY <1>1 DEF At, OutboxTyped, Fits, Busy
    <2>2. At(q, "mark") /\ Current(q)' = Current(q)
      BY <1>1, <2>1, KeptClaims
    <2>3. Current(q) \in DOMAIN outbox
      BY <2>2, CurrentIsFirst DEF At, Busy
    <2> QED
      BY <1>1, <1>5, <2>2, <2>3 DEF InOrder, MarkOK, Lasting
  <1>12. OneSender'
    <2> SUFFICES ASSUME NEW q \in Flushers, NEW r \in Flushers, NEW i \in DOMAIN outbox',
                        i \in flusher'[q].batch, i \in flusher'[r].batch
                 PROVE  q = r
      BY DEF OneSender, Holds
    <2>1. \A o \in Others : i \in flusher'[o].batch => i \in flusher[o].batch /\ i \notin batch
      BY <1>6, <1>7 DEF HeldBefore
    <2>2. CASE q # p /\ r # p
      BY <1>2, <2>1, <2>2 DEF InOrder, OneSender, Holds
    <2>3. CASE q = p \/ r = p
      BY <2>1, <2>3
    <2> QED
      BY <2>2, <2>3
  <1> QED
    BY <1>5, <1>8, <1>9, <1>10, <1>11, <1>12 DEF InOrder

\* The user is shown the current event of a batch, or it is recorded as sent
\* or as waiting, or both: nobody else has an event of its task in hand.
LEMMA HandlingInOrder ==
    ASSUME OutboxTyped, OutboxTyped', InOrder, NEW p \in Flushers, Shows(p) \/ Records(p)
    PROVE  InOrder' /\ Lasting
  <1> DEFINE i == Current(p)
             t == outbox[i].task
             Others == Flushers \ {p}
  <1>1. /\ DOMAIN outbox = 1..Len(outbox) /\ outbox \in [DOMAIN outbox -> Events]
        /\ last \in [Tasks -> 0..MaxEvents] /\ Len(outbox) \in Nat /\ MaxEvents \in Nat
        /\ Fits(flusher[p], Len(outbox)) /\ outbox \in Seq(Events)
    BY LenProperties, OutboxAssumption DEF OutboxTyped
  <1>2. flusher[p].pc \in Busy
    BY DEF Shows, Records, At, Busy
  <1>3. /\ i \in flusher[p].batch /\ i \in DOMAIN outbox /\ i \in Nat
        /\ i \in Heads /\ outbox[i].status = "sending" /\ t \in Tasks
        /\ last[t] <= i
    <2>1. i \in flusher[p].batch /\ i \in DOMAIN outbox /\ i \in Nat
      BY <1>1, <1>2, CurrentIsFirst
    <2>2. i \in Heads /\ outbox[i].status = "sending" /\ t \in Tasks
      BY <1>1, <2>1 DEF InOrder, HeldOK, Events
    <2> QED
      BY <2>1, <2>2 DEF InOrder, CursorOK
  <1>4. /\ outbox' \in Seq(Events) /\ DOMAIN outbox' = DOMAIN outbox
        /\ \A j \in DOMAIN outbox : /\ outbox'[j].task = outbox[j].task
                                    /\ j # i => outbox'[j] = outbox[j]
    <2>1. UNCHANGED outbox \/ \E status \in {"waiting", "sent"} : outbox' = Marked(i, status)
      BY DEF Shows, Records
    <2> QED
      BY <1>1, <1>3, <2>1, MarkedEvents
  <1>5. /\ ClaimsKept(Others)
        /\ last' = [last EXCEPT ![t] = i] \/ UNCHANGED last
        /\ outbox'[i].status = "sent" => last'[t] = i
        /\ outbox'[i].status # "sent" => last'[t] <= i
    <2>1. CASE Shows(p)
      BY <1>1, <1>3, <2>1 DEF Shows, Shown
    <2>2. CASE Records(p)
      <3>1. CASE At(p, "send")
        BY <1>1, <1>3, <2>2, <3>1 DEF Records, At, Shown
      <3>2. CASE At(p, "mark")
        BY <1>1, <1>3, <2>2, <3>2 DEF Records, At, InOrder, MarkOK
      <3>3. CASE At(p, "defer")
        BY <1>1, <1>3, <2>2, <3>3, MarkedEvents DEF Records, At
      <3> QED
        BY <2>2, <3>1, <3>2, <3>3 DEF Records
    <2> QED
      BY <2>1, <2>2
  <1>6. Lasting
    BY <1>3, <1>4 DEF Lasting
  \* Whoever else holds an event holds one of another task.
  <1>7. \A q \in Others : \A j \in flusher[q].batch :
           j \in DOMAIN outbox /\ j # i /\ outbox[j].task # t
    <2> SUFFICES ASSUME NEW q \in Others, NEW j \in flusher[q].batch
                 PROVE  j \in DOMAIN outbox /\ j # i /\ outbox[j].task # t
      OBVIOUS
    <2>1. j \in Heads /\ j \in DOMAIN outbox
      BY DEF InOrder, HeldOK, Heads, Unsent
    <2>2. j # i
      BY <1>3, <2>1 DEF InOrder, OneSender, Holds
    <2>3. CASE outbox[j].task = t
      <3>1. i <= j /\ j <= i
        BY <1>3, <2>1, <2>3, OneHead DEF Heads
      <3> QED
        BY <1>1, <1>3, <2>1, <2>2, <3>1
    <2> QED
      BY <2>1, <2>2, <2>3
  <1>8. HeldBefore(Flushers)
    <2>1. \A q \in Others : flusher'[q].batch \subseteq flusher[q].batch
      BY <1>5 DEF ClaimsKept
    <2>2. HeldBefore(Others)
      BY <1>4, <1>7, <2>1 DEF HeldBefore
    <2>3. \A j \in flusher'[p].batch : j \in flusher[p].batch /\ outbox'[j] = outbox[j]
      <3>1. CASE Shows(p)
        BY <3>1 DEF Shows
      <3>2. CASE Records(p)
        <4>1. flusher'[p].batch = flusher[p].batch \ {i}
          BY <3>2 DEF Records
        <4>2. \A j \in flusher[p].batch : j \in DOMAIN outbox
          BY <1>1 DEF Fits
        <4> QED
          BY <1>4, <4>1, <4>2
      <3> QED
        BY <3>1, <3>2
    <2> QED
      BY <2>2, <2>3 DEF HeldBefore
  <1>9. HeldOK'
    BY <1>6, <1>8, StillHeld DEF HeldOK
  <1>10. OneSender'
    <2> SUFFICES ASSUME NEW q \in Flushers, NEW r \in Flushers, NEW j \in DOMAIN outbox',
                        j \in flusher'[q].batch, j \in flusher'[r].batch
                 PROVE  q = r
      BY DEF OneSender, Holds
    <2> QED
      BY <1>4, <1>8 DEF HeldBefore, InOrder, OneSender, Holds
  <1>11. InTime'
    <2> SUFFICES ASSUME NEW q \in Flushers, flusher'[q].batch # {}
                 PROVE  flusher'[q].finished + Cardinality(flusher'[q].batch) <= LeaseSends
      BY DEF InTime
    <2>1. CASE q = p
      <3>1. flusher[p].finished + Cardinality(flusher[p].batch) <= LeaseSends
        BY <1>3 DEF InOrder, InTime
      <3>2. CASE Shows(p)
        BY <2>1, <3>1, <3>2 DEF Shows
      <3>3. CASE Records(p)
        <4>1. /\ Cardinality(flusher[p].batch \ {i}) = Cardinality(flusher[p].batch) - 1
              /\ Cardinality(flusher[p].batch) \in Nat /\ flusher[p].finished \in Nat
          BY <1>1, <1>3, BatchFacts DEF Fits, FlusherRecords
        <4> QED
          BY <2>1, <3>1, <3>3, <4>1, OutboxAssumption DEF Records
      <3> QED
        BY <3>2, <3>3
    <2>2. CASE q # p
      BY <1>5, <2>2, KeptClaims
    <2> QED
      BY <2>1, <2>2
  <1>12. CursorOK'
    <2> SUFFICES ASSUME NEW j \in DOMAIN outbox
                 PROVE  IF outbox'[j].status = "sent" THEN j <= last'[outbox[j].task]
                                                      ELSE last'[outbox[j].task] <= j
      BY <1>4 DEF CursorOK
    <2>1. CASE j = i
      BY <1>3, <1>5, <2>1
    <2>2. CASE j # i /\ (outbox[j].task # t \/ UNCHANGED last)
      BY <1>1, <1>4, <1>5, <2>2 DEF InOrder, CursorOK, Events
    <2>3. CASE j # i /\ outbox[j].task = t /\ last' = [last EXCEPT ![t] = i]
      <3>1. last'[t] = i /\ outbox'[j].status = outbox[j].status
        BY <1>1, <1>3, <1>4, <2>3
      <3>2. CASE outbox[j].status = "sent"
        <4>1. j <= last[t] /\ last[t] <= i /\ j \in Nat /\ last[t] \in Nat
          BY <1>1, <1>3, <2>3, <3>2 DEF InOrder, CursorOK
        <4> QED
          BY <1>3, <2>3, <3>1, <3>2, <4>1
      <3>3. CASE outbox[j].status # "sent"
        <4>1. i <= j
          BY <1>3, <2>3, <3>3, OneHead DEF Unsent
        <4> QED
          BY <2>3, <3>1, <3>3, <4>1
      <3> QED
        BY <3>2, <3>3
    <2> QED
      BY <1>5, <2>1, <2>2, <2>3
  <1>13. MarkOK'
    <2> SUFFICES ASSUME NEW q \in Flushers, At(q, "mark")'
                 PROVE  last'[outbox'[Current(q)'].task] = Current(q)'
      BY DEF MarkOK
    <2>1. flusher'[q].batch # {}
      BY DEF At, OutboxTyped, Fits, Busy
    <2>2. CASE q # p
      <3>1. At(q, "mark") /\ Current(q)' = Current(q)
        BY <1>5, <2>1, <2>2, KeptClaims
      <3>2. Current(q) \in flusher[q].batch /\ Current(q) \in DOMAIN outbox
        BY <3>1, CurrentIsFirst DEF At, Busy
      <3>3. outbox[Current(q)].task # t
        BY <1>7, <2>2, <3>2
      <3> QED
        BY <1>1, <1>4, <1>5, <3>1, <3>2, <3>3 DEF InOrder, MarkOK, Events
    <2>3. CASE q = p
      <3>1. Shows(p)
        BY <2>3 DEF Records
      <3>2. Current(p)' = i /\ last'[t] = i
        BY <1>1, <1>3, <3>1 DEF Shows, Shown, Current
      <3> QED
        BY <1>3, <1>4, <2>3, <3>2
    <2> QED
      BY <2>2, <2>3
  <1> QED
    BY <1>6, <1>9, <1>10, <1>11, <1>12, <1>13 DEF InOrder

LEMMA EffectInOrder ==
    ASSUME OutboxTyped, OutboxTyped', InOrder, SmallBatches', OutboxEffect
    PROVE  InOrder' /\ Lasting
  BY QueueingInOrder, WaitingInOrder, RestingInOrder, ClaimingInOrder, HandlingInOrder
     DEF OutboxEffect

LEMMA StartsInOrder ==
    ASSUME OutboxInit
    PROVE  InOrder
  <1>1. DOMAIN outbox = {} /\ \A p \in Flushers : flusher[p] = Resting
    BY DEF OutboxInit
  <1> QED
    BY <1>1 DEF InOrder, InTime, HeldOK, CursorOK, MarkOK, OneSender, Resting, At

LEMMA OrderInvariant == OutboxSpec /\ []SmallBatches => []InOrder
  <1>1. OutboxTyped /\ OutboxTyped' /\ InOrder /\ SmallBatches' /\ [OutboxNext]_outboxVars
        => InOrder'
    <2>1. OutboxTyped /\ OutboxTyped' /\ InOrder /\ UNCHANGED outboxVars => InOrder'
      BY RestingInOrder DEF outboxVars, ClaimsKept, At
    <2> QED
      BY <2>1, OutboxMoves, EffectInOrder
  <1> QED
    BY <1>1, OutboxInvariant, StartsInOrder, PTL DEF OutboxSpec

\* No two live flushers hold the same event, so that nobody sends what somebody
\* else is sending, whoever runs with the delivery lock and whoever without, as
\* long as no batch outlasts its lease.
THEOREM NeverSentByTwo == OutboxSpec /\ []SmallBatches => []OneSender
  <1>1. InOrder => OneSender
    BY DEF InOrder
  <1> QED
    BY <1>1, OrderInvariant, PTL

\* What the outbox table says is sent, the user has been shown, and nothing older
\* after it, as long as no batch outlasts its lease.
THEOREM NothingSentUnseen == OutboxSpec /\ []SmallBatches => []SentIsShown
  <1>1. OutboxTyped /\ InOrder => SentIsShown
    <2> SUFFICES ASSUME OutboxTyped, InOrder, NEW i \in DOMAIN outbox, outbox[i].status = "sent"
                 PROVE  last[outbox[i].task] >= i
      BY DEF SentIsShown
    <2>1. i \in Nat /\ last[outbox[i].task] \in Nat
      <3>1. /\ DOMAIN outbox = 1..Len(outbox) /\ Len(outbox) \in Nat
            /\ outbox \in [1..Len(outbox) -> Events]
            /\ last \in [Tasks -> 0..MaxEvents] /\ MaxEvents \in Nat
        BY LenProperties, OutboxAssumption DEF OutboxTyped
      <3> QED
        BY <3>1 DEF Events
    <2> QED
      BY <2>1 DEF InOrder, CursorOK
  <1> QED
    BY <1>1, OutboxInvariant, OrderInvariant, PTL

\* Every step shows the next event of a task, records events, or leaves the
\* timeline alone.
LEMMA StepsKeepTimeline ==
    ASSUME OutboxTyped, OutboxTyped', InOrder, Lasting, OutboxEffect
    PROVE  [Timeline!TimelineNext]_(Timeline!timelineVars)
  <1> DEFINE log == [i \in DOMAIN outbox |-> outbox[i].task]
  <1>1. /\ outbox \in Seq(Events) /\ DOMAIN outbox = 1..Len(outbox) /\ Len(outbox) \in Nat
        /\ outbox \in [DOMAIN outbox -> Events]
        /\ outbox' \in Seq(Events) /\ DOMAIN outbox' = 1..Len(outbox')
        /\ last \in [Tasks -> 0..MaxEvents] /\ MaxEvents \in Nat
    BY LenProperties, OutboxAssumption DEF OutboxTyped
  <1>2. ASSUME DOMAIN outbox' = DOMAIN outbox PROVE UNCHANGED log
    BY <1>2 DEF Lasting
  <1>3. CASE Queues
    <2>1. PICK t \in Tasks, k \in 1..2 : outbox' = outbox \o [i \in 1..k |-> NewEvent(t)]
      BY <1>3 DEF Queues
    <2> DEFINE new == [i \in 1..k |-> NewEvent(t)]
               tasks == [i \in 1..k |-> t]
    <2>2. new \in Seq(Events) /\ Len(new) = k /\ \A i \in 1..k : new[i].task = t
      <3>1. NewEvent(t) \in Events /\ NewEvent(t).task = t
        BY DEF NewEvent, Events
      <3>2. new \in [1..k -> Events]
        BY <3>1
      <3>3. new \in Seq(Events)
        BY <3>2, SeqDef
      <3> QED
        BY <3>1, <3>2, <3>3, LenProperties
    <2>3. tasks \in Seq(Tasks) /\ Len(tasks) = k /\ \A i \in 1..k : tasks[i] = t
      <3>1. tasks \in [1..k -> Tasks]
        OBVIOUS
      <3>2. tasks \in Seq(Tasks)
        BY <3>1, SeqDef
      <3> QED
        BY <3>1, <3>2, LenProperties
    <2>4. log \in Seq(Tasks) /\ Len(log) = Len(outbox)
      <3>1. log \in [1..Len(outbox) -> Tasks]
        BY <1>1 DEF Events
      <3>2. log \in Seq(Tasks)
        BY <1>1, <3>1, SeqDef
      <3> QED
        BY <1>1, <3>1, <3>2, LenProperties
    <2> HIDE DEF new
    <2>5. outbox' = outbox \o new
      BY <2>1 DEF new
    <2>6. /\ Len(outbox') = Len(outbox) + k
          /\ \A i \in 1..(Len(outbox) + k) :
                outbox'[i] = IF i <= Len(outbox) THEN outbox[i] ELSE new[i - Len(outbox)]
      BY <1>1, <2>2, <2>5, ConcatProperties
    <2>7. log' = [i \in 1..(Len(outbox) + k) |-> outbox'[i].task]
      BY <1>1, <2>6
    <2>8. /\ log \o tasks \in Seq(Tasks) /\ Len(log \o tasks) = Len(outbox) + k
          /\ \A i \in 1..(Len(outbox) + k) : (log \o tasks)[i] =
                IF i <= Len(outbox) THEN log[i] ELSE tasks[i - Len(outbox)]
      <3> HIDE DEF log, tasks
      <3> QED
        BY <2>3, <2>4, ConcatProperties
    <2>9. \A i \in 1..(Len(outbox) + k) : outbox'[i].task = (log \o tasks)[i]
      <3> SUFFICES ASSUME NEW i \in 1..(Len(outbox) + k)
                   PROVE  outbox'[i].task = (log \o tasks)[i]
        OBVIOUS
      <3>1. CASE i <= Len(outbox)
        <4>1. i \in DOMAIN outbox
          BY <1>1, <3>1
        <4> QED
          BY <2>6, <2>8, <3>1, <4>1
      <3>2. CASE ~(i <= Len(outbox))
        <4>1. i - Len(outbox) \in 1..k
          BY <1>1, <3>2
        <4> HIDE DEF tasks
        <4> QED
          BY <2>2, <2>3, <2>6, <2>8, <3>2, <4>1
      <3> QED
        BY <3>1, <3>2
    <2>10. log \o tasks \in [1..(Len(outbox) + k) -> Tasks]
      <3> HIDE DEF log, tasks
      <3> QED
        BY <2>8, LenProperties
    <2>11. log' = log \o tasks
      <3> HIDE DEF log, tasks
      <3>1. log \o tasks = [i \in 1..(Len(outbox) + k) |-> (log \o tasks)[i]]
        BY <2>10
      <3> QED
        BY <2>7, <2>9, <3>1
    <2>12. Timeline!Happen(t, k)
      BY <1>3, <2>11 DEF Timeline!Happen, Queues
    <2> QED
      BY <2>12 DEF Timeline!TimelineNext
  <1>4. CASE Ripens \/ UNCHANGED <<outbox, last>> \/ \E p \in Flushers : Claims(p)
    <2>1. UNCHANGED last /\ DOMAIN outbox' = DOMAIN outbox
      BY <1>1, <1>4 DEF Ripens, Claims
    <2> QED
      BY <1>2, <2>1 DEF Timeline!timelineVars
  <1>5. CASE \E p \in Flushers : Shows(p) \/ Records(p)
    <2>1. PICK p \in Flushers : Shows(p) \/ Records(p)
      BY <1>5
    <2> DEFINE i == Current(p)
               t == outbox[i].task
    <2>2. /\ i \in flusher[p].batch /\ i \in DOMAIN outbox /\ i \in Nat
          /\ i \in Heads /\ outbox[i].status = "sending" /\ t \in Tasks /\ last[t] <= i
      <3>1. i \in flusher[p].batch /\ i \in DOMAIN outbox /\ i \in Nat
        BY <1>1, <2>1, CurrentIsFirst DEF Shows, Records, At, Busy
      <3>2. i \in Heads /\ outbox[i].status = "sending" /\ t \in Tasks
        BY <1>1, <3>1 DEF InOrder, HeldOK, Events
      <3> QED
        BY <3>1, <3>2 DEF InOrder, CursorOK
    <2>3. /\ DOMAIN outbox' = DOMAIN outbox
          /\ last' = [last EXCEPT ![t] = i] \/ UNCHANGED last
      <3>1. UNCHANGED outbox \/ \E status \in {"waiting", "sent"} : outbox' = Marked(i, status)
        BY <2>1 DEF Shows, Records
      <3>2. DOMAIN outbox' = DOMAIN outbox
        BY <1>1, <2>2, <3>1, MarkedEvents
      <3> QED
        BY <2>1, <3>2 DEF Shows, Records, Shown
    <2>4. UNCHANGED log
      BY <1>2, <2>3
    <2>5. CASE UNCHANGED last \/ last[t] = i
      <3>1. UNCHANGED last
        BY <1>1, <2>2, <2>3, <2>5
      <3> QED
        BY <2>4, <3>1 DEF Timeline!timelineVars
    <2>6. CASE last' = [last EXCEPT ![t] = i] /\ last[t] # i
      <3>1. i \in Timeline!Unseen(t)
        BY <1>1, <2>2, <2>6 DEF Timeline!Unseen, Timeline!Hidden
      <3>2. ASSUME NEW j \in Timeline!Unseen(t) PROVE i <= j
        <4>1. j \in DOMAIN outbox /\ outbox[j].task = t /\ j > last[t] /\ j \in Nat
          BY <1>1 DEF Timeline!Unseen, Timeline!Hidden
        <4>2. outbox[j].status # "sent"
          BY <1>1, <2>2, <4>1 DEF InOrder, CursorOK
        <4> QED
          BY <2>2, <4>1, <4>2, OneHead DEF Unsent
      <3>3. Timeline!Show(t)
        BY <2>4, <2>6, <3>1, <3>2 DEF Timeline!Show
      <3> QED
        BY <2>2, <3>3 DEF Timeline!TimelineNext
    <2> QED
      BY <2>3, <2>5, <2>6
  <1> QED
    BY <1>3, <1>4, <1>5 DEF OutboxEffect

\* The user sees the events of a task in order, none left out, through retries,
\* crashes and flushers at work at the same time: the outbox implements the
\* timeline that the bridge promises.
THEOREM OutboxKeepsTimeline == OutboxSpec /\ []SmallBatches => ShownInOrder
  <1>1. OutboxInit => Timeline!TimelineInit
    BY DEF OutboxInit, Timeline!TimelineInit
  <1>2. OutboxTyped /\ OutboxTyped' /\ InOrder /\ SmallBatches' /\ [OutboxNext]_outboxVars
        => [Timeline!TimelineNext]_(Timeline!timelineVars)
    <2>1. OutboxTyped /\ OutboxTyped' /\ InOrder /\ UNCHANGED outboxVars
          => UNCHANGED Timeline!timelineVars
      BY DEF outboxVars, Timeline!timelineVars
    <2> QED
      BY <2>1, OutboxMoves, EffectInOrder, StepsKeepTimeline
  <1> QED
    BY <1>1, <1>2, OutboxInvariant, OrderInvariant, PTL
       DEF OutboxSpec, ShownInOrder, Timeline!TimelineSpec

----------------------------------------------------------------------------
(* Nobody forgets the outbox.                                                *)

\* On the way to the events that have to be sent away.
Cares(p) ==
    \/ p \in Callers /\ flusher[p].pc \in {"kick", "spawn"}
    \/ p \in Runners /\ flusher[p].pc \notin {"rest", "leave"}

Cared == mishaps = 0 /\ SomeRemote => \E p \in Flushers : Cares(p)

\* A step without a mishap leaves somebody on the way.
LEMMA StillCared ==
    ASSUME OutboxTyped, OutboxTyped', InOrder, SmallBatches', Cared, OutboxNext
    PROVE  Cared'
  <1> SUFFICES ASSUME mishaps' = 0, SomeRemote'
               PROVE  \E p \in Flushers : Cares(p)'
    BY DEF Cared
  <1>1. /\ mishaps \in Nat /\ flusher \in [Flushers -> FlusherRecords]
        /\ Callers \subseteq Flushers /\ Runners \subseteq Flushers
        /\ \A c \in Callers : c \notin Runners
        /\ \A p \in Flushers : flusher[p] \in FlusherRecords
    BY OutboxAssumption DEF OutboxTyped, Flushers
  <1>2. \A kind : ~Mishap(kind)
    BY <1>1 DEF Mishap
  <1>3. ASSUME UNCHANGED mishaps, DOMAIN outbox' = DOMAIN outbox
        PROVE  SomeRemote /\ Unsent # {} /\ \E p \in Flushers : Cares(p)
    <2>1. Lasting
      BY OutboxMoves, EffectInOrder
    <2>2. Unsent' \subseteq Unsent /\ \A i \in Unsent' : outbox'[i].task = outbox[i].task
      BY <1>3, <2>1 DEF Lasting, Unsent
    <2>3. SomeRemote
      BY <2>2 DEF SomeRemote
    <2> QED
      BY <1>3, <2>3 DEF Cared, SomeRemote
  <1>4. ASSUME NEW p \in Flushers, NEW f, flusher' = [flusher EXCEPT ![p] = f]
        PROVE  flusher'[p] = f /\ \A q \in Flushers \ {p} : flusher'[q] = flusher[q]
    BY <1>1, <1>4
  <1>5. ASSUME NEW p \in Flushers, NEW pc, Goes(p, pc)
        PROVE  flusher'[p].pc = pc /\ \A q \in Flushers \ {p} : flusher'[q] = flusher[q]
    <2> DEFINE f == [flusher[p] EXCEPT !.pc = pc]
    <2>1. flusher' = [flusher EXCEPT ![p] = f] /\ f.pc = pc
      BY <1>1, <1>5 DEF Goes, FlusherRecords
    <2> HIDE DEF f
    <2> QED
      BY <1>4, <2>1
  <1>6. ASSUME NEW p \in Flushers, NEW limit, Flush(p, limit) PROVE flusher'[p].pc = "claim"
    <2> DEFINE f == [Resting EXCEPT !.pc = "claim", !.budget = limit]
    <2>1. flusher' = [flusher EXCEPT ![p] = f] /\ f.pc = "claim"
      BY <1>6 DEF Flush, Resting
    <2> HIDE DEF f
    <2> QED
      BY <1>4, <2>1
  \* A flush goes on, and a runner that has finished one looks again.
  <1>7. ASSUME NEW p \in Flushers, FlusherStep(p)
        PROVE  \E q \in Flushers : Cares(q)'
    <2>1. UNCHANGED mishaps /\ DOMAIN outbox' = DOMAIN outbox
      BY <1>7 DEF FlusherStep, Claim, SendLocal, SendOk, SendFails, Sends, MarkSent, Defer, Marked
    <2>2. PICK q \in Flushers : Cares(q)
      BY <1>3, <2>1
    <2>3. flusher[p].pc \in {"claim", "send", "mark", "defer"}
      BY <1>7 DEF FlusherStep, Claim, SendLocal, SendOk, SendFails, Sends, MarkSent, Defer, At
    <2>4. \A o \in Flushers \ {p} : flusher'[o] = flusher[o]
      <3>1. ASSUME Handled(p) PROVE \A o \in Flushers \ {p} : flusher'[o] = flusher[o]
        BY <1>1, <1>4, <3>1 DEF Handled
      <3>2. CASE Claim(p)
        BY <1>1, <1>4, <3>2 DEF Claim
      <3> QED
        BY <1>5, <1>7, <3>1, <3>2
           DEF FlusherStep, SendLocal, SendOk, SendFails, Sends, MarkSent, Defer
    <2>5. CASE q # p
      BY <2>2, <2>4, <2>5 DEF Cares
    <2>6. CASE q = p
      <3>1. p \in Runners
        BY <2>2, <2>3, <2>6 DEF Cares
      <3>2. Flushed(p).pc = "poll"
        BY <3>1 DEF Flushed, Resting
      <3>3. flusher'[p].pc \notin {"rest", "leave"}
        <4>1. CASE Claim(p)
          BY <1>1, <1>4, <3>2, <4>1 DEF Claim, Sending
        <4>2. CASE Handled(p)
          <5>1. ASSUME NEW finished, NEW batch
                PROVE  [flusher[p] EXCEPT !.pc = "send", !.batch = batch,
                                          !.finished = finished].pc = "send"
            BY <1>1 DEF FlusherRecords
          <5>2. ASSUME NEW budget
                PROVE  [Resting EXCEPT !.pc = "claim", !.budget = budget].pc = "claim"
            BY DEF Resting
          <5> QED
            BY <1>1, <1>4, <3>2, <4>2, <5>1, <5>2 DEF Handled
        <4>3. CASE Goes(p, "mark") \/ Goes(p, "defer")
          BY <1>5, <4>3
        <4> QED
          BY <1>7, <4>1, <4>2, <4>3 DEF FlusherStep, SendLocal, SendOk, SendFails, MarkSent, Defer
      <3> QED
        BY <3>1, <3>3 DEF Cares
    <2> QED
      BY <2>5, <2>6
  <1>8. ASSUME NEW c \in Callers, \/ \E t \in Tasks, k \in 1..2 : Record(c, t, k)
                                  \/ ControllerTurn(c) \/ Kick(c)
        PROVE  Cares(c)'
    <2>1. CASE Goes(c, "kick") \/ Goes(c, "spawn")
      BY <1>1, <1>5, <2>1 DEF Cares
    <2>2. CASE Kick(c)
      <3>1. SomeRemote /\ Unsent # {}
        BY <1>3, <2>2 DEF Kick
      <3> QED
        BY <2>1, <2>2, <3>1 DEF Kick
    <2> QED
      BY <1>8, <2>1, <2>2 DEF Record, ControllerTurn
  <1>9. ASSUME NEW c \in Callers, NEW r \in Runners, Spawn(c, r) PROVE Cares(r)'
    <2> DEFINE f == [flusher[r] EXCEPT !.pc = "lock"]
    <2>1. flusher' = [flusher EXCEPT ![c] = Resting, ![r] = f] /\ f.pc = "lock" /\ c # r
      BY <1>1, <1>9 DEF Spawn, FlusherRecords
    <2> HIDE DEF f
    <2>2. flusher'[r] = f
      BY <1>1, <2>1
    <2> QED
      BY <2>1, <2>2 DEF Cares
  \* A runner gives up or leaves only when somebody else is on the way.
  <1>10. ASSUME NEW r \in Runners, \/ RunnerLocks(r) \/ RunnerGivesUp(r)
                                   \/ RunnerPolls(r) \/ RunnerLeaves(r)
         PROVE  \E q \in Flushers : Cares(q)'
    <2>1. SomeRemote /\ Unsent # {} /\ \E p \in Flushers : Cares(p)
      BY <1>3, <1>10 DEF RunnerLocks, RunnerGivesUp, RunnerPolls, RunnerLeaves
    <2>2. CASE RunnerLocks(r) \/ RunnerPolls(r)
      BY <1>1, <1>6, <2>1, <2>2 DEF RunnerLocks, RunnerPolls, Cares
    <2>3. CASE RunnerGivesUp(r)
      <3>1. PICK h \in Runners : flusher[h].pc \notin {"rest", "lock", "leave"}
        BY <2>3 DEF RunnerGivesUp, Locked, At
      <3>2. h # r /\ flusher' = [flusher EXCEPT ![r] = Resting]
        BY <2>3, <3>1 DEF RunnerGivesUp, At, Rests
      <3> QED
        BY <1>1, <1>4, <3>1, <3>2 DEF Cares
    <2>4. CASE RunnerLeaves(r)
      <3>1. PICK p \in Flushers : Cares(p)
        BY <2>1
      <3>2. p # r /\ flusher' = [flusher EXCEPT ![r] = Resting]
        BY <1>1, <2>4, <3>1 DEF RunnerLeaves, At, Rests, Cares
      <3> QED
        BY <1>1, <1>4, <3>1, <3>2 DEF Cares
    <2> QED
      BY <1>10, <2>2, <2>3, <2>4
  <1>11. ASSUME NEW i, TimePasses(i)
         PROVE  \E q \in Flushers : Cares(q)'
    <2>1. UNCHANGED <<flusher, mishaps>> /\ DOMAIN outbox' = DOMAIN outbox
      BY <1>11 DEF TimePasses, RetryDue, LeaseExpires
    <2> QED
      BY <1>3, <2>1 DEF Cares
  <1> QED
    BY <1>1, <1>2, <1>7, <1>8, <1>9, <1>10, <1>11
       DEF OutboxNext, CallerStep, RunnerStep, SpawnFails, RunnerExpires, Crash

\* Without a mishap an event that has to be sent away always has a process on its
\* way to it.
THEOREM NobodyForgetsTheOutbox == OutboxSpec /\ []SmallBatches => []SomeoneCares
  <1>1. OutboxInit => Cared
    BY DEF OutboxInit, Cared, SomeRemote, Unsent
  <1>2. OutboxTyped /\ OutboxTyped' /\ InOrder /\ SmallBatches' /\ Cared
        /\ [OutboxNext]_outboxVars => Cared'
    <2>1. Cared /\ UNCHANGED outboxVars => Cared'
      BY DEF Cared, SomeRemote, Unsent, Cares, outboxVars
    <2> QED
      BY <2>1, StillCared
  <1>3. Cared => SomeoneCares
    BY OutboxAssumption DEF Cared, Cares, SomeoneCares, At
  <1> QED
    BY <1>1, <1>2, <1>3, OutboxInvariant, OrderInvariant, PTL DEF OutboxSpec

----------------------------------------------------------------------------
(* The earliest unsent events of so few tasks make small batches.            *)

FewTasks == IsFiniteSet(Tasks) /\ Cardinality(Tasks) <= LeaseSends

\* With no more tasks at a time than a lease has sends, no batch is too large.
LEMMA FewTasksSmallBatches ==
    ASSUME FewTasks
    PROVE  OutboxSpec => []SmallBatches
  <1>0. LeaseSends \in Nat
    BY OutboxAssumption
  <1>1. OutboxInit => SmallBatches
    <2>1. OutboxInit => \A p \in Flushers : flusher[p].batch = {}
      BY DEF OutboxInit, Resting
    <2> QED
      BY <1>0, <2>1, FS_EmptySet DEF SmallBatches
  <1>2. OutboxTyped /\ SmallBatches /\ [OutboxNext]_outboxVars => SmallBatches'
    <2> SUFFICES ASSUME OutboxTyped, SmallBatches, [OutboxNext]_outboxVars, NEW p \in Flushers
                 PROVE  Cardinality(flusher'[p].batch) <= LeaseSends
      BY DEF SmallBatches
    <2>1. Cardinality(flusher[p].batch) <= LeaseSends /\ Cardinality({}) = 0
      BY FS_EmptySet DEF SmallBatches
    <2>2. CASE flusher'[p].batch = {} \/ flusher'[p].batch = flusher[p].batch
      BY <1>0, <2>1, <2>2
    <2>3. CASE Claims(p)
      <3> DEFINE S == flusher'[p].batch
                 f == [i \in S |-> outbox[i].task]
      <3>1. S \subseteq Heads
        BY <2>3 DEF Claims, Oldest, Due
      <3>2. \A i \in S : outbox[i].task \in Tasks /\ i \in Nat /\ i \in Unsent
        <4>1. DOMAIN outbox = 1..Len(outbox) /\ outbox \in [1..Len(outbox) -> Events]
          BY LenProperties DEF OutboxTyped
        <4> QED
          BY <3>1, <4>1 DEF Heads, Unsent, Events
      <3>3. \A i, j \in S : outbox[i].task = outbox[j].task => i = j
        <4> SUFFICES ASSUME NEW i \in S, NEW j \in S, outbox[i].task = outbox[j].task
                     PROVE  i = j
          OBVIOUS
        <4>1. i <= j /\ j <= i
          BY <3>1, <3>2, OneHead
        <4> QED
          BY <3>2, <4>1
      <3> HIDE DEF S
      <3>4. f \in Injection(S, Tasks)
        BY <3>2, <3>3 DEF Injection, IsInjective
      <3>5. IsFiniteSet(S) /\ Cardinality(S) <= Cardinality(Tasks)
        BY <3>4, FS_Injection DEF FewTasks
      <3>6. Cardinality(S) \in Nat /\ Cardinality(Tasks) \in Nat
        BY <3>5, FS_CardinalityType DEF FewTasks
      <3> QED
        BY <1>0, <3>5, <3>6 DEF FewTasks, S
    <2>4. CASE Records(p)
      <3>1. Fits(flusher[p], Len(outbox)) /\ Len(outbox) \in Nat
        BY LenProperties DEF OutboxTyped
      <3>2. Current(p) \in flusher[p].batch
        BY <2>4, CurrentIsFirst DEF Records, At, Busy
      <3>3. /\ Cardinality(flusher'[p].batch) = Cardinality(flusher[p].batch) - 1
            /\ Cardinality(flusher[p].batch) \in Nat
        BY <2>4, <3>1, <3>2, BatchFacts DEF Records
      <3> QED
        BY <1>0, <2>1, <3>3
    <2>5. CASE UNCHANGED outboxVars
      BY <2>2, <2>5 DEF outboxVars
    <2>6. CASE OutboxNext
      <3>1. OutboxEffect
        BY <2>6, OutboxMoves
      <3> QED
        BY <2>2, <2>3, <2>4, <3>1
           DEF OutboxEffect, Queues, Ripens, Claims, Shows, Records, ClaimsKept
    <2> QED
      BY <2>5, <2>6
  <1> QED
    BY <1>1, <1>2, OutboxInvariant, PTL DEF OutboxSpec

\* While no more tasks have events than can be sent under one lease, and that
\* is two with the times in the code, the order needs no further assumption.
THEOREM FewTasksInOrder ==
    ASSUME FewTasks
    PROVE  OutboxSpec => []OneSender /\ []SentIsShown /\ ShownInOrder /\ []SomeoneCares
  BY FewTasksSmallBatches, NeverSentByTwo, NothingSentUnseen, OutboxKeepsTimeline,
     NobodyForgetsTheOutbox, PTL
=============================================================================
