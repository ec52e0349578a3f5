------------------------------ MODULE TickWheel ------------------------------
(***************************************************************************)
(* redstone-core/src/scheduler.rs: the scheduled-tick queue as a ring of   *)
(* WheelSize slots, each bound to one trigger tick, with an overflow map   *)
(* for the trigger ticks whose slot another tick holds; and the engine     *)
(* steps of simulation.rs and rules.rs that use it.                        *)
(*                                                                         *)
(* A batch is taken once per game tick and executed entry by entry, while  *)
(* the executed rules insert into the same queues: the code asserts that   *)
(* the entry it executes is still the head of its queue.                   *)
(***************************************************************************)
EXTENDS Integers, Sequences, FiniteSets, Functions

CONSTANTS
  Keys,       \* (position, block kind) pairs a tick can be scheduled for
  Priorities, \* tick priorities, -3 .. 3 in the code
  WheelSize,  \* slots of the ring, 256 in the code
  MaxDelay,   \* the longest delay a rule asks for
  MaxTick,    \* the largest game tick, u64::MAX in the code
  MaxOrder,   \* bound on insertions, the range of sub_tick_order
  Limit,      \* max_scheduled_ticks_per_tick
  MayFail     \* whether rule callbacks may return errors

ASSUME WheelAssumption ==
  /\ IsFiniteSet(Keys)
  /\ IsFiniteSet(Priorities) /\ Priorities \subseteq Int
  /\ WheelSize \in Nat \ {0}
  /\ MaxDelay \in Nat
  /\ MaxTick \in Nat
  /\ MaxOrder \in Nat
  /\ Limit \in Nat
  /\ MayFail \in BOOLEAN

VARIABLES
  wheel,     \* slot -> its trigger tick (or NoTick) and its queues
  overflow,  \* trigger tick -> queues, for the ticks that found no slot
  keys,      \* keys with a pending tick
  len,       \* number of pending ticks
  now,       \* current game tick
  nextOrder, \* next_sub_tick_order
  phase,     \* "rest", "pre" (before the batch) or "run" (in the batch)
  batch,     \* the entries of the due batch not yet executed, by trigger tick
  budget,    \* how many of them fit under Limit
  lost       \* game ticks given up after a callback failed (history)

queueVars == <<wheel, overflow, keys, len>>
vars == <<wheel, overflow, keys, len, now, nextOrder, phase, batch, budget, lost>>

NoTick == -1
GameTicks == 0 .. MaxTick
Slots == 0 .. WheelSize - 1

ScheduledTick ==
  [key : Keys, trigger : GameTicks, priority : Priorities, order : 0 .. MaxOrder - 1]

TickQueues == [Priorities -> Seq(ScheduledTick)]

EmptyQueues == [p \in Priorities |-> <<>>]

AllEmpty(queues) == \A p \in Priorities : queues[p] = <<>>

WheelIndex(T) == T % WheelSize

-----------------------------------------------------------------------------
\* A queue of one trigger tick and priority is ordered by sub_tick_order.
InsertOrdered(queue, t) ==
  IF queue = <<>> \/ queue[Len(queue)].order <= t.order
  THEN Append(queue, t)
  ELSE LET i == CHOOSE i \in 1 .. Len(queue) :
                  /\ queue[i].order > t.order
                  /\ \A j \in 1 .. i - 1 : queue[j].order <= t.order
       IN  SubSeq(queue, 1, i - 1) \o <<t>> \o SubSeq(queue, i, Len(queue))

InWheel(T) == wheel[WheelIndex(T)].tick = T

\* ScheduledTickQueue::queues, empty queues standing for None
Present(T) == InWheel(T) \/ T \in DOMAIN overflow
Queues(T) ==
  IF InWheel(T) THEN wheel[WheelIndex(T)].queues
  ELSE IF T \in DOMAIN overflow THEN overflow[T]
  ELSE EmptyQueues

InsertInOverflow(t) ==
  /\ t.trigger \in DOMAIN overflow
  /\ overflow' = [overflow EXCEPT ![t.trigger][t.priority] = InsertOrdered(@, t)]
  /\ UNCHANGED wheel

\* Mutant of InsertInWheel: a free slot is taken without asking the overflow map.
InsertInWheelFirst(t) ==
  LET i == WheelIndex(t.trigger) IN
  /\ wheel[i].tick \in {NoTick, t.trigger}
  /\ wheel' = [wheel EXCEPT ![i] =
       [tick   |-> t.trigger,
        queues |-> [wheel[i].queues EXCEPT ![t.priority] = InsertOrdered(@, t)]]]
  /\ UNCHANGED overflow

InsertInWheel(t) ==
  LET i == WheelIndex(t.trigger) IN
  /\ t.trigger \notin DOMAIN overflow
  /\ wheel[i].tick \in {NoTick, t.trigger}
  /\ wheel' = [wheel EXCEPT ![i] =
       [tick   |-> t.trigger,
        queues |-> [wheel[i].queues EXCEPT ![t.priority] = InsertOrdered(@, t)]]]
  /\ UNCHANGED overflow

InsertColliding(t) ==
  /\ t.trigger \notin DOMAIN overflow
  /\ wheel[WheelIndex(t.trigger)].tick \notin {NoTick, t.trigger}
  /\ overflow' = [T \in DOMAIN overflow \cup {t.trigger} |->
                    IF T = t.trigger
                    THEN [EmptyQueues EXCEPT ![t.priority] = <<t>>]
                    ELSE overflow[T]]
  /\ UNCHANGED wheel

Insert(t) ==
  /\ t.key \notin keys
  /\ keys' = keys \cup {t.key}
  /\ len' = len + 1
  /\ \/ InsertInOverflow(t)
     \/ InsertInWheel(t)
     \/ InsertColliding(t)

\* Mutant of PopQueue: the slot is released when one of its queues empties.
PopQueueDropsSlot(T, p) ==
  LET rest == [Queues(T) EXCEPT ![p] = Tail(@)]
      tick == IF rest[p] = <<>> THEN NoTick ELSE T
  IN
  IF InWheel(T)
  THEN wheel' = [wheel EXCEPT ![WheelIndex(T)] = [tick |-> tick, queues |-> rest]] /\ UNCHANGED overflow
  ELSE overflow' = [overflow EXCEPT ![T] = rest] /\ UNCHANGED wheel

\* pop_front of one queue of T, releasing the slot or the map entry it empties
PopQueue(T, p) ==
  LET i == WheelIndex(T)
      rest == [Queues(T) EXCEPT ![p] = Tail(@)]
  IN
  \/ /\ InWheel(T)
     /\ wheel' = [wheel EXCEPT ![i] =
          [tick |-> IF AllEmpty(rest) THEN NoTick ELSE T, queues |-> rest]]
     /\ UNCHANGED overflow
  \/ /\ ~InWheel(T)
     /\ overflow' = IF AllEmpty(rest)
                    THEN [U \in DOMAIN overflow \ {T} |-> overflow[U]]
                    ELSE [overflow EXCEPT ![T] = rest]
     /\ UNCHANGED wheel

\* Mutant of StartExecution: the key is not released.
StartExecutionKeepsKey(t) ==
  /\ len' = len - 1
  /\ UNCHANGED keys
  /\ PopQueue(t.trigger, t.priority)

StartExecution(t) ==
  /\ keys' = keys \ {t.key}
  /\ len' = len - 1
  /\ PopQueue(t.trigger, t.priority)

-----------------------------------------------------------------------------
Init ==
  /\ wheel = [i \in Slots |-> [tick |-> NoTick, queues |-> EmptyQueues]]
  /\ overflow = [T \in {} |-> EmptyQueues]
  /\ keys = {}
  /\ len = 0
  /\ now = 0
  /\ nextOrder = 0
  /\ phase = "rest"
  /\ batch = [T \in {} |-> EmptyQueues]
  /\ budget = 0
  /\ lost = 0

\* GameTick(tick.saturating_add(delay))
Trigger(delay) == IF now + delay <= MaxTick THEN now + delay ELSE MaxTick

\* EventContext::schedule_tick, from any rule callback of any phase
Schedule(k, delay, p) ==
  /\ nextOrder < MaxOrder
  /\ Insert([key |-> k, trigger |-> Trigger(delay), priority |-> p, order |-> nextOrder])
  /\ nextOrder' = nextOrder + 1
  /\ UNCHANGED <<now, phase, batch, budget, lost>>

\* The clock advances before any callback of the step; at its maximum the step errs.
BeginTick ==
  /\ phase = "rest"
  /\ now < MaxTick
  /\ now' = now + 1
  /\ phase' = "pre"
  /\ UNCHANGED <<queueVars, nextOrder, batch, budget, lost>>

\* Mutants of DueTicks: the overflow map is forgotten; only this tick's slot is read.
DueTicksInWheel == {T \in GameTicks : T <= now /\ InWheel(T)}
DueTicksNow == {T \in GameTicks : T = now /\ Present(T)}

DueTicks == {T \in GameTicks : T <= now /\ Present(T)}

\* due_batch copies the due queues; only the first Limit entries are executed
TakeBatch ==
  /\ phase = "pre"
  /\ batch' = [T \in DueTicks |-> Queues(T)]
  /\ budget' = Limit
  /\ phase' = "run"
  /\ UNCHANGED <<queueVars, now, nextOrder, lost>>

Remaining == {T \in DOMAIN batch : ~AllEmpty(batch[T])}

\* The queue the next entry of the batch comes from
IsNext(T, p) ==
  /\ T \in Remaining
  /\ \A U \in Remaining : T <= U
  /\ batch[T][p] # <<>>
  /\ \A q \in Priorities : batch[T][q] # <<>> => p <= q

Execute(T, p) ==
  /\ phase = "run"
  /\ budget > 0
  /\ IsNext(T, p)
  /\ StartExecution(Head(batch[T][p]))
  /\ batch' = [batch EXCEPT ![T][p] = Tail(@)]
  /\ budget' = budget - 1
  /\ UNCHANGED <<now, nextOrder, phase, lost>>

LeaveBatch ==
  /\ phase' = "rest"
  /\ batch' = [T \in {} |-> EmptyQueues]
  /\ budget' = 0
  /\ UNCHANGED <<queueVars, now, nextOrder>>

EndTick ==
  /\ phase = "run"
  /\ budget = 0 \/ Remaining = {}
  /\ LeaveBatch
  /\ UNCHANGED lost

\* A callback's error ends the step where it stands
FailTick ==
  /\ MayFail
  /\ phase \in {"pre", "run"}
  /\ LeaveBatch
  /\ lost' = lost + 1

Next ==
  \/ \E k \in Keys, delay \in 0 .. MaxDelay, p \in Priorities : Schedule(k, delay, p)
  \/ BeginTick
  \/ TakeBatch
  \/ \E T \in DOMAIN batch, p \in Priorities : Execute(T, p)
  \/ EndTick
  \/ FailTick

Spec == Init /\ [][Next]_vars

-----------------------------------------------------------------------------
\* The pending entries and the unexecuted entries of the batch, as sets.
Filed(queues) == UNION {Range(queues[p]) : p \in Priorities}

Entries ==
  (UNION {Filed(wheel[i].queues) : i \in Slots}) \cup (UNION {Filed(overflow[T]) : T \in DOMAIN overflow})

BatchEntries == UNION {Filed(batch[T]) : T \in DOMAIN batch}

\* Type invariant of the queue and of the engine's use of it.
QueueTypeOK ==
  /\ wheel \in [Slots -> [tick : GameTicks \cup {NoTick}, queues : TickQueues]]
  /\ DOMAIN overflow \subseteq GameTicks
  /\ overflow \in [DOMAIN overflow -> TickQueues]
  /\ keys \subseteq Keys
  /\ len \in Int

TypeOK ==
  /\ QueueTypeOK
  /\ now \in GameTicks
  /\ nextOrder \in 0 .. MaxOrder
  /\ phase \in {"rest", "pre", "run"}
  /\ DOMAIN batch \subseteq GameTicks
  /\ batch \in [DOMAIN batch -> TickQueues]
  /\ budget \in Nat
  /\ lost \in Nat

\* A slot is bound to a tick exactly while it holds entries, and to a tick of
\* its own residue; an overflow entry exists exactly while it holds entries.
SlotInv ==
  /\ \A i \in Slots :
       /\ wheel[i].tick = NoTick <=> AllEmpty(wheel[i].queues)
       /\ wheel[i].tick # NoTick => WheelIndex(wheel[i].tick) = i
  /\ \A T \in DOMAIN overflow : ~AllEmpty(overflow[T])

\* No trigger tick has queues in both places: queues(), start_execution and
\* due_batch look in the slot first and would never see, or twice see, the
\* ones of the overflow map (scheduler.rs, insert 74-89 and queues 152-159).
OneHome == \A T \in DOMAIN overflow : ~InWheel(T)

\* Every entry is filed under its own tick and priority, in strictly
\* increasing insertion order.
FiledInOrder ==
  \A T \in GameTicks, p \in Priorities :
      LET queue == Queues(T)[p] IN
      /\ \A j \in DOMAIN queue :
           /\ queue[j].trigger = T
           /\ queue[j].priority = p
           /\ queue[j].order < nextOrder
      /\ \A i, j \in DOMAIN queue : i < j => queue[i].order < queue[j].order

\* The three together: every pending entry is in one place, and in order there.
WheelConsistent == OneHome /\ SlotInv /\ FiledInOrder

\* The deduplication set and the counter describe exactly the pending
\* entries: a key is never refused while nothing is pending for it, nor
\* scheduled twice (scheduler.rs insert 69-70 and start_execution 148-149).
KeysAgree ==
  /\ keys = {t.key : t \in Entries}
  /\ \A s, t \in Entries : s.key = t.key => s = t
  /\ len = Cardinality(keys)

IsPrefixOf(s, t) == Len(s) <= Len(t) /\ \A j \in DOMAIN s : s[j] = t[j]

\* What is left of the batch is still at the front of the live queues.
BatchIsFront ==
  \A T \in DOMAIN batch, p \in Priorities :
    IsPrefixOf(batch[T][p], Queues(T)[p])

\* The panics of start_execution cannot happen, whatever the rules executed so
\* far in the batch have scheduled: the queue of the next entry exists, is not
\* empty, and its head is that entry (scheduler.rs 134, 138 and the assertion
\* at 139 that the execution order stays stable).
ExecutionStable ==
  \A T \in DOMAIN batch, p \in Priorities :
    IsNext(T, p) =>
      /\ Present(T)
      /\ Queues(T)[p] # <<>>
      /\ Head(Queues(T)[p]) = Head(batch[T][p])

\* An entry waits at most (|Keys| - 1) \div Limit game ticks past its trigger
\* tick, and one more for every tick given up after an error, whatever else is
\* scheduled meanwhile: what is scheduled in a later tick is due later, even
\* with delay 0, so the per-tick limit delays the backlog and never starves it
\* (run_scheduled_ticks).
BoundedLateness ==
  phase = "rest" =>
    \A t \in Entries : now - t.trigger <= (Cardinality(Keys) - 1) \div Limit + lost

\* The time wheel implements the abstract queue.
Abstract == INSTANCE ScheduledTicks WITH pending <- Entries, due <- BatchEntries

RefinesScheduledTicks == Abstract!Spec
=============================================================================
