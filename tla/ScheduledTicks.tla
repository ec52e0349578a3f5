--------------------------- MODULE ScheduledTicks ---------------------------
(***************************************************************************)
(* What the engine's scheduled-tick queue promises, without its data       *)
(* structure: a set of pending block ticks, at most one per key (a         *)
(* position and a block kind), and, once per game tick, a batch of the     *)
(* ticks that were due when the batch was taken, executed in the order     *)
(* trigger tick, priority, insertion.                                      *)
(*                                                                         *)
(* TickWheel is the time wheel that implements it.                         *)
(***************************************************************************)
EXTENDS Integers, FiniteSets

CONSTANTS
  Keys,       \* (position, block kind) pairs a tick can be scheduled for
  Priorities, \* tick priorities, -3 .. 3 in the code
  MaxDelay,   \* the longest delay a rule asks for
  MaxTick,    \* the largest game tick, u64::MAX in the code
  MaxOrder,   \* bound on insertions, the range of sub_tick_order
  Limit       \* max_scheduled_ticks_per_tick

VARIABLES
  pending,   \* the ticks scheduled and not yet executed
  now,       \* the current game tick
  nextOrder, \* the sub-tick order the next insertion receives
  phase,     \* "rest", "pre" (before the batch) or "run" (in the batch)
  due,       \* in "run": the ticks of the batch not yet executed
  budget     \* in "run": how many of them may still be executed

vars == <<pending, now, nextOrder, phase, due, budget>>

GameTicks == 0 .. MaxTick

ScheduledTick ==
  [key : Keys, trigger : GameTicks, priority : Priorities, order : 0 .. MaxOrder - 1]

Precedes(s, t) ==
  \/ s.trigger < t.trigger
  \/ s.trigger = t.trigger /\ s.priority < t.priority
  \/ s.trigger = t.trigger /\ s.priority = t.priority /\ s.order < t.order

Init ==
  /\ pending = {}
  /\ now = 0
  /\ nextOrder = 0
  /\ phase = "rest"
  /\ due = {}
  /\ budget = 0

\* GameTick(tick.saturating_add(delay))
Trigger(delay) == IF now + delay <= MaxTick THEN now + delay ELSE MaxTick

Schedule(k, delay, p) ==
  /\ nextOrder < MaxOrder
  /\ \A t \in pending : t.key # k
  /\ pending' = pending \cup
       {[key |-> k, trigger |-> Trigger(delay), priority |-> p, order |-> nextOrder]}
  /\ nextOrder' = nextOrder + 1
  /\ UNCHANGED <<now, phase, due, budget>>

BeginTick ==
  /\ phase = "rest"
  /\ now < MaxTick
  /\ now' = now + 1
  /\ phase' = "pre"
  /\ UNCHANGED <<pending, nextOrder, due, budget>>

TakeBatch ==
  /\ phase = "pre"
  /\ due' = {t \in pending : t.trigger <= now}
  /\ budget' = Limit
  /\ phase' = "run"
  /\ UNCHANGED <<pending, now, nextOrder>>

Execute ==
  /\ phase = "run"
  /\ budget > 0
  /\ \E t \in due :
       /\ \A s \in due \ {t} : Precedes(t, s)
       /\ pending' = pending \ {t}
       /\ due' = due \ {t}
  /\ budget' = budget - 1
  /\ UNCHANGED <<now, nextOrder, phase>>

\* The batch is used up, or a rule returned an error and the step gave up.
EndTick ==
  /\ phase # "rest"
  /\ phase' = "rest"
  /\ due' = {}
  /\ budget' = 0
  /\ UNCHANGED <<pending, now, nextOrder>>

Next ==
  \/ \E k \in Keys, delay \in 0 .. MaxDelay, p \in Priorities : Schedule(k, delay, p)
  \/ BeginTick
  \/ TakeBatch
  \/ Execute
  \/ EndTick

Spec == Init /\ [][Next]_vars
=============================================================================
