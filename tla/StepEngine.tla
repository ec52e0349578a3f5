------------------------------ MODULE StepEngine ------------------------------
(***************************************************************************)
(* redstone-core/src/simulation.rs: the phases of a step, the clocks, the  *)
(* block-event queue with its key set, and the list of recorded events     *)
(* that becomes the delta of a step or of an action applied between steps. *)
(*                                                                         *)
(* A callback stands for one rules callback with the whole neighbour-      *)
(* update chain it starts; in it the rules change blocks, queue block      *)
(* events and may fail. What else they do is in the other modules.         *)
(***************************************************************************)
EXTENDS Integers, Sequences, SequencesExt

CONSTANTS
  Events,       \* block events: position, block kind, parameters
  MaxClock,     \* the largest value of a clock, u64::MAX in the code
  StartGame,    \* game_time of the environment
  StartOver,    \* overworld_time of the environment
  AdvanceTime,  \* whether overworld_time advances
  RecordEvents, \* SimulationConfig.record_events
  MaxMade,      \* bound on the block changes of a step
  MaxEntries,   \* bound on the entries when an executed event is recorded
  MayFail,      \* whether callbacks may return errors
  None          \* no block event

ASSUME EngineAssumption ==
  /\ MaxClock \in Nat
  /\ StartGame \in 0 .. MaxClock /\ StartOver \in 0 .. MaxClock
  /\ AdvanceTime \in BOOLEAN /\ RecordEvents \in BOOLEAN /\ MayFail \in BOOLEAN
  /\ MaxMade \in Nat /\ MaxEntries \in Nat
  /\ None \notin Events

VARIABLES
  tick,          \* the simulation's tick
  gameTime,      \* game_time
  overworldTime, \* overworld_time
  phase,         \* "rest"; "apply" or "silent" (initialize, paste_world and
                 \* update_region, whose changes no delta carries); in a step
                 \* "pre" (to ScheduledTicks), "events" and "post"
  open,          \* whether a callback is running
  running,       \* the block event it executes, or None
  index,         \* event_index: entries recorded before that event
  start,         \* block changes made before that event (history)
  made,          \* block changes made since the step began (history)
  changes,       \* the recorded entries: block changes, numbered, and
                 \* block events, with the changes made before they started
  queue,         \* block_events
  keys           \* block_event_keys

clocks == <<tick, gameTime, overworldTime>>
pending == <<queue, keys>>
record == <<index, start, made, changes>>
vars == <<clocks, phase, open, running, record, pending>>

Init ==
  /\ tick = 0 /\ gameTime = StartGame /\ overworldTime = StartOver
  /\ phase = "rest" /\ open = FALSE /\ running = None
  /\ index = 0 /\ start = 0 /\ made = 0 /\ changes = <<>>
  /\ queue = <<>> /\ keys = {}

-----------------------------------------------------------------------------
\* EventContext::queue_block_event, in any callback
QueueEvent(e) ==
  /\ open
  /\ e \notin keys
  /\ keys' = keys \cup {e}
  /\ queue' = Append(queue, e)
  /\ UNCHANGED <<clocks, phase, open, running, record>>

\* EventContext::record_block_change, in any callback
ChangeBlock ==
  /\ open /\ made < MaxMade
  /\ made' = made + 1
  /\ changes' = IF RecordEvents THEN Append(changes, [kind |-> "block", after |-> made']) ELSE changes
  /\ UNCHANGED <<clocks, phase, open, running, index, start, pending>>

EnterCallback ==
  /\ phase \in {"silent", "pre", "post"} /\ ~open
  /\ open' = TRUE
  /\ UNCHANGED <<clocks, phase, running, record, pending>>

ReturnFromCallback ==
  /\ open /\ running = None
  /\ open' = FALSE
  /\ UNCHANGED <<clocks, phase, running, record, pending>>

\* An error leaves the step: the recorded entries are dropped; the queue, the
\* world and the clocks stay as they are.
Fail ==
  /\ MayFail /\ open
  /\ phase' = "rest" /\ open' = FALSE /\ running' = None
  /\ index' = 0 /\ start' = 0 /\ made' = 0 /\ changes' = <<>>
  /\ UNCHANGED <<clocks, pending>>

-----------------------------------------------------------------------------
ClocksCanAdvance ==
  /\ tick < MaxClock /\ gameTime < MaxClock
  /\ AdvanceTime => overworldTime < MaxClock

\* Mutant of AdvanceClocks: only the tick is checked, the others saturate.
Saturated(clock) == IF clock < MaxClock THEN clock + 1 ELSE clock
AdvanceClocksUnchecked ==
  /\ tick < MaxClock
  /\ tick' = tick + 1
  /\ gameTime' = Saturated(gameTime)
  /\ overworldTime' = IF AdvanceTime THEN Saturated(overworldTime) ELSE overworldTime

\* Every clock is checked before one is changed.
AdvanceClocks ==
  /\ ClocksCanAdvance
  /\ tick' = tick + 1
  /\ gameTime' = gameTime + 1
  /\ overworldTime' = IF AdvanceTime THEN overworldTime + 1 ELSE overworldTime

BeginStep ==
  /\ phase = "rest"
  /\ AdvanceClocks
  /\ phase' = "pre"
  /\ UNCHANGED <<open, running, record, pending>>

\* apply, or an operation whose changes are recorded for nobody
BeginAction ==
  /\ phase = "rest"
  /\ phase' \in {"apply", "silent"}
  /\ open' = TRUE
  /\ UNCHANGED <<clocks, running, record, pending>>

BeginEvents ==
  /\ phase = "pre" /\ ~open
  /\ phase' = "events"
  /\ UNCHANGED <<clocks, open, running, record, pending>>

\* Mutants of StartEvent: the key stays; the newest event is taken.
StartEventKeepsKey ==
  /\ phase = "events" /\ ~open /\ queue # <<>>
  /\ running' = Head(queue)
  /\ queue' = Tail(queue)
  /\ open' = TRUE /\ index' = Len(changes) /\ start' = made
  /\ UNCHANGED <<clocks, phase, made, changes, keys>>

StartEventLast ==
  /\ phase = "events" /\ ~open /\ queue # <<>>
  /\ running' = Last(queue)
  /\ queue' = Front(queue)
  /\ keys' = keys \ {running'}
  /\ open' = TRUE /\ index' = Len(changes) /\ start' = made
  /\ UNCHANGED <<clocks, phase, made, changes>>

\* run_block_events: the event and its key leave before its callback begins.
StartEvent ==
  /\ phase = "events" /\ ~open /\ queue # <<>>
  /\ running' = Head(queue)
  /\ queue' = Tail(queue)
  /\ keys' = keys \ {running'}
  /\ open' = TRUE /\ index' = Len(changes) /\ start' = made
  /\ UNCHANGED <<clocks, phase, made, changes>>

EventEntry == [kind |-> "event", after |-> start]

\* Mutant of EndEvent: the executed event is recorded when it ends.
EndEventAppends ==
  /\ open /\ running # None
  /\ \E executed \in {e \in BOOLEAN : e => Len(changes) < MaxEntries} :
       changes' = IF executed THEN Append(changes, EventEntry) ELSE changes
  /\ open' = FALSE /\ running' = None
  /\ UNCHANGED <<clocks, phase, index, start, made, pending>>

\* An event the rules executed is recorded before the changes it made.
EndEvent ==
  /\ open /\ running # None
  /\ \E executed \in {e \in BOOLEAN : e => Len(changes) < MaxEntries} :
       changes' = IF executed THEN InsertAt(changes, index + 1, EventEntry) ELSE changes
  /\ open' = FALSE /\ running' = None
  /\ UNCHANGED <<clocks, phase, index, start, made, pending>>

EndEvents ==
  /\ phase = "events" /\ ~open /\ queue = <<>>
  /\ phase' = "post"
  /\ UNCHANGED <<clocks, open, running, record, pending>>

\* The delta is sent, or thrown away.
End ==
  /\ phase \in {"apply", "silent", "post"} /\ ~open
  /\ phase' = "rest"
  /\ index' = 0 /\ start' = 0 /\ made' = 0 /\ changes' = <<>>
  /\ UNCHANGED <<clocks, open, running, pending>>

Next ==
  \/ \E e \in Events : QueueEvent(e)
  \/ ChangeBlock \/ EnterCallback \/ ReturnFromCallback \/ Fail
  \/ BeginStep \/ BeginAction \/ BeginEvents
  \/ StartEvent \/ EndEvent \/ EndEvents \/ End

Spec == Init /\ [][Next]_vars

\* Callbacks return; a phase has finitely many of them, so it ends although
\* others of its callbacks come first; and the host keeps stepping.
Fairness ==
  /\ WF_vars(ReturnFromCallback) /\ WF_vars(EndEvent)
  /\ WF_vars(StartEvent) /\ WF_vars(EndEvents)
  /\ SF_vars(BeginEvents) /\ SF_vars(End)
  /\ SF_vars(BeginStep)

FairSpec == Spec /\ Fairness

-----------------------------------------------------------------------------
Entries == [kind : {"block", "event"}, after : 0 .. MaxMade]

TypeOK ==
  /\ tick \in 0 .. MaxClock /\ gameTime \in 0 .. MaxClock /\ overworldTime \in 0 .. MaxClock
  /\ phase \in {"rest", "apply", "silent", "pre", "events", "post"}
  /\ open \in BOOLEAN
  /\ running \in Events \cup {None}
  /\ start \in 0 .. MaxMade /\ made \in 0 .. MaxMade
  /\ changes \in Seq(Entries)
  /\ index \in 0 .. Len(changes)
  /\ queue \in Seq(Events)
  /\ keys \subseteq Events

\* The key set is the content of the queue, which holds no event twice: also
\* after failed callbacks, an event is refused exactly while it is waiting,
\* and can be queued again by its own execution.
QueueAgrees ==
  /\ keys = {queue[i] : i \in DOMAIN queue}
  /\ \A i, j \in DOMAIN queue : queue[i] = queue[j] => i = j

\* docs/impl.md:54: a delta tells the block changes in the order they were
\* made, each once, and every executed block event before the changes it made
\* and after those made before it started.
Rank(entry) == IF entry.kind = "block" THEN 2 * entry.after ELSE 2 * entry.after + 1
EventsFirst ==
  \A i, j \in DOMAIN changes :
    i < j => /\ Rank(changes[i]) <= Rank(changes[j])
             /\ changes[i].kind = "block" /\ changes[j].kind = "block" =>
                  changes[i].after < changes[j].after

\* docs/impl.md:57: the clocks never drift apart, an overflow of any of them
\* included: a step that cannot advance one advances none.
ClocksTogether ==
  /\ gameTime - tick = StartGame
  /\ overworldTime - (IF AdvanceTime THEN tick ELSE 0) = StartOver

\* A queued block event is executed, even if others queue themselves again
\* forever, unless a clock is at its end.
QueuedEventsRun ==
  \A e \in Events : e \in keys ~> running = e \/ ~ClocksCanAdvance
=============================================================================
