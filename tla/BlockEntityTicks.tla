--------------------------- MODULE BlockEntityTicks ---------------------------
(***************************************************************************)
(* Block entities and their per-tick callbacks. world.rs keeps them in     *)
(* registration order; simulation.rs keeps the positions whose entity must *)
(* tick in an index set of its own, brought up to date when a rules        *)
(* callback ends from the positions that callback touched (rules.rs,       *)
(* EventContext); and every change is recorded as an event of the delta    *)
(* that subscribers receive at the end of the step.                        *)
(*                                                                         *)
(* The rules are external: inside a callback any change may happen.        *)
(***************************************************************************)
EXTENDS Integers, FiniteSets, Sequences, SequencesExt

CONSTANTS
  Positions, \* block positions
  SectionOf, \* position -> its section
  MaxEdits   \* bound on the changes of one callback

ASSUME PositionsAssumption ==
  /\ IsFiniteSet(Positions)
  /\ MaxEdits \in Nat

\* What should_tick_block_entity tells apart: blocks whose behaviour ticks
\* (hopper, daylight detector, trapped chest) and moving_piston data.
Blocks == {"air", "plain", "ticking"}
Data == {"plain", "moving"}
NoData == "none"

VARIABLES
  block,    \* position -> block state
  entity,   \* position -> block entity data, or NoData
  order,    \* block_entity_order: positions in registration order
  tickable, \* tickable_block_entities, in the order they tick
  touched,  \* touched_block_entities of the running callback
  edits,    \* changes the running callback has made (bounds the model)
  context,  \* "closed", "open" (a callback runs), or the callback has returned
            \* and what it touched is refreshed: "return" or, on error, "fail"
  phase,    \* "rest", "step" (the other phases) or "tick" (BlockEntities)
  agenda,   \* "tick": the positions still to tick
  view      \* the loaded world with every recorded event applied (history)

world == <<block, entity, order>>
control == <<tickable, phase, agenda>>
vars == <<block, entity, order, tickable, touched, edits, context, phase, agenda, view>>

\* The values of an index set of positions
Distinct(s) == \A i, j \in DOMAIN s : s[i] = s[j] => i = j
IndexSets ==
  {s \in UNION {[1 .. n -> Positions] : n \in 0 .. Cardinality(Positions)} : Distinct(s)}

\* Whether what the two have in common is in the same order
SameOrder(s, t) ==
  \A i, j \in DOMAIN s, k, l \in DOMAIN t :
    i < j /\ t[k] = s[i] /\ t[l] = s[j] => k < l

\* IndexSet::insert; shift_remove is RemoveFirst
Inserted(s, p) == IF Contains(s, p) THEN s ELSE Append(s, p)

Allocated(section) ==
  \E p \in Positions : SectionOf[p] = section /\ block[p] # "air"

\* BlockRules::should_tick_block_entity
ShouldTick(p) ==
  /\ entity[p] # NoData
  /\ entity[p] = "moving" \/ block[p] = "ticking"

\* The registration order lists exactly the positions with an entity.
OrderAgrees == \A p \in Positions : Contains(order, p) <=> entity[p] # NoData

\* Simulation::load: any world, the positions to tick filtered in its order
Init ==
  /\ block \in [Positions -> Blocks]
  /\ entity \in [Positions -> Data \cup {NoData}]
  /\ order \in IndexSets /\ OrderAgrees
  /\ tickable \in IndexSets /\ SameOrder(tickable, order)
  /\ \A p \in Positions : Contains(tickable, p) <=> ShouldTick(p)
  /\ touched = <<>>
  /\ edits = 0
  /\ context = "closed"
  /\ phase = "rest"
  /\ agenda = <<>>
  /\ view = [block |-> block, entity |-> entity]

-----------------------------------------------------------------------------
\* Mutant of SetBlock: the removal of the entity is not recorded.
SetBlockUnrecorded(p, state) ==
  LET air == state = "air" /\ Allocated(SectionOf[p]) IN
  /\ block' = [block EXCEPT ![p] = state]
  /\ entity' = IF air THEN [entity EXCEPT ![p] = NoData] ELSE entity
  /\ order' = IF air THEN RemoveFirst(order, p) ELSE order
  /\ touched' = IF state # block[p] /\ entity[p] # NoData THEN Append(touched, p) ELSE touched
  /\ view' = [view EXCEPT !.block[p] = state]

\* Mutant of SetBlock: an entity whose block changes is not touched.
SetBlockUntouched(p, state) ==
  LET air == state = "air" /\ Allocated(SectionOf[p]) IN
  /\ block' = [block EXCEPT ![p] = state]
  /\ entity' = IF air THEN [entity EXCEPT ![p] = NoData] ELSE entity
  /\ order' = IF air THEN RemoveFirst(order, p) ELSE order
  /\ view' = [block |-> block', entity |-> entity']
  /\ UNCHANGED touched

\* EventContext::set_block: air takes the block entity with it, unless the
\* section is not allocated and SparseWorld::set_block returns early.
SetBlock(p, state) ==
  LET removes == state = "air" /\ Allocated(SectionOf[p]) IN
  /\ block' = [block EXCEPT ![p] = state]
  /\ entity' = IF removes THEN [entity EXCEPT ![p] = NoData] ELSE entity
  /\ order' = IF removes THEN RemoveFirst(order, p) ELSE order
  /\ touched' = IF state # block[p] /\ entity[p] # NoData THEN Append(touched, p) ELSE touched
  /\ view' = [block  |-> [view.block EXCEPT ![p] = IF state # block[p] THEN state ELSE @],
              entity |-> [view.entity EXCEPT ![p] =
                            IF entity[p] # NoData /\ removes THEN NoData ELSE @]]

\* EventContext::set_block_entity, and update_block_entity of an existing one
SetBlockEntity(p, data) ==
  /\ entity[p] # data
  /\ entity' = [entity EXCEPT ![p] = data]
  /\ order' = Inserted(order, p)
  /\ touched' = Append(touched, p)
  /\ view' = [view EXCEPT !.entity[p] = data]
  /\ UNCHANGED block

\* EventContext::remove_block_entity
RemoveBlockEntity(p) ==
  /\ entity[p] # NoData
  /\ entity' = [entity EXCEPT ![p] = NoData]
  /\ order' = RemoveFirst(order, p)
  /\ touched' = Append(touched, p)
  /\ view' = [view EXCEPT !.entity[p] = NoData]
  /\ UNCHANGED block

Edit ==
  /\ context = "open" /\ edits < MaxEdits
  /\ edits' = edits + 1
  /\ \E p \in Positions :
       \/ \E state \in Blocks : SetBlock(p, state)
       \/ \E data \in Data : SetBlockEntity(p, data)
       \/ RemoveBlockEntity(p)
  /\ UNCHANGED <<control, context>>

-----------------------------------------------------------------------------
\* The touched positions join or leave the tickable ones, in turn.
RefreshNext ==
  /\ context \in {"return", "fail"} /\ touched # <<>>
  /\ tickable' = IF ShouldTick(Head(touched))
                 THEN Inserted(tickable, Head(touched))
                 ELSE RemoveFirst(tickable, Head(touched))
  /\ touched' = Tail(touched)
  /\ UNCHANGED <<world, edits, context, phase, agenda, view>>

BeginContext == context = "closed" /\ context' = "open" /\ UNCHANGED edits

\* A callback of apply(), or of a step: actions, ticks, events, entities,
\* neighbour updates
Callback ==
  /\ BeginContext
  /\ UNCHANGED <<world, control, touched, view>>

Return ==
  /\ context = "open"
  /\ context' \in {"return", "fail"}
  /\ edits' = 0
  /\ UNCHANGED <<world, control, touched, view>>

EndContext ==
  /\ context = "return" /\ touched = <<>>
  /\ context' = "closed"
  /\ UNCHANGED <<world, control, touched, edits, view>>

\* An error ends the step: the rest of the agenda never ticks.
EndContextError ==
  /\ context = "fail" /\ touched = <<>>
  /\ context' = "closed"
  /\ phase' = "rest"
  /\ agenda' = <<>>
  /\ UNCHANGED <<world, tickable, touched, edits, view>>

BeginStep ==
  /\ phase = "rest" /\ context = "closed"
  /\ phase' = "step"
  /\ UNCHANGED <<world, tickable, touched, edits, context, agenda, view>>

\* run_block_entities copies the positions before the first callback
BeginTicks ==
  /\ phase = "step" /\ context = "closed"
  /\ phase' = "tick"
  /\ agenda' = tickable
  /\ UNCHANGED <<world, tickable, touched, edits, context, view>>

TickNext ==
  /\ phase = "tick" /\ agenda # <<>>
  /\ agenda' = Tail(agenda)
  /\ IF entity[Head(agenda)] # NoData
     THEN BeginContext
     ELSE context = "closed" /\ UNCHANGED <<edits, context>>
  /\ UNCHANGED <<world, tickable, touched, phase, view>>

EndStep ==
  /\ phase = "tick" /\ agenda = <<>> /\ context = "closed"
  /\ phase' = "rest"
  /\ UNCHANGED <<world, tickable, touched, edits, context, agenda, view>>

Next ==
  \/ Edit \/ Callback \/ Return \/ RefreshNext \/ EndContext \/ EndContextError
  \/ BeginStep \/ BeginTicks \/ TickNext \/ EndStep

Spec == Init /\ [][Next]_vars

-----------------------------------------------------------------------------
TypeOK ==
  /\ block \in [Positions -> Blocks]
  /\ entity \in [Positions -> Data \cup {NoData}]
  /\ order \in Seq(Positions) /\ Distinct(order)
  /\ tickable \in Seq(Positions) /\ Distinct(tickable)
  /\ touched \in Seq(Positions)
  /\ edits \in 0 .. MaxEdits
  /\ context \in {"closed", "open", "return", "fail"}
  /\ phase \in {"rest", "step", "tick"}
  /\ agenda \in Seq(Positions) /\ Distinct(agenda)
  /\ view \in [block : [Positions -> Blocks], entity : [Positions -> Data \cup {NoData}]]

\* A position whose entity should tick is tickable, and a tickable position
\* whose entity should not tick has none (run_block_entities skips it).
Exact(p) ==
  /\ ShouldTick(p) => Contains(tickable, p)
  /\ Contains(tickable, p) /\ entity[p] # NoData => ShouldTick(p)

\* Between callbacks the tickable positions are exact: no change of a block or
\* of its entity escapes the touched positions, failed callbacks included.
TickableExact == context = "closed" => \A p \in Positions : Exact(p)

\* docs/impl.md:45: the registration order holds the positions with a block
\* entity, and those of them that tick are tickable, after every callback.
RegistriesAgree == OrderAgrees /\ TickableExact

\* The recorded events alone lead from the loaded world to the present one:
\* no change goes unrecorded, the removal of a block entity by the air that
\* replaces its block included, nor is one recorded that was not made.
DeltaComplete == view = [block |-> block, entity |-> entity]
=============================================================================
