------------------------------- MODULE Pistons -------------------------------
(***************************************************************************)
(* redstone-java-26/src/rules/piston.rs: pistons over game ticks. Updates  *)
(* queue block events, an event moves a structure into block entities that *)
(* settle two ticks later, and what must wait for the notified neighbours  *)
(* is deferred. The signals around are external: any position may gain or  *)
(* lose power at any moment, also within a chain of updates.               *)
(***************************************************************************)
EXTENDS PistonStructure, FiniteSets

CONSTANTS
  Layouts,    \* worlds at the start
  MaxSwitches \* bound on changes of power

VARIABLES
  block,    \* the world
  mover,    \* moving_piston block entities
  powered,  \* where is_quasi_powered holds
  events,   \* queue of block events
  agenda,   \* what is left of the chain under way
  phase,    \* "events" or "entities"
  toTick,   \* block entities the entity phase has still to tick
  switches  \* changes of power so far

vars == <<block, mover, powered, events, agenda, phase, toTick, switches>>

NoMover == [moved |-> Air, due |-> 0, extending |-> FALSE, source |-> FALSE]

SettleDelay == 2

Mover(moved, extending, source) ==
  [moved |-> moved, due |-> SettleDelay, extending |-> extending, source |-> source]

MovingBlock(facing, sticky) == Block("moving", facing, sticky, FALSE)

IsPiston(b) == b.kind = "piston"

Neighbors(p) == {Relative(p, d, 1) : d \in Dirs}

HeadOf(p) == Relative(p, block[p].facing, 1)

\* What a chain still has to do: notify positions in any order (only those
\* that react), or a deferred task.
Task(kind, pos, at, state, param) ==
  [kind |-> kind, pos |-> pos, at |-> at, state |-> state, param |-> param]

Notify(w, at) ==
  LET reacting == {p \in at \cap Cells : w.block[p].kind \in {"piston", "head"}}
  IN  IF reacting = {} THEN <<>> ELSE <<Task("updates", <<0, 0>>, reacting, Air, 0)>>

Deferred(kind, pos, state, param) == <<Task(kind, pos, {}, state, param)>>

World == [block |-> block, mover |-> mover]

\* A handler leaves the world w and puts its tasks before the rest.
Becomes(w, tasks, rest) ==
  /\ block' = w.block
  /\ mover' = w.mover
  /\ agenda' = tasks \o rest

\* SparseWorld::set_block: air takes the block entity along.
SetBlock(w, p, b) ==
  [w EXCEPT !.block[p] = b, !.mover[p] = IF b = Air THEN NoMover ELSE @]

\* Mutant of Vacated: what something moves into is cleared as well.
VacatedAll(sources, entered) == sources

\* Sources that nothing moves into become air.
Vacated(sources, entered) == sources \ entered

\* What r says moves one place on, into block entities; a piston that
\* extends puts its moving head in front of itself.
Moved(w, r, head, facing, sticky, extending) ==
  LET moved == ToSet(r.toPush)
      entered == {Relative(q, r.push, 1) : q \in moved}
      heads == IF extending THEN {head} ELSE {}
      gone == Vacated(moved \cup ToSet(r.toDestroy), entered \cup heads)
  IN  [block |-> [q \in Cells |->
         IF q \in gone THEN Air
         ELSE IF q \in heads THEN MovingBlock(facing, sticky)
         ELSE IF q \in entered THEN MovingBlock(facing, FALSE)
         ELSE w.block[q]],
       mover |-> [q \in Cells |->
         IF q \in gone THEN NoMover
         ELSE IF q \in heads THEN Mover(Block("head", facing, sticky, FALSE), TRUE, TRUE)
         ELSE IF q \in entered
         THEN Mover(w.block[Relative(q, Opposite(r.push), 1)], extending, FALSE)
         ELSE w.mover[q]]]

Movement(w, r, head, facing, sticky, extending) ==
  [ok |-> r.ok,
   world |-> IF r.ok THEN Moved(w, r, head, facing, sticky, extending) ELSE w,
   at |-> UNION {Neighbors(q) : q \in ToSet(r.toPush) \cup ToSet(r.toDestroy)
                                      \cup (IF extending THEN {head} ELSE {})}]

\* move_piston_structure: extending, or pulling after the head is cleared
Pushing(w, p, b) ==
  Movement(w, Resolve(w.block, p, Relative(p, b.facing, 1), b.facing, TRUE),
           Relative(p, b.facing, 1), b.facing, b.sticky, TRUE)

HeadCleared(w, head) == IF w.block[head].kind = "head" THEN SetBlock(w, head, Air) ELSE w

PullingFrom(w, p, facing) ==
  Movement(w, Resolve(w.block, p, Relative(p, facing, 2), Opposite(facing), FALSE),
           Relative(p, facing, 1), facing, FALSE, FALSE)

Pulling(w, p, b) == PullingFrom(HeadCleared(w, Relative(p, b.facing, 1)), p, b.facing)

\* A source that is settled early leaves nothing.
FinalState(m, early) == IF early /\ m.source THEN Air ELSE m.moved

\* settle_moving_piston, where there is a moving block
Settled(w, p, early) ==
  [SetBlock(w, p, FinalState(w.mover[p], early)) EXCEPT !.mover[p] = NoMover]

\* A settled block is told about its neighbours, and they about it.
SettleNotice(w, p) == Notify(w, Neighbors(p) \cup {p})

\* A sticky piston pulls what is two blocks ahead if it may be pulled.
PullsAgain(w, p, b) ==
  LET source == BlockAt(w.block, Relative(p, b.facing, 2)) IN
  /\ b.sticky
  /\ source # Air /\ PushReaction(source) = "normal"
  /\ CanPush(source, Opposite(b.facing), FALSE, b.facing)

\* Mutant of HeadTask: nothing after a block was dropped.
HeadTaskUnlessDropped(w, p, head, dropped, pulls) ==
  IF pulls THEN Deferred("pull", p, Air, 0)
  ELSE IF w.block[head] # Air /\ ~dropped THEN Deferred("set", head, Air, 0) ELSE <<>>

\* A pull takes care of the head; else what stands there is removed.
HeadTask(w, p, head, dropped, pulls) ==
  IF pulls THEN Deferred("pull", p, Air, 0)
  ELSE IF w.block[head] # Air THEN Deferred("set", head, Air, 0) ELSE <<>>

RetractingBase(w, p) ==
  [w EXCEPT !.block[p] = MovingBlock(@.facing, @.sticky),
            !.mover[p] = Mover([w.block[p] EXCEPT !.extended = FALSE], FALSE, TRUE)]

\* continue_piston_retraction; event 2 drops the block that is on its way
Retract(w, p, event, rest) ==
  LET b == w.block[p]
      dropped == b.sticky /\ event = 2
  IN  \E base \in {RetractingBase(w, p)}, pulls \in {~dropped /\ PullsAgain(w, p, b)} :
        Becomes(base,
          Notify(base, Neighbors(p))
          \o (IF dropped THEN Deferred("settle", Relative(p, b.facing, 2), Air, 0) ELSE <<>>)
          \o HeadTask(base, p, Relative(p, b.facing, 1), dropped, pulls),
          rest)

\* refresh_piston: what the piston asks for, if anything
Wanted(p) ==
  LET b == block[p]
      ahead == Relative(p, b.facing, 2)
      inFlight == IF ahead \in Cells THEN mover[ahead] ELSE NoMover
      zeroTick == /\ inFlight # NoMover
                  /\ inFlight.extending /\ block[ahead].facing = b.facing
  IN  IF p \in powered /\ ~b.extended
         /\ Resolve(block, p, HeadOf(p), b.facing, TRUE).ok THEN {0}
      ELSE IF p \notin powered /\ b.extended THEN {IF zeroTick THEN 2 ELSE 1}
      ELSE {}

Event(p, param) ==
  [pos |-> p, sticky |-> block[p].sticky, facing |-> block[p].facing, param |-> param]

\* The head passes an update on to the base it belongs to.
BaseOf(p) ==
  LET base == Relative(p, Opposite(block[p].facing), 1) IN
  {q \in {base} \cap Cells : /\ IsPiston(block[q]) /\ block[q].extended
                             /\ block[q].sticky = block[p].sticky
                             /\ block[q].facing = block[p].facing}

Init ==
  /\ block \in Layouts
  /\ mover = [p \in Cells |-> NoMover]
  /\ powered = {}
  /\ events = <<>>
  /\ agenda = <<>>
  /\ phase = "events"
  /\ toTick = {}
  /\ switches = 0

\* The signals at a position change; whoever changes them notifies it.
Power(p) ==
  /\ switches < MaxSwitches
  /\ powered' = IF p \in powered THEN powered \ {p} ELSE powered \cup {p}
  /\ switches' = switches + 1
  /\ agenda' = Notify(World, {p}) \o agenda
  /\ UNCHANGED <<block, mover, events, phase, toTick>>

\* on_neighbor_update of one notified position: refresh_piston or
\* refresh_piston_head
Update ==
  /\ agenda # <<>> /\ Head(agenda).kind = "updates"
  /\ \E p \in Head(agenda).at :
       LET left == Head(agenda).at \ {p}
           rest == IF left = {} THEN Tail(agenda)
                   ELSE <<[Head(agenda) EXCEPT !.at = left]>> \o Tail(agenda)
           wanted == IF IsPiston(block[p]) THEN {Event(p, e) : e \in Wanted(p)} ELSE {}
           passed == IF block[p].kind = "head" THEN BaseOf(p) ELSE {}
       IN  /\ events' = events \o SetToSeq(wanted \ ToSet(events))
           /\ agenda' = Notify(World, passed) \o rest
  /\ UNCHANGED <<block, mover, powered, phase, toTick, switches>>

\* The deferred task at the head of the chain: on_deferred_task, or the
\* deferred change of one block.
RunDeferred ==
  /\ agenda # <<>>
  /\ LET t == Head(agenda)
         p == t.pos
         rest == Tail(agenda)
     IN  \/ /\ t.kind = "continue"
            /\ IF IsPiston(block[p]) THEN Retract(World, p, t.param, rest)
               ELSE Becomes(World, <<>>, rest)
         \/ /\ t.kind = "settle"
            /\ IF p \in Cells /\ mover[p] # NoMover
               THEN \E w \in {Settled(World, p, TRUE)} : Becomes(w, SettleNotice(w, p), rest)
               ELSE Becomes(World, <<>>, rest)
         \/ /\ t.kind = "pull"
            /\ \E m \in {Pulling(World, p, block[p])} :
                 Becomes(m.world, IF m.ok THEN Notify(m.world, m.at) ELSE <<>>, rest)
         \/ /\ t.kind = "set"
            /\ \E w \in {SetBlock(World, p, t.state)} :
                 Becomes(w, IF block[p] # t.state THEN Notify(w, Neighbors(p)) ELSE <<>>, rest)
  /\ UNCHANGED <<powered, events, phase, toTick, switches>>

\* move_piston, event 0
Extend(p) ==
  \E m \in {Pushing(World, p, block[p])} :
    IF p \in powered /\ m.ok
    THEN Becomes(m.world,
           Notify(m.world, m.at) \o Deferred("set", p, [block[p] EXCEPT !.extended = TRUE], 0), <<>>)
    ELSE Becomes(World, <<>>, <<>>)

\* move_piston, events 1 and 2: a head still on its way is settled first
StartRetraction(p, param) ==
  LET head == HeadOf(p) IN
  IF p \in powered THEN Becomes(World, <<>>, <<>>)
  ELSE IF mover[head] # NoMover
  THEN \E w \in {Settled(World, head, TRUE)} :
         Becomes(w, SettleNotice(w, head) \o Deferred("continue", p, Air, param), <<>>)
  ELSE Retract(World, p, param, <<>>)

\* on_block_event
RunEvent ==
  /\ phase = "events" /\ agenda = <<>> /\ events # <<>>
  /\ LET e == Head(events) IN
       IF IsPiston(block[e.pos]) /\ block[e.pos].sticky = e.sticky
       THEN IF e.param = 0 THEN Extend(e.pos) ELSE StartRetraction(e.pos, e.param)
       ELSE Becomes(World, <<>>, <<>>)
  /\ events' = Tail(events)
  /\ UNCHANGED <<powered, phase, toTick, switches>>

StartEntities ==
  /\ phase = "events" /\ agenda = <<>> /\ events = <<>>
  /\ phase' = "entities"
  /\ toTick' = {p \in Cells : mover[p] # NoMover}
  /\ UNCHANGED <<block, mover, powered, events, agenda, switches>>

\* tick_block_entity of a moving block
TickEntity(p) ==
  /\ phase = "entities" /\ agenda = <<>> /\ p \in toTick
  /\ toTick' = toTick \ {p}
  /\ IF mover[p] # NoMover /\ mover[p].due = 0
     THEN \E w \in {Settled(World, p, FALSE)} : Becomes(w, SettleNotice(w, p), <<>>)
     ELSE Becomes(World, <<>>, <<>>)
  /\ UNCHANGED <<powered, events, phase, switches>>

\* The next game tick: every settle tick is one tick nearer.
EndTick ==
  /\ phase = "entities" /\ agenda = <<>> /\ toTick = {}
  /\ phase' = "events"
  /\ mover' = [p \in Cells |->
       IF mover[p].due > 0 THEN [mover[p] EXCEPT !.due = @ - 1] ELSE mover[p]]
  /\ UNCHANGED <<block, powered, events, agenda, toTick, switches>>

Next ==
  \/ \E p \in Cells : IsPiston(block[p]) /\ Power(p)
  \/ \E p \in Cells : TickEntity(p)
  \/ Update \/ RunDeferred \/ RunEvent \/ StartEntities \/ EndTick

Spec == Init /\ [][Next]_vars

-----------------------------------------------------------------------------
Census(kind) ==
  Cardinality({p \in Cells : block[p].kind = kind})
  + Cardinality({p \in Cells : mover[p] # NoMover /\ mover[p].moved.kind = kind})

\* Every kind keeps its number; what breaks when pushed may disappear.
Kept ==
  /\ \A kind \in {"piston", "stone", "slime", "honey", "obsidian", "terracotta", "chest"} :
       Census(kind)' = Census(kind)
  /\ Census("torch")' <= Census("torch")

\* No step of an extension, a retraction, a pull or a settlement loses or
\* doubles a block; only what breaks when pushed disappears.
NothingLost == [][Kept]_vars

\* A block is moving exactly where a block entity carries one, and none is
\* left at the end of the tick it was to settle in.
InFlightExact ==
  /\ \A p \in Cells : block[p].kind = "moving" <=> mover[p] # NoMover
  /\ phase = "entities" /\ toTick = {} =>
       \A p \in Cells : mover[p] # NoMover => mover[p].due > 0

\* Every extended piston has its head in front of it, at rest or on its
\* way, and every head its piston.
HeadsMatch ==
    \A p \in Cells :
      /\ IsPiston(block[p]) /\ block[p].extended =>
           LET h == HeadOf(p) IN
           \/ block[h] = Block("head", block[p].facing, block[p].sticky, FALSE)
           \/ mover[h].moved = Block("head", block[p].facing, block[p].sticky, FALSE)
      /\ block[p].kind = "head" \/ mover[p].moved.kind = "head" =>
           LET head == IF block[p].kind = "head" THEN block[p] ELSE mover[p].moved
               base == Relative(p, Opposite(head.facing), 1)
           IN  base \in Cells /\ block[base] = Block("piston", head.facing, head.sticky, TRUE)

\* Between chains moving blocks and heads are where they belong: neither the
\* two tasks that may settle one block nor a retraction that overtakes an
\* extension leaves half a movement behind.
MovementConsistent == agenda = <<>> => InFlightExact /\ HeadsMatch

\* When nothing moves and nothing is queued, no piston stands extended
\* without power: whatever the moment the power went, it was told.
NoneLeftExtended ==
  events = <<>> /\ agenda = <<>> /\ (\A p \in Cells : mover[p] = NoMover) =>
    \A p \in Cells : IsPiston(block[p]) /\ block[p].extended => p \in powered

\* Whatever stands before a piston: it moves the blocks that must move
\* together, each once, in an order that frees every place before it is
\* entered, destroys what breaks, and refuses the rest; pushing as pulling.
StructureExact ==
  \A p \in Cells :
    IsPiston(block[p]) /\ ~block[p].extended =>
      LET facing == block[p].facing
          head == HeadOf(p)
          cleared == IF head \in Cells THEN [block EXCEPT ![head] = Air] ELSE block
          ahead == Relative(p, facing, 2)
      IN  /\ ResolvesExactly(block, p, head, facing, TRUE)
          /\ ResolvesExactly(cleared, p, ahead, Opposite(facing), FALSE)
=============================================================================
