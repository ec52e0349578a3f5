----------------------------- MODULE WireNetwork -----------------------------
(***************************************************************************)
(* Wires, torches, repeaters and lamps run twice from the same world: by   *)
(* the rules that read the world, and by the compiled network, which keeps *)
(* the power of every source and wire and the input of every torch and     *)
(* repeater beside it.  After each event `verdict` says whether both left  *)
(* the same world and the same scheduled ticks; the program goes on with   *)
(* what the compiled network made of it.                                   *)
(***************************************************************************)
EXTENDS WireNetworkGraph

CONSTANTS
  Worlds,     \* the circuits to start from, each a world at rest
  Cells,      \* the positions where blocks are placed and broken
  Placed,     \* the blocks placed there
  MaxUses     \* bound: levers pulled and blocks changed

VARIABLES
  world,      \* the blocks
  pend,       \* the scheduled ticks, [pos, due, prio], in scheduling order
  net,        \* the compiled network, which depends on the kinds of blocks only
  rt,         \* what it knows of their states
  bent,       \* (history) the nodes a wire of which ever took another shape
  batch,      \* whether wire states are written at the end of a propagation
  uses,       \* levers pulled and blocks changed so far
  verdict     \* how the two executions of the last event compare

vars == <<world, pend, net, rt, bent, batch, uses, verdict>>

-----------------------------------------------------------------------------
(* What both executions share: a torch, a repeater or a lamp that is told  *)
(* of a change.  `input` is what the compiled network knows of its input,  *)
(* if anything.                                                            *)

Unknown == [known |-> FALSE]

Pending(ticks, p) == \E i \in DOMAIN ticks : ticks[i].pos = p

Schedule(acc, p, delay, prio) ==
  [acc EXCEPT !.pend = Append(@, [pos |-> p, due |-> delay, prio |-> prio])]

\* diode_should_prioritize: a repeater that feeds the side or back of another.
Priority(w, p) ==
  LET out == Opposite(w[p].facing)
      b == Block(w, Next6(p, out))
  IN  IF b.kind = "repeater" /\ b.facing # out THEN 0
      ELSE IF w[p].powered THEN 1 ELSE 2

TorchLit(w, p) ==
  Signal(w, Next6(p, TorchInput(w[p])), TorchInput(w[p])) = 0

RefreshTorch(acc, w, p, input) ==
  LET lit == IF input.known THEN input.default = 0 ELSE TorchLit(w, p) IN
  IF lit = w[p].lit THEN acc ELSE Schedule(acc, p, 2, 3)

RefreshRepeater(acc, w, p, input) ==
  LET locked == IF input.known THEN input.side > 0 ELSE RepeaterLocked(w, p)
      on == IF input.known THEN input.default > 0 ELSE DiodeInput(w, p) > 0
  IN  IF locked \/ on = w[p].powered THEN acc ELSE Schedule(acc, p, 2, Priority(w, p))

RefreshLamp(acc, w, p) ==
  CASE IsPowered(w, p) /\ ~w[p].lit -> [acc EXCEPT !.world[p].lit = TRUE]
    [] ~IsPowered(w, p) /\ w[p].lit /\ ~Pending(acc.pend, p) -> Schedule(acc, p, 4, 3)
    [] OTHER -> acc

\* w is the world as a reader of wires sees it.
Refresh(acc, w, p, input) ==
  IF w[p].kind = "lamp" THEN RefreshLamp(acc, w, p)
  ELSE IF Pending(acc.pend, p) THEN acc
  ELSE IF w[p].kind = "torch" THEN RefreshTorch(acc, w, p, input)
  ELSE RefreshRepeater(acc, w, p, input)

-----------------------------------------------------------------------------
(* The rules alone.  A wire takes its target power and tells everybody     *)
(* about it, and what it tells comes before what is left of the agenda.    *)

RECURSIVE Interpret(_, _)
Interpret(acc, agenda) ==
  IF agenda = <<>> THEN acc
  ELSE LET p == Head(agenda)
           power == TargetPower(acc.world, p)
       IN  IF ~IsWire(acc.world[p])
           THEN Interpret(Refresh(acc, acc.world, p, Unknown), Tail(agenda))
           ELSE IF power = acc.world[p].power THEN Interpret(acc, Tail(agenda))
           ELSE Interpret([acc EXCEPT !.world[p].power = power],
                          Told(acc.world, p) \o Tail(agenda))

-----------------------------------------------------------------------------
(* The state of the compiled network.                                      *)

ScanDirect(n, outputs, w) == MaxOf({outputs[s] : s \in n.sources[w]})

\* The strongest of the wires a wire reads, from counts of them by power.
Strongest(counts) == MaxOf({c \in DOMAIN counts : counts[c] > 0})

CompiledTarget(r, w) == MaxOf({Strongest(r.counts[w]), r.direct[w]})

Counts(n, powers) ==
  [w \in n.wires |->
     [c \in 1 .. Strength |-> Cardinality({v \in n.pred[w] : Less1(powers[v]) = c})]]

MoveBucket(counts, old, new) ==
  [c \in DOMAIN counts |->
     counts[c] + (IF c = new THEN 1 ELSE 0) - (IF c = old THEN 1 ELSE 0)]

\* node_input_power: what the ports of a node say.
PortPower(r, port) == IF port.wire = <<>> THEN r.out[port.source] ELSE r.power[port.wire]

NodeInput(n, r, node) ==
  [k \in {"default", "side"} |->
     MaxOf({n.nodes[node][k]} \cup
           {PortPower(r, port) : port \in {q \in n.nodes[node].ports : q.kind = k}})]

\* from_world_state.
WithInputs(n, r) ==
  [out |-> r.out, power |-> r.power, direct |-> r.direct, counts |-> r.counts,
   dirty |-> {}, enabled |-> n.fast,
   fast |-> [node \in n.fast |-> NodeInput(n, r, node)]]

Runtimes(n, w) ==
  {WithInputs(n, [out |-> outputs, power |-> powers,
                  direct |-> [p \in n.wires |-> ScanDirect(n, outputs, p)],
                  counts |-> Counts(n, powers)]) :
     outputs \in {[s \in Sources(w) |-> Output(w[s])]},
     powers \in {[p \in n.wires |-> w[p].power]}}

\* update_source_deferred: the wires fed by a source learn of it without being
\* marked as changed; the nodes that read it themselves are brought up to date.
SetOutput(n, r, s, outputs) ==
  [r EXCEPT !.out = outputs,
            !.direct = [w \in n.wires |->
               IF s \in n.sources[w] THEN ScanDirect(n, outputs, w) ELSE @[w]]]

RefreshDirect(n, r, s) ==
  [r EXCEPT !.fast = [node \in n.fast |->
     IF node \in n.direct[s] THEN NodeInput(n, r, node) ELSE @[node]]]

\* Mutant: the nodes that read the source itself are not brought up to date.
UpdateSourceWiresOnly(n, r, s, output) ==
  IF r.out[s] = output THEN r ELSE SetOutput(n, r, s, [r.out EXCEPT ![s] = output])

UpdateSource(n, r, s, output) ==
  IF r.out[s] = output THEN r
  ELSE RefreshDirect(n, SetOutput(n, r, s, [r.out EXCEPT ![s] = output]), s)

\* invalidate_fast_inputs: after wires took another shape, the nodes that read
\* them or are told by them go back to reading the world.
InvalidateInputs(n, r, positions) ==
  [r EXCEPT !.enabled = @ \ UNION {
     {node \in n.fast : w \in n.roots[node] \/ node \in Range(n.ordered[w])} :
       w \in UNION {n.starts[p] : p \in positions}}]

-----------------------------------------------------------------------------
(* The propagation of a change of one wire, which gives a sequence of      *)
(* events: wires with their new powers, and other blocks to refresh.       *)

\* update_fast_wire_inputs: the torches and repeaters that read wire w.
Stale(n, r, w) ==
  {node \in r.enabled : w \in n.roots[node] /\ NodeInput(n, r, node) # r.fast[node]}

UpdateInputs(n, c, nodes) ==
  [c EXCEPT !.fresh = @ \cup nodes,
            !.r.fast = [node \in n.fast |->
               IF node \in nodes THEN NodeInput(n, c.r, node) ELSE @[node]]]

SetWire(n, r, w, power) ==
  [r EXCEPT !.power = [@ EXCEPT ![w] = power],
            !.dirty = @ \cup n.dep[w],
            !.counts = [v \in n.wires |->
               IF v \in n.dep[w] THEN MoveBucket(@[v], Less1(r.power[w]), Less1(power))
               ELSE @[v]]]

WireChange(n, c, w, power) ==
  LET changed == SetWire(n, c.r, w, power) IN
  UpdateInputs(n, [c EXCEPT !.r = changed,
                            !.events = Append(@, [pos |-> w, power |-> power])],
               Stale(n, changed, w))

\* Mutant: a block told twice is never refreshed again.
EmitOnce(c, p) ==
  IF p \notin c.r.enabled
    THEN [c EXCEPT !.events = Append(@, [pos |-> p, input |-> Unknown])]
  ELSE IF p \in c.emitted THEN c
  ELSE [c EXCEPT !.emitted = @ \cup {p},
                 !.events = Append(@, [pos |-> p,
                    input |-> [known |-> TRUE, default |-> c.r.fast[p].default,
                               side |-> c.r.fast[p].side]])]

\* A block told twice is refreshed again only if its input is another.
Emit(c, p) ==
  IF p \notin c.r.enabled
    THEN [c EXCEPT !.events = Append(@, [pos |-> p, input |-> Unknown])]
  ELSE IF p \in c.emitted /\ p \notin c.fresh THEN c
  ELSE [c EXCEPT !.emitted = @ \cup {p}, !.fresh = @ \ {p},
                 !.events = Append(@, [pos |-> p,
                    input |-> [known |-> TRUE, default |-> c.r.fast[p].default,
                               side |-> c.r.fast[p].side]])]

RECURSIVE Propagate(_, _, _)
Propagate(n, c, targets) ==
  IF targets = <<>> THEN c
  ELSE LET p == Head(targets)
           clean == [c EXCEPT !.r.dirty = @ \ {p}]
           power == CompiledTarget(c.r, p)
       IN  IF p \notin n.wires THEN Propagate(n, Emit(c, p), Tail(targets))
           ELSE IF p \notin c.r.dirty \/ power = c.r.power[p]
             THEN Propagate(n, clean, Tail(targets))
           ELSE Propagate(n, WireChange(n, clean, p, power), n.ordered[p] \o Tail(targets))

PropagateFrom(n, r, origin) ==
  Propagate(n, [r |-> [r EXCEPT !.dirty = @ \cup {origin}],
                events |-> <<>>, emitted |-> {}, fresh |-> {}], <<origin>>)

-----------------------------------------------------------------------------
(* The application of the events to the world.  In batches the new powers  *)
(* lie over the world until the last event, and readers look through them. *)

Visible(acc) ==
  [p \in DOMAIN acc.world |->
     IF p \in DOMAIN acc.overlay THEN [acc.world[p] EXCEPT !.power = acc.overlay[p]]
     ELSE acc.world[p]]

ApplyWire(acc, event) ==
  IF batch
  THEN [acc EXCEPT !.overlay = [p \in DOMAIN @ \cup {event.pos} |->
                                  IF p = event.pos THEN event.power ELSE @[p]]]
  ELSE [acc EXCEPT !.world[event.pos].power = event.power]

ApplyEvent(acc, event) ==
  IF "power" \in DOMAIN event THEN ApplyWire(acc, event)
  ELSE Refresh(acc, Visible(acc), event.pos, event.input)

FlushOverlay(acc) == [acc EXCEPT !.world = Visible(acc), !.overlay = <<>>]

RECURSIVE ApplyAll(_, _)
ApplyAll(acc, events) ==
  IF events = <<>> THEN FlushOverlay(acc)
  ELSE ApplyAll(ApplyEvent(acc, Head(events)), Tail(events))

RECURSIVE Execute(_, _, _, _)
Execute(n, acc, r, agenda) ==
  IF agenda = <<>> THEN [acc |-> acc, rt |-> r]
  ELSE LET p == Head(agenda)
           Applied(c) == Execute(n, ApplyAll(acc, c.events), c.r, Tail(agenda))
       IN  IF IsWire(acc.world[p]) THEN Applied(PropagateFrom(n, r, p))
           ELSE Execute(n, Refresh(acc, acc.world, p, Unknown), r, Tail(agenda))

-----------------------------------------------------------------------------
(* The events.  A handler changes one block, tells the network of it, and  *)
(* leaves an agenda of blocks to tell.                                     *)

Init ==
  \E w \in Worlds : \E n \in Networks(w) :
    /\ world = w /\ net = n /\ rt \in Runtimes(n, w)
    /\ pend = <<>> /\ uses = 0 /\ bent = {} /\ batch \in BOOLEAN
    /\ verdict = [world |-> TRUE, ticks |-> TRUE, order |-> TRUE]

SameTicks(a, b) == ToSet(a) = ToSet(b) /\ Len(a) = Len(b)

\* update_neighbor_shapes: the wires beside a changed block take a new shape,
\* and after each that does, those beside it.
ShapeOrder == <<"west", "east", "north", "south", "down", "up">>

ShapeNeighbors(p) == [i \in 1 .. 6 |-> Next6(p, ShapeOrder[i])]

RECURSIVE Reshape(_, _)
Reshape(w, agenda) ==
  IF agenda = <<>> THEN w
  ELSE LET p == Head(agenda) IN
       IF ~IsWire(Block(w, p)) \/ WireShape(w, p) = w[p].open THEN Reshape(w, Tail(agenda))
       ELSE Reshape([w EXCEPT ![p].open = WireShape(w, p)], ShapeNeighbors(p) \o Tail(agenda))

Deliver(w, ticks, n, r, agenda, beside) ==
  \E i \in {Interpret([world |-> w, pend |-> ticks], agenda)},
     c \in {Execute(n, [world |-> w, pend |-> ticks, overlay |-> <<>>], r, agenda)} :
    /\ world' = Reshape(c.acc.world, beside)
    /\ pend' = c.acc.pend
    /\ rt' = InvalidateInputs(n, c.rt, {p \in DOMAIN w : IsWire(w[p]) /\ world'[p].open # w[p].open})
    /\ bent' = bent \cup (n.fast \ rt'.enabled)
    /\ net' = n /\ UNCHANGED batch
    /\ verdict' = [world |-> i.world = c.acc.world,
                   ticks |-> SameTicks(i.pend, c.acc.pend),
                   order |-> i.pend = c.acc.pend]

Source(w, p) == UpdateSource(net, rt, p, Output(w[p]))

\* use_block on a lever: its neighbours are told, and then once more together
\* with those of the block it is attached to.
UseLever(p) ==
  /\ world[p].kind = "lever" /\ uses < MaxUses
  /\ uses' = uses + 1
  /\ LET w == [world EXCEPT ![p].powered = ~@]
         attached == Next6(p, Opposite(AttachedDirection(world[p])))
     IN  Deliver(w, pend, net, Source(w, p),
                 Listening(w, NeighborsOf(p) \o NeighborsOf(p) \o NeighborsOf(attached)),
                 <<>>)

\* SetBlock and BreakBlock on a cell: the network is compiled again before
\* anybody is told, and the shapes follow when everybody has been told.
SetBlock(p, b) ==
  /\ uses < MaxUses /\ b # world[p]
  /\ uses' = uses + 1
  /\ \E w \in {[world EXCEPT ![p] = b]} : \E n \in Networks(w) : \E r \in Runtimes(n, w) :
       Deliver(w, pend, n, r, Listening(w, NeighborsOf(p)), ShapeNeighbors(p))

(* Scheduled ticks, in the order of their time, priority and scheduling.   *)

Due == {i \in DOMAIN pend : pend[i].due = 0}

Earliest(i) ==
  /\ i \in Due
  /\ \A j \in Due : pend[i].prio < pend[j].prio \/ (pend[i].prio = pend[j].prio /\ i <= j)

PassTick ==
  /\ pend # <<>> /\ Due = {}
  /\ pend' = [i \in DOMAIN pend |-> [pend[i] EXCEPT !.due = @ - 1]]
  /\ UNCHANGED <<world, net, rt, bent, batch, uses, verdict>>

NothingHappens(ticks) ==
  /\ pend' = ticks
  /\ UNCHANGED <<world, net, rt, bent, batch, verdict>>

\* A torch tells the neighbours of its neighbours, and then its neighbours.
TorchAgenda(p) ==
  FlattenSeq([i \in 1 .. 6 |->
     NeighborsOf(Next6(p, <<"down", "up", "north", "south", "west", "east">>[i]))])
  \o NeighborsOf(p)

TorchTick(p, ticks) ==
  IF TorchLit(world, p) = world[p].lit THEN NothingHappens(ticks)
  ELSE LET w == [world EXCEPT ![p].lit = ~@] IN
       Deliver(w, ticks, net, Source(w, p), Listening(w, TorchAgenda(p)), <<>>)

\* A repeater tells the block in front of it and that block's neighbours.
RepeaterAgenda(p) ==
  LET out == Opposite(world[p].facing)
      front == Next6(p, out)
  IN  <<front>> \o SelectSeq(NeighborsOf(front), LAMBDA q : q # p)

\* Mutant: a repeater that turns on does not look whether it must end again.
RepeaterTickForgets(p, ticks) ==
  LET on == DiodeInput(world, p) > 0
      w == [world EXCEPT ![p].powered = ~@]
  IN  IF RepeaterLocked(world, p) \/ (world[p].powered /\ on) THEN NothingHappens(ticks)
      ELSE Deliver(w, ticks, net, Source(w, p), Listening(w, RepeaterAgenda(p)), <<>>)

\* A repeater that is off turns on even if its input has ended meanwhile, and
\* then schedules its own end.
RepeaterTick(p, ticks) ==
  LET on == DiodeInput(world, p) > 0
      w == [world EXCEPT ![p].powered = ~@]
      next == IF ~world[p].powered /\ ~on
              THEN Append(ticks, [pos |-> p, due |-> 2, prio |-> 1]) ELSE ticks
  IN  IF RepeaterLocked(world, p) \/ (world[p].powered /\ on) THEN NothingHappens(ticks)
      ELSE Deliver(w, next, net, Source(w, p), Listening(w, RepeaterAgenda(p)), <<>>)

LampTick(p, ticks) ==
  /\ pend' = ticks
  /\ world' = IF IsPowered(world, p) THEN world ELSE [world EXCEPT ![p].lit = FALSE]
  /\ UNCHANGED <<net, rt, bent, batch, verdict>>

RunTick ==
  \E i \in Due :
    /\ Earliest(i)
    /\ UNCHANGED uses
    /\ \E ticks \in {RemoveAt(pend, i)}, p \in {pend[i].pos} :
         \/ world[p].kind = "torch" /\ TorchTick(p, ticks)
         \/ world[p].kind = "repeater" /\ RepeaterTick(p, ticks)
         \/ world[p].kind = "lamp" /\ LampTick(p, ticks)

Next ==
  \/ Due = {} /\ \E p \in DOMAIN world : UseLever(p)
  \/ Due = {} /\ \E p \in Cells \cap DOMAIN world, b \in Placed : SetBlock(p, b)
  \/ PassTick
  \/ RunTick

Spec == Init /\ [][Next]_vars

-----------------------------------------------------------------------------
(* Properties.                                                             *)

\* The compiled network is an accelerator only: whatever is pulled, placed or
\* broken, it leaves the blocks and the scheduled ticks that the rules would
\* have left (apply_compiled_ordered_wire_events against update_wire).
SameOutcome == verdict.world /\ verdict.ticks

\* It also schedules those ticks in the same order, so that the changes of the
\* ticks to come happen in the same order.
SameOrder == verdict.order

Wrong(p) ==
  LET b == world[p] IN
  CASE b.kind = "torch" -> b.lit # TorchLit(world, p)
    [] b.kind = "repeater" ->
         ~RepeaterLocked(world, p) /\ b.powered # (DiodeInput(world, p) > 0)
    [] b.kind = "lamp" -> b.lit # IsPowered(world, p)
    [] OTHER -> FALSE

\* When everybody has been told, every wire has the power its surroundings give
\* it, and nobody who should change has been forgotten: a torch, repeater or
\* lamp whose state does not fit its input has a scheduled tick.  (Only a node
\* whose wire took another shape may be forgotten: repair_shape tells nobody.)
Settled ==
  /\ \A p \in Wires(world) : world[p].power = TargetPower(world, p)
  /\ \A p \in DOMAIN world \ bent : Wrong(p) => Pending(pend, p)

InputExact(p) ==
  IF world[p].kind = "torch" THEN (rt.fast[p].default = 0) = TorchLit(world, p)
  ELSE /\ (rt.fast[p].default > 0) = (DiodeInput(world, p) > 0)
       /\ (rt.fast[p].side > 0) = RepeaterLocked(world, p)

\* Between events the copies in the compiled network are those of the world: the
\* outputs and wire powers, the direct power and the counts of predecessors of
\* each wire, and the inputs of the torches and repeaters it answers for.
RuntimeMirrors ==
  /\ rt.out = [s \in Sources(world) |-> Output(world[s])]
  /\ rt.power = [p \in Wires(world) |-> world[p].power]
  /\ rt.counts = Counts(net, rt.power)
  /\ \A w \in net.wires : rt.direct[w] = BlockPower(world, w)
  /\ rt.dirty = {}
  /\ \A p \in rt.enabled : InputExact(p)
=============================================================================
