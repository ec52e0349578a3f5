------------------------------ MODULE PlanGraph ------------------------------
(***************************************************************************)
(* The compiled graph: a node for every electrical block, kept in numbered *)
(* slots, with the plan by which a wire computes its power, and an index   *)
(* from positions to the nodes that depend on them.  After changes of the  *)
(* world a plan of invalidation says which nodes are compiled again, and   *)
(* whether the dense network beside the graph is.                          *)
(***************************************************************************)
EXTENDS Circuit

CONSTANTS
  Starts,        \* the worlds to start from
  Sites,         \* the positions whose blocks change
  Blocks,        \* the blocks that are put there
  ChangeLimit,   \* more changed positions than that: everything is compiled again
  LocalPercent,  \* and more affected positions than that share of the nodes
  MaxBatch,      \* bound: changes between two synchronisations
  MaxEdits       \* bound: changes altogether

\* What the module expects of a block: a torch and a diode have a facing.
IsBlock(b) ==
  /\ b = [f \in DOMAIN b |-> b[f]] /\ "kind" \in DOMAIN b
  /\ b.kind = "torch" => "facing" \in DOMAIN b /\ b.facing \in Horizontal \cup {"up"}
  /\ b.kind \in {"repeater", "comparator"} => "facing" \in DOMAIN b /\ b.facing \in Horizontal

ASSUME PlanAssumption ==
  /\ MaxEdits \in Nat /\ \A b \in Blocks : IsBlock(b)
  /\ \A w \in Starts :
       /\ IsFiniteSet(DOMAIN w) /\ DOMAIN w \subseteq Int \X Int \X Int
       /\ w = [p \in DOMAIN w |-> w[p]] /\ \A p \in DOMAIN w : IsBlock(w[p])

VARIABLES
  blocks,     \* the world
  changes,    \* the changes since the graph was last synchronised, in order
  graph,      \* the compiled graph
  dense,      \* whether there is a dense network
  netWorld,   \* what the dense network was last compiled from
  edits       \* changes so far

planVars == <<blocks, changes, graph, dense, netWorld, edits>>

-----------------------------------------------------------------------------
(* What the compiler reads from the world.                                 *)

NodeKinds == {"block", "wire", "torch", "repeater", "comparator", "lever"}

IsNode(b) == b.kind \in NodeKinds

\* topology_signature: a block without its power.
Signature(b) == [f \in DOMAIN b \ {"power", "powered", "lit"} |-> b[f]]

\* compile_wire_plan.
BlockInput(w, p) ==
  [constant |-> Block(w, p).kind = "block",
   sources |-> IF Conductor(Block(w, p))
               THEN {q \in {Next6(p, d) : d \in Directions} : ~IsWire(Block(w, q))}
               ELSE {}]

WirePlan(w, p) ==
  [inputs |-> [d \in Directions |-> BlockInput(w, Next6(p, d))],
   wires |-> WireNeighbors(w, p)]

\* direct_input_positions.
InputPositions(w, p) ==
  LET b == Block(w, p)
      rear == Next6(p, b.facing)
  IN  CASE b.kind = "torch" -> {Next6(p, TorchInput(b))}
        [] b.kind \in {"repeater", "comparator"} ->
             {rear, Next6(p, Clockwise(b.facing)), Next6(p, CounterClockwise(b.facing))}
             \cup (IF b.kind = "comparator" /\ Conductor(Block(w, rear))
                   THEN {Next6(rear, b.facing)} ELSE {})
        [] OTHER -> {}

WireDependencies(w, p) ==
  {Next6(p, d) : d \in Directions} \cup WireNeighbors(w, p)
  \cup UNION {BlockInput(w, Next6(p, d)).sources : d \in Directions}

\* rebuild_node: what a node knows of the world. Its kind is that of its
\* signature, which insert_node and recompile_positions set.
Rebuilt(w, node) ==
  LET wire == node.kind = "wire" IN
  [node EXCEPT !.state = Block(w, node.pos),
               !.needs = IF wire THEN WireDependencies(w, node.pos) ELSE InputPositions(w, node.pos),
               !.plan = IF wire THEN WirePlan(w, node.pos) ELSE <<>>]

NewNode(w, p) ==
  [pos |-> p, kind |-> Block(w, p).kind, state |-> Block(w, p), needs |-> {}, plan |-> <<>>]

-----------------------------------------------------------------------------
(* The graph.  A slot holds a node or <<>>, and counts how often it has    *)
(* been emptied; a node's id is its slot and that count.                   *)

EmptyGraph ==
  [slots |-> <<>>, free |-> <<>>, at |-> <<>>, rev |-> <<>>, edges |-> 0]

Live(g, id) == g.slots[id[1]].generation = id[2] /\ g.slots[id[1]].node # <<>>

Node(g, id) == g.slots[id[1]].node

DependentsOf(g, p) ==
  IF p \in DOMAIN g.rev THEN {Node(g, id).pos : id \in {i \in g.rev[p] : Live(g, i)}} ELSE {}

Positions(node) == {node.pos} \cup node.needs

\* insert_dependency_index and remove_dependency_index.
Indexed(g, id) ==
  LET here == Positions(Node(g, id)) IN
  [g EXCEPT !.edges = @ + Cardinality(Node(g, id).needs),
            !.rev = [p \in DOMAIN @ \cup here |->
               (IF p \in DOMAIN @ THEN @[p] ELSE {}) \cup (IF p \in here THEN {id} ELSE {})]]

Without(rev, here, id) == [p \in DOMAIN rev |-> IF p \in here THEN rev[p] \ {id} ELSE rev[p]]

WithoutEmpty(rev) == [p \in {q \in DOMAIN rev : rev[q] # {}} |-> rev[p]]

Unindexed(g, id) ==
  [g EXCEPT !.edges = @ - Cardinality(Node(g, id).needs),
            !.rev = WithoutEmpty(Without(@, Positions(Node(g, id)), id))]

\* insert_node: the slot freed last, or a new one.
Generation(g, slot) == IF slot \in DOMAIN g.slots THEN g.slots[slot].generation ELSE 0

InsertedAt(g, w, p, slot) ==
  [g EXCEPT !.slots = [i \in DOMAIN @ \cup {slot} |->
              IF i = slot THEN [generation |-> Generation(g, slot), node |-> NewNode(w, p)] ELSE @[i]],
            !.at = [q \in DOMAIN @ \cup {p} |->
                      IF q = p THEN <<slot, Generation(g, slot)>> ELSE @[q]]]

InsertNode(g, w, p) ==
  IF g.free = <<>>
  THEN InsertedAt(g, w, p, Len(g.slots) + 1)
  ELSE InsertedAt([g EXCEPT !.free = Front(@)], w, p, Last(g.free))

\* remove_node.
Emptied(g, id) ==
  [g EXCEPT !.slots[id[1]] = [generation |-> @.generation + 1, node |-> <<>>],
            !.free = Append(@, id[1]),
            !.at = [p \in DOMAIN @ \ {Node(g, id).pos} |-> @[p]]]

RemoveNode(g, id) == Emptied(Unindexed(g, id), id)

WithNode(g, id, node) == [g EXCEPT !.slots[id[1]].node = node]

RebuildNode(g, w, id) ==
  Indexed(WithNode(Unindexed(g, id), id, Rebuilt(w, Node(g, id))), id)

\* recompile_positions, for one position: a node stays in its slot while its
\* kind stays.
PlacedAt(g, w, p) ==
  LET known == p \in DOMAIN g.at
      keeps == known /\ Node(g, g.at[p]).kind = Block(w, p).kind
  IN  IF keeps THEN [g EXCEPT !.slots[g.at[p][1]].node.state = Block(w, p)]
      ELSE LET cleared == IF known THEN RemoveNode(g, g.at[p]) ELSE g IN
           IF IsNode(Block(w, p)) THEN InsertNode(cleared, w, p) ELSE cleared

\* The two passes over the positions, one after the other: the first places
\* nodes, the second builds and indexes them again.
Handled(pass, g, w, before, p) ==
  IF pass = "place" THEN PlacedAt(before, w, p) ELSE RebuildNode(before, w, g.at[p])

Passed(pass, g, w, positions) ==
  LET after[s \in SUBSET positions] ==
        IF s = {} THEN g
        ELSE LET p == CHOOSE q \in s : TRUE IN Handled(pass, g, w, after[s \ {p}], p)
  IN  after[positions]

RecompilePositions(g, w, positions) ==
  LET dependents == UNION {DependentsOf(g, p) : p \in positions}
      placed == Passed("place", g, w, positions)
  IN  Passed("rebuild", placed, w, (positions \cup dependents) \cap DOMAIN placed.at)

\* CompiledGraph::compile inserts, builds and indexes a node for every
\* electrical block, as if all of them were new.
Compile(w) == RecompilePositions(EmptyGraph, w, {p \in DOMAIN w : IsNode(w[p])})

-----------------------------------------------------------------------------
(* The plan of invalidation.                                               *)

\* Changes of power only; the graph keeps the states of blocks but of wires.
StateChangesAt(cs, p) ==
  {i \in DOMAIN cs : /\ cs[i].pos = p
                     /\ Signature(cs[i].old) = Signature(cs[i].new) /\ ~IsWire(cs[i].new)}

TopologyChanges(cs) == {c \in ToSet(cs) : Signature(c.old) # Signature(c.new)}

Topology(cs) == {c.pos : c \in TopologyChanges(cs)}

\* A wire that takes another shape leaves the dense network as it is.
NetworkTopology(cs) ==
  {c.pos : c \in {e \in TopologyChanges(cs) : ~(IsWire(e.old) /\ IsWire(e.new))}}

Near(p) == {p} \cup {Next6(p, d) : d \in Directions}

\* add_wire_closure: the wires within two blocks of a change, before or after
\* it, and those they reach.
WiresAround(g, w, positions) ==
  {q \in DOMAIN w :
     /\ \E p \in positions : \A i \in 1 .. 3 : q[i] - p[i] \in -2 .. 2
     /\ \/ q \in DOMAIN g.at /\ Node(g, g.at[q]).kind = "wire"
        \/ IsWire(w[q])}

WiresReached(g, w, positions) ==
  LET reached[n \in 0 .. Strength] ==
        IF n = 0 THEN WiresAround(g, w, positions)
        ELSE LET before == reached[n - 1] IN before \cup UNION {WireNeighbors(w, p) : p \in before}
  IN  reached[Strength]

Affected(g, w, positions) ==
  LET near == UNION {Near(p) : p \in positions}
      wires == WiresReached(g, w, positions)
      told == UNION {DependentsOf(g, p) : p \in near \cup wires}
  IN  near \cup wires \cup told

PlanOf(g, w, cs) ==
  LET changed == Topology(cs)
      local == IF dense /\ NetworkTopology(cs) = {} THEN {} ELSE Affected(g, w, changed)
  IN  IF changed = {} THEN [kind |-> "state"]
      ELSE IF Cardinality(changed) > ChangeLimit THEN [kind |-> "full"]
      ELSE IF /\ DOMAIN g.at # {}
              /\ Cardinality(local) * 100 > Cardinality(DOMAIN g.at) * LocalPercent
        THEN [kind |-> "full"]
      ELSE [kind |-> "local", positions |-> local]

-----------------------------------------------------------------------------
(* The steps.                                                              *)

\* apply_state_changes: of several at one position the last remains.
LatestState(cs, node) ==
  LET at == StateChangesAt(cs, node.pos)
  IN  IF at = {} THEN node.state ELSE cs[CHOOSE i \in at : \A j \in at : j <= i].new

StatesApplied(g, cs) ==
  LET told(node) == IF node = <<>> THEN node ELSE [node EXCEPT !.state = LatestState(cs, node)] IN
  [g EXCEPT !.slots = [i \in DOMAIN g.slots |->
                         [g.slots[i] EXCEPT !.node = told(g.slots[i].node)]]]

PlanInit ==
  /\ blocks \in Starts /\ dense \in BOOLEAN
  /\ changes = <<>> /\ edits = 0
  /\ graph = Compile(blocks) /\ netWorld = blocks

Edit(p, b) ==
  /\ edits < MaxEdits /\ Len(changes) < MaxBatch /\ b # blocks[p]
  /\ blocks' = [blocks EXCEPT ![p] = b]
  /\ changes' = Append(changes, [pos |-> p, old |-> blocks[p], new |-> b])
  /\ edits' = edits + 1
  /\ UNCHANGED <<graph, dense, netWorld>>

\* Mutant: changes of power that come with changes of shape are lost.
FollowShapes(plan) ==
  CASE plan.kind = "state" -> StatesApplied(graph, changes)
    [] plan.kind = "full" -> Compile(blocks)
    [] plan.kind = "local" -> RecompilePositions(graph, blocks, plan.positions)

Follow(plan) ==
  CASE plan.kind = "state" -> StatesApplied(graph, changes)
    [] plan.kind = "full" -> Compile(blocks)
    [] plan.kind = "local" ->
         RecompilePositions(StatesApplied(graph, changes), blocks, plan.positions)

SynchronizeGraph ==
  /\ changes # <<>>
  /\ graph' \in {Follow(plan) : plan \in {PlanOf(graph, blocks, changes)}}
  /\ netWorld' = IF NetworkTopology(changes) # {} THEN blocks ELSE netWorld
  /\ changes' = <<>>
  /\ UNCHANGED <<blocks, dense, edits>>

PlanNext ==
  \/ \E p \in Sites \cap DOMAIN blocks, b \in Blocks : Edit(p, b)
  \/ SynchronizeGraph

PlanSpec == PlanInit /\ [][PlanNext]_planVars

-----------------------------------------------------------------------------
(* Properties.                                                             *)

UpToDate == changes = <<>>

Ids(g) == {g.at[p] : p \in DOMAIN g.at}

Edges(g) == UNION {{p} \X Node(g, g.at[p]).needs : p \in DOMAIN g.at}

\* Slots, ids and the index of dependents fit together after every
\* synchronisation (CompiledGraph::validate, which release builds call only
\* after a full compilation): a node in every slot that is not free, an entry
\* for exactly the positions each node needs, and no entry of a node that is
\* gone.
Coherent ==
  LET nodes == {Node(graph, id) : id \in Ids(graph)} IN
  /\ \A p \in DOMAIN graph.at : Live(graph, graph.at[p]) /\ Node(graph, graph.at[p]).pos = p
  /\ {id[1] : id \in Ids(graph)} \cup ToSet(graph.free) = DOMAIN graph.slots
  /\ Cardinality(Ids(graph)) + Len(graph.free) = Len(graph.slots)
  /\ DOMAIN graph.rev = UNION {Positions(n) : n \in nodes}
  /\ \A p \in DOMAIN graph.rev :
       graph.rev[p] = {id \in Ids(graph) : p \in Positions(Node(graph, id))}
  /\ graph.edges = Cardinality(Edges(graph))

\* A dense network was compiled from a world with the blocks of this one:
\* whatever was changed since is power, and the shape of wires.
NetworkCurrent ==
  \A p \in DOMAIN blocks :
    \/ Signature(netWorld[p]) = Signature(blocks[p])
    \/ IsWire(netWorld[p]) /\ IsWire(blocks[p])

\* The nodes are those a fresh compilation of the world gives, with the same
\* plans and dependencies and the states of all blocks but wires.
NodesCurrent ==
    /\ DOMAIN graph.at = {p \in DOMAIN blocks : IsNode(blocks[p])}
    /\ \A p \in DOMAIN graph.at :
         LET known == Node(graph, graph.at[p])
             fresh == Rebuilt(blocks, NewNode(blocks, p))
         IN  /\ known.kind = fresh.kind /\ known.plan = fresh.plan /\ known.needs = fresh.needs
             /\ IsWire(blocks[p]) \/ known.state = fresh.state

\* Whatever batch of blocks changed and whichever part of the graph was
\* compiled again for it, a synchronised graph is the one a fresh compilation
\* gives, its slots and its index of dependents fit together, and the dense
\* network is one of this world (InvalidationPlan, CompiledRuntime::synchronize).
GraphExact == Coherent /\ (UpToDate => NetworkCurrent /\ NodesCurrent)
=============================================================================
