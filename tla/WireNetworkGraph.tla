-------------------------- MODULE WireNetworkGraph --------------------------
(***************************************************************************)
(* What the compiler of the ordered wire network reads from a world: which *)
(* wire depends on which, which source feeds which wire, whom a change of  *)
(* a wire tells and in what order, and from where a torch, a repeater or a *)
(* lamp gets its input.  Dense indices and compressed rows are functions   *)
(* over positions here.                                                    *)
(***************************************************************************)
EXTENDS Circuit

-----------------------------------------------------------------------------
(* The wires.                                                              *)

Predecessors(world) == [w \in Wires(world) |-> WireNeighbors(world, w)]

Dependents(world) ==
  [w \in Wires(world) |-> {v \in Wires(world) : w \in WireNeighbors(world, v)}]

Sources(world) == {p \in DOMAIN world : IsSource(world[p])}

\* The wires that source s feeds: directly, or through the conductor it
\* powers strongly; with the conductor used, or <<>> for a direct feed.
Feeds(world, s) ==
  LET b == world[s]
      Direct(d) == {<<Next6(s, Opposite(d)), <<>> >> : e \in {d} \cap {d2 \in Directions : ProvidesWeak(b, d2)}}
      Bridge(d) == Next6(s, Opposite(d))
      Through(d) == IF ProvidesStrong(b, d) /\ Conductor(Block(world, Bridge(d)))
                    THEN {<<Next6(Bridge(d), e), Bridge(d)>> : e \in Directions}
                    ELSE {}
  IN  {f \in UNION {Direct(d) \cup Through(d) : d \in Directions} :
         f[1] \in Wires(world)}

WireSources(world) ==
  [w \in Wires(world) |->
     {s \in Sources(world) : \E f \in Feeds(world, s) : f[1] = w}]

\* source_anchors: the wires to look at when a source, or a conductor that
\* one powers, changes.
Anchors(world, p) ==
  UNION {{f[1] : f \in {g \in Feeds(world, s) : s = p \/ g[2] = p}} : s \in Sources(world)}

\* starts_for_change: the wires a change at p may concern.
StartsForChange(world, p) ==
  LET near == {p} \cup {Next6(p, d) : d \in Directions} \cup
              {Next6(Next6(p, v), h) : v \in {"down", "up"}, h \in Horizontal}
  IN  (near \cap Wires(world)) \cup Anchors(world, p)

\* compile_ordered_wire_targets: whom a wire tells, in the order of its
\* neighbour updates; blocks that do not listen are left out.
OrderedTargets(world) == [w \in Wires(world) |-> Told(world, w)]

-----------------------------------------------------------------------------
(* The inputs of the other nodes.                                          *)

FastInput(b) == b.kind \in {"torch", "repeater"}

Nodes(world) ==
  {p \in DOMAIN world : IsSource(world[p]) \/ world[p].kind = "lamp"}

\* search_conductor: the wires a node reads through the conductor p.
ConductorRoots(world, p) ==
  {q \in {Next6(p, d) : d \in Directions} :
     \E d \in Directions : q = Next6(p, d) /\ IsWire(Block(world, q)) /\ WireProvides(world[q], d)}

ConductorSources(world, p) ==
  {q \in Sources(world) : \E d \in Directions : q = Next6(p, d) /\ ProvidesStrong(world[q], d)}

\* search_input: the wires and the sources a node reads at p, looking at it in
\* direction d; `always` when a wire need not point to the node.
InputRoots(world, p, d, always) ==
  LET b == Block(world, p) IN
  IF IsWire(b) THEN (IF always \/ WireProvides(b, d) THEN {p} ELSE {})
  ELSE IF Conductor(b) THEN ConductorRoots(world, p) ELSE {}

InputSources(world, p, d) ==
  LET b == Block(world, p) IN
  (IF IsSource(b) /\ ProvidesWeak(b, d) THEN {p} ELSE {})
  \cup (IF Conductor(b) THEN ConductorSources(world, p) ELSE {})

\* search_target: the places a node reads, as <<position, direction>>.
Inputs(world, node) ==
  LET b == world[node] IN
  CASE b.kind = "torch" -> {<<Next6(node, TorchInput(b)), TorchInput(b)>>}
    [] b.kind = "repeater" -> {<<Next6(node, b.facing), b.facing>>}
    [] b.kind = "lamp" -> {<<Next6(node, d), d>> : d \in Directions}
    [] OTHER -> {}

Roots(world, node) ==
  UNION {InputRoots(world, i[1], i[2], world[node].kind = "repeater") : i \in Inputs(world, node)}

\* search_repeater_side: only a diode that points at the side locks.
SideSources(world, node) ==
  IF world[node].kind # "repeater" THEN {}
  ELSE {q \in Sources(world) :
          \E d \in {Clockwise(world[node].facing), CounterClockwise(world[node].facing)} :
            q = Next6(node, d) /\ world[q].kind = "repeater" /\ ProvidesWeak(world[q], d)}

\* search_wire: the wires that reach the wire `root` in fewer than Strength
\* steps, with the distance they come over.
RECURSIVE Reached(_, _, _, _)
Reached(pred, seen, frontier, distance) ==
  IF frontier = {} \/ distance >= Strength THEN {}
  ELSE {<<w, distance>> : w \in frontier} \cup
       LET next == UNION {pred[w] : w \in frontier} \ seen IN
       Reached(pred, seen \cup next, next, distance + 1)

\* An edge: `via` is the wire the source feeds, `root` the wire the node reads;
\* both are <<>> when the node reads the source itself.
WireEdges(world, root) ==
  UNION {{[source |-> s, kind |-> "default", attenuation |-> r[2], via |-> r[1], root |-> root] :
            s \in WireSources(world)[r[1]]} :
         r \in Reached(Predecessors(world), {root}, {root}, 0)}

DirectEdge(source, kind) ==
  [source |-> source, kind |-> kind, attenuation |-> 0, via |-> <<>>, root |-> <<>>]

EdgesOf(world, node) ==
  UNION {WireEdges(world, root) : root \in Roots(world, node)}
  \cup {DirectEdge(s, "default") :
          s \in UNION {InputSources(world, i[1], i[2]) : i \in Inputs(world, node)}}
  \cup {DirectEdge(s, "side") : s \in SideSources(world, node)}

\* The order of wires, which are numbered by x, y, z; <<>> (no wire) is first.
Before(p, q) ==
  \/ p = <<>> /\ q # <<>>
  \/ /\ p # <<>> /\ q # <<>>
     /\ \/ p[1] < q[1]
        \/ p[1] = q[1] /\ p[2] < q[2]
        \/ p[1] = q[1] /\ p[2] = q[2] /\ p[3] < q[3]

\* deduplicate_edges: of the edges from one source to one input of a node only
\* the first is kept, sorted by attenuation, wire fed and wire read.
Sorts(f, e) ==
  \/ f.attenuation < e.attenuation
  \/ f.attenuation = e.attenuation /\ Before(f.via, e.via)
  \/ f.attenuation = e.attenuation /\ f.via = e.via /\ Before(f.root, e.root)

Deduplicated(edges) ==
  {e \in edges : ~ \E f \in edges : f.source = e.source /\ f.kind = e.kind /\ Sorts(f, e)}

\* fold_constants: an edge from a block of redstone becomes a constant.
ConstantInput(world, edges, kind) ==
  MaxOf({Strength - e.attenuation :
           e \in {f \in edges : world[f.source].kind = "block" /\ f.kind = kind}})

\* compile_input_ports: a port reads a wire, or a source directly.
PortsOf(world, edges) ==
  {[wire |-> e.root, source |-> IF e.root = <<>> THEN e.source ELSE <<>>, kind |-> e.kind] :
     e \in {f \in edges : world[f.source].kind # "block"}}

-----------------------------------------------------------------------------
(* The whole network.                                                      *)

NodeOf(world, edges) ==
  [default |-> ConstantInput(world, edges, "default"),
   side |-> ConstantInput(world, edges, "side"),
   ports |-> PortsOf(world, edges)]

\* direct_fast_targets: the torches and repeaters that read a source itself.
DirectTargets(world, source, edges) ==
  {n \in DOMAIN edges :
     /\ FastInput(world[n])
     /\ world[source].kind # "block"
     /\ \E e \in edges[n] : e.source = source /\ e.root = <<>>}

\* StaticNetwork::compile.
CompileFrom(world, edges) ==
  [wires |-> Wires(world),
   pred |-> Predecessors(world),
   dep |-> Dependents(world),
   sources |-> WireSources(world),
   ordered |-> OrderedTargets(world),
   fast |-> {n \in DOMAIN edges : FastInput(world[n])},
   nodes |-> [n \in DOMAIN edges |-> NodeOf(world, edges[n])],
   roots |-> [n \in DOMAIN edges |-> Roots(world, n)],
   direct |-> [s \in Sources(world) |-> DirectTargets(world, s, edges)],
   anchors |-> [s \in Sources(world) |-> Anchors(world, s)],
   starts |-> [p \in DOMAIN world |-> StartsForChange(world, p)]]

Networks(world) ==
  {CompileFrom(world, edges) :
     edges \in {[n \in Nodes(world) |-> Deduplicated(EdgesOf(world, n))]}}
=============================================================================
