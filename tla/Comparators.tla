----------------------------- MODULE Comparators -----------------------------
(***************************************************************************)
(* redstone-java-26/src/rules.rs: what comparators read, how they hear of  *)
(* a change of it, and where their outputs are kept: a map of the rules,   *)
(* its copy in the compiled executor (compiled/mod.rs) and the source      *)
(* powers of the compiled network (compiled/runtime.rs).                   *)
(*                                                                         *)
(* The blocks stand in a line, and a block faces along it: the rear of a   *)
(* comparator at p that faces f is at p + f and its output goes to p - f.  *)
(* The strongest signal at the sides of a comparator comes from elsewhere. *)
(***************************************************************************)
EXTENDS AnalogSignals

CONSTANTS
  Length,      \* the positions are 1 .. Length
  Starts,      \* the worlds to start from: block, held and side of every position
  Placed,      \* the blocks that actions put
  Contents,    \* what actions put in a block entity
  Pasted,      \* blocks with their block entities, as pastes put them
  SideLevels,  \* the strengths of the signals at the sides
  MaxEdits     \* bound on the changes from outside

Positions == 1 .. Length
BlockStates ==
  [kind : AnalogKinds \cup {"air", "stone", "comparator"}, level : Int, facing : {-1, 1},
   subtract : BOOLEAN]
BlockEntities ==
  [slots : Seq(Int \X (Nat \ {0})), disabled : SUBSET Int, number : Int, pages : Int, saved : Int]

ASSUME ComparatorsAssumption ==
  /\ Length \in Nat
  /\ Starts \subseteq [block : [Positions -> BlockStates], held : [Positions -> BlockEntities],
                       side : [Positions -> Int]]
  /\ Placed \subseteq BlockStates
  /\ Contents \subseteq BlockEntities
  /\ Pasted \subseteq [block : BlockStates, held : BlockEntities]
  /\ SideLevels \subseteq Int

VARIABLES
  world,    \* block, held (block entities) and side, by position
  outputs,  \* comparator_outputs of the rules, by position
  copy,     \* comparator_outputs of the compiled executor
  live,     \* whether the executor has a runtime
  source,   \* the powers of the comparators in its network
  due,      \* the scheduled ticks of comparators: game ticks left, by position
  stage,    \* "load", "rest" (between steps), "actions" or "ticks"
  edits,    \* changes from outside so far
  unheard   \* the comparators nothing told of a change (history)

memory == <<outputs, copy, source>>
comparatorVars == <<world, memory, live, due, stage, edits, unheard>>

Air == [kind |-> "air", level |-> 0, facing |-> 1, subtract |-> FALSE]

Block(w, p) == IF p \in Positions THEN w.block[p] ELSE Air
Held(w, p) == IF p \in Positions THEN w.held[p] ELSE NoData
IsComparator(w, p) == Block(w, p).kind = "comparator"
Conductor(w, p) == Block(w, p).kind \in {"stone", "container"}
Comparators(w) == {p \in Positions : IsComparator(w, p)}
Rear(w, p) == p + Block(w, p).facing
ShowsPower(w, p) == Block(w, p).level = 1

Put(w, p, block, held, side) ==
  [block |-> [w.block EXCEPT ![p] = block], held |-> [w.held EXCEPT ![p] = held],
   side |-> [w.side EXCEPT ![p] = side]]

-----------------------------------------------------------------------------
(* What a comparator computes from the world w and the outputs o.          *)

Output(o, p) == IF p \in DOMAIN o THEN o[p] ELSE 0
With(o, p, n) == [q \in DOMAIN o \cup {p} |-> IF q = p THEN n ELSE o[q]]
Removed(o, p) == [q \in DOMAIN o \ {p} |-> o[q]]

DirectSignal(w, o, p, direction) ==
  IF IsComparator(w, p) /\ Block(w, p).facing = direction THEN Output(o, p) ELSE 0

Signal(w, o, p, direction) ==
  IF Conductor(w, p) THEN Max({DirectSignal(w, o, p + d, d) : d \in {-1, 1}})
  ELSE DirectSignal(w, o, p, direction)

Analog(w, p, facing) == AnalogOutput(Block(w, p), Held(w, p), -facing)

AnalogInput(w, o, p) ==
  LET facing == Block(w, p).facing
      rear == p + facing
      far == rear + facing
      direct == Signal(w, o, rear, facing)
  IN  IF HasAnalogOutput(Block(w, rear)) THEN Analog(w, rear, facing)
      ELSE IF direct < 15 /\ Conductor(w, rear) /\ HasAnalogOutput(Block(w, far))
      THEN Analog(w, far, facing)
      ELSE direct

ComparatorOutput(w, o, p) ==
  LET input == AnalogInput(w, o, p)
      side == w.side[p]
  IN  IF side > input THEN 0 ELSE IF Block(w, p).subtract THEN input - side ELSE input

-----------------------------------------------------------------------------
(* Refreshing: a comparator asks for a tick, unless it waits for one.      *)

Refreshed(w, o, pending, S) ==
  LET asks == {p \in S \cap Comparators(w) : /\ p \notin DOMAIN pending
                                             /\ LET output == ComparatorOutput(w, o, p)
                                                IN  \/ Output(o, p) # output
                                                    \/ ShowsPower(w, p) # (output > 0)}
  IN  [p \in DOMAIN pending \cup asks |-> IF p \in asks THEN 2 ELSE pending[p]]

\* Mutant of Near: only what stands right behind a comparator counts.
NearRightBehind(w, p) == {q \in Comparators(w) : Rear(w, q) = p}

\* refresh_comparators_near: in front of the position, or behind a conductor.
Near(w, p) ==
  {q \in Comparators(w) : \/ Rear(w, q) = p
                          \/ Conductor(w, Rear(w, q)) /\ Rear(w, q) + Block(w, q).facing = p}

Beside(p) == {p - 1, p + 1}
WithNear(w, p, S) == S \cup Near(w, p)

\* The comparators that read a comparator through a conductor.
Behind(w, S) == UNION {{q \in Near(w, p) : Rear(w, q) # p} : p \in S}

-----------------------------------------------------------------------------
(* The caches.                                                             *)

\* synchronize_comparator_cache, for a change of the block at p from w to v.
Cached(o, w, v, p) ==
  IF IsComparator(w, p) /\ ~IsComparator(v, p) THEN Removed(o, p)
  ELSE IF ~IsComparator(w, p) /\ IsComparator(v, p)
  THEN With(o, p, Clamp(0, Held(v, p).saved, 15))
  ELSE o

Signature(b) ==
  IF b.kind = "comparator" THEN [b EXCEPT !.level = 0]
  ELSE IF b.kind \in {"stone", "container"} THEN [Air EXCEPT !.kind = b.kind] ELSE Air

Network(w, o) == [q \in Comparators(w) |-> Output(o, q)]

\* The network is compiled again, or learns of the change of a state.
Sourced(w, v, p, o) ==
  IF ~live THEN source
  ELSE IF Signature(Block(w, p)) # Signature(Block(v, p)) THEN Network(v, o)
  ELSE IF IsComparator(v, p) THEN [source EXCEPT ![p] = Output(o, p)]
  ELSE source

Synchronize(v, p) ==
  /\ outputs' = Cached(outputs, world, v, p)
  /\ copy' = Cached(copy, world, v, p)
  /\ source' = Sourced(world, v, p, copy')

\* load_world: what the block entities of comparators say, and no more.
Loaded(w) ==
  [p \in {q \in Comparators(w) : Held(w, q) # NoData} |-> Clamp(0, Held(w, p).saved, 15)]

\* replace_comparator_outputs: the network hears of every output that differs.
Replaced(net, previous, now) ==
  [p \in DOMAIN net |->
     IF p \in DOMAIN now /\ (p \notin DOMAIN previous \/ previous[p] # now[p]) THEN now[p]
     ELSE IF p \in DOMAIN previous \ DOMAIN now THEN 0
     ELSE net[p]]

-----------------------------------------------------------------------------
ComparatorsInit ==
  /\ world \in Starts
  /\ outputs = Loaded(world)
  /\ copy = Loaded(world)
  /\ source = <<>>
  /\ live = FALSE
  /\ due = <<>>
  /\ stage = "load"
  /\ edits = 0
  /\ unheard = {}

\* initialize: every comparator is refreshed.
InitializeLine ==
  /\ stage = "load"
  /\ stage' = "rest"
  /\ due' = Refreshed(world, outputs, due, Positions)
  /\ UNCHANGED <<world, memory, live, edits, unheard>>

BeginStep ==
  /\ stage = "rest"
  /\ stage' = "actions"
  /\ due' = [p \in DOMAIN due |-> due[p] - 1]
  /\ UNCHANGED <<world, memory, live, edits, unheard>>

EndStep ==
  /\ stage \in {"actions", "ticks"}
  /\ \A p \in DOMAIN due : due[p] > 0
  /\ stage' = "rest"
  /\ UNCHANGED <<world, memory, live, due, edits, unheard>>

Acts(at) == stage = at /\ edits < MaxEdits /\ edits' = edits + 1 /\ UNCHANGED <<live, stage>>

\* SetBlock, BreakBlock and a use, all by set_state_and_notify: comparators
\* near hear of the change of an analog block before the caches do, and the
\* neighbours after them. A comparator that is placed hears nothing, nor do
\* those that read a comparator through a conductor.
Change(p, v, also) ==
  LET near == IF HasAnalogOutput(Block(world, p)) \/ HasAnalogOutput(Block(v, p))
              THEN WithNear(v, p, also) ELSE also
      moved == {q \in {p} \ also : IsComparator(world, q) \/ IsComparator(v, q)}
  IN  /\ world' = v
      /\ Synchronize(v, p)
      /\ due' = Refreshed(v, outputs', Refreshed(v, outputs, due, near), Beside(p))
      /\ unheard' = (((unheard \ near) \cup moved \cup Behind(world, moved) \cup Behind(v, moved))
                      \cap Comparators(v)) \ (also \cup Beside(p))

WithBlock(w, p, b) == Put(w, p, b, IF b.kind = "air" THEN NoData ELSE w.held[p], w.side[p])
WithState(w, p, b) == Put(w, p, b, w.held[p], w.side[p])

SetBlock(p, b) ==
  /\ Acts("actions")
  /\ b # world.block[p]
  /\ Change(p, WithBlock(world, p, b), {})

UseComparator(p) ==
  /\ Acts("actions")
  /\ IsComparator(world, p)
  /\ Change(p, WithState(world, p, [world.block[p] EXCEPT !.subtract = ~@]), {p})

SetBlockEntity(p, held) ==
  /\ Acts("actions")
  /\ world' = Put(world, p, world.block[p], held, world.side[p])
  /\ due' = Refreshed(world', outputs, due, Near(world, p))
  /\ unheard' = unheard \ Near(world, p)
  /\ UNCHANGED memory

\* A wire at the side of a comparator, say, changes its power.
SideChanges(p, level) ==
  /\ Acts("actions")
  /\ IsComparator(world, p) /\ level # world.side[p]
  /\ world' = Put(world, p, world.block[p], world.held[p], level)
  /\ due' = Refreshed(world', outputs, due, {p})
  /\ unheard' = unheard \ {p}
  /\ UNCHANGED memory

\* on_scheduled_tick: the output of now goes to the caches; when it changed
\* or the comparator compares, its state follows and what it feeds is told.
\* The tick of a comparator that is gone does nothing.
OutputTick(p, output) ==
  LET v == WithState(world, p, [world.block[p] EXCEPT !.level = IF output > 0 THEN 1 ELSE 0])
      follows == Output(outputs, p) # output \/ ~Block(world, p).subtract
      facing == Block(world, p).facing
      told == IF follows THEN {p - facing, p - 2 * facing} ELSE {}
  IN  /\ outputs' = With(outputs, p, output)
      /\ copy' = With(copy, p, output)
      /\ source' = IF live THEN [source EXCEPT ![p] = output] ELSE source
      /\ world' = IF follows THEN v ELSE world
      /\ due' = Refreshed(world', outputs', Removed(due, p), told)
      /\ unheard' = unheard \ (told \cup {p})

RunDue(p) ==
  /\ stage \in {"actions", "ticks"}
  /\ p \in DOMAIN due /\ due[p] = 0
  /\ stage' = "ticks"
  /\ \/ /\ IsComparator(world, p)
        /\ \E output \in {ComparatorOutput(world, outputs, p)} : OutputTick(p, output)
     \/ /\ ~IsComparator(world, p)
        /\ due' = Removed(due, p)
        /\ UNCHANGED <<world, memory, unheard>>
  /\ UNCHANGED <<live, edits>>

\* paste_world, of one position: nobody is told, and load_world forgets every
\* output that is not in a block entity.
Paste(p, b, held) ==
  LET v == Put(world, p, b, held, world.side[p])
      now == Loaded(v)
      lost == {q \in Comparators(v) : Output(now, q) # Output(outputs, q)}
      readers == UNION {Near(v, q) : q \in lost \cup {p}}
  IN  /\ Acts("rest")
      /\ world' = v
      /\ outputs' = now
      /\ copy' = now
      /\ source' = Replaced(Sourced(world, v, p, Cached(copy, world, v, p)),
                            Cached(copy, world, v, p), now)
      /\ unheard' = (unheard \cup lost \cup readers \cup {p}) \cap Comparators(v)
      /\ UNCHANGED due

\* apply_update_side_effects, by which a pasted region is updated.
UpdatePosition(p) ==
  /\ Acts("rest")
  /\ due' = Refreshed(world, outputs, due, {p} \cup Beside(p))
  /\ unheard' = unheard \ ({p} \cup Beside(p))
  /\ UNCHANGED <<world, memory>>

\* configure drops the runtime, prepare compiles one.
Configure ==
  /\ stage = "rest" /\ live
  /\ live' = FALSE
  /\ source' = <<>>
  /\ UNCHANGED <<world, outputs, copy, due, stage, edits, unheard>>

Prepare ==
  /\ stage = "rest" /\ ~live
  /\ live' = TRUE
  /\ source' = Network(world, copy)
  /\ UNCHANGED <<world, outputs, copy, due, stage, edits, unheard>>

\* restore_interpreted_caches: the runtime is given up for a change elsewhere.
Fallback ==
  /\ live /\ stage # "load"
  /\ live' = FALSE
  /\ source' = <<>>
  /\ outputs' = [p \in DOMAIN copy \cap Comparators(world) |-> copy[p]]
  /\ copy' = outputs'
  /\ UNCHANGED <<world, due, stage, edits, unheard>>

ComparatorsNext ==
  \/ InitializeLine \/ BeginStep \/ EndStep \/ Configure \/ Prepare \/ Fallback
  \/ \E p \in Positions :
       \/ RunDue(p) \/ UseComparator(p) \/ UpdatePosition(p)
       \/ \E b \in Placed : SetBlock(p, b)
       \/ \E b \in Pasted : Paste(p, b.block, b.held)
       \/ \E held \in Contents : SetBlockEntity(p, held)
       \/ \E level \in SideLevels : SideChanges(p, level)

ComparatorsSpec == ComparatorsInit /\ [][ComparatorsNext]_comparatorVars

-----------------------------------------------------------------------------
\* The maps of the rules and of the executor are the same and name only
\* comparators, and the network's sources agree with them
\* (synchronize_comparator_cache, cache_comparator_output, load_world).
CachesAgree ==
  /\ outputs = copy
  /\ DOMAIN outputs \subseteq Comparators(world)
  /\ live => source = Network(world, outputs)

\* A comparator that waits for no tick gives what it should now, and its
\* state shows it: it heard of every change of what it reads, were it of a
\* block behind another (refresh_comparators_near). Those nothing told are
\* left out, and the state of one that subtracts, which follows its output
\* only when that changes.
Informed ==
  stage # "load" =>
    \A p \in Comparators(world) \ (unheard \cup DOMAIN due) :
      \E output \in {ComparatorOutput(world, outputs, p)} :
        /\ Output(outputs, p) = output
        /\ ~Block(world, p).subtract => ShowsPower(world, p) = (output > 0)

\* What a container gives is 0 when it is empty, and 15 only when it is full
\* (container_signal_from_fill).
Graded ==
  \A p \in Positions :
    LET slots == Held(world, p).slots
        full == \A n \in DOMAIN slots : slots[n][1] >= slots[n][2]
        empty == \A n \in DOMAIN slots : slots[n][1] <= 0
    IN  slots # <<>> => /\ (ContainerSignal(slots) = 0) = empty
                        /\ (ContainerSignal(slots) = 15) = full

\* The outputs of comparators are the same wherever they are kept, a
\* comparator hears of every change of what it reads, and what it reads of a
\* container tells an empty one and a full one (rules.rs, comparator_outputs).
ComparatorsRight == CachesAgree /\ Informed /\ Graded
=============================================================================
