# redstone-rs in TLA+

This directory specifies redstone-rs in TLA+: the engine that advances a world
by game ticks (scheduled ticks, neighbour updates, block events, block entities,
entities), the storage it works on, the rules of Java 26 that are hard to get
right (delayed components, comparators, wires, pistons, hoppers), the compiled
executor that replaces them, and the tools around the engine (the scenario
driver, the batch of tests, the replay writer and the renderer). TLC checks each
module on small instances; TLAPS proves the safety properties of fifteen of
them for every value of the constants.

A module is named after what it models, a definition, where it can be, after
the function it stands for. `PROJECT.json` maps every definition to the lines
it translates, and lists the runs, mutants, hazards, findings and theorems.

## 1. The system

A simulation is a world of blocks, the rules of one edition of the game, and an
engine that advances both by one game tick at a time. Everything below the
command line is sequential: there are no threads in the engine. What makes it
hard is that the rules are called back in the middle of the engine's own work,
change the world, the queues and the caches the engine is reading, start a
chain of further callbacks, and may fail at any point with the changes so far
in place. Around it, the command line runs scenarios concurrently, a writer
turns the changes into a recording, and a renderer turns a recording into video
through a GPU and another process.

| Component | State | Operations | Hard behaviour |
|---|---|---|---|
| Scheduled ticks (`redstone-core/src/scheduler.rs`) | ring of 256 slots, overflow map, key set, counter | insert, due batch, start execution, snapshot | insertion into the queues a batch is being executed from; delays past the ring; per-tick limit; clock saturation |
| Neighbour updates (`simulation.rs`, `event.rs`, `rules.rs` of the core) | task stack, update counter | broadcast, single update, deferred tick / block change / task | nested updates preempt the broadcast they come from; limit and errors drop the rest |
| Block entities (`world.rs`, `simulation.rs`, `rules.rs` of the core) | data, registration order, tickable set, touched positions | set, update, remove, replace by air; tick | cache refreshed only from touched positions; entities that vanish while being ticked |
| Step engine (`simulation.rs`) | three clocks, phase, block-event queue and keys, delta | step, apply, initialize, paste, region update | events that queue themselves; entries inserted into the delta afterwards; errors in any phase |
| World storage (`world.rs`) | palette sections in a map or an array; entities, ids, index by section | get and set blocks, optimise, list; spawn, move, remove, box query | two storages with one meaning; counts kept by differences; ids given and given out |
| Delayed components (`redstone-java-26/src/rules.rs`, `rules/observer.rs`) | block states, torch toggles | refresh, scheduled tick, use | decisions made now from inputs read earlier; order within a game tick |
| Comparator outputs (`rules.rs`, `rules/comparator*.rs`, `compiled/*`) | the rules' map, the executor's copy, the network's sources | refresh, tick, synchronise, load, fall back | three copies of one output; who hears of a change two blocks away |
| Pistons (`rules/piston.rs`) | moving block entities, block events, deferred tasks | resolve, extend, retract, settle | power that changes within the chain; pistons that move each other |
| Hoppers and containers (`rules/inventory*`) | slots, cooldowns, last ticks | transfer, commit, drop | a staged session over containers that refuse; order of ticks |
| Compiled graph and network (`redstone-java-26/src/compiled/*`) | graph, dense network, wire strengths | compile, invalidate, propagate | equality with the interpreter, in order |
| Execution strategy (`compiled/mod.rs`, `simulation.rs`) | mode, trace, graph, report, permanent fallback, recompilation window | configure, prepare, synchronise, propagate, switch the trace | stale graphs, rollback of a configuration, fallback for good |
| Scenario driver and batch (`redstone-cli/src/main.rs`) | sorted actions, samples, stability tracker; tasks, permits, temporary files | execute, judge; spawn, compare, join, report | overdue inputs; stability after the last input; tasks that fail or panic |
| Replay writer (`redstone-replay-26`) | protocol state, chunks sent, timestamps, three temporary files | record a delta, finish, drop | order of chunks and updates; clean-up on every path |
| Timelines (`redstone-cli`, `redstone-replay-26`, `redstone-render-26`) | keyframes | resolve, serialise, load, plan frames | four places with their own checks |
| Renderer (`redstone-render-26`) | meshes and their cache, readback buffers, encoder task and process | draw, read back, encode | invalidation across sections, back-pressure, an encoder that ends early |
| Input and output (`redstone-io`), vanilla oracle, registry, rest of the command line | none that lasts | read and write files, compare | packed formats |

How they interact: the host calls `Simulation::step` or `apply`. The engine
advances the clocks, then runs external actions, scheduled ticks, block events,
entities, block entities and probes, calling the rules for each item through
`with_context_and_changes_into_tasks`. A callback gets an `EventContext`, which
writes to the world and to the tick and event queues at once and collects
neighbour tasks, changes and touched positions. When the callback returns, even
with an error, the engine records the changes, lets the executor synchronise
its graph, refreshes the tickable set, and then runs the neighbour tasks, whose
callbacks go the same way. The changes of a step leave as one delta, which the
driver hands to the replay writer and its stability tracker; the archive and
the render trace the writer leaves are what the renderer reads.

## 2. Modules

```
 specification                                   run by                proved in
 ScheduledTicks <- TickWheel                     MCTickWheel           TickWheelProofs
 UpdateTasks <- UpdateAgenda, UpdateChain        MCStep                StepProofs
 StepEngine                                      MCStep                StepProofs
 BlockEntityTicks                                MCWorld               WorldProofs
 BlockMap <- SectionStore                        MCWorld               WorldProofs
 EntityIndex                                     MCWorld               WorldProofs
 CompiledExecutor                                itself                CompiledProofs
 DelayedComponents                               MCDelayedComponents   ComponentsProofs
 AnalogSignals <- Comparators                    MCDelayedComponents   ComponentsProofs
 Containers <- HopperTransfer                    MCHopperTransfer,     HopperProofs
                                                 MCMechanisms
 PistonStructure <- Pistons                      MCPistons, MCMechanisms
 Circuit <- WireNetworkGraph <- WireNetwork      MCNetwork
 Circuit <- PlanGraph                            MCNetwork             CompiledProofs
 ReplayWriter                                    MCRecording           RecordingProofs
 ScenarioRun                                     MCRecording           RecordingProofs
 ScenarioBatch                                   MCRecording           RecordingProofs
 ReplayTimeline                                  MCRecording
 VideoRenderer                                   MCVideo               VideoProofs
```

The modules share no variables; each treats the others' part of a callback as
"any of the things it may do". So a property of one holds for every behaviour
of the others, and the instances stay small. An MC module that runs several of
them lets a behaviour follow one and keeps the others at rest: it is a way to
run them together, not a composition.

**`ScheduledTicks`, `TickWheel`.** The abstract module is a set of pending
ticks, at most one per position and block kind, and one batch per game tick,
executed by trigger tick, priority and insertion, at most `Limit` entries.
`TickWheel` is `ScheduledTickQueue` statement by statement: the slot of a
trigger tick if it is free or holds that tick, else the overflow map; a tick
already in the overflow map stays there. The engine's part is the batch copied
by `due_batch`, `start_execution` of each entry, and `Schedule` at any moment,
which is what makes the assertions of `start_execution` interesting.
`OneHome`, `SlotInv` and `FiledInOrder` (together `WheelConsistent`) and
`KeysAgree` describe the structure; `ExecutionStable` says the two `expect`s and
the assertion of `start_execution` hold; `BoundedLateness` bounds how late the
limit makes a tick, where the history variable `lost` counts the game ticks
given up after an error; `RefinesScheduledTicks` is the refinement, with the
entries of the slots and of the overflow map as the pending set.

**`UpdateTasks`, `UpdateAgenda`, `UpdateChain`.** A chain is a tree of tasks, a
task named by its place in it. `UpdateAgenda` is the promise: a list of
notifications and deferred tasks, taken from the front, whatever one emits put
before the rest. `UpdateChain` is the stack of
`process_neighbor_tasks_with_changes`, where a broadcast stays on the stack and
advances in place around its skipped direction, and the tasks of a callback are
pushed in reverse. `RefinesAgenda` says that the stack is the agenda: nothing
is lost, repeated or taken out of order.

**`StepEngine`.** The phases of `step_with_pastes_and_actions` and of the
operations between steps, the clocks, `run_block_events` with the key set, and
the insertion of the executed event at a remembered index of the delta.
`QueueAgrees`, `EventsFirst`, `ClocksTogether`; `QueuedEventsRun` is the
liveness property.

**`BlockEntityTicks`.** Blocks, block entities and the registration order of
`SparseWorld`; `Edit` is any of the changes of `EventContext`, with its early
returns; `RefreshNext` is the refresh loop; the last actions are
`run_block_entities`. The history variable `view` replays the recorded events.
`RegistriesAgree` is order and tickable set together, `DeltaComplete` that the
recorded events, replayed, give the world.

**`BlockMap`, `SectionStore`.** `BlockMap` is a map from positions to states.
`SectionStore` is the palette section, the sparse map and the array over the
bounding box, with the index arithmetic of `DenseSections` in both directions;
`RefinesBlockMap` and `WellFormed`.

**`EntityIndex`.** Entities, ids and the section index, on one axis:
`EntitiesIndexed`.

**`CompiledExecutor`.** `CompiledExecutor` and the parts of `Simulation` that
drive it. The graph is abstracted to whether it agrees with the world: a change
makes a running graph stale, a synchronisation makes it fresh or fails. Whether
a compilation or a synchronisation succeeds is any value. `GraphFresh`,
`GraphOnlyWhereAllowed`, `WindowExact` and the action property
`CompiledOrError`.

**`DelayedComponents`.** Torch, repeater, comparator, observer, lamp, lever and
button. A circuit is a sequence of parts, each with the parts it reads at its
rear and at its sides; a wire or a conductor between two of them is a link that
loses some strength. A callback changes one part, schedules ticks and tells the
parts that read it (`Fed`) or watch it (`Watching`); `Settle` is the chain of
updates after it, in which each of those decides once, in any order, whether it
asks for a tick. That once is enough because no part but a lamp, which nothing
reads the strength of, changes within the chain. The actions are `initialize`,
what a player does, and `on_scheduled_tick` for each kind of part.
`Settled` says that no part without a pending tick is wrong; `BurnsOutExactly`
and `PulsesKeepLength` are action properties against the histories `offs` (the
ages of a torch's goings-out, per torch) and `since` (the age of a part's last
change), which the code does not keep.

**`AnalogSignals`, `Comparators`.** What a comparator reads of eleven kinds of
blocks and their block entities, as operators; and a line of blocks in which
comparators read what is behind them, or behind a conductor, with the three
places that keep their outputs. Actions are `SetBlock`, a use, `SetBlockEntity`,
a paste, an update of a position, a change at a side, the scheduled tick, and
the executor's `Configure`, `Prepare` and `Fallback`. `ComparatorsRight` says
that the three copies agree, that a comparator without a pending tick gives what
it should, and that the signal of a container tells empty and full ones. The
history variable `unheard` collects the comparators of which the code itself
tells nobody (listed in section 6); for every other one the property is exact.

**`Containers`, `HopperTransfer`.** What may lie in which slot of which
container, and the callbacks of a game tick: droppers, dispensers and crafters,
minecarts and items on the ground, then the hoppers in tick order. A transfer
works on a session, a staged copy of what it touches, and commits it.
`ItemsConserved`, `SameDelayInEitherOrder`, `ChangesAreNotified`.

**`PistonStructure`, `Pistons`.** The resolver (`resolve_push_structure`) as
operators beside a reference closure; refreshes, the three block events, pulls,
deferred tasks and settlement as actions, while the signals around are toggled
at any moment. `StructureExact`, `MovementConsistent`, `NothingLost`.

**`Circuit`, `WireNetworkGraph`, `WireNetwork`.** Blocks in space and the power
they give; what the compiler of the ordered network reads from a world; and a
program that runs each event twice, by the rules (`Interpret`) and by the network
(`Execute`), and compares. `SameOutcome`, `Settled`, `RuntimeMirrors`, and
`SameOrder`, which the code does not keep (section 4).

**`PlanGraph`.** The graph of electrical blocks in numbered slots, the index of
dependents and the plan of invalidation. `GraphExact`: after any changes the
graph is the one a fresh compilation gives.

**`ScenarioRun`, `ScenarioBatch`.** `execute_scenario` over a simulation that may
show anything: `InputsOnTime`, `VerdictRight` and `StableExact` (together
`ScenarioRight`). And `test_path`: tasks under permits, comparison with the
game's trace, files, panics: `BatchRight`.

**`ReplayWriter`, `ReplayTimeline`.** The writer over what a viewer makes of its
packets, with failures and a kill at any point: `ViewerSeesWorld`,
`OutputWholeAndClean`. The timelines from the scenario's keyframes to the
planned frames, as operators: `TimelineFollowed`.

**`VideoRenderer`.** `render_replay`'s loop, the meshes of a scene, the readback
slots, and the encoder's channel, task and process: `FramesExact`,
`RenderingEnds`.

Every action is a whole handler, or one iteration of a loop of one where
callbacks come between iterations; guards are the code's conditions, and an
error path is an action or an outcome of its own. Definitions whose comment
begins "Mutant of" are not part of a specification: each is a plausible bug
that must break the property it is listed with.

## 3. Runs

| Run | Question | Instance |
|---|---|---|
| `tick_wheel` | is the wheel consistent and the batch stable under scheduling, how late can a tick be, and does it implement the queue? | 3 keys, 2 priorities, 2 slots, delays 0 to 3, limit 1, 4 insertions, 5 game ticks, failing callbacks |
| `step` | do queue, delta and clocks survive failures and overflow, is every queued event executed, and is the task stack the agenda? | 3 events that may queue themselves forever, clocks to 4 that start at 0, 1 and 2, 3 changes, 4 entries; 3 directions, 2 tasks per callback, 4 tasks, limit 4 |
| `world` | are the sections a map of blocks, the index exact, the registries and the delta complete? | 3 sections in a box of 4 by 3 by 2, 2 cells, 3 states, those but air interchangeable; points -2 to 2, ids 1, 3, 4 given, 1 to 4 given out; 2 positions with block entities, 3 changes per callback |
| `compiled_executor` | can a stale or abandoned graph run? | every mode, window 3, limit 3, 6 ticks, 5 recompilations |
| `delayed_components` | is any component left wrong, does a torch burn out exactly when it should, has every pulse its length, and does every comparator hear? | five circuits of 3 or 4 parts, loaded in any state, signals to 2, a burnout at the third time in 8 game ticks; two lines of 5 blocks, 2 changes from outside |
| `mechanisms` | are items and blocks conserved, comparators told, and does the resolver find what moves? | 13 layouts of hoppers; five worlds in which pistons move, on a plane of 6 by 2, 4 switches; thousands of worlds at rest for the resolver |
| `network` | does the compiled network leave what the rules leave, and is a recompiled graph a fresh one? | six circuits, strength 3, 4 uses of levers or blocks; a graph of 8 positions, 3 changes |
| `recording` | does the driver judge rightly, a batch report what happened, a recording show the world or not exist, and do timelines lead to their frames? | five scenarios; three tests under 2 permits; 4 columns, one refused, 3 ticks, a view distance of 2 chunks; thousands of time and camera paths |
| `video` | does every frame written show its moment, and does rendering end? | 3 sections of 2 cells, 2 poses, 4 frames, 2 slots, a channel of 1, a cache of 2 meshes |
| `wire_order`, `video_missing`, `stability_without_replay` | the three findings, each a violation of a sentence of the documentation | one circuit of `network` and one use; the instance of `video`; that of `recording` |

Why the bounds suffice. The wheel with two slots has every collision: a delay of
3 laps it, a released slot can be taken by the other tick of its residue while
the overflow map still holds one, and with limit 1 the backlog is split in the
middle of a queue. A chain of four tasks has a broadcast within a broadcast with
something emitted before and after, and a skipped first, middle and last
direction; the limit is reached with tasks left. Three events give the
block-event queue an order and a middle; the three start values make each clock
the first to overflow. Three sections off a line give the box three different
sizes and a section whose index outside the box falls inside the array. Two
positions give the block entities an order, and three changes in a callback let
an entity go and come back with another block. The window needs more ticks than
its length and more recompilations than its limit. The five circuits are two
repeaters that lock each other; a torch that feeds itself beside one that only a
lever turns, so that their toggles share the queue; a button's pulse through a
repeater longer than the pulse, with an observer and a lamp; two observers that
watch each other through a lamp; and a comparator that subtracts its own output,
whose result locks a repeater. The burnt-out torch stays out longer than the
window, as in the code (160 and 60), and `Horizon` is past every delay. In five
blocks two comparators can read the same container, one of them through a stone,
and one can feed another. Stacks of two items fill and empty a slot within a few
transfers, and the chain of hoppers runs in three orders of its ticks. Strength 3
in place of 15 lets a wire of three steps reach the limit. Four columns have two
in one chunk, one far from it and one the protocol refuses; a camera may be
inside or outside of the view distance. Two slots and a channel of one are full
with four frames.

Deadlock is checked except where the system stops: at the last game tick and
insertion of the wheel, at the end of a scenario, a batch, a recording or a video,
and when the uses and changes of `network` are used up.

Fairness. `StepEngine` assumes that callbacks return and that a loop that can go
on does (weak fairness of `ReturnFromCallback`, `StartEvent`, `EndEvent`,
`EndEvents`: sequential code that is not blocked), that a phase makes finitely
many callbacks and so ends (strong fairness of `BeginEvents` and `End`: each phase
but the block events iterates over a batch copied before its first callback, and
between two callbacks its end is possible), and that the host keeps stepping
(strong fairness of `BeginStep`, as it may also call other operations). It does
not assume that block events stop queueing each other, which the code does not
ensure. `ScenarioBatch` assumes that the loop of `test_path` and each of its tasks
go on when they can (weak fairness of `Spawn`, `Join`, `Report` and of each task's
own actions: the tokio runtime polls a task that is ready, and a task runs to its
end without waiting for others but for a permit). `VideoRenderer` assumes weak
fairness of the render loop, of the task that feeds the encoder, and that FFmpeg
ends once its input has; it does not assume that FFmpeg takes frames, it may die
at any moment.

## 4. Findings

1. `docs/perf.md:440` says that the compiled path keeps the order of the
   neighbour stack. A source that feeds two wires at once marks neither of them
   dirty, so the compiled network updates the second when its own notification
   comes, the rules in the middle of what the first one tells
   (`runtime.rs:160`, `wire_order`). Two repeaters behind the wires are then
   scheduled in the other order. `SameOutcome` shows that blocks and ticks are
   still the same, their order apart.
2. `docs/impl.md:365` says that only the camera's frustum and the shadow range
   limit what is drawn. `rebuild_visible` looks sections up again only when the
   pose changes, so under a fixed camera a section that was empty at the first
   frame and gets a block later never gets a mesh (`scene.rs:209`, `video_missing`).
3. `docs/impl.md:303` says that stability takes 20 ticks without delta events.
   Events are recorded only for a replay, so without one the tracker counts ticks
   without scheduled ticks, and blocks may change after the stable tick it
   reports (`main.rs:801`, `stability_without_replay`).

Smaller differences met on the way, none of which a run is spent on. Deferred
work runs in the middle of the chain, not after it (`docs/impl.md:55`). Block
entities tick in the order in which they became tickable, not in that of their
registration (`docs/impl.md:45`). Switching the trace clears the window of
recompilations (`docs/impl.md:65`). After the id `u64::MAX` was given,
`spawn_entity` gives it out again (`docs/impl.md:33`). `ReplayWriter::new` leaves
the trace file behind when the writer of the trace fails (`docs/impl.md:356`).
`BreakBlock` never calls `affect_neighbors_after_removal`, so that a wire two
blocks from a broken torch stays powered; a wire, a diode or a comparator placed
with `SetBlock` is not itself updated; a wire that `SetBlock` gives another power
is not reported to the network's runtime. `paste_world` loads the world anew and
loses the outputs of comparators that no block entity holds. One half of a double
chest that changes does not refresh the comparators behind the other half.
`torch_toggles` is not cleared by `load_world`. A dropper passes no item
components on. `refresh_powered_consumer` computes its second state from the
original block and so overwrites `powered`. A container that holds more than its
`capacity` (64 where no field gives it) loses items when a dropper or a crafter
faces it, as `count.min(capacity - current)` is negative then (`inventory.rs:361`),
and its comparators are not told; `docs/impl.md:195` says that a target that
refuses leaves the items where they are.

## 5. Proofs

Each `...Proofs` module proves, for every value of the constants allowed by the
named assumptions of the modules, `Init => IInv`, `IInv /\ [Next]_vars => IInv'`
and from them the properties, with PTL for the temporal step. What each run checks
and a theorem states is the same definition.

- **`TickWheelProofs`.** `IInv` is `TypeOK`, `OneHome`, `SlotInv`, `FiledInOrder` and
  `BatchIsFront`. The last one is the strengthening that matters:
  `ExecutionStable` alone speaks of one entry and is not inductive; that every
  remaining batch queue is a prefix of the live queue is, because an insertion
  has the largest order so far and goes to the end (`FiledInOrder`), of a queue
  that is where it was (`OneHome`), and executing takes the head of both. Lemmas
  state what `InsertOrdered` and `PopQueue` do to `Queues`. `KeysExact` adds the
  keys. `ImplementsScheduledTicks` is the refinement: filing an entry adds it to
  the pending set, wherever it is filed, a batch is the due ticks in the order
  of the abstract queue, cut at the limit. `LatenessBounded` needs `LateInv`: for
  every pending tick, `Limit` times the game ticks it has waited, with the pending
  ticks that are not after it (`Ahead`) and what this game tick has executed so
  far (`Spent`), never exceeds the number of keys; its one hypothesis is that the
  limit is not 0.
- **`StepProofs`.** For the engine, `Split` and `Bounded`: the entries before
  `index` were made before the running event and the ones after it since, and no
  entry is later than the changes made; so an insertion at `index` keeps the
  order. For the chain, `ImplementsAgenda`: the agenda of a stack is what remains
  of its tasks from the top down. What is pushed in reverse comes first and in
  the order it was emitted (`AgendaPushed`); a broadcast that advances in place
  leaves what its directions are without the one notified now (`OneDirection`,
  the three places of the skipped direction; `AdvancedLeaves`); one that is
  exhausted has nothing left (`NoneLeft`). So every action takes the front of
  the agenda, drops it whole, or leaves it.
- **`WorldProofs`.** Block entities: `Lag` says that a position whose tickable
  entry is wrong is one of the touched positions still to be refreshed, and that
  nothing is touched between callbacks. Entities: the sections hold exactly the
  ids of their entities (`SectionsExact`), the section of a point grows with the
  point, so a box query misses nobody, and the counter is past every id in use
  (`CounterPast`), so a new id collides with none. Blocks: a position in the box
  and its index in the array determine each other (mixed radix), a palette holds
  a state once and so cannot outgrow the states, and a section that is neither in
  the map nor in the array is air; from this, `ImplementsBlockMap` and
  `SectionsWellFormed`.
- **`CompiledProofs`, the executor.** `Sound` says that an executor agrees with itself (a
  graph excludes a diagnostic, a permanent fallback and an interpreted report),
  `Ready` that a prepared one can run or has given up for good, `Phases` that a
  stale graph has an unsynchronised change behind it. Each operation of the
  executor has a lemma that it keeps an executor sound. `WindowCounted` follows
  the queue of recompilations against the history of all of them: what was
  dropped is too old, and the rest is in order.
- **`CompiledProofs`, the graph.** `GraphIsExact`, for any finite worlds, blocks and
  limits and batches of any length, with and without a dense network. `Whole` holds
  a graph together (slots, free list, positions, index of dependents, count of
  edges) for the nodes that are indexed, so that it can be kept while others are
  not yet: removing, inserting, building and indexing a node each keep it. The two
  passes over the changed positions are recursive functions over sets, followed one
  position at a time: after the first the kinds are right and new nodes have no
  needs, after the second they have those of the world (`RecompileRight`; a
  compilation starts from the empty graph, `CompileRight`). What a node depends on
  is kinds of blocks around it, for a wire also around those (`SameCompiled`). So a
  node outside the affected positions is right already: every change of shape is
  further away than it looks, and of changes of power it has the last
  (`StillMatches`). `GraphInv` carries the world the graph was compiled from and what
  the changes since say of the difference (`Since`): without it a batch that changes
  a block twice could not be told from one that changes it once.
- **`ComponentsProofs`, delayed components.** `NoPartLeftBehind`: `IInv` is `Settled` with the
  shape of the state and that the block state of a comparator agrees with its
  output, without which a comparator in subtract mode would drop a tick it
  needs. A part that does not read the one that changes sees what it saw before
  (`Unaffected`), all that do are told, and a part that is told and wrong asks for
  a tick or has one (`Settles`). `PulsesAsLong` follows the scheduled ticks
  (`Punctual`): a tick pending for a part is no earlier than its delay after its
  last change. `TorchesBurnOutExactly` counts the goings-out in the queue of
  toggles per torch, a recursive function over the queue; it needs that the torch
  stays out longer than the window (`BurnDelay > BurnWindow`, 160 and 60 in the
  code) and that the model's ages reach past both. Circuits are arbitrary, so all
  three cover every feedback loop and every order of updates.
- **`ComponentsProofs`, comparators.** For lines of every length: the caches agree (`CachesAgree`),
  the line keeps its shape, and every comparator that is not due and was told
  gives what it should (`Informed`). The output depends on the two positions
  behind it (`SameOutput`), and one step changes one position, or tells every
  reader of another. That an empty container, a full one and one in between give
  different signals is arithmetic: the fill as a running fraction.
- **`HopperProofs`.** Items are a sum over the cells (place and slot) and the stacks
  on the ground. The first part proves what such a sum does when one cell changes,
  when two do, and when each of a sequence of distinct slots grows by what it is
  poured; `Poured` gives the slots of the insertion order together exactly the
  count or fills them all. Sums and pours are recursive functions; inductions go
  by the least member of a set of counterexamples. A session then has a `Weight`
  per item (staged slots, ground, spent), and each step of a transfer says what it
  does to it: `Inserts` adds what it reports, `Removes` takes one, `Transfers`,
  `Pulls` and `Moves` keep it, also when they fail half way. Every action is
  `Steady`: it keeps the type, the items, the fit of every stack and tells the
  comparators of what it changed. `HopperTyped` is the type; `HopperDelays` needs
  `DelayInv` (a hopper's `ticked` is "now" exactly when its callback has passed,
  and its cooldown is what `Remaining` says), for chains of any length in any
  order. `HoppersConserve`, `HoppersRespect` and `HoppersNotify` take a hypothesis,
  `Roomy`: nothing lies over the capacity of what a dropper or a crafter faces.
  Without it they are false of the code (section 4, smaller differences).
  `AmpleHoppers` discharges it from the plan alone: no stack starts over full, and
  the capacity is that of full slots, which is what the reader of structures sets
  (`redstone-io/src/structure.rs:431`). `NoShelves` leaves out droppers that face a
  jukebox or a bookshelf, for which `can_place_in_slot` has a rule only on the
  path hoppers take.
- **`VideoProofs`.** `VideoExact`, for every trace, plan, number of slots and size of
  the channel. `SceneAgrees` ties the loop to the last frame it made: its scene is
  a run of the trace's frames from the first scene, wherever planned frames cut
  that run (`Follows`), the meshes in the buffers are those of the visible
  sections, and the key is that frame's. Meshes are reused from a cache, which is
  right because an entry belongs to the blocks it is kept for (`CacheOK`), a mesh
  depends on its section and the blocks next to it (`Near`), and a change disturbs
  all sections it can show in. A frame with an unchanged key repeats the picture
  before it: equal keys mean equal scenes, unless something moves, and then the
  key holds the time; this is where `SettledInTime` is needed (section 6). The ring
  of readback slots hands out no slot in flight (`RingInv`), and what is in flight
  and being sent covers, repetitions included, the frames from the first one not
  sent to the last one made (`Spans`).
- **`RecordingProofs`, the writer.** `ViewerSees`: the chunks sent lie within the radius
  announced before them, so the viewer keeps them all; a chunk is sent empty
  once and before any update in it; and while a delta is written, each position
  shows its final state or has the events to come that bring it there
  (`Catching`). `OutputRight`: which of the three files exist in which state of the
  writer, on every path.
- **`RecordingProofs`, the driver.** The sorted list of actions is split at the current tick into
  what was given, what is due and what is later; the quiet ticks that last until
  now are the interval the tracker counts. It needs `Confirm >= 1`.
- **`RecordingProofs`, the batch.** `BatchReportsRight`: for any number of tests and permits, any
  traces and any failures. The permits left and the tasks that hold one make up
  all of them; every file of the game's trace has a task under way that removes
  it; a task that passed its comparison has two traces that agree; a result is
  that of a task that ended.

The assumptions are facts of the code: sizes are positive, the bound of a chain
covers what it starts with, ids given out end below the last one. TLC evaluates
every one of them, and `Assumption` of each module says what it is.

Model-checked only:

- what liveness or ENABLED is part of: `QueuedEventsRun`, that a batch ends
  (`BatchEnds`), `RenderingEnds`;
- what rests on RECURSIVE operators, which exclude a module from proofs:
  `MovementConsistent`, `StructureExact`, `NothingLost` (the resolver walks the
  structure), `SameOutcome`, `Settled` of the wires, `RuntimeMirrors` (propagation);
- `TimelineFollowed`, which states what algorithms return for bounded inputs.

## 6. What is abstracted or left out

The core

- Inside a callback the rules do anything the core lets them. This makes the
  core's properties stronger than the rules need.
- `TickWheel` does not bound `sub_tick_order` at its 64-bit end; `MaxOrder` bounds
  the instance. `MaxBorn` bounds the tasks of a chain, so that a rule task that
  defers itself forever is not modelled.
- `SectionStore` assumes no more block states than a palette can hold, which the
  registry ensures. Section coordinates are far from the ends of i32.
- `EntityIndex` takes positions from the integers on one axis; `SpawnBound` below
  `MaxId` keeps the counter from saturating.
- `CompiledExecutor` leaves out the limit of synchronisation passes and the
  comparator cache (which is in `Comparators`). That the window is cleared when
  the tick goes back is unreachable, as the tick never does.
- The delta channel, the trace, probes and the random state are not modelled.

The rules

- `DelayedComponents` has no positions: wires and conductors are links, placing,
  breaking and moving components are left out, and so are the limits of ticks and
  updates. `Init` is a world with no pulse under way and with comparators whose
  stored output agrees with their block state. The first matters: scheduled ticks
  are not part of a loaded world, so a button saved while it was on has no tick
  that would end its pulse. The second too: a comparator in subtract mode that is
  loaded with `powered` against its output is never corrected, as in the game.
- `Comparators` is a line of blocks in place of space; the signals at the sides are
  external; wires and redstone blocks are not in the line. One field stands for
  `comparator_output` and `OutputSignal`. Jukeboxes, sculk sensors, creaking
  hearts, statues, detector rails, item frames and double chests are left out.
  Compilation and synchronisation succeed there, and a fallback for a change
  elsewhere is one action. The ticks of one game tick run in any order. `unheard`
  exempts a comparator that was placed itself, the readers through a stone of one
  that was placed, broken or turned, and what a paste changes or loading forgets.
  Fill levels are exact fractions, as f32 is for stack sizes that are powers of two.
- `HopperTransfer`: the field `slot_count` is given; item components, loot tables,
  ages and despawning, the block states of `sync_special_state` and failures of a
  commit are left out; a plan gives which boxes touch. `hopper_last_tick` is
  relative: never, before, now. `Drops` is a bound; `Capacity` is the field
  `capacity`, or 64. The assumption on plans describes a layout: a hopper's own
  place is not among those it moves items to or from, and what a dropper faces is
  made of blocks.
- `Pistons`: a plane in place of space, surrounded by blocks that do not move; the
  power is external, and a position whose power changes is notified (`MaxSwitches`
  bounds this). Positions that do not react are dropped from a notification and
  the rest refresh in any order. Settlement is counted in ticks to go. Observers,
  shape updates, the orientation of updates, moved block entities and errors of a
  rule within an event are left out. `PushLimit` is the code's.
- `Circuit`, `WireNetwork`: small coordinates that are not negative; strength 3 in
  place of 15; the network's rows and dense ids are functions over positions.
  Supports that do not conduct, comparators, buttons and plates are left out, and
  torch burnout; repeaters have their shortest delay. The network's epochs are
  sets started afresh at each propagation; its signal cache, which every update
  but a wire's clears, is left out. Failed propagation, rollback and disabled
  wires cannot occur with the sources modelled. `bent` exempts nodes whose wire
  changed its shape, of which `repair_shape` tells nobody. The experimental wire
  update is not modelled.
- `PlanGraph`: hash sets are iterated in a fixed order; a limit of 2 changes stands
  for 4096, 400 percent for 25; one world of 8 positions. A wire's `node.state` may
  be stale by design.

The tools

- `ReplayWriter`: packets are what a viewer makes of them. That ticks come in order
  cannot fail under the driver. `timeline.start_tick` is left out, and the
  parameters of block events; other block entities are part of "a write fails".
  A writer that failed is only dropped.
- `ReplayTimeline`: exact fractions in place of floats; the cubic and the
  Catmull-Rom curves are left out.
- `ScenarioRun`: the simulation shows any probe, change and pending ticks.
  `ScenarioBatch`: traces from a small set.
- `VideoRenderer`: a section is a line of cells, a frustum a set of sections; the
  growth of GPU buffers, collisions of mesh keys and the filter of required chunks
  are left out. A trace settles a moving block (`SettledInTime`) by a frame no later
  than its settle time, as the writer of traces does (`trace.rs:195`), or the
  plan ends before it. After the encoder is dropped FFmpeg's task may still create its
  temporary file, which no property speaks of.
- Not modelled at all, with the reason in `PROJECT.json`: shape updates and
  removals, the registry, the value types and the facade, structure files and
  scenario parsing, the rest of the command line, and the comparison with the game.

## 7. Plan

In this order.

1. Placing, breaking and replacing components in `DelayedComponents`, with the
   ticks a removed component leaves behind.
2. The resolver and the propagation as recursive functions in place of RECURSIVE
   operators, to bring pistons and wires within reach of the prover.
3. A composition of `StepEngine` with `TickWheel` and `UpdateChain`, to check the
   order of phases that each takes for granted.
