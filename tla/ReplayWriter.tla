---------------------------- MODULE ReplayWriter ----------------------------
(***************************************************************************)
(* The writer of recordings: redstone-replay-26/src/lib.rs (ReplayWriter)  *)
(* and trace.rs (RenderTraceWriter), used as redstone-cli/src/main.rs does *)
(* (created before the first step, given every delta, finished at the end, *)
(* dropped after any error). Three temporary files take the packets, the   *)
(* archive and the render trace; the archive is renamed to the output.     *)
(*                                                                         *)
(* The packets are represented by what a viewer has made of them. Columns  *)
(* stand for positions and are partitioned into chunks; a moving piston is *)
(* the one block entity, known by its settle tick. Writing may fail at any *)
(* point, and the process may be killed.                                   *)
(***************************************************************************)
EXTENDS Integers, Sequences, FiniteSets, FiniteSetsExt

CONSTANTS
  Positions,    \* columns <<x, z>>
  Refused,      \* those of them at a height or coordinate the protocol lacks
  Edge,         \* the edge of a chunk, 16 in the code
  Region,       \* the chunks of the source region
  Cameras,      \* chunks the camera may be in
  ViewDistance, \* options.camera.view_distance
  Worlds,       \* the worlds a recording may start with
  MaxTick,      \* bound on the ticks
  TickMillis,   \* TICK_MILLIS, 50 in the code
  MaxStamp,     \* i32::MAX in the code
  NoOutput      \* what is at the output path before

Air == "air"
Moving == "moving_piston"
Blocks == {Air, Moving, "stone"}
NoMover == 0
Foreign == -1   \* a moving piston without the fields of this program
SettleDelay == 2

ASSUME ReplayAssumption ==
  /\ IsFiniteSet(Positions) /\ Positions \subseteq Int \X Int
  /\ Edge \in Nat \ {0}
  /\ IsFiniteSet(Region) /\ Region \subseteq Int \X Int
  /\ Cameras \subseteq Int \X Int /\ ViewDistance \in Nat
  /\ MaxTick \in Nat /\ TickMillis \in Nat /\ MaxStamp \in Nat
  /\ \A w \in Worlds :
       /\ w \in [block : [Positions -> Blocks], mover : [Positions -> Int]]
       /\ \A p \in Positions : w.mover[p] # NoMover => w.block[p] = Moving

VARIABLES
  world,    \* the simulated world: a state and a mover for every position
  tick,     \* its tick
  status,   \* how far the writer is
  pending,  \* the events of the delta that are not recorded yet
  rec,      \* the recording: what the writer keeps and what a viewer sees
  trace,    \* the render trace: what a reader of it sees
  lastTick, \* last_tick
  temp,     \* the temporary files that exist
  packed,   \* what the archive holds
  output    \* what is at the output path

vars == <<world, tick, status, pending, rec, trace, lastTick, temp, packed, output>>

-----------------------------------------------------------------------------
\* Geometry of chunks
Chunk(p) == <<p[1] \div Edge, p[2] \div Edge>>
Expanded(chunks) ==
  UNION {(c[1] - 1 .. c[1] + 1) \X (c[2] - 1 .. c[2] + 1) : c \in chunks}
Abs(n) == IF n < 0 THEN -n ELSE n
Distance(c, d) == Max({Abs(c[1] - d[1]), Abs(c[2] - d[2])})

\* The chunks that hold something.
Occupied(w) == {Chunk(p) : p \in {q \in Positions : w.block[q] # Air \/ w.mover[q] # NoMover}}

Stamp(t) == t * TickMillis

-----------------------------------------------------------------------------
\* The viewer of a recording. It keeps the chunks within its radius; an update
\* of a block in a chunk it does not have is lost, and another block takes the
\* block entity away.

EmptyView == [loaded |-> {}, block |-> [p \in Positions |-> Air],
              mover |-> [p \in Positions |-> NoMover], center |-> <<0, 0>>, radius |-> 0, clock |-> 0]

SeenChunks(view, chunks, w) ==
  LET kept == {c \in chunks : Distance(c, view.center) <= view.radius}
      shown(old, new) == [p \in Positions |-> IF Chunk(p) \in kept THEN new[p] ELSE old[p]]
  IN [view EXCEPT !.loaded = @ \cup kept,
        !.block = shown(view.block, w.block), !.mover = shown(view.mover, w.mover)]

SeenEvent(view, e) ==
  IF Chunk(e.pos) \notin view.loaded THEN view
  ELSE CASE e.kind = "block" ->
              [view EXCEPT !.block[e.pos] = e.state,
                           !.mover[e.pos] = IF e.state = view.block[e.pos] THEN @ ELSE NoMover]
         [] e.kind = "data" -> [view EXCEPT !.mover[e.pos] = e.settle]
         [] OTHER -> view

-----------------------------------------------------------------------------
\* write_packet: packets carry a timestamp that never decreases.
CanSend(r, stamp) == stamp >= r.stamp
Sent(r, stamp, view) ==
  [r EXCEPT !.stamp = stamp, !.packetStamp = stamp, !.view = [view EXCEPT !.clock = stamp]]

EmptyWorld == [block |-> [p \in Positions |-> Air], mover |-> [p \in Positions |-> NoMover]]

Missing(r, c) == Expanded({c}) \ r.loaded

Needed(r, c) ==
  Max({Distance(d, r.center) : d \in Missing(r, c)} \cup {ViewDistance})

WithRadius(r, stamp, radius) ==
  IF radius <= r.radius THEN r
  ELSE [Sent(r, stamp, [r.view EXCEPT !.radius = radius]) EXCEPT !.radius = radius]

\* Mutant of WithChunks: the chunks are not remembered.
WithChunksForgotten(r, stamp, chunks, w) == Sent(r, stamp, SeenChunks(r.view, chunks, w))

WithChunks(r, stamp, chunks, w) ==
  [Sent(r, stamp, SeenChunks(r.view, chunks, w)) EXCEPT !.loaded = @ \cup chunks]

\* ensure_chunk_area: chunks around a change that were not sent yet are sent,
\* empty, after a larger radius if they need one.
Ensured(r, stamp, c) ==
  IF Missing(r, c) = {} THEN r
  ELSE WithChunks(WithRadius(r, stamp, Needed(r, c)), stamp, Missing(r, c), EmptyWorld)

\* record_event: a removed block entity and an event of another block than a
\* piston need no packet.
EventRecorded(r, stamp, e) ==
  IF e.kind = "removed" THEN r
  ELSE LET ready == Ensured(r, stamp, Chunk(e.pos))
       IN Sent(ready, stamp, SeenEvent(ready.view, e))

-----------------------------------------------------------------------------
\* The mover that an event about a moving piston leaves
MoverOf(e) == IF e.kind = "data" THEN e.settle ELSE NoMover

\* The render trace: a frame for a delta that changes blocks or movers.
Framed(t, stamp, events) ==
  LET at(kinds, p) == {i \in DOMAIN events : events[i].kind \in kinds /\ events[i].pos = p}
      last(kinds, p) == events[Max(at(kinds, p))]
      pistons == {"data", "removed"}
  IN IF \A i \in DOMAIN events : events[i].kind = "event" THEN t
     ELSE [clock |-> stamp, ticks |-> t.ticks,
       block |-> [p \in Positions |-> IF at({"block"}, p) = {} THEN t.block[p]
                                      ELSE last({"block"}, p).state],
       mover |-> [p \in Positions |-> IF at(pistons, p) = {} THEN t.mover[p]
                                      ELSE MoverOf(last(pistons, p))]]

-----------------------------------------------------------------------------
Init ==
  /\ world \in Worlds
  /\ tick = 0 /\ status = "none" /\ pending = <<>> /\ lastTick = 0
  /\ rec = [loaded |-> {}, center |-> <<0, 0>>, radius |-> ViewDistance, stamp |-> 0,
            packetStamp |-> 0, view |-> EmptyView]
  /\ trace = [block |-> EmptyWorld.block, mover |-> EmptyWorld.mover, clock |-> 0, ticks |-> 0]
  /\ temp = {} /\ packed = NoOutput /\ output = NoOutput

outside == <<world, tick, lastTick, pending, packed, output>>

\* ReplayWriter::new. A file that cannot be created takes the earlier ones
\* with it; a render trace that cannot be written stays.
CreateRecording ==
  /\ status = "none"
  /\ \/ status' = "recording" /\ temp' = {"recording"}
     \/ status' = "refused" /\ UNCHANGED temp
  /\ UNCHANGED <<outside, rec, trace>>

CreateArchive ==
  /\ status = "recording"
  /\ \/ status' = "archive" /\ temp' = temp \cup {"archive"}
     \/ status' = "refused" /\ temp' = temp \ {"recording"}
  /\ UNCHANGED <<outside, rec, trace>>

\* RenderTraceWriter::new creates the file, then writes the world into it.
CreateTrace ==
  /\ status = "archive"
  /\ \/ /\ \A p \in Positions : world.mover[p] # Foreign
        /\ status' = "created" /\ temp' = temp \cup {"trace"}
        /\ trace' = [trace EXCEPT !.block = world.block, !.mover = world.mover]
     \/ /\ status' = "refused" /\ UNCHANGED trace
        /\ \E made \in SUBSET {"trace"} : temp' = (temp \cup made) \ {"recording", "archive"}
  /\ UNCHANGED <<outside, rec>>

\* write_initial_world: the chunks of the region and those that hold something,
\* with their neighbours, all within the radius that is sent first.
InitialChunks == Expanded(Region \cup Occupied(world))

WriteInitialWorld ==
  /\ status = "created"
  /\ \A p \in Refused : world.block[p] = Air /\ world.mover[p] = NoMover
  /\ \E camera \in Cameras :
       LET radius == Max({Distance(c, camera) : c \in InitialChunks} \cup {ViewDistance})
           centered == [rec EXCEPT !.center = camera, !.radius = radius,
                                   !.view.center = camera, !.view.radius = radius]
       IN rec' = WithChunks(centered, 0, InitialChunks, world)
  /\ status' = "open"
  /\ UNCHANGED <<outside, trace, temp>>

\* Any write, and any encoding, may fail; the caller then drops the writer
\* (Drop for ReplayWriter), as it does when the simulation fails.
Fails ==
  /\ status \in {"created", "open", "delta", "anchored", "traced", "packed"}
  /\ status' = "dropped" /\ temp' = {}
  /\ UNCHANGED <<outside, rec, trace>>

-----------------------------------------------------------------------------
\* What can happen at a position in a step, as the events of the delta.
Block(p, state) == [kind |-> "block", pos |-> p, state |-> state]
Data(p, t) == [kind |-> "data", pos |-> p, settle |-> t + SettleDelay]
Removed(p) == [kind |-> "removed", pos |-> p]
Event(p) == [kind |-> "event", pos |-> p]

\* A piston moves a block away or to a place, a block that moved settles, a
\* block appears or goes, a piston's block event is executed.
Changes(w, p, t) ==
  {<<Event(p)>>} \cup
  (IF w.mover[p] # NoMover
   THEN {<<Removed(p), Block(p, "stone")>>, <<Block(p, Air), Removed(p)>>}
   ELSE {<<Block(p, Moving), Data(p, t)>>,
         <<Block(p, IF w.block[p] = Air THEN "stone" ELSE Air)>>})

\* A step changes up to two positions.
Both(w, p, q, t) == {a \o b : a \in Changes(w, p, t), b \in Changes(w, q, t)}
Deltas(w, t) ==
  LET pairs == {d \in Positions \X Positions : d[1] # d[2]}
  IN {<<>>} \cup (UNION {Changes(w, p, t) : p \in Positions})
            \cup (UNION {Both(w, d[1], d[2], t) : d \in pairs})

Applied(w, e) ==
  [block |-> [p \in Positions |-> IF e.kind = "block" /\ e.pos = p THEN e.state ELSE w.block[p]],
   mover |-> [p \in Positions |-> IF e.kind \in {"data", "removed"} /\ e.pos = p
                                  THEN MoverOf(e) ELSE w.mover[p]]]

After(w, events) ==
  LET step[i \in 0 .. Len(events)] == IF i = 0 THEN w ELSE Applied(step[i - 1], events[i])
  IN step[Len(events)]

\* The scenario's next step, whose delta goes to record_delta: its tick has a
\* timestamp, and the trace is written before the packets.
RecordDelta ==
  /\ status = "open" /\ tick < MaxTick
  /\ tick' = tick + 1
  /\ pending' \in Deltas(world, tick + 1)
  /\ world' = After(world, pending')
  /\ IF Stamp(tick') > MaxStamp
     THEN status' = "dropped" /\ temp' = {} /\ UNCHANGED trace
     ELSE /\ status' = "delta" /\ UNCHANGED temp
          /\ trace' = Framed(trace, Stamp(tick'), pending')
  /\ UNCHANGED <<rec, lastTick, packed, output>>

RecordEvent ==
  /\ status = "delta" /\ pending # <<>>
  /\ Head(pending).kind = "removed" \/ (Head(pending).pos \notin Refused /\ CanSend(rec, Stamp(tick)))
  /\ rec' = EventRecorded(rec, Stamp(tick), Head(pending))
  /\ pending' = Tail(pending)
  /\ UNCHANGED <<world, tick, status, lastTick, trace, temp, packed, output>>

EndDelta ==
  /\ status = "delta" /\ pending = <<>>
  /\ status' = "open"
  /\ lastTick' = tick
  /\ rec' = [rec EXCEPT !.stamp = Stamp(tick)]
  /\ UNCHANGED <<world, tick, pending, trace, temp, packed, output>>

-----------------------------------------------------------------------------
\* Mutant of Anchored: a recording whose last steps changed nothing ends early.
AnchoredNot(r) == r

\* write_terminal_timestamp_anchor: the radius again, at the last timestamp.
Anchored(r) == IF r.packetStamp = r.stamp THEN r ELSE Sent(r, r.stamp, [r.view EXCEPT !.radius = r.radius])

\* finish_with_progress: the recording is flushed and synced, the trace ended,
\* both copied into the archive; the archive is synced, then renamed.
Finish ==
  /\ status = "open"
  /\ rec' = Anchored(rec) /\ status' = "anchored"
  /\ UNCHANGED <<outside, trace, temp>>

FinishTrace ==
  /\ status = "anchored"
  /\ trace' = [trace EXCEPT !.ticks = lastTick] /\ status' = "traced"
  /\ UNCHANGED <<outside, rec, temp>>

\* The archive is on disk as a whole once it is synced.
Pack ==
  /\ status = "traced"
  /\ packed' = [view |-> rec.view, trace |-> trace, duration |-> rec.stamp]
  /\ status' = "packed"
  /\ UNCHANGED <<world, tick, lastTick, pending, rec, trace, temp, output>>

Rename ==
  /\ status = "packed"
  /\ output' = packed /\ temp' = temp \ {"archive"}
  /\ status' = "renamed"
  /\ UNCHANGED <<world, tick, lastTick, pending, rec, trace, packed>>

Clean ==
  /\ status = "renamed"
  /\ temp' = {} /\ status' = "finished"
  /\ UNCHANGED <<outside, rec, trace>>

\* The process is killed: nothing is removed.
Killed ==
  /\ status \notin {"refused", "dropped", "finished", "killed"}
  /\ status' = "killed"
  /\ UNCHANGED <<outside, rec, trace, temp>>

Next ==
  \/ CreateRecording \/ CreateArchive \/ CreateTrace \/ WriteInitialWorld
  \/ RecordDelta \/ RecordEvent \/ EndDelta
  \/ Finish \/ FinishTrace \/ Pack \/ Rename \/ Clean
  \/ Fails \/ Killed

Spec == Init /\ [][Next]_vars

-----------------------------------------------------------------------------
Agrees(view) ==
  /\ \A p \in Positions : IF Chunk(p) \in view.loaded
                          THEN view.block[p] = world.block[p] /\ view.mover[p] = world.mover[p]
                          ELSE world.block[p] = Air /\ world.mover[p] = NoMover
  /\ Expanded(Occupied(world)) \subseteq view.loaded

\* docs/impl.md:330 and :336: after every delta the packets so far show a viewer
\* the simulated world, in loaded chunks whose neighbours are loaded, and the
\* render trace shows the same blocks and moving pistons: no chunk is sent over
\* updates it received, none outside the radius, no update before its chunk.
ViewerSeesWorld ==
  status = "open" => Agrees(rec.view) /\ trace.block = world.block /\ trace.mover = world.mover

\* An archive of all deltas, whose packets end where its metadata and its trace
\* say
Whole(archive) ==
  /\ Agrees(archive.view)
  /\ archive.trace.block = world.block /\ archive.trace.mover = world.mover
  /\ archive.duration = Stamp(tick) /\ archive.view.clock = archive.duration
  /\ archive.trace.ticks = tick

\* docs/impl.md:356-357: the output is the previous file or a whole recording,
\* wherever writing fails or the process is killed; and a writer that existed
\* leaves no temporary file, finished or not, unless it is killed.
OutputWholeAndClean ==
  /\ output # NoOutput => Whole(output)
  /\ status \in {"dropped", "finished"} => temp = {}
=============================================================================
