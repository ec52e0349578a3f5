---------------------------- MODULE VideoRenderer ----------------------------
(***************************************************************************)
(* From a render trace to a video: redstone-render-26/src/lib.rs           *)
(* (render_replay), scene.rs (Scene), gpu.rs (the readback slots) and      *)
(* encoder.rs (VideoEncoder). A loop over the planned frames applies the   *)
(* trace, rebuilds the meshes that need it, renders into one of a few      *)
(* readback slots unless nothing changed, and sends completed frames over  *)
(* a bounded channel to a task that feeds FFmpeg, which may die.           *)
(*                                                                         *)
(* Blocks stand in a line cut into sections of Edge cells; a camera sees   *)
(* a set of sections. Time is in halves of a tick.                         *)
(***************************************************************************)
EXTENDS Integers, Sequences, FiniteSets

CONSTANTS
  Sections,   \* section positions, consecutive
  Edge,       \* cells in a section
  Views,      \* camera poses
  InView,     \* the sections of each pose's frustum and shadow range
  Traces,     \* the render traces: an initial scene and frames with timestamps
  MaxFrames,  \* bound on total_frames
  MaxPause,   \* how much time two planned frames are apart at most
  Slots,      \* readback slots, 3 in the code
  Channel,    \* capacity of the channel, 4 in the code
  CacheSize,  \* meshes kept of a section, 4 in the code
  NoView      \* visible_key before the first frame

Air == "air"
Cubes == {"stone"}          \* is_greedy_cube
Occluders == Cubes \cup {"lamp"}
Nothing == [vertices |-> {}, models |-> {}]
Cells == {s * Edge + i : s \in Sections, i \in 0 .. Edge - 1}
SectionOf(c) == c \div Edge
CellsOf(s) == {c \in Cells : SectionOf(c) = s}

VARIABLES
  trace,    \* the trace that is rendered
  applied,  \* trace_index
  scene,    \* Scene
  shown,    \* the section meshes in GPU buffers, and the moving blocks
  plan,     \* the frames planned so far, each with its time and view
  total,    \* total_frames
  lastKey,  \* last_visual_key
  groups,   \* visual_groups: how often the frames in flight are repeated
  slots, nextSlot, inFlight,  \* readbacks, next_readback, pending_readbacks
  sending,  \* completed frames with their repetitions, not sent yet
  channel,  \* frames in the channel
  feeder,   \* the task that feeds FFmpeg
  written,  \* frames FFmpeg has got
  status,   \* how far render_replay is
  temporary, output  \* whether the temporary file exists; the video

vars == <<trace, applied, scene, shown, plan, total, lastKey, groups, slots, nextSlot,
          inFlight, sending, channel, feeder, written, status, temporary, output>>

-----------------------------------------------------------------------------
\* Meshes
Occluding(block, c) == c \in Cells /\ block[c] \in Occluders
OpenFaces(block, c) == {d \in {-1, 1} : ~Occluding(block, c + d)}

\* append_full_cubes
Vertices(block, s) ==
  {f \in CellsOf(s) \X {-1, 1} : block[f[1]] \in Cubes /\ f[2] \in OpenFaces(block, f[1])}

\* build_model_batches: a full block hides the faces its neighbours cover.
Models(block, s) ==
  {<<c, block[c], IF block[c] \in Occluders THEN OpenFaces(block, c) ELSE {-1, 1}>> :
     c \in {d \in CellsOf(s) : block[d] \notin Cubes \cup {Air, "moving"}}}

\* section_mesh_hash: the section's blocks and those around it.
MeshKey(block, s) ==
  [c \in {d \in Cells : \E e \in CellsOf(s) : d \in e - 1 .. e + 1} |-> block[c]]

Occupied(block) == {s \in Sections : \E c \in CellsOf(s) : block[c] # Air}

-----------------------------------------------------------------------------
\* The scene
\* Mutant of Disturbed: a change dirties its own section only.
DisturbedSection(c) == {SectionOf(c)}

\* Scene::set: a block at the edge also dirties the section beside it.
Disturbed(c) == {SectionOf(c), SectionOf(c - 1), SectionOf(c + 1)}

Changing(frame) == DOMAIN frame.blocks # {} \/ frame.moving # {} \/ frame.settled # {}

\* Scene::apply for one frame of the trace.
Applied(sc, frame) ==
  [sc EXCEPT !.generation = IF Changing(frame) THEN @ + 1 ELSE @,
     !.block = [c \in Cells |-> IF c \in DOMAIN frame.blocks THEN frame.blocks[c] ELSE @[c]],
     !.dirty = @ \cup UNION {Disturbed(c) : c \in DOMAIN frame.blocks},
     !.pistons = {m \in @ : m.pos \notin frame.settled /\ \A n \in frame.moving : n.pos # m.pos}
                 \cup frame.moving]

\* How many frames of the trace are due, up to the first that is later.
Due(frames, time) ==
  CHOOSE n \in 0 .. Len(frames) :
    /\ \A i \in 1 .. n : frames[i].stamp <= time
    /\ n = Len(frames) \/ frames[n + 1].stamp > time

\* Every one that is due is applied.
AppliedUntil(sc, frames, time) ==
  LET after[n \in 0 .. Due(frames, time)] ==
        IF n = 0 THEN sc ELSE Applied(after[n - 1], frames[n])
  IN after[Due(frames, time)]

\* Scene::rebuild_visible. The visible sections are looked up again only when
\* the camera moved.
NextVisible(sc, view) ==
  IF sc.key = view THEN sc.visible ELSE InView[view] \cap Occupied(sc.block)

ToRebuild(sc, view) == {s \in NextVisible(sc, view) : s \in sc.dirty \/ s \notin sc.visible}

CachedAt(sc, s) == {i \in DOMAIN sc.cache[s] : sc.cache[s][i][1] = MeshKey(sc.block, s)}

\* build_section
Built(sc, s) ==
  IF s \notin Occupied(sc.block) THEN Nothing
  ELSE [vertices |-> IF CachedAt(sc, s) # {}
                     THEN sc.cache[s][CHOOSE i \in CachedAt(sc, s) : \A j \in CachedAt(sc, s) : i <= j][2]
                     ELSE Vertices(sc.block, s),
        models |-> Models(sc.block, s)]

CacheAfter(sc, s) ==
  IF s \notin sc.visible \/ s \notin Occupied(sc.block) \/ CachedAt(sc, s) # {} THEN sc.cache[s]
  ELSE LET longer == Append(sc.cache[s], <<MeshKey(sc.block, s), Vertices(sc.block, s)>>)
       IN IF Len(longer) > CacheSize THEN Tail(longer) ELSE longer

Rebuilt(sc, view) ==
  [sc EXCEPT !.visible = NextVisible(sc, view), !.key = view,
     !.dirty = @ \ ToRebuild(sc, view),
     !.cache = [s \in Sections |-> IF s \in ToRebuild(sc, view) THEN CacheAfter(sc, s) ELSE @[s]]]

\* GpuRenderer::update_meshes
MeshesAfter(meshes, sc, view) ==
  [s \in Sections |->
     IF s \in ToRebuild(sc, view) THEN Built(sc, s)
     ELSE IF s \in sc.visible \ NextVisible(sc, view) THEN Nothing ELSE meshes[s]]

\* dynamic_vertices: each moving block and how far it is.
Progress(m, time) ==
  IF time <= m.start THEN 0 ELSE IF time >= m.settle THEN m.settle - m.start ELSE time - m.start
Movers(sc, time) == {<<m.pos, Progress(m, time)>> : m \in sc.pistons}

Animating(sc, time) == \E m \in sc.pistons : m.start < time /\ time < m.settle

\* VisualKey
VisualKey(sc, view, time) == <<view, sc.generation, IF Animating(sc, time) THEN time ELSE -1>>

-----------------------------------------------------------------------------
FirstScene(t) ==
  [block |-> t.blocks, dirty |-> UNION {Disturbed(c) : c \in {d \in Cells : t.blocks[d] # Air}},
   pistons |-> t.moving, generation |-> 0, visible |-> {}, key |-> NoView,
   cache |-> [s \in Sections |-> <<>>]]

\* A block that moves has settled, by a frame of the trace, once its time has
\* come, unless the trace ends before (render_trace_piston, settle_tick).
SettledInTime(t) ==
  \A time \in 0 .. MaxFrames * MaxPause :
    \A m \in AppliedUntil(FirstScene(t), t.frames, time).pistons : time < m.settle

Movements == [pos : Int, start : Int, settle : Int]
ASSUME VideoAssumption ==
  /\ Sections \subseteq Int /\ Edge \in Nat \ {0} /\ NoView \notin Views
  /\ MaxFrames \in Nat /\ MaxPause \in Nat
  /\ Slots \in Nat \ {0} /\ Channel \in Nat \ {0} /\ CacheSize \in Nat
  /\ \A t \in Traces :
       /\ t.blocks = [c \in Cells |-> t.blocks[c]]
       /\ \A m \in t.moving : m \in Movements
       /\ t.frames \in Seq({t.frames[i] : i \in DOMAIN t.frames})
       /\ \A i \in DOMAIN t.frames :
            /\ t.frames[i].stamp \in Int
            /\ \A m \in t.frames[i].moving : m \in Movements
       /\ SettledInTime(t)

NoMeshes == [s \in Sections |-> Nothing]
NoKey == <<>>

\* render_replay before its loop: the first meshes are built for the pose of
\* the first frame, and FFmpeg is started, which creates the temporary file.
Init ==
  /\ trace \in Traces /\ total \in 1 .. MaxFrames
  /\ \E view \in Views, time \in 0 .. MaxPause :
       /\ plan = <<[time |-> time, view |-> view]>>
       /\ scene = Rebuilt(FirstScene(trace), view)
       /\ shown = [meshes |-> MeshesAfter(NoMeshes, FirstScene(trace), view), movers |-> {}]
  /\ applied = 0 /\ lastKey = NoKey /\ groups = <<>>
  /\ slots = [i \in 0 .. Slots - 1 |-> [meshes |-> NoMeshes, movers |-> {}]]
  /\ nextSlot = 0 /\ inFlight = <<>> /\ sending = <<>> /\ channel = <<>>
  /\ feeder = "running" /\ written = <<>> /\ status = "frame"
  /\ temporary = TRUE /\ output = <<>>

\* GpuRenderer::render: with all slots in flight the oldest is read first.
Full == Len(inFlight) = Slots
Completed == IF Full THEN <<<<slots[Head(inFlight)], Head(groups)>>>> ELSE <<>>

Rendered(image) ==
  /\ slots' = [slots EXCEPT ![nextSlot] = image]
  /\ nextSlot' = (nextSlot + 1) % Slots
  /\ inFlight' = Append(IF Full THEN Tail(inFlight) ELSE inFlight, nextSlot)
  /\ sending' = Completed
  /\ groups' = Append(IF Full THEN Tail(groups) ELSE groups, 1)

\* One planned frame.
Frame ==
  /\ status = "frame"
  /\ LET now == plan[Len(plan)]
         due == SubSeq(trace.frames, applied + 1, Len(trace.frames))
         current == AppliedUntil(scene, due, now.time)
         image == [meshes |-> MeshesAfter(shown.meshes, current, now.view),
                   movers |-> Movers(current, now.time)]
         key == VisualKey(current, now.view, now.time)
     IN /\ applied' = applied + Due(due, now.time)
        /\ scene' = Rebuilt(current, now.view)
        /\ shown' = image
        /\ lastKey' = key
        /\ IF key = lastKey
           THEN /\ groups' = [groups EXCEPT ![Len(groups)] = @ + 1]
                /\ UNCHANGED <<slots, nextSlot, inFlight, sending>>
           ELSE Rendered(image)
  /\ status' = "send"
  /\ UNCHANGED <<trace, plan, total, channel, feeder, written, temporary, output>>

\* write_frame: waits for room in the channel.
Send ==
  /\ status \in {"send", "drain"} /\ sending # <<>>
  /\ feeder # "failed" /\ Len(channel) < Channel
  /\ channel' = Append(channel, sending[1][1])
  /\ sending' = IF sending[1][2] = 1 THEN Tail(sending) ELSE [sending EXCEPT ![1][2] = @ - 1]
  /\ UNCHANGED <<trace, applied, scene, shown, plan, total, lastKey, groups, slots, nextSlot,
                 inFlight, feeder, written, status, temporary, output>>

\* The next planned frame: build_frame_plans never goes back in time.
Plan ==
  /\ status = "send" /\ sending = <<>> /\ Len(plan) < total
  /\ \E view \in Views, pause \in 0 .. MaxPause :
       plan' = Append(plan, [time |-> plan[Len(plan)].time + pause, view |-> view])
  /\ status' = "frame"
  /\ UNCHANGED <<trace, applied, scene, shown, total, lastKey, groups, slots, nextSlot,
                 inFlight, sending, channel, feeder, written, temporary, output>>

\* finish_frames: all slots in flight are read, in order.
Drain ==
  /\ status = "send" /\ sending = <<>> /\ Len(plan) = total
  /\ sending' = [i \in DOMAIN inFlight |-> <<slots[inFlight[i]], groups[i]>>]
  /\ inFlight' = <<>> /\ groups' = <<>>
  /\ status' = "drain"
  /\ UNCHANGED <<trace, applied, scene, shown, plan, total, lastKey, slots, nextSlot,
                 channel, feeder, written, temporary, output>>

\* VideoEncoder::finish closes the channel and waits for the task.
Close ==
  /\ status = "drain" /\ sending = <<>>
  /\ status' = "closed"
  /\ UNCHANGED <<trace, applied, scene, shown, plan, total, lastKey, groups, slots, nextSlot,
                 inFlight, sending, channel, feeder, written, temporary, output>>

Finish ==
  /\ status = "closed" /\ feeder = "done"
  /\ output' = written /\ temporary' = FALSE /\ status' = "finished"
  /\ UNCHANGED <<trace, applied, scene, shown, plan, total, lastKey, groups, slots, nextSlot,
                 inFlight, sending, channel, feeder, written>>

\* Mutant of SendFails: a send waits for a task that is gone.
SendFailsNever == FALSE

\* The task that ended has closed the channel.
SendFails == feeder = "failed"

\* A failing GPU, rename or send, or a task that failed: the encoder is dropped.
Fail ==
  /\ \/ status \in {"frame", "send", "drain"} /\ (sending # <<>> => SendFails)
     \/ status = "closed" /\ feeder \in {"failed", "done"}
  /\ temporary' = FALSE /\ status' = "failed"
  /\ UNCHANGED <<trace, applied, scene, shown, plan, total, lastKey, groups, slots, nextSlot,
                 inFlight, sending, channel, feeder, written, output>>

-----------------------------------------------------------------------------
\* run_writer: takes a frame, writes it; FFmpeg writes the temporary file.
Feed ==
  /\ status \notin {"failed", "finished"}
  /\ feeder = "running" /\ channel # <<>>
  /\ channel' = Tail(channel) /\ written' = Append(written, Head(channel))
  /\ temporary' = TRUE
  /\ UNCHANGED <<trace, applied, scene, shown, plan, total, lastKey, groups, slots, nextSlot,
                 inFlight, sending, feeder, status, output>>

EndOfInput == status = "closed" /\ channel = <<>>

\* FFmpeg ends: at the end of its input, or too early.
FeederEnds ==
  /\ status \notin {"failed", "finished"} /\ feeder = "running"
  /\ \/ EndOfInput /\ feeder' = "done"
     \/ feeder' = "failed"
  /\ UNCHANGED <<trace, applied, scene, shown, plan, total, lastKey, groups, slots, nextSlot,
                 inFlight, sending, channel, written, status, temporary, output>>

Next == Frame \/ Send \/ Plan \/ Drain \/ Close \/ Finish \/ Fail \/ Feed \/ FeederEnds

\* The loop and the task go on running.
Loop == Frame \/ Send \/ Plan \/ Drain \/ Close \/ Finish \/ Fail
Fairness == WF_vars(Loop) /\ WF_vars(Feed) /\ WF_vars(EndOfInput /\ FeederEnds)

Spec == Init /\ [][Next]_vars /\ Fairness

-----------------------------------------------------------------------------
\* What a trace says at a time, from its start.
SceneAt(t, time) == AppliedUntil(FirstScene(t), t.frames, time)

\* The picture a frame ought to be.
MeshOf(block, s) == [vertices |-> Vertices(block, s), models |-> Models(block, s)]

\* When the camera last moved before frame k of the plan p, and the blocks then.
SinceView(p, k) ==
  CHOOSE i \in 1 .. k : /\ \A j \in i .. k : p[j].view = p[i].view
                        /\ i = 1 \/ p[i - 1].view # p[i].view
BlocksThen(t, p, k) ==
  IF SinceView(p, k) = 1 THEN t.blocks ELSE SceneAt(t, p[SinceView(p, k)].time).block

ShowsFrame(t, p, image, k) ==
  LET now == SceneAt(t, p[k].time)
  IN /\ image.movers = Movers(now, p[k].time)
     /\ \A s \in Sections :
          \/ image.meshes[s] = IF s \in InView[p[k].view] THEN MeshOf(now.block, s) ELSE Nothing
          \/ image.meshes[s] = Nothing /\ s \notin Occupied(BlocksThen(t, p, k))

\* Frame k that FFmpeg gets shows the trace at the time and from the pose planned
\* for frame k, though meshes are kept, cached and invalidated, frames without a
\* visible change are repeated instead of rendered (docs/impl.md:371), and three
\* slots and a channel of four are on the way (:369); only sections that were
\* empty when the camera last moved may be missing.
FramesShown == \A k \in DOMAIN written : ShowsFrame(trace, plan, written[k], k)

\* A video has all frames, or there is none, and no run that ended leaves its
\* temporary file (encoder.rs finish, Drop).
VideoWhole ==
  /\ output # <<>> => Len(output) = total
  /\ status \in {"finished", "failed"} => ~temporary

\* What FFmpeg gets is the trace, frame by frame, and what is left is all of it
\* or nothing (render_replay).
FramesExact == FramesShown /\ VideoWhole

\* The bounded channel and the slots never leave the loop waiting for good.
RenderingEnds == <>(status \in {"finished", "failed"})

\* docs/impl.md:365: camera and shadow range limit which sections are built
\* ("相机视锥和阴影覆盖分别限制 section 构建与 draw"): every other one is shown.
NothingMissing ==
  \A k \in DOMAIN written : \A s \in InView[plan[k].view] :
    written[k].meshes[s] = MeshOf(SceneAt(trace, plan[k].time).block, s)
=============================================================================
