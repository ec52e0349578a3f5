--------------------------- MODULE ReplayTimeline ---------------------------
(***************************************************************************)
(* The timelines of a recording, from the scenario to the planned video    *)
(* frames, as operators: redstone-cli/src/main.rs                          *)
(* (resolve_replay_timeline), redstone-cli/src/replay_camera.rs,           *)
(* redstone-replay-26/src/lib.rs (ReplayTimeline, ReplayCameraPath,        *)
(* serialized_timelines) and redstone-render-26/src/timeline.rs, lib.rs.   *)
(*                                                                         *)
(* Times are milliseconds. Positions and angles have one axis; of the      *)
(* interpolations only the linear one is modelled, with exact fractions    *)
(* <<numerator, denominator>> for the code's floating-point numbers.       *)
(***************************************************************************)
EXTENDS Integers, Sequences, FiniteSets

CONSTANTS
  MillisPerTick, \* TICK_MILLIS, 50 in the code
  MaxTimestamp,  \* i32::MAX in the code
  Absent         \* an optional field of the scenario that is not given

Ordered(s) == \A i \in 2 .. Len(s) : s[i][1] > s[i - 1][1]
Final(s) == s[Len(s)]

\* timestamp_for_tick
HasTimestamp(t) == t * MillisPerTick <= MaxTimestamp

-----------------------------------------------------------------------------
\* The time path of a scenario sc = [start, end, max, duration, keys], keys
\* being <<time, tick>>.
EndTick(sc) == IF sc.end = Absent THEN sc.max ELSE sc.end

\* ReplayTimeline::new
Simple(sc) ==
  LET length == IF sc.duration = Absent THEN (EndTick(sc) - sc.start) * MillisPerTick ELSE sc.duration
  IN [valid |-> /\ sc.start < EndTick(sc) <=> length > 0
                /\ HasTimestamp(EndTick(sc)),
      path |-> IF length = 0 THEN <<<<0, sc.start>>>> ELSE <<<<0, sc.start>>, <<length, EndTick(sc)>>>>]

\* ReplayTimeline::from_keyframes, after the checks of resolve_replay_timeline
Explicit(sc) ==
  [valid |-> /\ sc.duration = Absent
             /\ sc.keys[1] = <<0, sc.start>> /\ Final(sc.keys)[2] = EndTick(sc)
             /\ Ordered(sc.keys) /\ \A i \in 2 .. Len(sc.keys) : sc.keys[i][2] >= sc.keys[i - 1][2]
             /\ \A i \in DOMAIN sc.keys : HasTimestamp(sc.keys[i][2]),
   path |-> sc.keys]

\* resolve_replay_timeline
Resolved(sc) ==
  IF sc.start > EndTick(sc) \/ EndTick(sc) > sc.max THEN [valid |-> FALSE, path |-> <<>>]
  ELSE IF sc.keys = <<>> THEN Simple(sc) ELSE Explicit(sc)

Duration(path) == Final(path)[1]

-----------------------------------------------------------------------------
\* Sampling: the segment a time n/d is in, and the value there.
Segment(pairs, n, d) ==
  CHOOSE i \in 1 .. Len(pairs) - 1 :
    n < pairs[i + 1][1] * d /\ \A j \in 1 .. i - 1 : n >= pairs[j + 1][1] * d

Between(a, b, n, d) ==
  <<a[2] * d * (b[1] - a[1]) + (b[2] - a[2]) * (n - a[1] * d), d * (b[1] - a[1])>>

\* sample_linear_pairs, and sample_vector for the linear interpolation
Sampled(pairs, n, d) ==
  IF n <= pairs[1][1] * d THEN <<pairs[1][2], 1>>
  ELSE IF n >= Final(pairs)[1] * d THEN <<Final(pairs)[2], 1>>
  ELSE Between(pairs[Segment(pairs, n, d)], pairs[Segment(pairs, n, d) + 1], n, d)

Same(p, q) == p[1] * q[2] = q[1] * p[2]
Rounded(p) == (2 * p[1] + p[2]) \div (2 * p[2])

-----------------------------------------------------------------------------
\* The camera: keyframes [time, position, angle, fov] with optional parts, and
\* whether a fixed pose is configured.
CoversVideo(times, duration) ==
  /\ Len(times) >= 2 /\ times[1] = 0 /\ Final(times) = duration
  /\ \A i \in 2 .. Len(times) : times[i] > times[i - 1]

TimesOf(keys) == [i \in DOMAIN keys |-> keys[i].time]

Samples(keys, part) ==
  LET given == SelectSeq(keys, LAMBDA k : k[part] # Absent)
  IN [i \in DOMAIN given |-> <<given[i].time, given[i][part]>>]

\* The loops of unwrap_rotations: whole turns are taken off until the step is
\* half a turn at most.
Turned(a, previous) ==
  IF a - previous > 180 THEN a - 360 * ((a - previous + 179) \div 360)
  ELSE IF a - previous < -180 THEN a + 360 * ((previous - a + 179) \div 360)
  ELSE a

Unwrapped(samples) ==
  LET angle[i \in DOMAIN samples] ==
        IF i = 1 THEN samples[1][2] ELSE Turned(samples[i][2], angle[i - 1])
  IN [i \in DOMAIN samples |-> <<samples[i][1], angle[i]>>]

\* replay_camera::path: a keyframe without a position or an angle gets it from
\* those that have one.
Moves(keys) == \E i \in DOMAIN keys : keys[i].position # Absent \/ keys[i].angle # Absent
CameraValid(cam, duration) ==
  cam.keys = <<>> \/
    /\ CoversVideo(TimesOf(cam.keys), duration)
    /\ Moves(cam.keys) => /\ ~cam.fixed
                          /\ Samples(cam.keys, "position") # <<>> /\ Samples(cam.keys, "angle") # <<>>

Pose(keys, time) ==
  [time |-> time, position |-> Sampled(Samples(keys, "position"), time, 1),
   angle |-> Sampled(Unwrapped(Samples(keys, "angle")), time, 1)]

\* serialized_timelines: without a path, the fixed pose at both ends.
FixedPose(time) == [time |-> time, position |-> <<0, 1>>, angle |-> <<0, 1>>]
PositionPath(cam, duration) ==
  IF Moves(cam.keys) THEN [i \in DOMAIN cam.keys |-> Pose(cam.keys, cam.keys[i].time)]
  ELSE IF duration > 0 THEN <<FixedPose(0), FixedPose(duration)>> ELSE <<FixedPose(0)>>

\* Mutant of FovPath: the end is left open.
FovPathOpen(cam, duration) ==
  LET given == Samples(cam.keys, "fov")
      rest == IF cam.fov = Absent THEN 70 ELSE cam.fov
  IN IF given = <<>> THEN <<>>
     ELSE (IF given[1][1] # 0 THEN <<<<0, rest>>>> ELSE <<>>) \o given

\* replay_camera::render_options: the field of view falls back at both ends.
FovPath(cam, duration) ==
  LET given == Samples(cam.keys, "fov")
      rest == IF cam.fov = Absent THEN 70 ELSE cam.fov
  IN IF given = <<>> THEN <<>>
     ELSE (IF given[1][1] # 0 THEN <<<<0, rest>>>> ELSE <<>>) \o given
          \o (IF Final(given)[1] # duration THEN <<<<duration, rest>>>> ELSE <<>>)

\* What create_replay_writer and ReplayWriter::new accept.
FovsOf(path) == [i \in DOMAIN path |-> path[i][1]]
Recorded(sc, cam) ==
  /\ Resolved(sc).valid
  /\ CameraValid(cam, Duration(Resolved(sc).path))
  /\ LET fovs == FovPath(cam, Duration(Resolved(sc).path))
     IN fovs = <<>> \/ CoversVideo(FovsOf(fovs), Duration(Resolved(sc).path))

-----------------------------------------------------------------------------
\* The renderer. ReplayTimeline::load takes the TIME path with timestamps.
TimePath(sc) ==
  [i \in DOMAIN Resolved(sc).path |-> <<Resolved(sc).path[i][1], Resolved(sc).path[i][2] * MillisPerTick>>]

\* validate_time_keyframes, validate_camera_keyframes, FovTimeline::new
Loads(sc, cam) ==
  LET path == TimePath(sc)
      poses == PositionPath(cam, Duration(path))
      fovs == FovPath(cam, Duration(path))
  IN /\ path[1][1] = 0 /\ Ordered(path) /\ \A i \in 2 .. Len(path) : path[i][2] >= path[i - 1][2]
     /\ CoversVideo(TimesOf(poses), Duration(path))
     /\ fovs = <<>> \/ CoversVideo(FovsOf(fovs), Duration(path))

\* render_replay: the length, with the speed of the simulation if that is asked
\* for: wall[1] milliseconds for wall[2] ticks.
RenderLength(sc, wall) ==
  IF wall = Absent THEN <<Duration(TimePath(sc)), 1>>
  ELSE <<wall[1] * (EndTick(sc) - sc.start), wall[2]>>

Renders(sc, cam, wall) == Loads(sc, cam) /\ RenderLength(sc, wall)[1] > 0

AtLeastOne(n) == IF n < 1 THEN 1 ELSE n
TotalFrames(sc, wall, fps) ==
  AtLeastOne((RenderLength(sc, wall)[1] * fps) \div (RenderLength(sc, wall)[2] * 1000))

\* build_frame_plans: the time in the recording of a frame, counted from 0.
FrameTime(sc, wall, fps, frame) ==
  IF wall = Absent THEN Rounded(Sampled(TimePath(sc), frame * 1000, fps))
  ELSE LET length == RenderLength(sc, wall)
           span == Final(TimePath(sc))[2] - TimePath(sc)[1][2]
       IN Rounded(<<TimePath(sc)[1][2] * fps * length[1] + frame * 1000 * span * length[2], fps * length[1]>>)

-----------------------------------------------------------------------------
\* docs/scenario-guide.md:163 and docs/impl.md:372: whatever time path, camera and
\* field of view a scenario gives, if they are valid (and longer than nothing)
\* they are recorded and render; the frames never go back, stay within the source ticks, begin
\* with the first, and a frame at the time of a keyframe shows its tick.
FramesFollowPath(sc, cam, wall, fps) ==
  Resolved(sc).valid /\ CameraValid(cam, Duration(TimePath(sc)))
  /\ Duration(TimePath(sc)) > 0 /\ (wall # Absent => sc.start < EndTick(sc)) =>
    /\ Recorded(sc, cam) /\ Renders(sc, cam, wall)
    /\ LET time == [k \in 0 .. TotalFrames(sc, wall, fps) - 1 |-> FrameTime(sc, wall, fps, k)]
       IN /\ time[0] = sc.start * MillisPerTick
          /\ \A k \in DOMAIN time :
               /\ time[k] <= EndTick(sc) * MillisPerTick
               /\ k > 0 => time[k] >= time[k - 1]
               /\ wall = Absent => \A i \in DOMAIN TimePath(sc) :
                    k * 1000 = TimePath(sc)[i][1] * fps => time[k] = TimePath(sc)[i][2]

\* scenario-guide.md:163 ("缺失分量使用相邻显式样本插值, 区间外保持最近样本"): the
\* path with the missing parts filled in moves as the given parts alone would,
\* at every time, keeps each of them, up to whole turns, and never turns by more than half
\* a turn from one given angle to the next.
PathFillsIn(sc, cam) ==
  LET duration == Duration(TimePath(sc))
      path == PositionPath(cam, duration)
      angles == Unwrapped(Samples(cam.keys, "angle"))
      Filled(given, part) ==
        \A i \in 1 .. Len(path) - 1 :
          \A t \in path[i].time .. path[i + 1].time :
            LET a == path[i][part]  b == path[i + 1][part]  g == Sampled(given, t, 1)
                whole == path[i + 1].time - path[i].time
            IN Same(g, <<a[1] * b[2] * (path[i + 1].time - t) + b[1] * a[2] * (t - path[i].time),
                         a[2] * b[2] * whole>>)
  IN Recorded(sc, cam) /\ Moves(cam.keys) =>
       /\ Filled(Samples(cam.keys, "position"), "position")
       /\ Filled(angles, "angle")
       /\ \A i \in DOMAIN angles :
            /\ (angles[i][2] - Samples(cam.keys, "angle")[i][2]) % 360 = 0
            /\ i > 1 => angles[i][2] - angles[i - 1][2] \in -180 .. 180
=============================================================================
