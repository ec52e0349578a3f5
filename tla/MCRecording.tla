----------------------------- MODULE MCRecording -----------------------------
(***************************************************************************)
(* Scenarios, their recordings and their timelines, for TLC: a behaviour   *)
(* drives a scenario, tests a batch of them, writes a recording, or rests  *)
(* on one case of a timeline.                                              *)
(*                                                                         *)
(* Recording: the second of the columns is in the chunk of the first's     *)
(* neighbour, the third some chunks away, the fourth has a height the      *)
(* protocol refuses; the third tick has no timestamp.                      *)
(*                                                                         *)
(* Timeline: time paths that stand, jump and go on, with end ticks that    *)
(* are missing, out of order and beyond the run, and camera keyframes      *)
(* without a position, an angle or a field of view; angles are up to two   *)
(* turns apart. The maximal timestamp is the one of tick 2.                *)
(*                                                                         *)
(* Scenario: actions declared out of order and beyond the run, pastes      *)
(* before and in it and one outside, expectations on skipped, kept and     *)
(* missing ticks. Batch: three scenarios and two permits, traces that      *)
(* differ only in the order of two kinds.                                  *)
(***************************************************************************)
EXTENDS ReplayWriter, ScenarioRun, TLC

CONSTANTS Absent, Count, Permits

VARIABLES
  part, case,
  spawned, permits, task, oracle, rust, java, files, result, joined, report

batchVars == <<spawned, permits, task, oracle, rust, java, files, result, joined, report>>

-----------------------------------------------------------------------------
FourColumns == {<<0, 0>>, <<3, 0>>, <<8, 1>>, <<0, 1>>}
RefusedColumn == {<<0, 1>>}
OneChunk == {<<0, 0>>}
TwoCameras == {<<0, 0>>, <<-2, 1>>}

WorldWith(p, state, mover) ==
  [block |-> [EmptyWorld.block EXCEPT ![p] = state], mover |-> [EmptyWorld.mover EXCEPT ![p] = mover]]
FourWorlds == {EmptyWorld, WorldWith(<<0, 0>>, Moving, Foreign),
               WorldWith(<<8, 1>>, "stone", NoMover), WorldWith(<<0, 1>>, "stone", NoMover)}

-----------------------------------------------------------------------------
Path == INSTANCE ReplayTimeline WITH MillisPerTick <- TickMillis, MaxTimestamp <- MaxStamp

TickKeys ==
  {<<>>} \cup {<<<<0, a>>, <<50, b>>>> : a \in 0 .. 1, b \in 0 .. 2} \cup
  {<<<<0, a>>, <<50, b>>, <<t, c>>>> : a \in 0 .. 1, b \in 0 .. 2, c \in 1 .. 2, t \in {50, 150}}
Times == [start : 0 .. 1, end : {Absent, 0, 1, 2, 3}, max : {1, 2}, duration : {Absent, 0, 75, 150},
          keys : TickKeys]

Key(t, p, a, f) == [time |-> t, position |-> p, angle |-> a, fov |-> f]
PoseKeys ==
  {<<>>} \cup
  {<<Key(0, p, a, f), Key(50, q, b, g), Key(150, r, c, Absent)>> :
     p \in {Absent, 6}, q \in {Absent, 12}, r \in {Absent, 3},
     a \in {Absent, -300}, b \in {Absent, 240, 180, 600}, c \in {Absent, 90},
     f \in {Absent, 60}, g \in {Absent, 90}}
NoKeys == [keys |-> <<>>, fixed |-> FALSE, fov |-> Absent]
Moving150 == [start |-> 0, end |-> Absent, max |-> 2, duration |-> 150, keys |-> <<>>]

Cases ==
  {<<t, NoKeys, wall, fps>> : t \in Times, wall \in {Absent, <<40, 3>>}, fps \in {20, 30, 7}} \cup
  {<<Moving150, [keys |-> k, fixed |-> f, fov |-> Absent], Absent, 20>> : k \in PoseKeys, f \in BOOLEAN}

-----------------------------------------------------------------------------
Scenario(actions, pastes, skip, max, expects, replay) ==
  [actions |-> actions, pastes |-> pastes, skip |-> skip, max |-> max, expects |-> expects,
   replay |-> replay]
SomeScenarios ==
  {Scenario(<<<<2, "a">>, <<1, "b">>, <<2, "c">>>>, <<<<2, "p">>, <<AtStart, "q">>>>, 1, 5,
            {<<1, 1>>, <<2, 1>>, <<4, 0>>}, r) : r \in BOOLEAN} \cup
  {Scenario(<<<<1, "a">>, <<6, "b">>>>, <<>>, 0, 4, {<<4, 0>>, <<2, 1>>}, TRUE),
   Scenario(<<>>, <<<<5, "p">>>>, 0, 4, {}, FALSE),
   Scenario(<<>>, <<<<1, "p">>>>, 0, 5, {<<6, 0>>}, TRUE)}

TwoKinds == {<<>>, <<<<"changed", 1>>, <<"queued", 1>>>>, <<<<"queued", 1>>, <<"changed", 1>>>>}

Tests == INSTANCE ScenarioBatch WITH TaskTraces <- TwoKinds

-----------------------------------------------------------------------------
EitherInit ==
  /\ part \in {"scenario", "batch", "recording", "timeline"}
  /\ Init /\ (part # "recording" => world = EmptyWorld)
  /\ DriverInit /\ (part # "scenario" => sc = Scenario(<<>>, <<<<5, "p">>>>, 0, 4, {}, FALSE))
  /\ Tests!BatchInit /\ (part # "batch" => oracle = {})
  /\ case \in IF part = "timeline" THEN Cases ELSE {<<>>}

EitherNext ==
  \/ part = "recording" /\ Next /\ UNCHANGED <<part, case, driverVars, batchVars>>
  \/ part = "scenario" /\ DriverNext /\ UNCHANGED <<part, case, vars, batchVars>>
  \/ part = "batch" /\ Tests!BatchNext /\ UNCHANGED <<part, case, vars, driverVars>>

EitherSpec ==
  /\ EitherInit /\ [][EitherNext]_<<part, case, vars, driverVars, batchVars>>
  /\ WF_batchVars(part = "batch" /\ Tests!Spawn)
  /\ WF_batchVars(part = "batch" /\ Tests!Join)
  /\ WF_batchVars(part = "batch" /\ Tests!Report)
  /\ \A s \in Tests!Batch :
       WF_batchVars(part = "batch" /\ (Tests!Execute(s) \/ Tests!Compare(s) \/ Tests!End(s)))

-----------------------------------------------------------------------------
\* The frames of a scenario's video follow its time path, and the camera's
\* path goes through all that is given of it (build_frame_plans,
\* replay_camera::path, unwrap_rotations).
TimelineFollowed ==
  part = "timeline" =>
    Path!FramesFollowPath(case[1], case[2], case[3], case[4]) /\ Path!PathFillsIn(case[1], case[2])

\* A batch comes to an end, and succeeds exactly if all its scenarios did as
\* they should (test_path).
BatchRight == part = "batch" => []Tests!BatchRight /\ Tests!BatchEnds
=============================================================================
