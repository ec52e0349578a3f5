------------------------------- MODULE MCVideo -------------------------------
(***************************************************************************)
(* The renderer for TLC: three sections of two cells in a line, each pose  *)
(* sees two. In the first trace a cube beside a section border goes and    *)
(* comes back in a lamp's cover, in the second a piston moves a block over *)
(* the border. Two slots and a channel of one are full with four frames.   *)
(***************************************************************************)
EXTENDS VideoRenderer, TLC

ThreeSections == 0 .. 2
TwoInView == [v \in Views |-> IF v = "left" THEN {0, 1} ELSE {1, 2}]

Line(s) == [c \in 0 .. 5 |-> s[c + 1]]
Change(t, c, b) == [stamp |-> t, blocks |-> c :> b, moving |-> {}, settled |-> {}]
MovesTo(t, a, b) ==
  [stamp |-> t, blocks |-> (a :> Air @@ b :> "moving"),
   moving |-> {[pos |-> b, start |-> t, settle |-> t + 4]}, settled |-> {}]
Settles(t, b) == [stamp |-> t, blocks |-> b :> "stone", moving |-> {}, settled |-> {b}]

TwoTraces == {
  [blocks |-> Line(<<Air, "stone", "stone", "lamp", Air, Air>>), moving |-> {},
   frames |-> <<Change(1, 2, Air), Change(2, 3, "stone"), Change(2, 2, "stone")>>],
  [blocks |-> Line(<<Air, "stone", "lamp", Air, Air, Air>>), moving |-> {},
   frames |-> <<MovesTo(1, 1, 2), Change(2, 4, "lamp"), Settles(5, 2)>>]}

=============================================================================
