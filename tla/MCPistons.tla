------------------------------ MODULE MCPistons ------------------------------
(***************************************************************************)
(* Pistons for TLC: small worlds in which pistons push, pull and race each *)
(* other, and many worlds that do not move, for what a piston would move.  *)
(***************************************************************************)
EXTENDS Pistons

Piston(facing, sticky) == Block("piston", facing, sticky, FALSE)
Stone == Plain("stone")
Slime == Plain("slime")

\* What is given, in a world of immovable blocks with some air.
Filled(given, air) ==
  [c \in Cells |-> IF c \in DOMAIN given THEN given[c] ELSE IF c \in air THEN Air ELSE Wall]

Row(y, s) == [c \in {<<i - 1, y>> : i \in DOMAIN s} |-> s[c[1] + 1]]

\* Two pistons about one block, a piston that moves a piston, what breaks,
\* and a block that two pistons drag.
Moving == {
  Filled(Row(0, <<Piston("east", TRUE), Stone, Air, Piston("west", TRUE)>>), {}),
  Filled(Row(0, <<Piston("east", TRUE), Air, Stone, Piston("west", FALSE)>>), {}),
  Filled(Row(0, <<Piston("east", TRUE), Piston("east", TRUE), Stone, Plain("torch"), Air>>), {}),
  Filled(Row(0, <<Piston("east", FALSE), Piston("west", TRUE), Stone, Stone, Air>>), {}),
  Filled(Row(0, <<Piston("east", TRUE), Slime, Stone, Air>>)
         @@ (<<1, 1>> :> Stone) @@ (<<3, 1>> :> Piston("west", TRUE)), {<<2, 1>>})}

\* Anything in the five places around the front of a piston
Near == {<<1, 0>>, <<2, 0>>, <<3, 0>>, <<1, 1>>, <<2, 1>>}
Kinds == {"air", "stone", "slime", "honey", "terracotta", "torch"}
Fronts ==
  {Filled([c \in Near |-> Plain(f[c])] @@ (<<0, 0>> :> Piston("east", TRUE)),
          {<<4, 0>>, <<3, 1>>, <<4, 1>>}) : f \in [Near -> Kinds]}

\* Slime that comes round to what was added before: a line runs into it. It
\* has as many blocks as may move; one or two places are changed.
Spiral ==
  Row(2, <<Piston("east", TRUE), Stone, Stone, Stone, Slime, Stone>>)
    @@ (<<2, 1>> :> Stone) @@ (<<3, 1>> :> Stone) @@ (<<4, 1>> :> Slime)
    @@ (<<1, 0>> :> Stone) @@ (<<2, 0>> :> Slime) @@ (<<3, 0>> :> Slime) @@ (<<4, 0>> :> Slime)
Changeable == (DOMAIN Spiral \ {<<0, 2>>}) \cup {<<1, 1>>, <<5, 0>>}
Spirals ==
  {[Filled(Spiral, Cells) EXCEPT ![c] = Plain(k), ![d] = Plain(j)] :
     c \in Changeable, d \in Changeable, k \in Kinds \cup {"chest"}, j \in {"air", "slime", "stone"}}

MCInit ==
  \/ Init
  \/ /\ block \in Fronts \cup Spirals
     /\ mover = [p \in Cells |-> NoMover]
     /\ powered = {} /\ events = <<>> /\ agenda = <<>>
     /\ phase = "entities" /\ toTick = {} /\ switches = MaxSwitches

=============================================================================
