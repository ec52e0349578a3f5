------------------------------ MODULE MCNetwork -----------------------------
(***************************************************************************)
(* The wires and the compiled graph, for TLC: a behaviour follows one of   *)
(* the two, the other rests.  Strength 3 stands for 15: wires of three     *)
(* steps reach the limit.  Where gives the rows of the circuits; the order *)
(* in which a wire tells its neighbours depends on the row.                *)
(***************************************************************************)
EXTENDS WireNetwork, PlanGraph, TLC

CONSTANT Where
VARIABLE part

Wire(power, open) == [kind |-> "wire", power |-> power, open |-> open]
Solid == [kind |-> "solid"]
RedstoneBlock == [kind |-> "block"]
Lamp(lit) == [kind |-> "lamp", lit |-> lit]
Lever(side) == [kind |-> "lever", side |-> side, powered |-> FALSE]
Torch(facing, lit) == [kind |-> "torch", facing |-> facing, lit |-> lit]
Repeater(facing) == [kind |-> "repeater", facing |-> facing, powered |-> FALSE]

EW == {"east", "west"}

\* A lever on a block with a wire and a repeater on either side.
Branches(z) ==
  <<4, 2, z>> :> Lever("up") @@ <<4, 1, z>> :> Solid
  @@ <<3, 1, z>> :> Wire(0, EW) @@ <<2, 1, z>> :> Repeater("east") @@ <<1, 1, z>> :> Lamp(FALSE)
  @@ <<5, 1, z>> :> Wire(0, EW) @@ <<6, 1, z>> :> Repeater("west") @@ <<7, 1, z>> :> Lamp(FALSE)

\* A staircase of wires that a block above the first of them cuts.
Stairs(z) ==
  <<1, 2, z>> :> Lever("up") @@ <<1, 1, z>> :> Solid @@ <<2, 1, z>> :> Wire(0, EW)
  @@ <<2, 2, z>> :> Air
  @@ <<3, 1, z>> :> Solid @@ <<3, 2, z>> :> Wire(0, EW) @@ <<4, 2, z>> :> Wire(0, EW)
  @@ <<5, 2, z>> :> Solid @@ <<6, 2, z>> :> Torch("east", TRUE) @@ <<7, 2, z>> :> Lamp(TRUE)

\* A repeater that another one locks from the side.
Lock(z) ==
  <<1, 1, z>> :> Lever("up") @@ <<2, 1, z>> :> Wire(0, EW) @@ <<3, 1, z>> :> Repeater("west")
  @@ <<4, 1, z>> :> Wire(0, EW) @@ <<5, 1, z>> :> Lamp(FALSE)
  @@ <<3, 1, z - 1>> :> Repeater("north") @@ <<3, 1, z - 2>> :> Lever("up")

\* A wire that points to a torch's block until a block beside it bends it.
Bend(z) ==
  <<3, 1, z>> :> Wire(0, {"north", "south"}) @@ <<3, 1, z - 1>> :> Lever("up")
  @@ <<4, 1, z>> :> Air @@ <<3, 1, z + 1>> :> Solid @@ <<3, 1, z + 2>> :> Torch("south", TRUE)
  @@ <<2, 1, z>> :> Repeater("south")

\* A torch on a block that two wires of the same lever reach; a block placed in
\* the middle cuts the second one off.
Twin(z) ==
  <<1, 1, z>> :> Lever("up") @@ <<2, 1, z>> :> Wire(0, EW) @@ <<3, 1, z>> :> Wire(0, EW)
  @@ <<4, 1, z>> :> Solid @@ <<4, 2, z>> :> Wire(0, EW) @@ <<5, 2, z>> :> Lever("up")
  @@ <<3, 2, z>> :> Air @@ <<5, 1, z>> :> Torch("east", TRUE) @@ <<6, 1, z>> :> Lamp(TRUE)

\* A torch that powers the wire beside the block above it.
Tower(z) ==
  <<1, 1, z>> :> Lever("up") @@ <<2, 1, z>> :> Wire(0, EW) @@ <<3, 1, z>> :> Solid
  @@ <<3, 2, z>> :> Torch("up", TRUE) @@ <<3, 3, z>> :> Solid
  @@ <<4, 3, z>> :> Wire(Strength, EW)
  @@ <<5, 3, z>> :> [kind |-> "repeater", facing |-> "west", powered |-> TRUE]
  @@ <<6, 3, z>> :> Lamp(TRUE)

\* One circuit a row, so that each has the cells meant for it.
MCWorlds ==
  UNION {{Stairs(z), Bend(z + 1), Twin(z + 2), Branches(z + 3), Lock(z + 3), Tower(z + 3)} :
           z \in Where}

MCCells == UNION {{<<2, 2, z>>, <<4, 1, z + 1>>, <<3, 2, z + 2>>} : z \in Where}

MCPlaced == {Air, Solid, RedstoneBlock}

BranchWorlds == {Branches(z) : z \in Where}

-----------------------------------------------------------------------------
\* Two wires with a conductor and a torch between them, and diodes behind.
MCStarts ==
  {<<1, 1, 1>> :> Wire(0, EW) @@ <<2, 1, 1>> :> Solid @@ <<2, 2, 1>> :> Torch("up", TRUE)
   @@ <<3, 1, 1>> :> Wire(0, EW) @@ <<4, 1, 1>> :> Solid
   @@ <<5, 1, 1>> :> [kind |-> "comparator", facing |-> "west", powered |-> FALSE]
   @@ <<1, 2, 1>> :> Air @@ <<3, 2, 1>> :> Air}

MCSites == {<<2, 1, 1>>, <<2, 2, 1>>, <<3, 1, 1>>, <<4, 1, 1>>, <<1, 2, 1>>}

MCBlocks == {Air, Wire(0, EW), Wire(1, {}), Torch("up", FALSE), Lamp(FALSE), Lamp(TRUE)}

-----------------------------------------------------------------------------
\* A resting part is the empty world.
WiresRest ==
  /\ world = <<>> /\ net \in Networks(<<>>) /\ rt \in Runtimes(net, <<>>) /\ pend = <<>> /\ bent = {}
  /\ uses = 0 /\ batch = FALSE /\ verdict = [world |-> TRUE, ticks |-> TRUE, order |-> TRUE]

PlansRest ==
  /\ blocks = <<>> /\ changes = <<>> /\ graph = EmptyGraph
  /\ dense = FALSE /\ netWorld = <<>> /\ edits = 0

EitherInit ==
  \/ part = "wires" /\ Init /\ PlansRest
  \/ part = "plans" /\ PlanInit /\ WiresRest

EitherNext ==
  \/ part = "wires" /\ Next /\ UNCHANGED <<part, planVars>>
  \/ part = "plans" /\ PlanNext /\ UNCHANGED <<part, vars>>

EitherSpec == EitherInit /\ [][EitherNext]_<<part, vars, planVars>>
=============================================================================
