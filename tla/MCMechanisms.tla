----------------------------- MODULE MCMechanisms -----------------------------
(***************************************************************************)
(* Hoppers and pistons, for TLC: a behaviour follows one of the two, the   *)
(* other rests.                                                            *)
(***************************************************************************)
EXTENDS MCHopperTransfer

CONSTANTS Width, Height, PushLimit, MaxSwitches
VARIABLES part, block, mover, powered, events, agenda, phase, toTick, switches

Worlds == INSTANCE MCPistons WITH Layouts <- {}
Pistons == INSTANCE MCPistons WITH Layouts <- Worlds!Moving
pistonVars == <<block, mover, powered, events, agenda, phase, toTick, switches>>

ContainersRest == Init /\ plan = Composting(0)

PistonsRest ==
  /\ block = <<>> /\ mover = <<>> /\ powered = {} /\ events = <<>> /\ agenda = <<>>
  /\ phase = "events" /\ toTick = {} /\ switches = 0

EitherInit ==
  \/ part = "containers" /\ Init /\ PistonsRest
  \/ part = "pistons" /\ Pistons!MCInit /\ ContainersRest

EitherNext ==
  \/ part = "containers" /\ Next /\ UNCHANGED <<part, pistonVars>>
  \/ part = "pistons" /\ Pistons!Next /\ UNCHANGED <<part, vars>>

EitherSpec == EitherInit /\ [][EitherNext]_<<part, vars, pistonVars>>

\* A moving block has a block entity that knows the piston it came from, and
\* a head its base (piston.rs, move_piston_structure and settle_moving_piston);
\* a piston without power does not stay extended (refresh_piston).
MovementConsistent ==
  part = "pistons" => Pistons!MovementConsistent /\ Pistons!NoneLeftExtended

\* The resolver finds exactly the blocks that have to move, or that they
\* cannot (piston.rs, resolve_push_structure).
StructureExact == part = "pistons" => Pistons!StructureExact

\* No step loses or doubles a block, but those a piston may destroy.
NothingLost == [][part = "pistons" => Pistons!Kept]_<<part, pistonVars>>
===============================================================================
