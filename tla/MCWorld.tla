------------------------------- MODULE MCWorld -------------------------------
(***************************************************************************)
(* What a world keeps, for TLC: blocks in sections, entities and their     *)
(* index, or block entities and their registries; a behaviour follows one  *)
(* of the three, the others rest.                                          *)
(*                                                                         *)
(* Three sections in a box of 4 by 3 by 2. With 8 slots for a section, as  *)
(* in the code, the box of all three becomes an array (24 slots), that of  *)
(* the first and the third does (12) and that of the last two does not     *)
(* (18); the second lies outside the box of the other two, yet its index   *)
(* there is one of the array. Block states but air are interchangeable.    *)
(*                                                                         *)
(* On the entities' axis sections of two points, one of them at negative   *)
(* coordinates and one cut off at its first point.                         *)
(***************************************************************************)
EXTENDS BlockEntityTicks, SectionStore, EntityIndex, TLC

CONSTANTS p1, p2

VARIABLE part

ASSUME StoreAssumption
ASSUME EntityAssumption

TwoSections == [p \in Positions |-> IF p = p1 THEN 1 ELSE 2]

SlantedSections == {<<-1, 0, 0>>, <<0, 0, 1>>, <<2, 2, 0>>}
NearOrigin == -2 .. 2
StateSymmetry == Permutations(States \ {Air})

BlockEntitiesRest == Init /\ block = [p \in Positions |-> "air"] /\ order = <<>>

EitherInit ==
  \/ part = "blocks" /\ StoreInit /\ EntitiesInit /\ BlockEntitiesRest
  \/ part = "entities" /\ StoreInit /\ EntitiesInit /\ BlockEntitiesRest
  \/ part = "block entities" /\ StoreInit /\ EntitiesInit /\ Init

EitherNext ==
  \/ part = "blocks" /\ StoreNext /\ UNCHANGED <<part, entityVars, vars>>
  \/ part = "entities" /\ EntitiesNext /\ UNCHANGED <<part, storeVars, vars>>
  \/ part = "block entities" /\ Next /\ UNCHANGED <<part, storeVars, entityVars>>

EitherSpec == EitherInit /\ [][EitherNext]_<<part, vars, storeVars, entityVars>>
=============================================================================
