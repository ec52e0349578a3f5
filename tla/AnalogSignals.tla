---------------------------- MODULE AnalogSignals ----------------------------
(***************************************************************************)
(* redstone-java-26/src/rules/comparator.rs, comparator/block_entity.rs    *)
(* and the fill of a container (rules/inventory.rs): what a comparator     *)
(* reads of a block, from its state and its block entity.                  *)
(*                                                                         *)
(* A block has a kind, a level (the property that counts for its kind, a   *)
(* flag as 0 or 1) and a facing, a direction along a line. A block entity  *)
(* holds slots, pairs of a count and the size of a full stack, disabled    *)
(* slots, a number (its page, its last slot or its successes), its pages,  *)
(* and a saved comparator output, or None. NoData is no block entity.      *)
(***************************************************************************)
EXTENDS Integers, Sequences, FiniteSetsExt

None == -1
NoData == [slots |-> <<>>, disabled |-> {}, number |-> None, pages |-> 0, saved |-> None]

Least(a, b) == IF a <= b THEN a ELSE b
Clamp(low, n, high) == IF n < low THEN low ELSE Least(n, high)

\* Slots are numbered from 0.
OccupiedSlots(held) == {n - 1 : n \in {m \in DOMAIN held.slots : held.slots[m][1] > 0}}

\* The fill of a slot is a fraction: their sum, as numerator and denominator.
Fill(slots) ==
  LET sum[n \in 0 .. Len(slots)] ==
        IF n = 0 THEN <<0, 1>>
        ELSE <<sum[n - 1][1] * slots[n][2] + Clamp(0, slots[n][1], slots[n][2]) * sum[n - 1][2],
               sum[n - 1][2] * slots[n][2]>>
  IN  sum[Len(slots)]

\* The mean fill in 14 steps, and one more for anything at all.
Steps(fill, count) ==
  IF fill[1] = 0 \/ count = 0 THEN 0 ELSE Least((14 * fill[1]) \div (fill[2] * count) + 1, 15)

ContainerSignal(slots) == Steps(Fill(slots), Len(slots))

\* A disabled slot counts as an occupied one.
CrafterOutput(held) ==
  Least(Cardinality(OccupiedSlots(held) \cup {n \in held.disabled : n < 9}), 9)

\* Three slots as bits, read from behind only.
ShelfOutput(block, held, direction) ==
  IF block.facing # -direction THEN 0
  ELSE MapThenSumSet(LAMBDA n : 2 ^ n, {n \in OccupiedSlots(held) : n < 3})

LecternOutput(block, held) ==
  IF block.level = 0 \/ held = NoData THEN 0
  ELSE IF held.pages <= 1 THEN 15
  ELSE Clamp(1, (Clamp(0, held.number, held.pages - 1) * 14) \div (held.pages - 1) + 1, 15)

\* A single stack, in 15 steps.
PotOutput(held) ==
  IF held.slots = <<>> \/ held.slots[1][1] <= 0 THEN 0
  ELSE Clamp(1, 1 + (Clamp(1, held.slots[1][1], held.slots[1][2]) * 14) \div held.slots[1][2], 15)

AnalogKinds ==
  {"composter", "cake", "portal_frame", "anchor", "bookshelf", "command", "crafter", "shelf",
   "lectern", "pot", "container"}

HasAnalogOutput(block) == block.kind \in AnalogKinds

KindOutput(block, held, direction) ==
  CASE block.kind = "composter" -> block.level
    [] block.kind = "cake" -> (7 - block.level) * 2
    [] block.kind = "portal_frame" -> block.level * 15
    [] block.kind = "anchor" -> (block.level * 15) \div 4
    [] block.kind = "bookshelf" -> Clamp(-1, held.number, 14) + 1
    [] block.kind = "command" -> Clamp(0, held.number, 15)
    [] block.kind = "crafter" -> CrafterOutput(held)
    [] block.kind = "shelf" -> ShelfOutput(block, held, direction)
    [] block.kind = "lectern" -> LecternOutput(block, held)
    [] block.kind = "pot" -> PotOutput(held)
    [] block.kind = "container" -> ContainerSignal(held.slots)

\* In the direction from the comparator's side of the block; an output that
\* the block entity names comes first.
AnalogOutput(block, held, direction) ==
  Clamp(0, IF held.saved # None THEN held.saved ELSE KindOutput(block, held, direction), 15)
=============================================================================
