------------------------------ MODULE Containers ------------------------------
(***************************************************************************)
(* What may lie in which slot of which container, as hopper.rs and          *)
(* inventory.rs decide it.  A container is named by the sequence of places  *)
(* its inventory is made of: <<p>> for a block, a composter or an entity,   *)
(* <<p, q>> for the halves of a double chest, <<>> for one that cannot be   *)
(* used (a loot table).  The operators read a view v of the world,          *)
(* v.slots[p][n] for the stack in slot n of place p and v.level[p] for the  *)
(* level of composter p, so that they see what a transfer has staged.       *)
(***************************************************************************)
EXTENDS Integers, Sequences, FiniteSets

CONSTANTS Places,      \* positions and entities that hold items
          Kind,        \* [Places -> STRING], the kind of its block entity
          SlotCount,   \* [Places -> Nat], field slot_count or the default of the kind
          Half,        \* slots of half a double chest
          Items,       \* item ids
          MaxStack,    \* [Items -> Nat], official_item_max_stack_size
          Fuel, Bottles, Ingredients, Playable, Books, Shulkers, Compost,
                       \* official item traits, sets of items
          Disabled     \* [Places -> SUBSET Nat], slots a crafter does not use

ASSUME ContainersAssumption ==
  /\ SlotCount \in [Places -> Nat \ {0}]
  /\ Half \in Nat \ {0}
  /\ MaxStack \in [Items -> Nat \ {0}]
  /\ IsFiniteSet(Places)
  /\ "none" \notin Items

NoStack == [item |-> "none", count |-> 0]
Stacks == {NoStack} \cup [item : Items, count : Nat \ {0}]

\* The containers there can be; the halves of a double chest are alike.
Single == {<<p>> : p \in Places}
Double == {r \in Places \X Places :
             /\ r[1] # r[2]
             /\ Kind[r[1]] \in {"chest", "trapped_chest"} /\ Kind[r[2]] = Kind[r[1]]
             /\ SlotCount[r[1]] >= Half /\ SlotCount[r[2]] >= Half}
Refs == {<<>>} \cup Single \cup Double

Furnaces == {"furnace", "blast_furnace", "smoker"}
ShulkerBoxes == {"shulker_box"}

KindOf(ref) == IF ref = <<>> THEN "unsupported" ELSE Kind[ref[1]]
IsComposter(ref) == KindOf(ref) = "composter"

Size(ref) ==
  IF Len(ref) = 2 THEN 2 * Half
  ELSE IF ref = <<>> THEN 0
  ELSE IF IsComposter(ref) THEN 1
  ELSE SlotCount[ref[1]]

\* The place and the slot in it that slot n of a container stands for.
PlaceOf(ref, n) == IF Len(ref) = 2 /\ n >= Half THEN ref[2] ELSE ref[1]
SlotIn(ref, n) == IF Len(ref) = 2 /\ n >= Half THEN n - Half ELSE n

\* The stack in a slot of a container; a full composter holds its bone meal.
StackAt(v, ref, n) ==
  IF ~IsComposter(ref) THEN v.be[PlaceOf(ref, n)].slots[SlotIn(ref, n)]
  ELSE IF v.level[ref[1]] = 8 THEN [item |-> "bone_meal", count |-> 1]
  ELSE NoStack

Slots(ref) == 0 .. Size(ref) - 1
IsEmpty(v, ref) == \A n \in Slots(ref) : StackAt(v, ref, n).count = 0

AllSlots(ref) == [i \in 1 .. Size(ref) |-> i - 1]

\* The slots that can be reached through a face, in the order they are tried.
SlotsForFace(v, ref, face) ==
  IF IsComposter(ref)
  THEN IF \/ face = "up" /\ v.level[ref[1]] <= 6
          \/ face = "down" /\ v.level[ref[1]] = 8
       THEN <<0>> ELSE <<>>
  ELSE IF face # "none" /\ KindOf(ref) \in Furnaces
  THEN [up |-> <<0>>, down |-> <<2, 1>>, side |-> <<1>>][face]
  ELSE IF face # "none" /\ KindOf(ref) = "brewing_stand"
  THEN [up |-> <<3>>, down |-> <<0, 1, 2, 3>>, side |-> <<0, 1, 2, 4>>][face]
  ELSE AllSlots(ref)

\* A crafter spreads an item over its slots: it refuses a slot when a later one
\* that is not disabled is empty or has fewer of the same item.
CrafterTakes(slots, disabled, n, item) ==
  /\ n \notin disabled
  /\ \/ slots[n].count = 0
     \/ /\ slots[n].item = item
        /\ slots[n].count < 64
        /\ \A later \in (n + 1) .. 8 \ disabled :
             /\ later \in DOMAIN slots /\ slots[later].count > 0
             /\ slots[later].item = item => slots[later].count >= slots[n].count

\* The slots of furnaces and brewing stands, for which both paths have one rule.
FurnaceTakes(current, n, item) ==
  \/ n = 0
  \/ n = 1 /\ (item \in Fuel \/ (item = "bucket" /\ current.item # "bucket"))
StandTakes(current, n, item) ==
  \/ n \in 0 .. 2 /\ item \in Bottles /\ current.count = 0
  \/ n = 3 /\ item \in Ingredients
  \/ n = 4 /\ item = "blaze_powder"

\* What droppers, dispensers and crafters ask (inventory.rs): no rule for
\* jukeboxes and bookshelves.
CanPlaceInSlot(v, p, n, item) ==
  LET current == v.be[p].slots[n]
  IN CASE Kind[p] \in Furnaces -> FurnaceTakes(current, n, item)
       [] Kind[p] = "brewing_stand" -> StandTakes(current, n, item)
       [] Kind[p] = "crafter" -> CrafterTakes(v.be[p].slots, Disabled[p], n, item)
       [] Kind[p] \in ShulkerBoxes -> item \notin Shulkers
       [] OTHER -> TRUE

\* What hoppers ask (hopper.rs).
CanPlace(v, ref, n, item) ==
  LET current == StackAt(v, ref, n)
  IN CASE KindOf(ref) = "jukebox" -> n = 0 /\ current.count = 0 /\ item \in Playable
       [] KindOf(ref) = "chiseled_bookshelf" -> n < 6 /\ current.count = 0 /\ item \in Books
       [] OTHER -> CanPlaceInSlot(v, PlaceOf(ref, n), SlotIn(ref, n), item)

StackLimit(ref, n, item) ==
  IF \/ KindOf(ref) \in {"jukebox", "chiseled_bookshelf"}
     \/ KindOf(ref) = "brewing_stand" /\ n <= 2
  THEN 1 ELSE MaxStack[item]

IsFull(v, ref) ==
  /\ Size(ref) > 0 /\ ~IsComposter(ref)
  /\ \A n \in Slots(ref) :
       LET stack == StackAt(v, ref, n)
       IN stack.count > 0 /\ stack.count >= StackLimit(ref, n, stack.item)

HasEmptySlot(v, ref) == ~IsComposter(ref) /\ \E n \in Slots(ref) : StackAt(v, ref, n).count = 0

CanTake(v, source, target, n, face) ==
  LET item == StackAt(v, source, n).item
      kind == KindOf(source)
  IN /\ (kind \in Furnaces /\ face = "down" /\ n = 1) => item \in {"bucket", "water_bucket"}
     /\ (kind = "brewing_stand" /\ n = 3) => item = "glass_bottle"
     /\ kind = "jukebox" => HasEmptySlot(v, target)
     /\ kind = "chiseled_bookshelf" => ~IsFull(v, target)

\* The limit droppers, dispensers and crafters keep to, besides a total capacity.
ItemStackLimit(p, n, item) ==
  IF Kind[p] = "brewing_stand" /\ n <= 2 THEN 1 ELSE MaxStack[item]
===============================================================================
