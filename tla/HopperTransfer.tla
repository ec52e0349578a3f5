---------------------------- MODULE HopperTransfer ----------------------------
(***************************************************************************)
(* Hoppers, hopper minecarts, droppers, dispensers and crafters moving      *)
(* items between containers and item entities (rules/inventory.rs,          *)
(* rules/inventory/hopper.rs and its session.rs).  A game tick first lets scheduled ticks   *)
(* run droppers and crafters, then ticks the entities (minecarts suck,      *)
(* items fall on hoppers), then ticks each hopper once.  A transfer works   *)
(* on a session, a staged copy of what it touches, and commits it when it   *)
(* ends.                                                                    *)
(***************************************************************************)
EXTENDS Containers, SequencesExt, FiniteSetsExt, Functions

CONSTANTS Drops,   \* ids of item entities, alive or still to be spawned
          Capacity,      \* [Places -> Nat], field capacity or 64
          Launched,      \* items a dispenser turns into an entity of their own
          Ejected,       \* items a dispenser drops
          Plans    \* layouts of containers and items, a set of plans

\* A plan is a record:
\*   order    the hoppers, in the order in which their block entities tick
\*   carts    the hopper minecarts, in the order of their entity ids
\*   front    [hopper or dropper -> set of containers it faces]; several when
\*            they are entities, of which one is drawn
\*   above    [hopper or minecart -> set of containers above]
\*   into     [hopper or dropper -> face of the container in front it enters]
\*   lid      hoppers and minecarts under a full block
\*   over     [hopper or minecart -> sequence of the items it can suck]
\*   near     [minecart -> sequence of the items around it]
\*   touches  sequence of <<item, hopper>>, the hoppers items lie in
\*   switched hoppers and minecarts whose power changes
\*   ejects   [dropper, dispenser or crafter -> id of the entity it spawns]
\*   output   [crafter -> stack its fields output_item_id and output_count name]
\*   start    initial contents, [be, level, drops]
PlanFields == {"order", "carts", "front", "above", "into", "lid", "over", "near", "touches",
               "switched", "ejects", "output", "start"}
Cooldown == 8      \* HOPPER_COOLDOWN

\* Everything there is in a place.
Contents(p) == [slots : [0 .. SlotCount[p] - 1 -> Stacks], cooldown : -1 .. Cooldown]

Hopping(p) == ToSet(p.order)
Named(p, ref) ==
  /\ ref \in Refs
  /\ \A q \in ToSet(ref) : /\ Kind[q] = "hopper" => q \in Hopping(p)
                           /\ Kind[q] = "composter" => q \in DOMAIN p.start.level
\* Hoppers are blocks, each in one place: none is before or above itself, or
\* both before and above another.
HoppersApart(p, h) ==
  /\ \A ref \in p.front[h] \cup p.above[h] : h \notin ToSet(ref)
  /\ \A front \in p.front[h], above \in p.above[h] :
       \A q \in ToSet(front) \cap ToSet(above) : Kind[q] # "hopper"
\* What a dropper or a crafter faces is a block with an inventory, not itself.
FacesBlocks(p, d) ==
  \A ref \in p.front[d] :
    ref \in Single /\ ref # <<d>> /\ Kind[ref[1]] # "composter"

PlanParts(p) ==
  /\ DOMAIN p = PlanFields
  /\ p.order \in Seq({q \in Places : Kind[q] = "hopper"}) /\ IsInjective(p.order)
  /\ p.carts \in Seq({q \in Places : Kind[q] = "hopper_minecart"})
  /\ p.front \in [Places -> SUBSET Refs] /\ p.above \in [Places -> SUBSET Refs]
  /\ p.into \in [Places -> {"up", "down", "side"}]
  /\ p.over \in [Places -> Seq(Drops)] /\ p.near \in [Places -> Seq(Drops)]
  /\ p.touches \in Seq(Drops \X Hopping(p))
  /\ p.switched \subseteq Hopping(p) \cup ToSet(p.carts)
  /\ DOMAIN p.ejects \subseteq Places
  /\ \A d \in DOMAIN p.ejects : p.ejects[d] \in Drops
  /\ \A c \in DOMAIN p.output : p.output[c] \in Stacks \ {NoStack}
PlanStart(p) ==
  /\ p.start.be = [q \in Places |-> p.start.be[q]]
  /\ \A q \in Places : p.start.be[q] \in Contents(q)
  /\ DOMAIN p.start.level \subseteq Places
  /\ p.start.level \in [DOMAIN p.start.level -> 0 .. 8]
  /\ DOMAIN p.start.level # {} => "bone_meal" \in Items
  /\ p.start.drops \in [Drops -> Stacks]
PlanLayout(p) ==
  /\ \A q \in Places : \A ref \in p.front[q] \cup p.above[q] : Named(p, ref)
  /\ \A h \in Hopping(p) : HoppersApart(p, h)
  /\ \A m \in ToSet(p.carts) : \A ref \in p.above[m] : m \notin ToSet(ref)
  /\ \A d \in DOMAIN p.ejects : FacesBlocks(p, d)
  /\ \A d \in DOMAIN p.ejects : Kind[d] = "crafter" => d \in DOMAIN p.output
ASSUME PlansAssumption ==
  /\ IsFiniteSet(Drops) /\ Capacity \in [Places -> Nat \ {0}] /\ Launched \cap Ejected = {}
  /\ \A p \in Plans : PlanParts(p) /\ PlanStart(p) /\ PlanLayout(p)

NoRef == <<"none">>

VARIABLES plan,     \* the plan of this behaviour
          be,       \* block entities and container entities: [slots, cooldown]
          level,    \* levels of composters
          drops,    \* item entities: stacks
          enabled,  \* property enabled of hoppers, field enabled of minecarts
          crafting, \* property crafting of crafters
          ticked,   \* hopper_last_tick, relative to the current tick
          at        \* position in the callbacks of this tick
\* Kept for the properties only:
VARIABLES arrived,  \* game ticks since a hopper pushed into this empty hopper, or -1
          spent,    \* items composted, launched or crafted, less what these gave
          notes     \* places whose comparators the last callback refreshed

vars == <<plan, be, level, drops, enabled, crafting, ticked, at, arrived, spent, notes>>

Hoppers == Hopping(plan)
Carts == ToSet(plan.carts)
Callbacks ==
     [i \in DOMAIN plan.carts |-> [kind |-> "cart", who |-> plan.carts[i]]]
  \o [i \in DOMAIN plan.touches |->
        [kind |-> "touch", who |-> plan.touches[i][2], item |-> plan.touches[i][1]]]
  \o [i \in DOMAIN plan.order |-> [kind |-> "hopper", who |-> plan.order[i]]]
Current == Callbacks[at]

-------------------------------------------------------------------------------
(* The session: what the world will be if it is committed.                 *)

NewSession(t) == [be |-> be, level |-> level, drops |-> drops, gone |-> {},
                  notes |-> {}, ticked |-> t, spent |-> spent]
WithCooldown(s, p, n) == [s EXCEPT !.be[p].cooldown = n]
Notify(s, ref) == [s EXCEPT !.notes = @ \cup ToSet(ref)]

Commit(s) ==
  /\ be' = s.be /\ level' = s.level
  /\ drops' = [e \in Drops |-> IF e \in s.gone THEN NoStack ELSE s.drops[e]]
  /\ notes' = s.notes
  /\ spent' = s.spent

\* Writes a stack into a container, each half of a double chest its own.
SetStack(s, ref, n, stack) == [s EXCEPT !.be[PlaceOf(ref, n)].slots[SlotIn(ref, n)] = stack]

\* An item that comes into an empty hopper makes it wait; one tick less when it
\* has already ticked in this game tick as late as the hopper it came from.
Rank(t) == [never |-> 0, before |-> 1, now |-> 2][t]
SkipsTickLater(s, p, source) ==
  /\ KindOf(source) = "hopper"
  /\ s.ticked[p] # "never"
  /\ Rank(s.ticked[p]) > Rank(s.ticked[source[1]])
SkipsTick(s, p, source) ==
  /\ KindOf(source) = "hopper"
  /\ s.ticked[p] # "never"
  /\ Rank(s.ticked[p]) >= Rank(s.ticked[source[1]])

ApplyIncomingCooldown(s, ref, source, wasEmpty) ==
  IF wasEmpty /\ KindOf(ref) = "hopper" /\ s.be[ref[1]].cooldown <= Cooldown
  THEN WithCooldown(s, ref[1], IF SkipsTick(s, ref[1], source) THEN Cooldown - 1 ELSE Cooldown)
  ELSE s

-------------------------------------------------------------------------------
(* Moving items into and out of containers.                                *)

\* A composter takes one item from above, whether or not its level rises.
InsertComposter(s, p, item, count, face, lucky) ==
  IF item \notin Compost \/ s.level[p] >= 7 \/ face # "up"
  THEN [s |-> s, inserted |-> 0]
  ELSE LET t == [s EXCEPT !.spent[item] = @ + 1]
       IN [s |-> IF s.level[p] = 0 \/ lucky THEN [t EXCEPT !.level[p] = @ + 1] ELSE t,
           inserted |-> 1]

\* How many more of an item a slot takes that holds so many.
Room(ref, n, item, held) == Max({StackLimit(ref, n, item) - held, 0})

\* How much each slot gets when count items are put into slots in an order, of
\* which the i-th has room[i].
Poured(count, room) ==
  [i \in DOMAIN room |->
     Max({0, Min({room[i], count - SumFunctionOnSet(room, 1 .. (i - 1))})})]

\* The slots of a sequence that are in a set, in their order.
Among(slots, set) ==
  LET kept[i \in 0 .. Len(slots)] ==
        IF i = 0 THEN <<>>
        ELSE IF slots[i] \in set THEN Append(kept[i - 1], slots[i]) ELSE kept[i - 1]
  IN kept[Len(slots)]

\* First onto equal stacks in the order of slots, then into empty slots in the
\* order of the face; what may be placed where is read before the first change.
InsertOrder(s, ref, item, slots, held) ==
  LET accepts == {n \in ToSet(slots) \cap Slots(ref) : CanPlace(s, ref, n, item)}
  IN Among(AllSlots(ref), {n \in accepts : held[n].item = item})
       \o Among(slots, {n \in accepts : held[n].count = 0})

\* got[i] more of the item in slot order[i]
Put(s, ref, item, order, got) ==
  LET gets(p, n) == {i \in DOMAIN order : /\ PlaceOf(ref, order[i]) = p
                                           /\ SlotIn(ref, order[i]) = n /\ got[i] > 0}
      grown(p, n, more) ==
        IF more = {} THEN s.be[p].slots[n]
        ELSE [item |-> item, count |-> s.be[p].slots[n].count + got[CHOOSE i \in more : TRUE]]
      place(p) == [s.be[p] EXCEPT !.slots = [n \in DOMAIN @ |-> grown(p, n, gets(p, n))]]
  IN [s |-> [s EXCEPT !.be = [p \in Places |-> IF p \in ToSet(ref) THEN place(p) ELSE @[p]]],
      inserted |-> SumFunction(got)]

PutInOrder(s, ref, item, count, order, held) ==
  Put(s, ref, item, order,
      Poured(count, [i \in DOMAIN order |-> Room(ref, order[i], item, held[order[i]].count)]))

PutFrom(s, ref, item, count, face, held) ==
  PutInOrder(s, ref, item, count, InsertOrder(s, ref, item, SlotsForFace(s, ref, face), held), held)

Arrived(s, ref, source, put) ==
  [put EXCEPT !.s = IF put.inserted = 0 THEN s
                    ELSE ApplyIncomingCooldown(put.s, ref, source, IsEmpty(s, ref))]

InsertStack(s, ref, item, count, face, source, lucky) ==
  IF IsComposter(ref)
  THEN InsertComposter(s, ref[1], item, count, face, lucky)
  ELSE Arrived(s, ref, source,
               PutFrom(s, ref, item, count, face, [n \in Slots(ref) |-> StackAt(s, ref, n)]))

\* Takes one item out of a slot.
RemoveFromSlot(s, ref, n) ==
  IF IsComposter(ref) THEN [s EXCEPT !.spent["bone_meal"] = @ - 1, !.level[ref[1]] = 0]
  ELSE LET stack == StackAt(s, ref, n)
       IN SetStack(s, ref, n, IF stack.count = 1 THEN NoStack
                              ELSE [stack EXCEPT !.count = @ - 1])

\* The session after an attempt the target refused.
AfterRefusalKept(checkpoint, tried) == tried
AfterRefusal(checkpoint, tried) == checkpoint

\* One item out of slot n, offered to the target with this outcome.
Offered(acc, target, out) ==
  IF out.inserted = 1 THEN [s |-> Notify(out.s, target), ok |-> TRUE]
  ELSE [s |-> AfterRefusal(acc.s, out.s), ok |-> FALSE]

Attempt(acc, source, target, n, sourceFace, targetFace, lucky) ==
  LET stack == StackAt(acc.s, source, n)
  IN IF acc.ok \/ n \notin Slots(source) \/ stack.count = 0
        \/ ~CanTake(acc.s, source, target, n, sourceFace)
     THEN acc
     ELSE Offered(acc, target, InsertStack(RemoveFromSlot(acc.s, source, n), target, stack.item, 1,
                                           targetFace, source, lucky))

\* Moves one item from the first slot whose item the target accepts; a refused
\* attempt goes back to the session as it was.
TransferOne(s, source, target, sourceFace, targetFace, lucky) ==
  LET slots == SlotsForFace(s, source, sourceFace)
      tried[i \in 0 .. Len(slots)] ==
        IF i = 0 THEN [s |-> s, ok |-> FALSE]
        ELSE Attempt(tried[i - 1], source, target, slots[i], sourceFace, targetFace, lucky)
  IN tried[Len(slots)]

\* An item entity of which out.inserted went into the container
Absorbed(acc, ref, e, out) ==
  LET left == acc.s.drops[e].count - out.inserted
      t == Notify(out.s, ref)
  IN IF out.inserted = 0 THEN acc
     ELSE IF left = 0 THEN [s |-> [t EXCEPT !.gone = @ \cup {e}], ok |-> TRUE]
     ELSE [s |-> [t EXCEPT !.drops[e].count = left], ok |-> FALSE]

AbsorbOne(acc, ref, e, lucky) ==
  LET stack == acc.s.drops[e]
  IN IF acc.ok \/ stack.count = 0 THEN acc
     ELSE Absorbed(acc, ref, e, InsertStack(acc.s, ref, stack.item, stack.count, "none", <<>>, lucky))

\* Item entities one after another, until one is taken whole.  One that is
\* taken in part stays with the rest, and does not count as a move.
AbsorbEntities(s, ref, items, lucky) ==
  LET taken[i \in 0 .. Len(items)] ==
        IF i = 0 THEN [s |-> s, ok |-> FALSE] ELSE AbsorbOne(taken[i - 1], ref, items[i], lucky)
  IN taken[Len(items)]

\* The session after items came out of a container above.
PulledUnnoticed(out, source) == out
Pulled(out, source) == IF out.ok THEN [out EXCEPT !.s = Notify(@, source)] ELSE out

\* From the container above, else from the items above unless a block covers.
PeriodicPull(s, h, source, lucky) ==
  IF source # NoRef
  THEN Pulled(TransferOne(s, source, <<h>>, "down", "none", lucky), source)
  ELSE IF h \in plan.lid THEN [s |-> s, ok |-> FALSE]
  ELSE AbsorbEntities(s, <<h>>, plan.over[h], lucky)

PulledAfter(s, h, source, item, lucky) ==
  IF IsFull(s, <<h>>) THEN [s |-> s, ok |-> FALSE]
  ELSE IF item = "none" THEN PeriodicPull(s, h, source, lucky)
  ELSE AbsorbEntities(s, <<h>>, <<item>>, lucky)

MoveEnded(h, pulled, moved) ==
  [s |-> IF moved THEN Notify(WithCooldown(pulled.s, h, Cooldown), <<h>>) ELSE pulled.s, ok |-> moved]

AfterPush(pushed, pulled, h) == MoveEnded(h, pulled, pushed.ok \/ pulled.ok)

PushedThenPulled(pushed, h, source, item, lucky) ==
  AfterPush(pushed, PulledAfter(pushed.s, h, source, item, lucky), h)

\* Push first, then pull what came or lies above; item names the entity that
\* touched the hopper, "none" in its periodic tick.
TryMove(s, h, target, source, item, lucky) ==
  PushedThenPulled(IF target = NoRef \/ IsEmpty(s, <<h>>) THEN [s |-> s, ok |-> FALSE]
                   ELSE TransferOne(s, <<h>>, target, "none", plan.into[h], lucky),
                   h, source, item, lucky)

\* The container at a place: the block's, or one of the entities there.
Resolve(refs) == IF refs = {} THEN {NoRef} ELSE refs

-------------------------------------------------------------------------------
(* History.                                                                *)

Received(p) ==
  /\ \A n \in DOMAIN be[p].slots : be[p].slots[n].count = 0
  /\ \E n \in DOMAIN be'[p].slots : be'[p].slots[n].count > 0

Arrivals(h, moved) ==
  arrived' = [p \in Hoppers |->
                IF p = h /\ (moved \/ Received(p)) THEN -1
                ELSE IF p # h /\ Received(p) THEN IF Current.kind = "hopper" THEN 0 ELSE -1
                ELSE arrived[p]]

-------------------------------------------------------------------------------
Init ==
  /\ plan \in Plans
  /\ be = plan.start.be /\ level = plan.start.level /\ drops = plan.start.drops
  /\ enabled = [h \in Hoppers \cup Carts |-> TRUE]
  /\ crafting = [c \in DOMAIN plan.output |-> FALSE]
  /\ ticked = [h \in Hoppers |-> "never"]
  /\ at = 0
  /\ arrived = [h \in Hoppers |-> -1]
  /\ spent = [i \in Items |-> 0]
  /\ notes = {}

NextCallback == /\ at \in 1 .. Len(Callbacks) /\ at' = at + 1
                /\ UNCHANGED <<plan, enabled, crafting>>

\* One periodic tick of a hopper's block entity.
TickContainer ==
  /\ NextCallback /\ Current.kind = "hopper"
  /\ LET h == Current.who
         now == [ticked EXCEPT ![h] = "now"]
         left == be[h].cooldown - 1
         s == WithCooldown(NewSession(now), h, Max({left, 0}))
     IN /\ ticked' = now
        /\ IF left > 0 \/ ~enabled[h] THEN Commit(s) /\ Arrivals(h, FALSE)
           ELSE \E target \in Resolve(plan.front[h]), source \in Resolve(plan.above[h]),
                   lucky \in BOOLEAN :
                  \E out \in {TryMove(s, h, target, source, "none", lucky)} :
                    Commit(out.s) /\ Arrivals(h, out.ok)

\* An item entity that lies in a hopper, found while entities tick.
TickCollision ==
  /\ NextCallback /\ Current.kind = "touch"
  /\ LET h == Current.who
     IN IF drops[Current.item].count = 0 \/ ~enabled[h] \/ be[h].cooldown > 0
        THEN Commit(NewSession(ticked)) /\ UNCHANGED arrived
        ELSE \E target \in Resolve(plan.front[h]), lucky \in BOOLEAN :
               \E out \in {TryMove(NewSession(ticked), h, target, NoRef, Current.item, lucky)} :
                 Commit(out.s) /\ Arrivals(h, out.ok)
  /\ UNCHANGED ticked

\* A hopper minecart pulls from the container above it, or sucks in items, and
\* when nothing moved takes the items near it.
FirstOfCart(s, m, source, lucky) ==
  IF source # NoRef THEN Pulled(TransferOne(s, source, <<m>>, "down", "none", lucky), source)
  ELSE AbsorbEntities(s, <<m>>, plan.over[m], lucky)

ThenNear(first, m, lucky) ==
  IF first.ok THEN first.s ELSE AbsorbEntities(first.s, <<m>>, plan.near[m], lucky).s

TickMinecart ==
  /\ NextCallback /\ Current.kind = "cart"
  /\ \E source \in Resolve(plan.above[Current.who]), lucky \in BOOLEAN :
       \E s \in {IF enabled[Current.who]
                 THEN ThenNear(FirstOfCart(NewSession(ticked), Current.who, source, lucky), Current.who, lucky)
                 ELSE NewSession(ticked)} : Commit(s)
  /\ Arrivals(Current.who, FALSE)
  /\ UNCHANGED ticked

\* The last callback has run: the tick ends and a new one begins.
NextTick ==
  /\ at = Len(Callbacks) + 1 /\ at' = 0
  /\ ticked' = [h \in Hoppers |-> IF ticked[h] = "never" THEN "never" ELSE "before"]
  /\ arrived' = [h \in Hoppers |-> IF arrived[h] = -1 THEN -1 ELSE Min({arrived[h] + 1, Cooldown})]
  /\ UNCHANGED <<plan, be, level, drops, enabled, crafting, spent, notes>>

\* Power reaches or leaves a hopper, or the rail below a minecart.
RefreshEnabled(h) ==
  /\ at = 0
  /\ enabled' = [enabled EXCEPT ![h] = ~@]
  /\ UNCHANGED <<plan, be, level, drops, crafting, ticked, at, arrived, spent, notes>>

EntitiesBegin ==
  /\ at = 0 /\ at' = 1
  /\ UNCHANGED <<plan, be, level, drops, enabled, crafting, ticked, arrived, spent, notes>>

-------------------------------------------------------------------------------
(* Scheduled ticks of droppers, dispensers and crafters: on the world       *)
(* itself, without a session.                                              *)

Count(stack, item) == IF stack.item = item THEN stack.count ELSE 0
TotalIn(p) == SumFunction([n \in DOMAIN be[p].slots |-> be[p].slots[n].count])

\* How much each slot gets within a total capacity. Where more than that lies
\* already, the first equal stack gives up what is over, or all it has.
WithinCapacity(room, excess, equal) ==
  IF excess <= 0 THEN Poured(-excess, room)
  ELSE [i \in DOMAIN room |-> IF i = 1 /\ equal THEN -excess ELSE 0]

NewStack(item, count) == IF count <= 0 THEN NoStack ELSE [item |-> item, count |-> count]

\* insert_item_with_components: as InsertStack, within a total capacity.
Inserted(p, item, count, face) ==
  LET v == [be |-> be, level |-> level]
      slots == SlotsForFace(v, <<p>>, face)
      held == be[p].slots
      accepts == {n \in ToSet(slots) \cap DOMAIN held : CanPlaceInSlot(v, p, n, item)}
      equal == Among(AllSlots(<<p>>), {n \in accepts : held[n].item = item})
      order == equal \o Among(slots, {n \in accepts : held[n].count = 0})
      got == WithinCapacity([i \in DOMAIN order |->
                               Max({ItemStackLimit(p, order[i], item) - held[order[i]].count, 0})],
                            -Min({count, Capacity[p] - TotalIn(p)}), equal # <<>>)
      wakes == Kind[p] = "hopper" /\ TotalIn(p) = 0 /\ SumFunction(got) > 0 /\ be[p].cooldown <= Cooldown
  IN [data |-> [slots |-> [n \in DOMAIN held |->
                             LET more == {i \in DOMAIN order : order[i] = n /\ got[i] # 0}
                             IN IF more = {} THEN held[n]
                                ELSE NewStack(item, held[n].count + got[CHOOSE i \in more : TRUE])],
                cooldown |-> IF wakes THEN Cooldown ELSE be[p].cooldown],
      count |-> SumFunction(got)]

Taken(p, n) ==
  LET stack == be[p].slots[n]
  IN [be[p] EXCEPT !.slots[n] = IF stack.count = 1 THEN NoStack ELSE [stack EXCEPT !.count = @ - 1]]

\* The stacks a scheduled tick of d may take from.
Stocked(d) == {n \in DOMAIN be[d].slots : be[d].slots[n].count > 0}

\* The entity that takes what does not fit; its id must be free (bound Drops).
Spawn(d, item, count) ==
  /\ count > 0 => drops[plan.ejects[d]].count = 0
  /\ drops' = IF count > 0 THEN [drops EXCEPT ![plan.ejects[d]] = [item |-> item, count |-> count]]
              ELSE drops

InTick(d) ==
  /\ at = 0 /\ d \in DOMAIN plan.ejects
  /\ UNCHANGED <<plan, level, enabled, ticked, at>>

\* A hopper that was empty and got an item from something else than a hopper.
OtherArrivals == arrived' = [h \in Hoppers |-> IF Received(h) THEN -1 ELSE arrived[h]]

\* One item of a random stack into the container in front, or thrown out.
ExecuteDropper(d) ==
  /\ InTick(d) /\ Kind[d] = "dropper"
  /\ \E n \in Stocked(d) :
       LET item == be[d].slots[n].item
       IN IF plan.front[d] = {}
          THEN /\ be' = [be EXCEPT ![d] = Taken(d, n)]
               /\ Spawn(d, item, 1) /\ notes' = {d}
          ELSE \E ref \in plan.front[d] :
                 LET out == Inserted(ref[1], item, 1, plan.into[d])
                     given == [be EXCEPT ![ref[1]] = out.data]
                 IN IF out.count = 1
                    THEN /\ be' = [given EXCEPT ![d] = Taken(d, n)]
                         /\ notes' = {ref[1], d} /\ UNCHANGED drops
                    ELSE be' = given /\ notes' = {} /\ UNCHANGED drops
  /\ UNCHANGED <<crafting, spent>>
  /\ OtherArrivals

\* An item becomes an entity of its kind or falls out; others are unsupported.
ExecuteDispenser(d) ==
  /\ InTick(d) /\ Kind[d] = "dispenser"
  /\ \E n \in Stocked(d) :
       LET item == be[d].slots[n].item
       IN /\ item \in Launched \cup Ejected
          /\ be' = [be EXCEPT ![d] = Taken(d, n)]
          /\ Spawn(d, item, IF item \in Ejected THEN 1 ELSE 0)
          /\ spent' = [spent EXCEPT ![item] = @ + (IF item \in Launched THEN 1 ELSE 0)]
  /\ notes' = {d} /\ UNCHANGED crafting
  /\ OtherArrivals

\* Takes one item, gives the output to the container in front and throws out
\* what does not fit; its next tick, one game tick later, makes it idle again.
ExecuteCrafter(d) ==
  /\ InTick(d) /\ Kind[d] = "crafter"
  /\ IF crafting[d]
     THEN crafting' = [crafting EXCEPT ![d] = FALSE] /\ notes' = {} /\ UNCHANGED <<be, drops, spent>>
     ELSE \E target \in Resolve(plan.front[d]), n \in Stocked(d) \ Disabled[d] :
            LET out == plan.output[d]
                put == IF target = NoRef THEN [data |-> NoStack, count |-> 0]
                       ELSE Inserted(target[1], out.item, out.count, plan.into[d])
                kept == [be EXCEPT ![d] = Taken(d, n)]
            IN /\ \A m \in Stocked(d) \ Disabled[d] : n <= m
               /\ be' = IF target = NoRef THEN kept ELSE [kept EXCEPT ![target[1]] = put.data]
               /\ Spawn(d, out.item, out.count - put.count)
               /\ crafting' = [crafting EXCEPT ![d] = TRUE]
               /\ notes' = {d} \cup (ToSet(target) \cap Places)
               /\ spent' = [i \in Items |-> spent[i] + Count([be[d].slots[n] EXCEPT !.count = 1], i)
                                                     - Count(out, i)]
  /\ OtherArrivals

Next ==
  \/ TickContainer \/ TickCollision \/ TickMinecart \/ NextTick \/ EntitiesBegin
  \/ \E h \in plan.switched : RefreshEnabled(h)
  \/ \E d \in Places : ExecuteDropper(d) \/ ExecuteDispenser(d) \/ ExecuteCrafter(d)

Spec == Init /\ [][Next]_vars

-------------------------------------------------------------------------------
Cells == UNION {{p} \X (0 .. SlotCount[p] - 1) : p \in Places}

Total(b, d, item) ==
  SumFunction([c \in Cells |-> Count(b[c[1]].slots[c[2]], item)])
    + SumFunction([e \in Drops |-> Count(d[e], item)])

\* No transfer makes or loses an item, whatever was tried, refused and taken
\* back on the way: what lies in containers and on the ground, with what was
\* composted, launched or crafted, is what was there at the start.
Conserved ==
  \A i \in Items : Total(be, drops, i) + spent[i] = Total(plan.start.be, plan.start.drops, i)

\* Nothing lies where it could not be placed: no stack that grew is over its
\* limit, and the special slots of furnaces, brewing stands, crafters, jukeboxes
\* and bookshelves hold only what they accept besides what was there at first.
Respected ==
  \A p \in Places : \A n \in DOMAIN be[p].slots :
    LET stack == be[p].slots[n]
        without == [be |-> [be EXCEPT ![p].slots[n] = NoStack], level |-> level]
    IN stack.count > Count(plan.start.be[p].slots[n], stack.item) =>
         /\ stack.count <= StackLimit(<<p>>, n, stack.item)
         /\ CanPlace(without, <<p>>, n, stack.item)

\* A transfer that tries slot after slot on a staged session leaves every item
\* where it may be, and all of them (transfer_one, insert_stack, commit).
ItemsConserved == Conserved /\ Respected

\* A hopper pushed an item into an empty one: whichever of the two ticks first
\* in a game tick, the second hopper can move it on seven ticks later.
SameDelayInEitherOrder ==
  at = Len(Callbacks) + 1 =>
    \A h \in Hoppers : arrived[h] # -1 => be[h].cooldown = Max({0, Cooldown - 1 - arrived[h]})

\* Comparators look again at every container whose contents a callback changed.
ChangesAreNotified ==
  [][\A p \in Places : (be[p].slots # be'[p].slots) => p \in notes']_vars
===============================================================================
