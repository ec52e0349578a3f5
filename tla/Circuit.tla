------------------------------- MODULE Circuit -------------------------------
(***************************************************************************)
(* Blocks in space and the power they give each other: what rules.rs reads *)
(* of the world whenever something asks whether it is powered.  A world is *)
(* a function from the positions that matter to blocks; everything else is *)
(* air.  Positions are <<x, y, z>>.                                        *)
(***************************************************************************)
EXTENDS Integers, Sequences, FiniteSets, SequencesExt

CONSTANT Strength      \* the power of a full signal: 15

ASSUME StrengthAssumption == Strength \in Nat \ {0}

-----------------------------------------------------------------------------
(* Directions and positions.                                               *)

UpdateOrder == <<"west", "east", "down", "up", "north", "south">>

Horizontal == {"north", "east", "south", "west"}

Directions == Horizontal \cup {"down", "up"}

Opposite(d) ==
  CASE d = "west" -> "east"   [] d = "east" -> "west"
    [] d = "down" -> "up"     [] d = "up" -> "down"
    [] d = "north" -> "south" [] d = "south" -> "north"

Clockwise(d) ==
  CASE d = "north" -> "east" [] d = "east" -> "south"
    [] d = "south" -> "west" [] d = "west" -> "north"

CounterClockwise(d) == Opposite(Clockwise(d))

Next6(p, d) ==
  CASE d = "west" -> <<p[1] - 1, p[2], p[3]>>
    [] d = "east" -> <<p[1] + 1, p[2], p[3]>>
    [] d = "down" -> <<p[1], p[2] - 1, p[3]>>
    [] d = "up" -> <<p[1], p[2] + 1, p[3]>>
    [] d = "north" -> <<p[1], p[2], p[3] - 1>>
    [] d = "south" -> <<p[1], p[2], p[3] + 1>>

\* The bucket of Java's HashMap a position falls into, for coordinates whose
\* hash stays below 2^16.
Bucket(p) == ((p[3] * 31 + p[2]) * 31 + p[1]) % 16

\* The seven positions whose neighbours a wire tells about its power, in the
\* order of a Java hash set: by bucket, and within a bucket as inserted.
WireUpdatePositions(p) ==
  LET inserted == <<p>> \o [i \in 1 .. 6 |->
                    Next6(p, <<"down", "up", "north", "south", "west", "east">>[i])]
      Rank(i) == Bucket(inserted[i]) * 7 + i
      order == SortSeq([i \in 1 .. 7 |-> i], LAMBDA i, j : Rank(i) < Rank(j))
  IN  [i \in 1 .. 7 |-> inserted[order[i]]]

-----------------------------------------------------------------------------
(* Blocks.  A torch has the facing it was placed with ("up" on the floor), *)
(* a wire the horizontal sides it connects to.                             *)

Air == [kind |-> "air"]

Block(world, p) == IF p \in DOMAIN world THEN world[p] ELSE Air

Conductor(b) == b.kind \in {"solid", "lamp"}

IsWire(b) == b.kind = "wire"

HandlesUpdate(b) == b.kind \in {"wire", "torch", "repeater", "lamp"}

IsSource(b) == b.kind \in {"lever", "torch", "repeater", "block"}

\* The direction in which a lever's own power is strong.
AttachedDirection(b) == b.side

TorchInput(b) == IF b.facing = "up" THEN "down" ELSE Opposite(b.facing)

Output(b) ==
  CASE b.kind = "block" -> Strength
    [] b.kind = "torch" -> IF b.lit THEN Strength ELSE 0
    [] b.kind \in {"repeater", "lever"} -> IF b.powered THEN Strength ELSE 0
    [] OTHER -> 0

ProvidesWeak(b, d) ==
  \/ b.kind \in {"block", "lever"}
  \/ b.kind = "torch" /\ b.facing # d
  \/ b.kind = "repeater" /\ b.facing = d

ProvidesStrong(b, d) ==
  \/ b.kind = "torch" /\ d = "down"
  \/ b.kind = "lever" /\ AttachedDirection(b) = d
  \/ b.kind = "repeater" /\ b.facing = d

WireProvides(b, d) ==
  CASE d = "down" -> FALSE
    [] d = "up" -> TRUE
    [] OTHER -> Opposite(d) \in b.open

\* weak_signal: what a block gives to a reader that looks at it in direction d.
WeakSignal(b, d) ==
  IF IsWire(b) THEN (IF WireProvides(b, d) THEN b.power ELSE 0)
  ELSE IF ProvidesWeak(b, d) THEN Output(b) ELSE 0

\* direct_signal: what a block gives through a conductor next to it.
DirectSignal(b, d) ==
  IF IsWire(b) THEN WeakSignal(b, d)
  ELSE IF ProvidesStrong(b, d) THEN Output(b) ELSE 0

MaxOf(S) == CHOOSE n \in S \cup {0} : \A m \in S : n >= m

\* The strong power that reaches conductor p, from wires too or not.
Conducted(world, p, withWires) ==
  MaxOf({DirectSignal(Block(world, Next6(p, d)), d) :
           d \in {e \in Directions :
                    withWires \/ ~IsWire(Block(world, Next6(p, e)))}})

Signal(world, p, d) ==
  LET b == Block(world, p) IN
  MaxOf({WeakSignal(b, d)} \cup
        (IF Conductor(b) THEN {Conducted(world, p, TRUE)} ELSE {}))

SignalWithoutWire(world, p, d) ==
  LET b == Block(world, p) IN
  MaxOf((IF IsWire(b) THEN {} ELSE {WeakSignal(b, d)}) \cup
        (IF Conductor(b) THEN {Conducted(world, p, FALSE)} ELSE {}))

IsPowered(world, p) == \E d \in Directions : Signal(world, Next6(p, d), d) > 0

\* diode_input: a diode also reads a wire behind it that does not point to it.
DiodeInput(world, p) ==
  LET f == Block(world, p).facing
      rear == Next6(p, f)
  IN  MaxOf({Signal(world, rear, f)} \cup
            (IF IsWire(Block(world, rear)) THEN {Block(world, rear).power} ELSE {}))

RepeaterLocked(world, p) ==
  \E d \in {Clockwise(Block(world, p).facing), CounterClockwise(Block(world, p).facing)} :
    /\ Block(world, Next6(p, d)).kind = "repeater"
    /\ Signal(world, Next6(p, d), d) > 0

-----------------------------------------------------------------------------
(* Wires.                                                                  *)

Wires(world) == {p \in DOMAIN world : IsWire(world[p])}

\* wire_neighbors: the wires a wire reads, beside it or one step up or down.
WireNeighbors(world, p) ==
  LET open == ~Conductor(Block(world, Next6(p, "up")))
      Reads(d) ==
        LET side == Next6(p, d) IN
        {side} \cup (IF Conductor(Block(world, side))
                     THEN (IF open THEN {Next6(side, "up")} ELSE {})
                     ELSE {Next6(side, "down")})
  IN  {q \in UNION {Reads(d) : d \in Horizontal} : IsWire(Block(world, q))}

\* wire_target_power: the power a wire should have in this world.
BlockPower(world, p) ==
  MaxOf({SignalWithoutWire(world, Next6(p, d), d) : d \in Directions})

Less1(n) == IF n = 0 THEN 0 ELSE n - 1

TargetPower(world, p) ==
  MaxOf({BlockPower(world, p),
         Less1(MaxOf({world[q].power : q \in WireNeighbors(world, p)}))})

\* The neighbours of p, in the order in which they are told of a change, and
\* everybody a wire tells of its power: blocks that do not listen left out.
NeighborsOf(p) == [i \in 1 .. 6 |-> Next6(p, UpdateOrder[i])]

Listening(world, ps) == SelectSeq(ps, LAMBDA q : HandlesUpdate(Block(world, q)))

ToldBy(world, candidates) ==
  Listening(world, FlattenSeq([i \in 1 .. 7 |-> NeighborsOf(candidates[i])]))

Told(world, p) == ToldBy(world, WireUpdatePositions(p))

\* The wire_shape rules: the sides a wire at p connects to.
WireConnectsTo(b, d) ==
  \/ IsWire(b)
  \/ d # "none" /\ b.kind = "repeater" /\ d \in {b.facing, Opposite(b.facing)}
  \/ d # "none" /\ b.kind \in {"lever", "torch", "block"}

WireConnects(world, p, d) ==
  LET side == Next6(p, d)
      above == Next6(side, "up")
  IN  \/ /\ ~Conductor(Block(world, Next6(p, "up")))
         /\ Block(world, side).kind \in {"solid", "lamp", "block"}
         /\ WireConnectsTo(Block(world, above), "none")
      \/ WireConnectsTo(Block(world, side), d)
      \/ /\ ~Conductor(Block(world, side))
         /\ WireConnectsTo(Block(world, Next6(side, "down")), "none")

WireShape(world, p) ==
  LET c == {d \in Horizontal : WireConnects(world, p, d)}
      straight ==
        (IF c \cap {"north", "south"} = {} THEN {"east", "west"} ELSE {}) \cup
        (IF c \cap {"east", "west"} = {} THEN {"north", "south"} ELSE {})
  IN  IF world[p].open = {} /\ c = {} THEN {} ELSE c \cup straight
=============================================================================
