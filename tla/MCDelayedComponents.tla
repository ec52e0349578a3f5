------------------------- MODULE MCDelayedComponents -------------------------
(***************************************************************************)
(* Small circuits for DelayedComponents: repeaters that lock each other, a *)
(* torch that feeds itself beside one that a lever turns, an observer and  *)
(* a lamp behind a button, and comparators that subtract their own output. *)
(* And lines of blocks for Comparators: a behaviour follows one of the     *)
(* two, the other rests.                                                   *)
(***************************************************************************)
EXTENDS DelayedComponents, Comparators

VARIABLE part

From(c) == [from |-> c, loss |-> 0]
Weak(c) == [from |-> c, loss |-> 1]

Part(kind, rear, side) ==
  [kind |-> kind, rear |-> rear, side |-> side, delay |-> 2, urgent |-> FALSE, front |-> 0]
Repeater(rear, side, delay, urgent) ==
  [Part("repeater", rear, side) EXCEPT !.delay = delay, !.urgent = urgent]
Observer(front) == [Part("observer", {}, {}) EXCEPT !.front = front]
Lever == Part("lever", {}, {})
Button == Part("button", {}, {})

MutualLock ==
  <<Lever, Lever, Repeater({From(1)}, {From(4)}, 2, TRUE), Repeater({From(2)}, {From(3)}, 4, TRUE)>>

SelfFedTorch ==
  <<Lever, Part("torch", {From(1), From(2)}, {}), Part("torch", {From(1)}, {})>>

ButtonPulse ==
  <<Button, Repeater({From(1)}, {}, 4, FALSE), Observer(2), Part("lamp", {From(2), From(3)}, {})>>

ObserverRing ==
  <<Lever, Observer(4), Observer(2), Part("lamp", {From(1), From(3)}, {})>>

Subtracting ==
  <<Lever, Part("comparator", {From(1)}, {Weak(2)}), Part("comparator", {From(2)}, {}),
    Repeater({From(1)}, {From(3)}, 2, FALSE)>>

SmallCircuits == {MutualLock, SelfFedTorch, ButtonPulse, ObserverRing, Subtracting}

-----------------------------------------------------------------------------
Stone == [Air EXCEPT !.kind = "stone"]
Container == [Air EXCEPT !.kind = "container"]
Composter == [Air EXCEPT !.kind = "composter", !.level = 3]
Compares(facing) == [Air EXCEPT !.kind = "comparator", !.facing = facing]
Subtracts(facing) == [Compares(facing) EXCEPT !.subtract = TRUE]

OneItem == [NoData EXCEPT !.slots = <<<<1, 64>>, <<0, 64>>>>]
Full == [NoData EXCEPT !.slots = <<<<64, 64>>, <<16, 16>>>>]
Saved(output) == [NoData EXCEPT !.saved = output]

Row(blocks, held) ==
  [block |-> blocks, held |-> held, side |-> [p \in DOMAIN blocks |-> 0]]

ThroughStone ==
  Row(<<Compares(1), Stone, Compares(1), Stone, Container>>,
      <<NoData, NoData, NoData, NoData, OneItem>>)

FromBothSides ==
  Row(<<Subtracts(1), Compares(1), Container, Compares(-1), Air>>,
      <<Saved(7), NoData, Full, NoData, NoData>>)

LineStarts == {ThroughStone, FromBothSides}
SetBlocks == {Air, Stone, Compares(1), Composter}
SetContents == {Full, Saved(2)}
PastedBlocks ==
  {[block |-> b, held |-> NoData] : b \in {Air, Compares(1), Composter}}
  \cup {[block |-> Compares(1), held |-> Saved(2)]}

CircuitRests == circuit = MutualLock /\ state.on = [c \in Parts |-> FALSE]

LineRests ==
  /\ world = ThroughStone /\ outputs = <<>> /\ copy = <<>> /\ source = <<>> /\ due = <<>>
  /\ live = FALSE /\ stage = "load" /\ edits = 0 /\ unheard = {}

EitherInit ==
  \/ part = "circuit" /\ Init /\ LineRests
  \/ part = "line" /\ Init /\ CircuitRests /\ ComparatorsInit

InCircuit == part = "circuit" /\ UNCHANGED <<part, comparatorVars>>
InLine == part = "line" /\ UNCHANGED <<part, vars>>

EitherNext ==
  \/ InCircuit /\ Initialize
  \/ InCircuit /\ BeginTick
  \/ InCircuit /\ Act
  \/ InCircuit /\ EndActions
  \/ InCircuit /\ RunTick
  \/ InCircuit /\ EndTicks
  \/ InLine /\ InitializeLine
  \/ InLine /\ BeginStep
  \/ InLine /\ EndStep
  \/ InLine /\ Configure
  \/ InLine /\ Prepare
  \/ InLine /\ Fallback
  \/ \E p \in Positions :
       \/ InLine /\ RunDue(p)
       \/ InLine /\ UseComparator(p)
       \/ InLine /\ UpdatePosition(p)
       \/ \E b \in Placed : InLine /\ SetBlock(p, b)
       \/ \E b \in Pasted : InLine /\ Paste(p, b.block, b.held)
       \/ \E held \in Contents : InLine /\ SetBlockEntity(p, held)
       \/ \E level \in SideLevels : InLine /\ SideChanges(p, level)

EitherSpec == EitherInit /\ [][EitherNext]_<<part, vars, comparatorVars>>
=============================================================================
