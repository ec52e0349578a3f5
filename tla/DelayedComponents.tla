------------------------- MODULE DelayedComponents -------------------------
(***************************************************************************)
(* redstone-java-26/src/rules.rs: the components that act later on what    *)
(* they read now. Torches, repeaters, comparators, observers and lamps     *)
(* refresh when a neighbour changes, which at most schedules a tick, and   *)
(* decide again when the tick runs. Levers, buttons and the mode of a      *)
(* comparator are what a player changes.                                   *)
(*                                                                         *)
(* A circuit is a sequence of parts with the parts each one reads. Wires,  *)
(* conductors and facings are its links: a link loses some strength on its *)
(* way, and whatever reads a part is told when the part changes. Links are *)
(* instantaneous, as a chain of neighbour updates ends before the next     *)
(* tick runs; in which order it reaches the parts is left open.            *)
(***************************************************************************)
EXTENDS Integers, Sequences, FiniteSets, FiniteSetsExt, Functions

CONSTANTS
  Circuits,     \* the circuits, sequences of parts
  MaxPower,     \* the strongest signal, 15 in the code
  BurnLimit,    \* a torch that went out so often in the window burns out, 7
  BurnWindow,   \* game ticks a torch's going out is remembered, 60
  BurnDelay,    \* game ticks a burnt-out torch stays out, 160
  ButtonDelay,  \* game ticks a button stays pressed, 20 or 30
  Horizon       \* bound on the history: times beyond it are not told apart

PartsOf(n) ==
  [kind : {"lever", "button", "torch", "repeater", "comparator", "observer", "lamp"},
   rear : SUBSET [from : 1 .. n, loss : Nat], side : SUBSET [from : 1 .. n, loss : Nat],
   delay : Nat \ {0}, urgent : BOOLEAN, front : Nat]

ASSUME CircuitsAssumption ==
  /\ \A c \in Circuits : c \in Seq(PartsOf(Len(c))) /\ \A i \in DOMAIN c : c[i].delay <= Horizon
  /\ BurnLimit \in Nat /\ BurnWindow \in Nat
  /\ BurnDelay \in Nat /\ BurnDelay > BurnWindow /\ BurnDelay > 2
  /\ ButtonDelay \in Nat \ {0}
  /\ Horizon \in Nat /\ Horizon >= 4 /\ Horizon >= ButtonDelay

VARIABLES
  circuit,  \* the circuit, never changed
  state,    \* block states (on), comparator_outputs, modes of comparators
  agenda,   \* scheduled ticks in order of insertion, with the game ticks left
  toggles,  \* torch_toggles: which torch went out, and its age in game ticks
  phase,    \* "load", "rest" (between steps), "actions" or "ticks"
  since,    \* game ticks since a part last changed (history)
  offs      \* the ages at which a torch went out, within the window (history)

vars == <<circuit, state, agenda, toggles, phase, since, offs>>
history == <<since, offs>>

Priorities == -3 .. 0   \* ExtremelyHigh, VeryHigh, High, Normal

Parts == DOMAIN circuit
Kind(c) == circuit[c].kind
Smaller(a, b) == IF a <= b THEN a ELSE b

-----------------------------------------------------------------------------
\* Signals
Out(s, c) ==
  IF Kind(c) = "comparator" THEN s.output[c]
  ELSE IF s.on[c] /\ Kind(c) # "lamp" THEN MaxPower ELSE 0

Strongest(s, links) == Max({0} \cup {Out(s, l.from) - l.loss : l \in links})
Input(s, c) == Strongest(s, circuit[c].rear)
Powered(s, c) == Input(s, c) > 0

\* comparator_output
Compared(s, c) ==
  LET input == Input(s, c)
      side  == Strongest(s, circuit[c].side)
  IN IF side > input THEN 0 ELSE IF c \in s.subtract THEN input - side ELSE input

\* repeater_locked: by a diode at its side that is on, and nothing else
Locked(s, c) ==
  \E l \in circuit[c].side : Kind(l.from) \in {"repeater", "comparator"} /\ Out(s, l.from) > 0

-----------------------------------------------------------------------------
\* Scheduled ticks, one per part

Pending(queue, c) == \E i \in DOMAIN queue : queue[i].part = c
Without(queue, i) ==
  [j \in 1 .. Len(queue) - 1 |-> IF j < i THEN queue[j] ELSE queue[j + 1]]

Orders(S) == Surjection(1 .. Cardinality(S), S)

Tick(c, left, priority) == [part |-> c, left |-> left, priority |-> priority]

Delay(c) ==
  IF Kind(c) = "repeater" THEN circuit[c].delay ELSE IF Kind(c) = "lamp" THEN 4 ELSE 2

\* circuit[c].urgent is diode_should_prioritize
Priority(s, c) ==
  IF Kind(c) = "repeater"
  THEN IF circuit[c].urgent THEN -3 ELSE IF s.on[c] THEN -2 ELSE -1
  ELSE IF Kind(c) = "comparator" /\ circuit[c].urgent THEN -1 ELSE 0

\* refresh_torch, refresh_repeater, refresh_comparator, and the lamp of
\* refresh_powered_consumer: does c, told of a change, ask for a tick?
AsksForTick(s, c) ==
  \/ Kind(c) = "torch" /\ s.on[c] = Powered(s, c)
  \/ Kind(c) = "repeater" /\ ~Locked(s, c) /\ s.on[c] # Powered(s, c)
  \/ /\ Kind(c) = "comparator"
     /\ s.output[c] # Compared(s, c) \/ s.on[c] # (Compared(s, c) > 0)
  \/ Kind(c) = "lamp" /\ s.on[c] /\ ~Powered(s, c)

\* Mutant of Fed: parts that read c at their side are not told.
FedRear(c) == {d \in Parts : \E l \in circuit[d].rear : l.from = c}

Fed(c) == {d \in Parts : \E l \in circuit[d].rear \cup circuit[d].side : l.from = c}
Watching(S) == {d \in Parts : Kind(d) = "observer" /\ circuit[d].front \in S}

WithOn(s, on) == [on |-> on, output |-> s.output, subtract |-> s.subtract]
Turned(c) == WithOn(state, [state.on EXCEPT ![c] = ~@])

\* A callback has brought the state to s and the agenda to queue, scheduled the
\* ticks own and seen the blocks of seen change; then the parts in told
\* refresh, lamps among them light up, and observers start their signal.
Settle(s, queue, own, told, seen) ==
  LET lit     == {d \in told : Kind(d) = "lamp" /\ ~s.on[d] /\ Powered(s, d)}
      started == {d \in Watching(seen \cup lit) : ~s.on[d]}
      asking  == {d \in told : AsksForTick(s, d)} \cup started
      new     == own \cup {Tick(d, Delay(d), Priority(s, d)) :
                             d \in {e \in asking : /\ ~Pending(queue, e)
                                                   /\ \A t \in own : t.part # e}}
  IN /\ state' = WithOn(s, [d \in Parts |-> d \in lit \/ s.on[d]])
     /\ \E order \in Orders(new) : agenda' = queue \o order
     /\ since' = [d \in Parts |-> IF state'.on[d] # state.on[d] THEN 0 ELSE since[d]]

-----------------------------------------------------------------------------
\* A world as the game saves it, with no pulse under way: a comparator's
\* OutputSignal agrees with its state, buttons and observers are off. Scheduled
\* ticks are not loaded.
Init ==
  /\ circuit \in Circuits
  /\ state \in [on : [Parts -> BOOLEAN], output : [Parts -> 0 .. MaxPower],
                subtract : SUBSET {c \in Parts : Kind(c) = "comparator"}]
  /\ \A c \in Parts :
       /\ Kind(c) # "comparator" => state.output[c] = 0
       /\ Kind(c) = "comparator" => state.on[c] = (state.output[c] > 0)
       /\ Kind(c) \in {"button", "observer"} => ~state.on[c]
  /\ agenda = <<>> /\ toggles = <<>>
  /\ phase = "load"
  /\ since = [c \in Parts |-> Horizon]
  /\ offs = [c \in Parts |-> {}]

Initialize ==
  /\ phase = "load"
  /\ Settle(state, agenda, {}, Parts, {})
  /\ phase' = "rest"
  /\ UNCHANGED <<circuit, toggles, offs>>

BeginTick ==
  /\ phase = "rest"
  /\ phase' = "actions"
  /\ agenda' = [i \in DOMAIN agenda |-> [agenda[i] EXCEPT !.left = @ - 1]]
  /\ toggles' = [i \in DOMAIN toggles |->
                   [toggles[i] EXCEPT !.age = Smaller(@ + 1, BurnWindow + 1)]]
  /\ since' = [c \in Parts |-> Smaller(since[c] + 1, Horizon)]
  /\ offs' = [c \in Parts |-> {age + 1 : age \in offs[c]} \cap 0 .. BurnWindow]
  /\ UNCHANGED <<circuit, state>>

\* Actions of a player: in a step, or applied between two steps
MayAct == phase \in {"rest", "actions"}

PullLever(c) ==
  /\ MayAct /\ Kind(c) = "lever"
  /\ Settle(Turned(c), agenda, {}, Fed(c), {c})
  /\ UNCHANGED <<circuit, toggles, phase, offs>>

PressButton(c) ==
  /\ MayAct /\ Kind(c) = "button" /\ ~state.on[c]
  /\ Settle(Turned(c), agenda,
            IF Pending(agenda, c) THEN {} ELSE {Tick(c, ButtonDelay, 0)}, Fed(c), {c})
  /\ UNCHANGED <<circuit, toggles, phase, offs>>

SwitchComparator(c) ==
  /\ MayAct /\ Kind(c) = "comparator"
  /\ LET other == IF c \in state.subtract THEN state.subtract \ {c}
                                           ELSE state.subtract \cup {c}
     IN Settle([on |-> state.on, output |-> state.output, subtract |-> other], agenda, {},
               Fed(c) \cup {c}, {c})
  /\ UNCHANGED <<circuit, toggles, phase, offs>>

EndActions ==
  /\ phase = "actions"
  /\ phase' = "ticks"
  /\ UNCHANGED <<circuit, state, agenda, toggles, history>>

-----------------------------------------------------------------------------
\* The due tick that runs next, by priority and insertion
IsNext(i) ==
  /\ agenda[i].left = 0
  /\ \A j \in DOMAIN agenda :
       agenda[j].left = 0 =>
         \/ agenda[i].priority < agenda[j].priority
         \/ agenda[i].priority = agenda[j].priority /\ i <= j

Runs(i, kind) == phase = "ticks" /\ Kind(agenda[i].part) = kind /\ IsNext(i)

NothingToDo(i) ==
  /\ agenda' = Without(agenda, i)
  /\ UNCHANGED <<circuit, state, toggles, phase, history>>

\* Mutant of Recent: a toggle is dropped one game tick early.
RecentShort ==
  LET past == {i \in DOMAIN toggles : \A j \in 1 .. i : toggles[j].age >= BurnWindow}
  IN SubSeq(toggles, Cardinality(past) + 1, Len(toggles))

\* The toggles a torch drops before it changes: from the front of the queue,
\* which all torches share, those that are past the window
Recent ==
  LET past == {i \in DOMAIN toggles : \A j \in 1 .. i : toggles[j].age > BurnWindow}
  IN SubSeq(toggles, Cardinality(past) + 1, Len(toggles))

TorchTick(i) ==
  LET c      == agenda[i].part
      lit    == ~Powered(state, c)
      before == {j \in DOMAIN Recent : Recent[j].part = c}
      burnt  == ~lit /\ Cardinality(before) >= BurnLimit
  IN /\ Runs(i, "torch")
     /\ \/ lit = state.on[c] /\ NothingToDo(i)
        \/ /\ lit # state.on[c]
           /\ toggles' = IF lit THEN Recent ELSE Append(Recent, [part |-> c, age |-> 0])
           /\ offs' = IF lit THEN offs ELSE [offs EXCEPT ![c] = @ \cup {0}]
           /\ Settle(Turned(c), Without(agenda, i),
                     IF burnt THEN {Tick(c, BurnDelay, 0)} ELSE {}, Fed(c), {c})
           /\ UNCHANGED <<circuit, phase>>

\* Mutant of RepeaterTick: the tick that ends a stretched pulse comes after 2.
RepeaterTickShort(i) ==
  LET c       == agenda[i].part
      powered == Powered(state, c)
      again   == IF powered \/ state.on[c] THEN {} ELSE {Tick(c, 2, -2)}
  IN /\ Runs(i, "repeater")
     /\ \/ (Locked(state, c) \/ (state.on[c] /\ powered)) /\ NothingToDo(i)
        \/ /\ ~Locked(state, c) /\ ~(state.on[c] /\ powered)
           /\ Settle(Turned(c), Without(agenda, i), again, Fed(c), {c})
           /\ UNCHANGED <<circuit, toggles, phase, offs>>

\* A repeater goes on whatever its input has become since, and then asks again
RepeaterTick(i) ==
  LET c       == agenda[i].part
      powered == Powered(state, c)
      again   == IF powered \/ state.on[c] THEN {} ELSE {Tick(c, Delay(c), -2)}
  IN /\ Runs(i, "repeater")
     /\ \/ (Locked(state, c) \/ (state.on[c] /\ powered)) /\ NothingToDo(i)
        \/ /\ ~Locked(state, c) /\ ~(state.on[c] /\ powered)
           /\ Settle(Turned(c), Without(agenda, i), again, Fed(c), {c})
           /\ UNCHANGED <<circuit, toggles, phase, offs>>

ComparatorTick(i) ==
  LET c      == agenda[i].part
      output == Compared(state, c)
      idle   == state.output[c] = output /\ c \in state.subtract
      on     == output > 0
  IN /\ Runs(i, "comparator")
     /\ \/ idle /\ NothingToDo(i)
        \/ /\ ~idle
           /\ Settle([on |-> [state.on EXCEPT ![c] = on],
                      output |-> [state.output EXCEPT ![c] = output],
                      subtract |-> state.subtract], Without(agenda, i), {},
                     Fed(c), IF state.on[c] # on THEN {c} ELSE {})
           /\ UNCHANGED <<circuit, toggles, phase, offs>>

ObserverTick(i) ==
  LET c == agenda[i].part
  IN /\ Runs(i, "observer")
     /\ Settle(Turned(c), Without(agenda, i),
               IF state.on[c] THEN {} ELSE {Tick(c, 2, 0)}, Fed(c), {c})
     /\ UNCHANGED <<circuit, toggles, phase, offs>>

ButtonTick(i) ==
  LET c == agenda[i].part
  IN /\ Runs(i, "button")
     /\ IF state.on[c]
        THEN /\ Settle(Turned(c), Without(agenda, i), {}, Fed(c), {c})
             /\ UNCHANGED <<circuit, toggles, phase, offs>>
        ELSE NothingToDo(i)

LampTick(i) ==
  LET c == agenda[i].part
  IN /\ Runs(i, "lamp")
     /\ IF state.on[c] /\ ~Powered(state, c)
        THEN /\ Settle(Turned(c), Without(agenda, i), {}, {}, {c})
             /\ UNCHANGED <<circuit, toggles, phase, offs>>
        ELSE NothingToDo(i)

EndTicks ==
  /\ phase = "ticks"
  /\ \A i \in DOMAIN agenda : agenda[i].left > 0
  /\ phase' = "rest"
  /\ UNCHANGED <<circuit, state, agenda, toggles, history>>

RunTick ==
  \E i \in DOMAIN agenda :
    \/ TorchTick(i) \/ RepeaterTick(i) \/ ComparatorTick(i)
    \/ ObserverTick(i) \/ ButtonTick(i) \/ LampTick(i)

Act == \E c \in Parts : PullLever(c) \/ PressButton(c) \/ SwitchComparator(c)

Next == Initialize \/ BeginTick \/ Act \/ EndActions \/ RunTick \/ EndTicks

Spec == Init /\ [][Next]_vars

-----------------------------------------------------------------------------
Ticks == [part : Parts, left : Nat, priority : Priorities]

\* The variables keep their types, and no part has two ticks scheduled.
TypeOK ==
  /\ state \in [on : [Parts -> BOOLEAN], output : [Parts -> 0 .. MaxPower],
                subtract : SUBSET Parts]
  /\ agenda \in Seq(Ticks)
  /\ \A i, j \in DOMAIN agenda : agenda[i].part = agenda[j].part => i = j
  /\ toggles \in Seq([part : Parts, age : 0 .. BurnWindow + 1])
  /\ phase \in {"load", "rest", "actions", "ticks"}
  /\ since \in [Parts -> 0 .. Horizon]
  /\ offs \in [Parts -> SUBSET (0 .. BurnWindow)]

\* What a part shows is what its inputs ask of it; a locked repeater shows
\* anything, a button or observer only rests when it is off.
AtRest(s, c) ==
  /\ Kind(c) = "torch" => s.on[c] # Powered(s, c)
  /\ Kind(c) = "repeater" => Locked(s, c) \/ s.on[c] = Powered(s, c)
  /\ Kind(c) = "comparator" =>
       s.output[c] = Compared(s, c) /\ s.on[c] = (s.output[c] > 0)
  /\ Kind(c) = "lamp" => s.on[c] = Powered(s, c)
  /\ Kind(c) \in {"button", "observer"} => ~s.on[c]

\* No part is left behind: once the world is initialised, a part with no tick
\* scheduled shows what its inputs ask for, although it refuses to look at them
\* while a tick is pending or a lock holds (rules.rs 928, 970, 973, 1158), and
\* a lamp with power is lit even then (refresh_powered_consumer).
Settled ==
  phase # "load" =>
    \A c \in Parts :
      /\ Pending(agenda, c) \/ AtRest(state, c)
      /\ Kind(c) = "lamp" /\ Powered(state, c) => state.on[c]

\* A torch burns out, that is, schedules its next tick BurnDelay away, exactly
\* when it has gone out more than BurnLimit times within the window, whatever
\* the other torches whose toggles share the queue have done; and it is not lit
\* again while that is so (rules.rs 1812-1836; docs/impl.md:132).
BurnsOutExactly ==
  [][\A c \in Parts :
       Kind(c) = "torch" /\ phase = "ticks" =>
         /\ state.on[c] /\ ~state'.on[c] =>
              (Cardinality(offs'[c]) > BurnLimit <=>
                 \E i \in DOMAIN agenda' : agenda'[i].part = c /\ agenda'[i].left = BurnDelay)
         /\ ~state.on[c] /\ state'.on[c] => Cardinality(offs[c]) <= BurnLimit]_vars

\* The pulse of an observer or a button does end: it lasts no longer than its
\* length, also while the player keeps acting, as whatever else is scheduled the
\* tick that ends it stays in the queue and runs in its game tick.
PulsesEnd ==
  \A c \in Parts :
    state.on[c] =>
      /\ Kind(c) = "observer" => since[c] <= 2
      /\ Kind(c) = "button" => since[c] <= ButtonDelay

\* No change is shorter than the delay it went through: a repeater stretches
\* every pulse and every gap to its delay, torches and comparators to 2 game
\* ticks, a lamp stays lit for 4; an observer's pulse lasts 2 and a button's
\* ButtonDelay exactly, however often they are triggered meanwhile
\* (on_scheduled_tick; docs/impl.md:131, 133, 138).
PulsesKeepLength ==
  /\ []PulsesEnd
  /\ [][\A c \in Parts :
          state'.on[c] # state.on[c] =>
            /\ Kind(c) = "repeater" => since[c] >= circuit[c].delay
            /\ Kind(c) \in {"torch", "comparator"} => since[c] >= 2
            /\ Kind(c) = "lamp" /\ state.on[c] => since[c] >= 4
            /\ Kind(c) = "observer" /\ state.on[c] => since[c] = 2
            /\ Kind(c) = "button" /\ state.on[c] => since[c] = ButtonDelay]_vars
=============================================================================
