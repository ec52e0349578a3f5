-------------------------- MODULE ComponentsProofs --------------------------
(***************************************************************************)
(* Delayed components in any circuit, and comparators in any line.         *)
(*                                                                         *)
(* No part of any circuit is left behind. A change of a part can only make *)
(* the parts wrong that read it, and all of those are told; a part that is *)
(* told and wrong asks for a tick, unless one is pending already. So each  *)
(* callback is shown to leave every part pending, told or at rest, and the *)
(* chain after it turns told into pending or at rest (lemma Settles). Then *)
(* the scheduled ticks show that changes last as long as they must, and    *)
(* the queue of toggles how often a torch has gone out.                    *)
(*                                                                         *)
(* The last part is about comparators: the caches agree, and a comparator  *)
(* hears of every change of what it reads. What it gives depends on the    *)
(* two positions behind it and no more (SameOutput), and one step changes  *)
(* one position, or tells everyone that reads another.                     *)
(***************************************************************************)
EXTENDS DelayedComponents, Comparators, FiniteSetTheorems, WellFoundedInduction, TLAPS

Entries == [part : Parts, left : Int, priority : Int]

Shaped(s) ==
  /\ s = [on |-> s.on, output |-> s.output, subtract |-> s.subtract]
  /\ s.on \in [Parts -> BOOLEAN]
  /\ s.output = [d \in Parts |-> s.output[d]]

\* The block state of a comparator agrees with its output at all times
Consistent(s) == \A c \in Parts : Kind(c) = "comparator" => s.on[c] = (s.output[c] > 0)

PulsesOver == \A c \in Parts : Kind(c) \in {"button", "observer"} => ~state.on[c]

LitWhilePowered(s, c) == Kind(c) = "lamp" /\ Powered(s, c) => s.on[c]

Resting(s, queue) ==
  \A d \in Parts : (Pending(queue, d) \/ AtRest(s, d)) /\ LitWhilePowered(s, d)

IInv ==
  /\ circuit \in Circuits
  /\ Shaped(state)
  /\ agenda \in Seq(Entries)
  /\ Consistent(state)
  /\ phase = "load" => PulsesOver
  /\ Settled

-----------------------------------------------------------------------------
LEMMA CircuitParts ==
  ASSUME circuit \in Circuits, NEW c \in Parts
  PROVE  /\ Kind(c) \in {"lever", "button", "torch", "repeater", "comparator", "observer", "lamp"}
         /\ \A l \in circuit[c].rear \cup circuit[c].side : l.from \in Parts
         /\ circuit[c].delay \in Nat
<1>1. circuit \in Seq(PartsOf(Len(circuit)))
  BY CircuitsAssumption
<1>2. Parts = 1 .. Len(circuit) /\ circuit[c] \in PartsOf(Len(circuit))
  BY <1>1 DEF Parts
<1> QED
  BY <1>2 DEF PartsOf, Kind

\* A level read through a set of links depends on the parts they come from.
LEMMA StrongestSame ==
  ASSUME NEW s1, NEW s2, NEW links, \A l \in links : Out(s1, l.from) = Out(s2, l.from)
  PROVE  Strongest(s1, links) = Strongest(s2, links)
<1>1. {Out(s1, l.from) - l.loss : l \in links} = {Out(s2, l.from) - l.loss : l \in links}
  OBVIOUS
<1> QED
  BY <1>1 DEF Strongest

\* What a part reads is the same when what it reads from is.
LEMMA ReadsSame ==
  ASSUME NEW s1, NEW s2, NEW d,
         \A l \in circuit[d].rear \cup circuit[d].side : Out(s1, l.from) = Out(s2, l.from),
         d \in s1.subtract <=> d \in s2.subtract
  PROVE  /\ Powered(s1, d) = Powered(s2, d)
         /\ Locked(s1, d) = Locked(s2, d)
         /\ Compared(s1, d) = Compared(s2, d)
<1>1. Input(s1, d) = Input(s2, d)
  BY StrongestSame DEF Input
<1>2. Strongest(s1, circuit[d].side) = Strongest(s2, circuit[d].side)
  BY StrongestSame
<1>3. Locked(s1, d) = Locked(s2, d)
  BY DEF Locked
<1> QED
  BY <1>1, <1>2, <1>3 DEF Powered, Compared

\* A part that does not read c sees nothing of a change of c.
LEMMA Unaffected ==
  ASSUME circuit \in Circuits, NEW s1, NEW s2, NEW c, NEW d \in Parts, d \notin Fed(c),
         \A x \in Parts \ {c} : Out(s1, x) = Out(s2, x),
         d \in s1.subtract <=> d \in s2.subtract
  PROVE  /\ Powered(s1, d) = Powered(s2, d)
         /\ Locked(s1, d) = Locked(s2, d)
         /\ Compared(s1, d) = Compared(s2, d)
<1>1. \A l \in circuit[d].rear \cup circuit[d].side : l.from \in Parts \ {c}
  BY CircuitParts DEF Fed
<1> QED
  BY <1>1, ReadsSame

\* Executing a tick leaves the ticks of the other parts in the queue.
LEMMA WithoutKeeps ==
  ASSUME NEW queue \in Seq(Entries), NEW i \in DOMAIN queue
  PROVE  /\ Without(queue, i) \in Seq(Entries)
         /\ \A d : Pending(queue, d) /\ d # queue[i].part => Pending(Without(queue, i), d)
<1> DEFINE rest == Without(queue, i)
<1>1. Len(queue) \in Nat /\ i \in 1 .. Len(queue) /\ DOMAIN rest = 1 .. Len(queue) - 1
  BY DEF Without
<1>2. rest \in [1 .. Len(queue) - 1 -> Entries]
  BY <1>1 DEF Without
<1>3. rest \in Seq(Entries)
  BY <1>1, <1>2
<1>4. ASSUME NEW d, Pending(queue, d), d # queue[i].part
      PROVE  Pending(rest, d)
  <2>1. PICK j \in DOMAIN queue : queue[j].part = d
    BY <1>4 DEF Pending
  <2>2. j \in 1 .. Len(queue) /\ j # i
    BY <1>4, <2>1
  <2>3. CASE j < i
    BY <1>1, <2>1, <2>2, <2>3 DEF Without, Pending
  <2>4. CASE j > i
    <3>1. j - 1 \in DOMAIN rest /\ rest[j - 1] = queue[j]
      BY <1>1, <2>2, <2>4 DEF Without
    <3> QED
      BY <2>1, <3>1 DEF Pending
  <2> QED
    BY <1>1, <2>2, <2>3, <2>4
<1> QED
  BY <1>3, <1>4

\* Ticks appended to the queue in any order are all pending, and so is what
\* was pending before.
LEMMA Appended ==
  ASSUME NEW queue \in Seq(Entries), NEW new \in SUBSET Entries, IsFiniteSet(new),
         NEW order \in Orders(new)
  PROVE  /\ queue \o order \in Seq(Entries)
         /\ \A d : Pending(queue, d) => Pending(queue \o order, d)
         /\ \A t \in new : Pending(queue \o order, t.part)
<1>1. Cardinality(new) \in Nat
  BY FS_CardinalityType
<1>2. /\ order \in [1 .. Cardinality(new) -> new]
      /\ \A t \in new : \E i \in 1 .. Cardinality(new) : order[i] = t
  BY DEF Orders, Surjection
<1>3. order \in Seq(Entries) /\ Len(order) = Cardinality(new)
  BY <1>1, <1>2
<1>4. /\ queue \o order \in Seq(Entries)
      /\ Len(queue \o order) = Len(queue) + Len(order)
      /\ \A i \in 1 .. Len(queue) : (queue \o order)[i] = queue[i]
      /\ \A i \in 1 .. Len(order) : (queue \o order)[Len(queue) + i] = order[i]
  BY <1>3
<1>5. ASSUME NEW d, Pending(queue, d)
      PROVE  Pending(queue \o order, d)
  <2>1. PICK j \in 1 .. Len(queue) : queue[j].part = d
    BY <1>5 DEF Pending
  <2>2. j \in DOMAIN (queue \o order) /\ (queue \o order)[j] = queue[j]
    BY <1>3, <1>4, <2>1
  <2> QED
    BY <2>1, <2>2 DEF Pending
<1>6. ASSUME NEW t \in new
      PROVE  Pending(queue \o order, t.part)
  <2>1. PICK i \in 1 .. Len(order) : order[i] = t
    BY <1>2, <1>3
  <2>2. Len(queue) + i \in DOMAIN (queue \o order) /\ (queue \o order)[Len(queue) + i] = t
    BY <1>3, <1>4, <2>1
  <2> QED
    BY <2>2 DEF Pending
<1> QED
  BY <1>4, <1>5, <1>6

\* The ticks that parts ask for are finitely many.
LEMMA NewTicks ==
  ASSUME circuit \in Circuits, NEW s, NEW own \in SUBSET Entries, IsFiniteSet(own),
         NEW asked \in SUBSET Parts
  PROVE  LET new == own \cup {Tick(d, Delay(d), Priority(s, d)) : d \in asked}
         IN new \in SUBSET Entries /\ IsFiniteSet(new)
<1> DEFINE asks == {Tick(d, Delay(d), Priority(s, d)) : d \in asked}
           f == [d \in asked |-> Tick(d, Delay(d), Priority(s, d))]
<1>1. \A d \in Parts : Tick(d, Delay(d), Priority(s, d)) \in Entries
  BY CircuitParts DEF Tick, Delay, Priority, Entries
<1>2. f \in Surjection(asked, asks)
  BY DEF Surjection
<1>3. IsFiniteSet(asked)
  <2>1. Parts = 1 .. Len(circuit) /\ Len(circuit) \in Nat
    BY CircuitsAssumption DEF Parts
  <2>2. IsFiniteSet(Parts)
    BY <2>1, FS_Interval
  <2> QED
    BY <2>2, FS_Subset
<1>4. asks \in SUBSET Entries
  BY <1>1
<1> HIDE DEF f, asks
<1>5. IsFiniteSet(asks)
  BY <1>2, <1>3, FS_Surjection
<1>6. IsFiniteSet(own \cup asks)
  BY <1>5, FS_Union
<1> QED
  BY <1>4, <1>6 DEF asks

-----------------------------------------------------------------------------
\* The chain of updates after a callback: a part that is told, pending or at
\* rest before it is pending or at rest after it, and a told lamp with power is
\* lit.
LEMMA Settles ==
  ASSUME circuit \in Circuits,
         NEW s, Shaped(s), Consistent(s),
         NEW queue \in Seq(Entries), NEW own \in SUBSET Entries, IsFiniteSet(own),
         NEW told \in SUBSET Parts, NEW seen,
         \A d \in Parts :
           \/ Pending(queue, d) \/ \E t \in own : t.part = d
           \/ AtRest(s, d)
           \/ d \in told /\ Kind(d) \notin {"button", "observer"},
         \A d \in Parts : d \in told \/ LitWhilePowered(s, d),
         Settle(s, queue, own, told, seen)
  PROVE  /\ Shaped(state') /\ Consistent(state')
         /\ agenda' \in Seq(Entries)
         /\ Resting(state', agenda')
<1> DEFINE lit == {d \in told : Kind(d) = "lamp" /\ ~s.on[d] /\ Powered(s, d)}
           started == {d \in Watching(seen \cup lit) : ~s.on[d]}
           asking == {d \in told : AsksForTick(s, d)} \cup started
           asked == {e \in asking : ~Pending(queue, e) /\ \A t \in own : t.part # e}
           new == own \cup {Tick(d, Delay(d), Priority(s, d)) : d \in asked}
<1>1. state' = WithOn(s, [d \in Parts |-> d \in lit \/ s.on[d]])
  BY DEF Settle
<1>2. PICK order \in Orders(new) : agenda' = queue \o order
  BY DEF Settle
<1>3. /\ state' = [on |-> [d \in Parts |-> d \in lit \/ s.on[d]],
                   output |-> s.output, subtract |-> s.subtract]
      /\ \A d \in Parts : state'.on[d] = (d \in lit \/ s.on[d])
  BY <1>1 DEF WithOn
<1>4. Shaped(state')
  BY <1>3 DEF Shaped
<1>5. \A d \in Parts : Out(state', d) = Out(s, d)
  BY <1>3 DEF Out
<1>6. ASSUME NEW d \in Parts
      PROVE  /\ Powered(state', d) = Powered(s, d)
             /\ Locked(state', d) = Locked(s, d)
             /\ Compared(state', d) = Compared(s, d)
  <2>1. \A l \in circuit[d].rear \cup circuit[d].side : Out(state', l.from) = Out(s, l.from)
    BY <1>5, CircuitParts
  <2>2. d \in state'.subtract <=> d \in s.subtract
    BY <1>3
  <2> HIDE DEF lit
  <2> QED
    BY <2>1, <2>2, ReadsSame
<1>7. \A d \in Parts :
        /\ s.on[d] \in BOOLEAN
        /\ state'.output[d] = s.output[d]
        /\ Kind(d) # "lamp" => state'.on[d] = s.on[d]
  BY <1>3 DEF Shaped
<1>c. Consistent(state')
  BY <1>7 DEF Consistent
<1>8. asked \subseteq Parts
  BY DEF Watching
<1>9. new \in SUBSET Entries /\ IsFiniteSet(new)
  <2> HIDE DEF asked
  <2> QED
    BY <1>8, NewTicks
<1>10. /\ agenda' \in Seq(Entries)
       /\ \A d : Pending(queue, d) => Pending(agenda', d)
       /\ \A t \in new : Pending(agenda', t.part)
  <2> HIDE DEF new
  <2> QED
    BY <1>2, <1>9, Appended
<1>11. ASSUME NEW d \in Parts
       PROVE  Pending(agenda', d) \/ AtRest(state', d)
  <2>1. CASE Pending(queue, d) \/ \E t \in own : t.part = d
    BY <1>10, <2>1
  <2>2. CASE ~Pending(queue, d) /\ (\A t \in own : t.part # d) /\ d \in asking
    <3>1. Tick(d, Delay(d), Priority(s, d)) \in new
      BY <2>2
    <3> QED
      BY <1>10, <3>1 DEF Tick
  <2>3. CASE d \notin asking /\ AtRest(s, d)
    <3>1. CASE Kind(d) # "lamp"
      BY <1>6, <1>7, <2>3, <3>1 DEF AtRest
    <3>2. CASE Kind(d) = "lamp"
      <4>1. s.on[d] = Powered(s, d)
        BY <2>3, <3>2 DEF AtRest
      <4>2. state'.on[d] = s.on[d]
        BY <1>3, <1>7, <4>1
      <4> QED
        BY <1>6, <3>2, <4>1, <4>2 DEF AtRest
    <3> QED
      BY <3>1, <3>2
  <2>4. CASE d \notin asking /\ d \in told /\ Kind(d) \notin {"button", "observer"}
    <3>1. ~AsksForTick(s, d) /\ s.on[d] \in BOOLEAN
      BY <2>4 DEF Shaped
    <3>2. state'.output[d] = s.output[d] /\ state'.on[d] = (d \in lit \/ s.on[d])
      BY <1>3
    <3> QED
      BY <1>6, <2>4, <3>1, <3>2, CircuitParts DEF AtRest, AsksForTick, Powered
  <2> QED
    BY <2>1, <2>2, <2>3, <2>4
<1>12. ASSUME NEW d \in Parts
       PROVE  LitWhilePowered(state', d)
  BY <1>3, <1>6 DEF LitWhilePowered
<1> QED
  BY <1>4, <1>c, <1>10, <1>11, <1>12 DEF Resting

\* What a state means does not depend on when it is looked at, as the circuit
\* stays as it is.
LEMMA SameCircuit ==
  ASSUME UNCHANGED circuit, phase' # "load", circuit \in Circuits, Shaped(state'),
         Consistent(state'), agenda' \in Seq(Entries), Resting(state', agenda')
  PROVE  IInv'
<1>1. /\ circuit' \in Circuits
      /\ Shaped(state)'
      /\ (agenda \in Seq(Entries))'
      /\ Consistent(state)'
  BY DEF Shaped, Entries, Consistent, Parts, Kind
<1>2. ASSUME NEW d \in Parts
      PROVE  /\ Powered(state, d)' = Powered(state', d)
             /\ Locked(state, d)' = Locked(state', d)
             /\ Compared(state, d)' = Compared(state', d)
  BY DEF Powered, Locked, Compared, Input, Strongest, Out, Kind
<1>3. \A d \in Parts : AtRest(state, d)' = AtRest(state', d)
  BY <1>2 DEF AtRest, Kind
<1>4. Settled'
  BY <1>2, <1>3 DEF Settled, Resting, LitWhilePowered, Parts, Kind, Pending
<1> QED
  BY <1>1, <1>4 DEF IInv

-----------------------------------------------------------------------------
\* A callback that changes part c alone, and tells every part that reads it,
\* leaves all parts resting if it leaves c pending, told or at rest.
LEMMA Changes ==
  ASSUME IInv, phase # "load", phase' # "load", UNCHANGED circuit,
         NEW c \in Parts, NEW s, Shaped(s), Consistent(s),
         \A d \in Parts \ {c} :
           /\ s.on[d] = state.on[d] /\ s.output[d] = state.output[d]
           /\ d \in s.subtract <=> d \in state.subtract,
         NEW queue \in Seq(Entries),
         \A d : Pending(agenda, d) /\ d # c => Pending(queue, d),
         NEW own \in SUBSET Entries, IsFiniteSet(own),
         NEW told \in SUBSET Parts, Fed(c) \subseteq told \/ Kind(c) = "lamp", NEW seen,
         \/ Pending(queue, c) \/ \E t \in own : t.part = c
         \/ AtRest(s, c)
         \/ c \in told /\ Kind(c) \notin {"button", "observer"},
         c \in told \/ LitWhilePowered(s, c),
         Settle(s, queue, own, told, seen)
  PROVE  IInv'
<1>1. circuit \in Circuits /\ Resting(state, agenda)
  BY DEF IInv, Settled, Resting, LitWhilePowered
<1>2. \A d \in Parts \ {c} : Out(s, d) = Out(state, d)
  BY DEF Out
<1>3. ASSUME NEW d \in Parts \ {c}, d \notin told
      PROVE  /\ Powered(s, d) = Powered(state, d)
             /\ Locked(s, d) = Locked(state, d)
             /\ Compared(s, d) = Compared(state, d)
  <2>1. CASE d \notin Fed(c)
    BY <1>1, <1>2, <2>1, Unaffected
  <2>2. CASE Kind(c) = "lamp"
    <3>1. Out(s, c) = Out(state, c)
      BY <2>2 DEF Out
    <3>2. \A l \in circuit[d].rear \cup circuit[d].side : Out(s, l.from) = Out(state, l.from)
      BY <1>1, <1>2, <3>1, CircuitParts
    <3> QED
      BY <3>2, ReadsSame
  <2> QED
    BY <1>3, <2>1, <2>2
<1>4. ASSUME NEW d \in Parts \ {c}
      PROVE  /\ \/ Pending(queue, d)
                \/ AtRest(s, d)
                \/ d \in told /\ Kind(d) \notin {"button", "observer"}
             /\ d \in told \/ LitWhilePowered(s, d)
  <2>1. (Pending(agenda, d) \/ AtRest(state, d)) /\ LitWhilePowered(state, d)
    BY <1>1 DEF Resting
  <2>2. CASE d \notin told
    BY <1>3, <2>1, <2>2 DEF AtRest, LitWhilePowered
  <2>3. CASE d \in told /\ Kind(d) \in {"button", "observer"}
    BY <2>1, <2>3 DEF AtRest
  <2> QED
    BY <2>2, <2>3
<1>5. /\ Shaped(state') /\ Consistent(state')
      /\ agenda' \in Seq(Entries)
      /\ Resting(state', agenda')
  <2>1. \A d \in Parts :
          \/ Pending(queue, d) \/ \E t \in own : t.part = d
          \/ AtRest(s, d)
          \/ d \in told /\ Kind(d) \notin {"button", "observer"}
    BY <1>4
  <2>2. \A d \in Parts : d \in told \/ LitWhilePowered(s, d)
    BY <1>4
  <2> QED
    BY <1>1, <2>1, <2>2, Settles
<1> QED
  BY <1>1, <1>5, SameCircuit

\* A part other than a comparator may turn if that is what it read before, if
\* its next tick is scheduled, or if it is a lever.
LEMMA Turns ==
  ASSUME IInv, phase # "load", phase' # "load", UNCHANGED circuit,
         NEW c \in Parts, Kind(c) # "comparator",
         NEW queue \in Seq(Entries),
         \A d : Pending(agenda, d) /\ d # c => Pending(queue, d),
         NEW own \in SUBSET Entries, IsFiniteSet(own),
         NEW told \in SUBSET Parts, Fed(c) \subseteq told \/ Kind(c) = "lamp", NEW seen,
         \/ Pending(queue, c) \/ \E t \in own : t.part = c
         \/ Kind(c) = "lever"
         \/ Kind(c) = "torch" /\ state.on[c] = Powered(state, c)
         \/ Kind(c) = "repeater" /\ state.on[c] # Powered(state, c)
         \/ Kind(c) = "lamp" /\ state.on[c]
         \/ Kind(c) \in {"button", "observer"} /\ state.on[c],
         Kind(c) = "lamp" => ~Powered(state, c),
         Settle(Turned(c), queue, own, told, seen)
  PROVE  IInv'
<1> DEFINE s == Turned(c)
<1>1. circuit \in Circuits /\ Shaped(state) /\ Consistent(state)
  BY DEF IInv
<1>2. s = [on |-> [state.on EXCEPT ![c] = ~@], output |-> state.output,
           subtract |-> state.subtract]
  BY DEF Turned, WithOn
<1>3. /\ s.on = [state.on EXCEPT ![c] = ~@]
      /\ s.output = state.output
      /\ s.subtract = state.subtract
  BY <1>2
<1>4. /\ s.on \in [Parts -> BOOLEAN] /\ state.on \in [Parts -> BOOLEAN]
      /\ s.on[c] = ~state.on[c]
      /\ \A d \in Parts \ {c} : s.on[d] = state.on[d]
  BY <1>1, <1>3 DEF Shaped
<1> HIDE DEF s
<1>5. Shaped(s)
  BY <1>1, <1>2, <1>3, <1>4 DEF Shaped
<1>6. Consistent(s)
  BY <1>1, <1>3, <1>4 DEF Consistent
<1>7. ASSUME c \notin Fed(c) \/ Kind(c) = "lamp"
      PROVE  Powered(s, c) = Powered(state, c) /\ Locked(s, c) = Locked(state, c)
  <2>1. \A d \in Parts \ {c} : Out(s, d) = Out(state, d)
    BY <1>3, <1>4 DEF Out
  <2>2. CASE c \notin Fed(c)
    BY <1>1, <1>3, <2>1, <2>2, Unaffected
  <2>3. CASE Kind(c) = "lamp"
    <3>1. Out(s, c) = Out(state, c)
      BY <2>3 DEF Out
    <3>2. \A l \in circuit[c].rear \cup circuit[c].side : Out(s, l.from) = Out(state, l.from)
      BY <1>1, <2>1, <3>1, CircuitParts
    <3> QED
      BY <1>3, <3>2, ReadsSame
  <2> QED
    BY <1>7, <2>2, <2>3
<1>8. \/ Pending(queue, c) \/ \E t \in own : t.part = c
      \/ AtRest(s, c)
      \/ c \in told /\ Kind(c) \notin {"button", "observer"}
  <2>1. CASE Kind(c) \in {"lever", "button", "observer"}
    BY <1>4, <2>1 DEF AtRest
  <2>2. CASE Kind(c) = "torch" /\ c \notin Fed(c)
    BY <1>4, <1>7, <2>2 DEF AtRest, Powered
  <2>3. CASE Kind(c) = "repeater" /\ c \notin Fed(c)
    BY <1>4, <1>7, <2>3 DEF AtRest, Powered
  <2>4. CASE Kind(c) = "lamp"
    BY <1>4, <1>7, <2>4 DEF AtRest, Powered
  <2> QED
    BY <2>1, <2>2, <2>3, <2>4
<1>9. c \in told \/ LitWhilePowered(s, c)
  BY <1>7 DEF LitWhilePowered
<1>10. Settle(s, queue, own, told, seen)
  BY DEF s
<1> QED
  BY <1>3, <1>4, <1>5, <1>6, <1>8, <1>9, <1>10, Changes

\* A tick of a part at rest may be dropped.
LEMMA Drops ==
  ASSUME IInv, phase = "ticks", NEW i \in DOMAIN agenda, NothingToDo(i),
         AtRest(state, agenda[i].part)
  PROVE  IInv'
<1>1. /\ circuit \in Circuits /\ Shaped(state) /\ Consistent(state)
      /\ agenda \in Seq(Entries) /\ Resting(state, agenda)
  BY DEF IInv, Settled, Resting, LitWhilePowered
<1>2. UNCHANGED <<circuit, state, phase>> /\ agenda' = Without(agenda, i)
  BY DEF NothingToDo
<1>3. /\ agenda' \in Seq(Entries)
      /\ \A d : Pending(agenda, d) /\ d # agenda[i].part => Pending(agenda', d)
  BY <1>1, <1>2, WithoutKeeps
<1>4. Resting(state, agenda')
  BY <1>1, <1>3 DEF Resting
<1> QED
  BY <1>1, <1>2, <1>3, <1>4, SameCircuit

\* A scheduled tick is that of a part.
LEMMA TickPart ==
  ASSUME IInv, NEW i \in DOMAIN agenda
  PROVE  agenda[i].part \in Parts /\ Without(agenda, i) \in Seq(Entries)
<1>1. agenda \in Seq(Entries)
  BY DEF IInv
<1>2. agenda[i] \in Entries
  BY <1>1
<1> QED
  BY <1>1, <1>2, WithoutKeeps DEF Entries

LEMMA SwitchComparatorKeeps ==
  ASSUME IInv, NEW c \in Parts, SwitchComparator(c)
  PROVE  IInv'
<1> DEFINE other == IF c \in state.subtract THEN state.subtract \ {c}
                                            ELSE state.subtract \cup {c}
           s == [on |-> state.on, output |-> state.output, subtract |-> other]
<1>1. /\ Shaped(state) /\ Consistent(state) /\ agenda \in Seq(Entries)
      /\ phase # "load" /\ phase' # "load" /\ UNCHANGED circuit
      /\ Kind(c) = "comparator" /\ Settle(s, agenda, {}, Fed(c) \cup {c}, {c})
  BY DEF IInv, SwitchComparator, MayAct
<1>2. /\ s.on = state.on /\ s.output = state.output
      /\ \A d \in Parts \ {c} : d \in s.subtract <=> d \in state.subtract
  OBVIOUS
<1>3. s = [on |-> s.on, output |-> s.output, subtract |-> s.subtract]
  OBVIOUS
<1> HIDE DEF s
<1>4. Shaped(s) /\ Consistent(s)
  BY <1>1, <1>2, <1>3 DEF Shaped, Consistent
<1>5. IsFiniteSet({}) /\ Fed(c) \cup {c} \in SUBSET Parts
  BY FS_EmptySet DEF Fed
<1> QED
  BY <1>1, <1>2, <1>4, <1>5, Changes

LEMMA ComparatorTickKeeps ==
  ASSUME IInv, NEW i \in DOMAIN agenda, ComparatorTick(i)
  PROVE  IInv'
<1> DEFINE c == agenda[i].part
           output == Compared(state, c)
           on == output > 0
           s == [on |-> [state.on EXCEPT ![c] = on],
                 output |-> [state.output EXCEPT ![c] = output], subtract |-> state.subtract]
<1>1. /\ circuit \in Circuits /\ Shaped(state) /\ Consistent(state)
      /\ agenda \in Seq(Entries) /\ phase = "ticks" /\ Kind(c) = "comparator"
      /\ c \in Parts
  BY TickPart DEF IInv, ComparatorTick, Runs
<1>2. CASE state.output[c] = output /\ c \in state.subtract /\ NothingToDo(i)
  <2>1. AtRest(state, c)
    BY <1>1, <1>2 DEF AtRest, Consistent
  <2> QED
    BY <1>1, <1>2, <2>1, Drops
<1>3. CASE /\ Settle(s, Without(agenda, i), {}, Fed(c), IF state.on[c] # on THEN {c} ELSE {})
           /\ UNCHANGED <<circuit, toggles, phase, offs>>
  <2>1. /\ s.on = [state.on EXCEPT ![c] = on]
        /\ s.output = [state.output EXCEPT ![c] = output]
        /\ s.subtract = state.subtract
    OBVIOUS
  <2>2. s = [on |-> s.on, output |-> s.output, subtract |-> s.subtract]
    OBVIOUS
  <2>3. Settle(s, Without(agenda, i), {}, Fed(c), IF state.on[c] # on THEN {c} ELSE {})
    BY <1>3
  <2> HIDE DEF s, output
  <2>4. /\ s.on[c] = on /\ s.output[c] = output
        /\ s.on \in [Parts -> BOOLEAN] /\ s.output = [d \in Parts |-> s.output[d]]
        /\ \A d \in Parts \ {c} : s.on[d] = state.on[d] /\ s.output[d] = state.output[d]
    BY <1>1, <2>1 DEF Shaped
  <2>5. Shaped(s) /\ Consistent(s)
    BY <1>1, <2>2, <2>4 DEF Shaped, Consistent
  <2>6. AtRest(s, c) \/ c \in Fed(c)
    <3>1. CASE c \notin Fed(c)
      <4>1. \A d \in Parts \ {c} : Out(s, d) = Out(state, d)
        BY <1>1, <2>4 DEF Out, Shaped
      <4>2. c \in s.subtract <=> c \in state.subtract
        BY <2>1
      <4> HIDE DEF c
      <4>3. Compared(s, c) = Compared(state, c)
        BY <1>1, <3>1, <4>1, <4>2, Unaffected
      <4>4. Compared(s, c) = output
        BY <4>3 DEF output
      <4> QED
        BY <1>1, <2>4, <4>4 DEF AtRest
    <3> QED
      BY <3>1
  <2>7. LitWhilePowered(s, c)
    BY <1>1 DEF LitWhilePowered
  <2>8. /\ Without(agenda, i) \in Seq(Entries)
        /\ \A d : Pending(agenda, d) /\ d # c => Pending(Without(agenda, i), d)
    BY <1>1, WithoutKeeps
  <2>9. IsFiniteSet({}) /\ Fed(c) \in SUBSET Parts
    BY FS_EmptySet DEF Fed
  <2> QED
    <3>1. phase # "load" /\ phase' # "load" /\ UNCHANGED circuit
      BY <1>1, <1>3
    <3>2. \A d \in Parts \ {c} :
            /\ s.on[d] = state.on[d] /\ s.output[d] = state.output[d]
            /\ d \in s.subtract <=> d \in state.subtract
      BY <2>1, <2>4
    <3> HIDE DEF c, on
    <3> QED
      BY <1>1, <2>3, <2>5, <2>6, <2>7, <2>8, <2>9, <3>1, <3>2, Changes
<1> QED
  BY <1>2, <1>3 DEF ComparatorTick

\* The queue and the tick of its own that a part's tick may leave.
LEMMA TickLeaves ==
  ASSUME IInv, NEW i \in DOMAIN agenda, phase = "ticks"
  PROVE  /\ phase # "load"
         /\ agenda[i].part \in Parts
         /\ Without(agenda, i) \in Seq(Entries)
         /\ \A d : Pending(agenda, d) /\ d # agenda[i].part => Pending(Without(agenda, i), d)
         /\ Fed(agenda[i].part) \in SUBSET Parts
         /\ IsFiniteSet({})
BY TickPart, WithoutKeeps, FS_EmptySet DEF Fed, IInv

LEMMA OwnTick ==
  ASSUME NEW tick \in Entries, NEW own \in {{}, {tick}}
  PROVE  own \in SUBSET Entries /\ IsFiniteSet(own)
<1>1. IsFiniteSet({}) /\ IsFiniteSet({tick})
  BY FS_Singleton, FS_EmptySet
<1> QED
  BY <1>1

LEMMA TorchTickKeeps ==
  ASSUME IInv, NEW i \in DOMAIN agenda, TorchTick(i)
  PROVE  IInv'
<1> DEFINE c == agenda[i].part
           lit == ~Powered(state, c)
<1>1. phase = "ticks" /\ Kind(c) = "torch" /\ state.on[c] \in BOOLEAN
  BY TickPart DEF TorchTick, Runs, IInv, Shaped
<1>2. CASE lit = state.on[c] /\ NothingToDo(i)
  BY <1>1, <1>2, Drops DEF AtRest, Powered
<1>3. ASSUME NEW own \in {{}, {Tick(c, BurnDelay, 0)}}, lit # state.on[c],
             Settle(Turned(c), Without(agenda, i), own, Fed(c), {c}),
             UNCHANGED <<circuit, phase>>
      PROVE  IInv'
  <2>1. own \in SUBSET Entries /\ IsFiniteSet(own)
    <3>1. Tick(c, BurnDelay, 0) \in Entries
      BY <1>1, TickLeaves, CircuitsAssumption DEF Tick, Entries
    <3> QED
      BY <1>3, <3>1, OwnTick
  <2>2. state.on[c] = Powered(state, c)
    BY <1>1, <1>3 DEF Powered
  <2> HIDE DEF c
  <2> QED
    BY <1>1, <1>3, <2>1, <2>2, TickLeaves, Turns DEF c
<1>4. TorchTick(i) => \/ lit = state.on[c] /\ NothingToDo(i)
                      \/ /\ lit # state.on[c] /\ UNCHANGED <<circuit, phase>>
                         /\ \E own \in {{}, {Tick(c, BurnDelay, 0)}} :
                              Settle(Turned(c), Without(agenda, i), own, Fed(c), {c})
  BY DEF TorchTick
<1> QED
  BY <1>2, <1>3, <1>4

LEMMA RepeaterTickKeeps ==
  ASSUME IInv, NEW i \in DOMAIN agenda, RepeaterTick(i)
  PROVE  IInv'
<1> DEFINE c == agenda[i].part
           again == IF Powered(state, c) \/ state.on[c] THEN {} ELSE {Tick(c, Delay(c), -2)}
<1>1. phase = "ticks" /\ Kind(c) = "repeater" /\ state.on[c] \in BOOLEAN
  BY TickPart DEF RepeaterTick, Runs, IInv, Shaped
<1>2. CASE (Locked(state, c) \/ (state.on[c] /\ Powered(state, c))) /\ NothingToDo(i)
  BY <1>1, <1>2, Drops DEF AtRest, Powered
<1>3. CASE /\ ~(state.on[c] /\ Powered(state, c))
           /\ Settle(Turned(c), Without(agenda, i), again, Fed(c), {c})
           /\ UNCHANGED <<circuit, toggles, phase, offs>>
  <2>1. Delay(c) \in Int
    BY <1>1, TickLeaves, CircuitParts DEF Delay, IInv
  <2>2. /\ again \in SUBSET Entries /\ IsFiniteSet(again)
        /\ again # {} => \E t \in again : t.part = c
    <3> DEFINE tick == Tick(c, Delay(c), -2)
    <3>1. tick \in Entries /\ tick.part = c
      BY <1>1, <2>1, TickLeaves DEF Tick, Entries
    <3>2. again \in {{}, {tick}}
      OBVIOUS
    <3> HIDE DEF c, again, tick
    <3> QED
      <4>1. again \in SUBSET Entries /\ IsFiniteSet(again)
        BY <3>1, <3>2, OwnTick
      <4>2. again # {} => \E t \in again : t.part = c
        BY <3>1, <3>2
      <4> QED
        BY <4>1, <4>2
  <2>3. (\E t \in again : t.part = c) \/ state.on[c] # Powered(state, c)
    BY <1>1, <1>3, <2>2 DEF Powered
  <2>4. phase' # "load" /\ UNCHANGED circuit
    BY <1>1, <1>3
  <2> HIDE DEF c, again
  <2> QED
    BY <1>1, <1>3, <2>2, <2>3, <2>4, TickLeaves, Turns DEF c
<1> QED
  BY <1>2, <1>3 DEF RepeaterTick

LEMMA ObserverTickKeeps ==
  ASSUME IInv, NEW i \in DOMAIN agenda, ObserverTick(i)
  PROVE  IInv'
<1> DEFINE c == agenda[i].part
           own == IF state.on[c] THEN {} ELSE {Tick(c, 2, 0)}
<1>1. /\ phase = "ticks" /\ Kind(c) = "observer"
      /\ Settle(Turned(c), Without(agenda, i), own, Fed(c), {c})
      /\ UNCHANGED <<circuit, toggles, phase, offs>>
  BY DEF ObserverTick, Runs
<1>2. phase' # "load" /\ UNCHANGED circuit
  BY <1>1
<1>3. /\ own \in SUBSET Entries /\ IsFiniteSet(own)
      /\ own # {} => \E t \in own : t.part = c
  <2> DEFINE tick == Tick(c, 2, 0)
  <2>1. tick \in Entries /\ tick.part = c
    BY <1>1, TickLeaves DEF Tick, Entries
  <2>2. own \in {{}, {tick}}
    OBVIOUS
  <2> HIDE DEF c, own, tick
  <2>3. own \in SUBSET Entries /\ IsFiniteSet(own)
    BY <2>1, <2>2, OwnTick
  <2>4. own # {} => \E t \in own : t.part = c
    BY <2>1, <2>2
  <2> QED
    BY <2>3, <2>4
<1>4. (\E t \in own : t.part = c) \/ state.on[c]
  BY <1>3
<1> HIDE DEF c, own
<1> QED
  BY <1>1, <1>2, <1>3, <1>4, TickLeaves, Turns DEF c

LEMMA ButtonTickKeeps ==
  ASSUME IInv, NEW i \in DOMAIN agenda, ButtonTick(i)
  PROVE  IInv'
<1> DEFINE c == agenda[i].part
<1>1. phase = "ticks" /\ Kind(c) = "button"
  BY DEF ButtonTick, Runs
<1>2. CASE ~state.on[c] /\ NothingToDo(i)
  BY <1>1, <1>2, Drops DEF AtRest
<1>3. CASE /\ state.on[c] /\ Settle(Turned(c), Without(agenda, i), {}, Fed(c), {c})
           /\ UNCHANGED <<circuit, toggles, phase, offs>>
  <2>1. phase' # "load" /\ UNCHANGED circuit
    BY <1>1, <1>3
  <2> HIDE DEF c
  <2> QED
    BY <1>1, <1>3, <2>1, TickLeaves, Turns DEF c
<1> QED
  BY <1>2, <1>3 DEF ButtonTick

LEMMA LampTickKeeps ==
  ASSUME IInv, NEW i \in DOMAIN agenda, LampTick(i)
  PROVE  IInv'
<1> DEFINE c == agenda[i].part
<1>1. phase = "ticks" /\ Kind(c) = "lamp" /\ state.on[c] \in BOOLEAN
  BY TickPart DEF LampTick, Runs, IInv, Shaped
<1>2. CASE ~(state.on[c] /\ ~Powered(state, c)) /\ NothingToDo(i)
  <2>1. Powered(state, c) => state.on[c]
    BY <1>1, TickPart DEF IInv, Settled
  <2> QED
    BY <1>1, <1>2, <2>1, Drops DEF AtRest, Powered
<1>3. CASE /\ state.on[c] /\ ~Powered(state, c)
           /\ Settle(Turned(c), Without(agenda, i), {}, {}, {c})
           /\ UNCHANGED <<circuit, toggles, phase, offs>>
  <2>1. phase' # "load" /\ UNCHANGED circuit
    BY <1>1, <1>3
  <2> HIDE DEF c
  <2> QED
    BY <1>1, <1>3, <2>1, TickLeaves, Turns DEF c
<1> QED
  BY <1>2, <1>3 DEF LampTick

LEMMA PullLeverKeeps ==
  ASSUME IInv, NEW c \in Parts, PullLever(c)
  PROVE  IInv'
<1>1. /\ phase # "load" /\ phase' # "load" /\ UNCHANGED circuit /\ Kind(c) = "lever"
      /\ agenda \in Seq(Entries) /\ Settle(Turned(c), agenda, {}, Fed(c), {c})
  BY DEF PullLever, MayAct, IInv
<1>2. IsFiniteSet({}) /\ Fed(c) \in SUBSET Parts
  BY FS_EmptySet DEF Fed
<1> QED
  BY <1>1, <1>2, Turns

LEMMA PressButtonKeeps ==
  ASSUME IInv, NEW c \in Parts, PressButton(c)
  PROVE  IInv'
<1> DEFINE tick == Tick(c, ButtonDelay, 0)
           own == IF Pending(agenda, c) THEN {} ELSE {tick}
<1>1. /\ phase # "load" /\ phase' # "load" /\ UNCHANGED circuit /\ Kind(c) = "button"
      /\ agenda \in Seq(Entries) /\ Settle(Turned(c), agenda, own, Fed(c), {c})
  BY DEF PressButton, MayAct, IInv
<1>2. tick \in Entries /\ tick.part = c
  BY CircuitsAssumption DEF Tick, Entries
<1> HIDE DEF tick
<1>3. own \in {{}, {tick}}
  OBVIOUS
<1>4. Pending(agenda, c) \/ \E t \in own : t.part = c
  BY <1>2
<1>5. Fed(c) \in SUBSET Parts
  BY DEF Fed
<1> HIDE DEF own
<1>6. own \in SUBSET Entries /\ IsFiniteSet(own)
  BY <1>2, <1>3, OwnTick
<1> QED
  BY <1>1, <1>4, <1>5, <1>6, Turns

\* All parts are told when the world is initialised.
LEMMA InitializeKeeps ==
  ASSUME IInv, Initialize
  PROVE  IInv'
<1>1. /\ circuit \in Circuits /\ Shaped(state) /\ Consistent(state)
      /\ agenda \in Seq(Entries) /\ PulsesOver
      /\ phase' # "load" /\ UNCHANGED circuit
      /\ Settle(state, agenda, {}, Parts, {})
  BY DEF IInv, Initialize
<1>2. \A d \in Parts : AtRest(state, d) \/ Kind(d) \notin {"button", "observer"}
  BY <1>1 DEF PulsesOver, AtRest
<1>3. {} \in SUBSET Entries /\ IsFiniteSet({}) /\ Parts \in SUBSET Parts
  BY FS_EmptySet
<1>4. /\ Shaped(state') /\ Consistent(state')
      /\ agenda' \in Seq(Entries) /\ Resting(state', agenda')
  BY <1>1, <1>2, <1>3, Settles
<1> QED
  BY <1>1, <1>4, SameCircuit

\* Time that passes leaves every scheduled tick scheduled.
LEMMA BeginTickKeeps ==
  ASSUME IInv, BeginTick
  PROVE  IInv'
<1>1. /\ circuit \in Circuits /\ Shaped(state) /\ Consistent(state)
      /\ agenda \in Seq(Entries) /\ Resting(state, agenda)
      /\ phase' # "load" /\ UNCHANGED <<circuit, state>>
      /\ agenda' = [i \in DOMAIN agenda |-> [agenda[i] EXCEPT !.left = @ - 1]]
  BY DEF IInv, BeginTick, Settled, Resting, LitWhilePowered
<1>2. ASSUME NEW tick \in Entries
      PROVE  LET later == [tick EXCEPT !.left = @ - 1]
             IN later \in Entries /\ later.part = tick.part
  BY DEF Entries
<1>3. agenda' \in Seq(Entries) /\ DOMAIN agenda' = DOMAIN agenda
  BY <1>1, <1>2
<1>4. \A d : Pending(agenda, d) => Pending(agenda', d)
  <2>1. \A i \in DOMAIN agenda : agenda[i] \in Entries
    BY <1>1
  <2>2. \A i \in DOMAIN agenda : agenda'[i].part = agenda[i].part
    BY <1>1, <1>2, <2>1
  <2> QED
    BY <1>3, <2>2 DEF Pending
<1>5. Resting(state', agenda')
  BY <1>1, <1>4 DEF Resting
<1> QED
  BY <1>1, <1>3, <1>5, SameCircuit

-----------------------------------------------------------------------------
LEMMA Initially == Init => IInv
<1> SUFFICES ASSUME Init PROVE IInv
  OBVIOUS
<1>1. /\ circuit \in Circuits /\ agenda = <<>> /\ phase = "load"
      /\ state \in [on : [Parts -> BOOLEAN], output : [Parts -> 0 .. MaxPower],
                    subtract : SUBSET {c \in Parts : Kind(c) = "comparator"}]
      /\ \A c \in Parts :
           /\ Kind(c) = "comparator" => state.on[c] = (state.output[c] > 0)
           /\ Kind(c) \in {"button", "observer"} => ~state.on[c]
  BY DEF Init
<1>2. Shaped(state)
  BY <1>1 DEF Shaped
<1>3. agenda \in Seq(Entries)
  BY <1>1
<1> QED
  BY <1>1, <1>2, <1>3 DEF IInv, Consistent, PulsesOver, Settled

LEMMA Inductive == IInv /\ [Next]_vars => IInv'
<1> SUFFICES ASSUME IInv, [Next]_vars PROVE IInv'
  OBVIOUS
<1>1. CASE Initialize
  BY <1>1, InitializeKeeps
<1>2. CASE BeginTick
  BY <1>2, BeginTickKeeps
<1>3. CASE Act
  BY <1>3, PullLeverKeeps, PressButtonKeeps, SwitchComparatorKeeps DEF Act
<1>4. CASE RunTick
  BY <1>4, TorchTickKeeps, RepeaterTickKeeps, ComparatorTickKeeps, ObserverTickKeeps,
     ButtonTickKeeps, LampTickKeeps DEF RunTick
<1>5. CASE EndActions \/ EndTicks \/ UNCHANGED vars
  <2>1. /\ UNCHANGED <<circuit, state, agenda>>
        /\ phase' = phase \/ (phase # "load" /\ phase' # "load")
    BY <1>5 DEF EndActions, EndTicks, vars
  <2> QED
    <3>1. CASE phase = "load" /\ phase' = "load"
      BY <2>1, <3>1 DEF IInv, Shaped, Entries, Consistent, PulsesOver, Settled, Parts, Kind
    <3>2. CASE phase # "load" /\ phase' # "load"
      <4>1. Resting(state', agenda')
        BY <2>1, <3>2 DEF IInv, Settled, Resting, LitWhilePowered
      <4>2. /\ circuit \in Circuits /\ Shaped(state') /\ Consistent(state')
            /\ agenda' \in Seq(Entries)
        BY <2>1 DEF IInv
      <4> QED
        BY <2>1, <3>2, <4>1, <4>2, SameCircuit
    <3> QED
      BY <2>1, <3>1, <3>2
<1> QED
  BY <1>1, <1>2, <1>3, <1>4, <1>5 DEF Next

\* Settled, for any circuit: links may close loops, parts may feed themselves,
\* repeaters may lock each other (rules.rs 921-937, 960-986, 1151-1173).
THEOREM NoPartLeftBehind == Spec => []Settled
<1>1. Init => IInv
  BY Initially
<1>2. IInv /\ [Next]_vars => IInv'
  BY Inductive
<1>3. IInv => Settled
  BY DEF IInv
<1> QED
  BY <1>1, <1>2, <1>3, PTL DEF Spec
-----------------------------------------------------------------------------
(***************************************************************************)
(* The length of pulses. What is scheduled stays scheduled until it is due *)
(* (lemma Chain): a part has one tick at most, which is not answered       *)
(* before the part's delay is over, counted from its last change; a lamp   *)
(* or button that waits for a tick is on; and the end of a pulse is among  *)
(* the ticks as long as the pulse lasts. No callback between the start and *)
(* the answer of a tick removes, moves or doubles it.                      *)
(***************************************************************************)
Once(queue) == \A i, j \in DOMAIN queue : queue[i].part = queue[j].part => i = j

PulseLength(c) == IF Kind(c) = "button" THEN ButtonDelay ELSE 2

NoneOverdue(queue, now) == \A t \in Range(queue) : t.left >= 0 /\ (now = "rest" => t.left > 0)

Waits(queue, ages) ==
  \A t \in Range(queue) :
    Kind(t.part) \notin {"lever", "button"} => t.left + ages[t.part] >= Delay(t.part)

OnWhilePending(on, queue) ==
  \A t \in Range(queue) : Kind(t.part) \in {"lamp", "button"} => on[t.part]

EndScheduled(on, queue, ages) ==
  \A c \in Parts : Kind(c) \in {"observer", "button"} /\ on[c] =>
    \E t \in Range(queue) : t.part = c /\ t.left + ages[c] = PulseLength(c)

Punctual ==
  /\ Once(agenda)
  /\ phase = "load" => agenda = <<>>
  /\ since \in [Parts -> Nat]
  /\ NoneOverdue(agenda, phase)
  /\ Waits(agenda, since)
  /\ OnWhilePending(state.on, agenda)
  /\ EndScheduled(state.on, agenda, since)

LEMMA Entry ==
  ASSUME NEW queue \in Seq(Entries)
  PROVE  /\ \A t \in Range(queue) : t \in Entries /\ t.part \in Parts /\ t.left \in Int
         /\ \A d : Pending(queue, d) <=> \E t \in Range(queue) : t.part = d
         /\ \A i \in DOMAIN queue : queue[i] \in Range(queue)
<1>1. \A i \in DOMAIN queue : queue[i] \in Entries
  OBVIOUS
<1>2. \A t \in Range(queue) : \E i \in DOMAIN queue : t = queue[i]
  BY DEF Range
<1>3. \A i \in DOMAIN queue : queue[i] \in Range(queue)
  BY DEF Range
<1>4. \A t \in Entries : t.part \in Parts /\ t.left \in Int
  BY DEF Entries
<1> QED
  BY <1>1, <1>2, <1>3, <1>4 DEF Pending

\* Answering a tick removes it, and nothing else.
LEMMA TicksLeft ==
  ASSUME NEW queue \in Seq(Entries), NEW i \in DOMAIN queue, Once(queue)
  PROVE  /\ Once(Without(queue, i))
         /\ \A t : t \in Range(Without(queue, i)) <=> t \in Range(queue) /\ t.part # queue[i].part
         /\ ~Pending(Without(queue, i), queue[i].part)
<1> DEFINE rest == Without(queue, i)
           from(j) == IF j < i THEN j ELSE j + 1
<1>1. Len(queue) \in Nat /\ DOMAIN queue = 1 .. Len(queue) /\ DOMAIN rest = 1 .. Len(queue) - 1
  BY DEF Without
<1>2. \A j \in DOMAIN rest : from(j) \in DOMAIN queue \ {i} /\ rest[j] = queue[from(j)]
  BY <1>1 DEF Without
<1>3. \A k \in DOMAIN queue \ {i} : \E j \in DOMAIN rest : rest[j] = queue[k]
  <2> TAKE k \in DOMAIN queue \ {i}
  <2>1. CASE k < i
    BY <1>1, <2>1 DEF Without
  <2>2. CASE k > i
    <3>1. k - 1 \in DOMAIN rest /\ rest[k - 1] = queue[k]
      BY <1>1, <2>2 DEF Without
    <3> QED
      BY <3>1
  <2> QED
    BY <1>1, <2>1, <2>2
<1>4. Once(rest)
  <2> SUFFICES ASSUME NEW j \in DOMAIN rest, NEW k \in DOMAIN rest, rest[j].part = rest[k].part
               PROVE  j = k
    BY DEF Once
  <2>1. from(j) = from(k)
    BY <1>2 DEF Once
  <2> QED
    BY <1>1, <2>1
<1>5. ASSUME NEW t
      PROVE  t \in Range(rest) <=> t \in Range(queue) /\ t.part # queue[i].part
  <2>1. ASSUME t \in Range(rest) PROVE t \in Range(queue) /\ t.part # queue[i].part
    <3>1. PICK j \in DOMAIN rest : t = rest[j]
      BY <2>1 DEF Range
    <3>2. t = queue[from(j)] /\ from(j) \in DOMAIN queue /\ from(j) # i
      BY <1>2, <3>1
    <3> QED
      BY <3>2 DEF Once, Range
  <2>2. ASSUME t \in Range(queue), t.part # queue[i].part PROVE t \in Range(rest)
    <3>1. PICK k \in DOMAIN queue : t = queue[k]
      BY <2>2 DEF Range
    <3>2. k # i
      BY <2>2, <3>1
    <3> QED
      BY <1>3, <3>1, <3>2 DEF Range
  <2> QED
    BY <2>1, <2>2
<1>6. rest \in Seq(Entries)
  BY WithoutKeeps
<1>7. ~Pending(rest, queue[i].part)
  <2> HIDE DEF rest
  <2> QED
    BY <1>5, <1>6, Entry
<1> QED
  BY <1>4, <1>5, <1>7

\* Ticks of parts that have none are added to those there are, each once.
LEMMA Added ==
  ASSUME NEW queue \in Seq(Entries), Once(queue),
         NEW new \in SUBSET Entries, IsFiniteSet(new),
         \A t \in new : ~Pending(queue, t.part),
         \A t, u \in new : t.part = u.part => t = u,
         NEW order \in Orders(new)
  PROVE  /\ Once(queue \o order)
         /\ Range(queue \o order) = Range(queue) \cup new
<1>1. Cardinality(new) \in Nat
  BY FS_CardinalityType
<1>2. /\ order \in [1 .. Cardinality(new) -> new]
      /\ \A t \in new : \E i \in 1 .. Cardinality(new) : order[i] = t
      /\ order \in Surjection(1 .. Cardinality(new), new)
  BY DEF Orders, Surjection
<1>3. order \in Seq(Entries) /\ Len(order) = Cardinality(new)
  BY <1>1, <1>2
<1>4. \A i, j \in 1 .. Len(order) : order[i] = order[j] => i = j
  <2>1. IsFiniteSet(1 .. Cardinality(new)) /\ Cardinality(1 .. Cardinality(new)) = Cardinality(new)
    BY <1>1, FS_Interval
  <2>2. order \in Injection(1 .. Cardinality(new), new)
    BY <1>2, <2>1, FS_Surjection
  <2> QED
    BY <1>3, <2>2 DEF Injection, IsInjective
<1> DEFINE all == queue \o order
<1>5. /\ Len(queue) \in Nat /\ Len(order) \in Nat
      /\ DOMAIN all = 1 .. Len(queue) + Len(order) /\ DOMAIN queue = 1 .. Len(queue)
      /\ DOMAIN order = 1 .. Len(order)
      /\ \A i \in 1 .. Len(queue) : all[i] = queue[i]
      /\ \A i \in 1 .. Len(order) : all[Len(queue) + i] = order[i]
  BY <1>3
<1>6. \A i \in DOMAIN all :
        \/ i \in DOMAIN queue
        \/ i - Len(queue) \in DOMAIN order /\ all[i] = order[i - Len(queue)]
  <2> HIDE DEF all
  <2> TAKE i \in DOMAIN all
  <2>1. CASE i > Len(queue)
    <3>1. i - Len(queue) \in 1 .. Len(order) /\ Len(queue) + (i - Len(queue)) = i
      BY <1>5, <2>1
    <3>2. all[Len(queue) + (i - Len(queue))] = order[i - Len(queue)]
      BY <1>5, <3>1
    <3> QED
      BY <1>5, <3>1, <3>2
  <2>2. CASE ~(i > Len(queue))
    <3>1. i \in 1 .. Len(queue)
      BY <1>5, <2>2
    <3> QED
      BY <1>5, <3>1
  <2> QED
    BY <2>1, <2>2
<1>7. \A i \in DOMAIN order : order[i] \in new
  BY <1>2, <1>3
<1> HIDE DEF all
<1>8. Range(all) = Range(queue) \cup new
  <2>1. \A t \in Range(all) : t \in Range(queue) \cup new
    BY <1>5, <1>6, <1>7 DEF Range
  <2>2. \A t \in Range(queue) : t \in Range(all)
    BY <1>5 DEF Range
  <2>3. ASSUME NEW t \in new PROVE t \in Range(all)
    <3>1. PICK i \in 1 .. Len(order) : order[i] = t
      BY <1>2, <1>3
    <3>2. Len(queue) + i \in DOMAIN all /\ all[Len(queue) + i] = t
      BY <1>5, <3>1
    <3> QED
      BY <3>2 DEF Range
  <2> QED
    BY <2>1, <2>2, <2>3
<1>9. Once(all)
  <2> SUFFICES ASSUME NEW i \in DOMAIN all, NEW j \in DOMAIN all, all[i].part = all[j].part
               PROVE  i = j
    BY DEF Once
  <2>1. CASE i \in DOMAIN queue /\ j \in DOMAIN queue
    BY <1>5, <2>1 DEF Once
  <2>2. CASE i \in DOMAIN queue /\ j \notin DOMAIN queue
    <3>1. all[i] = queue[i] /\ all[j] \in new
      BY <1>5, <1>6, <1>7, <2>2
    <3> QED
      BY <2>2, <3>1 DEF Pending
  <2>3. CASE i \notin DOMAIN queue /\ j \in DOMAIN queue
    <3>1. all[j] = queue[j] /\ all[i] \in new
      BY <1>5, <1>6, <1>7, <2>3
    <3> QED
      BY <2>3, <3>1 DEF Pending
  <2>4. CASE i \notin DOMAIN queue /\ j \notin DOMAIN queue
    <3>1. /\ i - Len(queue) \in DOMAIN order /\ all[i] = order[i - Len(queue)]
          /\ j - Len(queue) \in DOMAIN order /\ all[j] = order[j - Len(queue)]
      BY <1>6, <2>4
    <3>2. order[i - Len(queue)] = order[j - Len(queue)]
      BY <1>7, <3>1
    <3>3. i - Len(queue) = j - Len(queue)
      BY <1>4, <1>5, <3>1, <3>2
    <3> QED
      BY <1>5, <3>3
  <2> QED
    BY <2>1, <2>2, <2>3, <2>4
<1> QED
  BY <1>8, <1>9 DEF all

\* A tick that a part asks for in the chain of updates after a callback
Asked(s, queue, own, t) ==
  /\ t.part \in Parts /\ t.left = Delay(t.part)
  /\ ~Pending(queue, t.part) /\ \A u \in own : u.part # t.part
  /\ AsksForTick(s, t.part) \/ (Kind(t.part) = "observer" /\ ~s.on[t.part])

\* The chain of updates after a callback adds ticks of parts that have none,
\* and turns no part but lamps, which it lights.
LEMMA Chain ==
  ASSUME circuit \in Circuits,
         NEW s, Shaped(s),
         NEW queue \in Seq(Entries), Once(queue),
         NEW own \in SUBSET Entries, IsFiniteSet(own),
         \A t \in own : ~Pending(queue, t.part),
         \A t, u \in own : t.part = u.part => t = u,
         NEW told \in SUBSET Parts, NEW seen,
         Settle(s, queue, own, told, seen)
  PROVE  /\ agenda' \in Seq(Entries) /\ Once(agenda')
         /\ \A t \in Range(queue) \cup own : t \in Range(agenda')
         /\ \A t \in Range(agenda') : t \in Range(queue) \/ t \in own \/ Asked(s, queue, own, t)
         /\ \A d \in Parts :
              /\ state'.on[d] \in BOOLEAN
              /\ state'.on[d] # s.on[d] => Kind(d) = "lamp" /\ state'.on[d] /\ ~s.on[d]
              /\ since'[d] = IF state'.on[d] # state.on[d] THEN 0 ELSE since[d]
         /\ since' = [d \in Parts |-> since'[d]]
<1> DEFINE lit == {d \in told : Kind(d) = "lamp" /\ ~s.on[d] /\ Powered(s, d)}
           started == {d \in Watching(seen \cup lit) : ~s.on[d]}
           asking == {d \in told : AsksForTick(s, d)} \cup started
           asked == {e \in asking : ~Pending(queue, e) /\ \A t \in own : t.part # e}
           asks == {Tick(d, Delay(d), Priority(s, d)) : d \in asked}
           new == own \cup asks
<1>1. state' = WithOn(s, [d \in Parts |-> d \in lit \/ s.on[d]])
  BY DEF Settle
<1>2. PICK order \in Orders(new) : agenda' = queue \o order
  BY DEF Settle
<1>3. since' = [d \in Parts |-> IF state'.on[d] # state.on[d] THEN 0 ELSE since[d]]
  BY DEF Settle
<1>4. asked \in SUBSET Parts
  BY DEF Watching
<1>5. new \in SUBSET Entries /\ IsFiniteSet(new)
  <2> HIDE DEF asked
  <2> QED
    BY <1>4, NewTicks
<1>6. \A t \in asks : Asked(s, queue, own, t)
  <2> SUFFICES ASSUME NEW d \in asked PROVE Asked(s, queue, own, Tick(d, Delay(d), Priority(s, d)))
    OBVIOUS
  <2>1. AsksForTick(s, d) \/ (Kind(d) = "observer" /\ ~s.on[d])
    BY DEF Watching
  <2>2. d \in Parts /\ ~Pending(queue, d) /\ \A u \in own : u.part # d
    BY <1>4
  <2> HIDE DEF asked
  <2> QED
    BY <2>1, <2>2 DEF Asked, Tick
<1>7. \A t \in new : ~Pending(queue, t.part)
  BY <1>6 DEF Asked
<1>8. \A t, u \in new : t.part = u.part => t = u
  <2>1. \A t, u \in asks : t.part = u.part => t = u
    <3>1. \A d : Tick(d, Delay(d), Priority(s, d)).part = d
      BY DEF Tick
    <3>2. \A t \in asks : t = Tick(t.part, Delay(t.part), Priority(s, t.part))
      BY <3>1
    <3> QED
      BY ONLY <3>2
  <2>2. \A t \in asks, u \in own : t.part # u.part
    BY <1>6 DEF Asked
  <2> HIDE DEF asks
  <2> QED
    BY <2>1, <2>2
<1>9. Once(agenda') /\ Range(agenda') = Range(queue) \cup new /\ agenda' \in Seq(Entries)
  <2> HIDE DEF new
  <2> QED
    BY <1>2, <1>5, <1>7, <1>8, Added, Appended
<1>10. ASSUME NEW d \in Parts
       PROVE  /\ state'.on[d] \in BOOLEAN
              /\ state'.on[d] # s.on[d] => Kind(d) = "lamp" /\ state'.on[d] /\ ~s.on[d]
  <2>1. state'.on[d] = (d \in lit \/ s.on[d]) /\ s.on[d] \in BOOLEAN
    BY <1>1 DEF WithOn, Shaped
  <2> QED
    BY <2>1
<1>11. \A t \in Range(agenda') : t \in Range(queue) \/ t \in own \/ Asked(s, queue, own, t)
  <2> HIDE DEF asks
  <2> QED
    BY <1>6, <1>9
<1>12. \A t \in Range(queue) \cup own : t \in Range(agenda')
  <2> HIDE DEF asks
  <2> QED
    BY <1>9
<1>13. /\ \A d \in Parts : since'[d] = IF state'.on[d] # state.on[d] THEN 0 ELSE since[d]
       /\ since' = [d \in Parts |-> since'[d]]
  BY <1>3
<1> QED
  BY <1>9, <1>10, <1>11, <1>12, <1>13

LEMMA DelayInHorizon ==
  ASSUME circuit \in Circuits, NEW d \in Parts
  PROVE  Delay(d) \in Nat /\ Delay(d) > 0 /\ Delay(d) <= Horizon
<1>1. /\ circuit \in Seq(PartsOf(Len(circuit)))
      /\ circuit[d].delay <= Horizon /\ Horizon \in Nat /\ Horizon >= 4
  BY CircuitsAssumption DEF Parts
<1>2. circuit[d] \in PartsOf(Len(circuit))
  BY <1>1 DEF Parts
<1>3. circuit[d].delay \in Nat \ {0}
  BY <1>2 DEF PartsOf
<1> QED
  BY <1>1, <1>3 DEF Delay

\* The invariant speaks of the same circuit at all times.
LEMMA PunctualNext ==
  ASSUME UNCHANGED circuit, phase' # "load", Once(agenda'), since' \in [Parts -> Nat],
         NoneOverdue(agenda', phase'), Waits(agenda', since'),
         OnWhilePending(state'.on, agenda'), EndScheduled(state'.on, agenda', since')
  PROVE  Punctual'
<1>1. Parts' = Parts /\ \A d : Kind(d)' = Kind(d) /\ Delay(d)' = Delay(d)
  BY DEF Parts, Kind, Delay
<1>2. Once(agenda)' /\ (since \in [Parts -> Nat])' /\ NoneOverdue(agenda, phase)'
  BY <1>1 DEF Once, NoneOverdue
<1>3. Waits(agenda, since)'
  BY <1>1 DEF Waits
<1>4. OnWhilePending(state.on, agenda)'
  BY <1>1 DEF OnWhilePending
<1>5. EndScheduled(state.on, agenda, since)'
  BY <1>1 DEF EndScheduled, PulseLength
<1> QED
  BY <1>2, <1>3, <1>4, <1>5 DEF Punctual

\* A callback has changed at most part c, which had no tick left or is a lever,
\* and has scheduled at most one tick for it, no sooner than its delay.
Orderly(c, s, queue, own) ==
  /\ Shaped(s) /\ queue \in Seq(Entries) /\ Once(queue)
  /\ own \in SUBSET Entries /\ IsFiniteSet(own)
  /\ \A t \in own :
       /\ t.part = c /\ ~Pending(queue, c) /\ t.left > 0
       /\ Kind(c) \notin {"lever", "button"} => t.left >= Delay(c)
       /\ Kind(c) \in {"lamp", "button"} => s.on[c]
  /\ \A t, u \in own : t = u
  /\ \A t \in Range(queue) : t \in Range(agenda)
  /\ \A t \in Range(agenda) : t \in Range(queue) \/ t.part = c
  /\ \A d \in Parts : s.on[d] # state.on[d] => d = c /\ (Kind(c) = "lever" \/ ~Pending(queue, c))
  /\ c \in Parts /\ Kind(c) \in {"observer", "button"} /\ s.on[c] =>
       \/ s.on[c] = state.on[c] /\ \A t \in Range(agenda) : t \in Range(queue)
       \/ s.on[c] # state.on[c] /\ \E t \in own : t.left = PulseLength(c)

\* What PulsesKeepLength asks of a part that turns
Timely(c) ==
  /\ Kind(c) = "repeater" => since[c] >= circuit[c].delay
  /\ Kind(c) \in {"torch", "comparator"} => since[c] >= 2
  /\ Kind(c) = "lamp" /\ state.on[c] => since[c] >= 4
  /\ Kind(c) = "observer" /\ state.on[c] => since[c] = 2
  /\ Kind(c) = "button" /\ state.on[c] => since[c] = ButtonDelay

AllTimely == \A c \in Parts : state'.on[c] # state.on[c] => Timely(c)

\* A step after which torches are as they were, and wait for what they waited
Quiet ==
  /\ \A d \in Parts : Kind(d) = "torch" =>
       /\ state'.on[d] = state.on[d]
       /\ \A t \in Range(agenda) : t.part = d => t \in Range(agenda')
  /\ \A t \in Range(agenda') : t \in Range(agenda) \/ t.left > 0

LEMMA CallbackPunctual ==
  ASSUME IInv, Punctual, UNCHANGED circuit, phase' # "load",
         phase' = "rest" => phase \in {"rest", "load"},
         NEW c, NEW s, NEW queue, NEW own, Orderly(c, s, queue, own),
         NEW told \in SUBSET Parts, NEW seen,
         Settle(s, queue, own, told, seen),
         c \in Parts /\ s.on[c] # state.on[c] => Timely(c)
  PROVE  /\ Punctual' /\ AllTimely
         /\ (c \in Parts => Kind(c) # "torch") => Quiet
<1>1. /\ circuit \in Circuits /\ agenda \in Seq(Entries) /\ Shaped(s)
      /\ queue \in Seq(Entries) /\ Once(queue)
      /\ own \in SUBSET Entries /\ IsFiniteSet(own)
      /\ \A t \in own : ~Pending(queue, t.part)
      /\ \A t, u \in own : t.part = u.part => t = u
  BY DEF IInv, Orderly
<1>2. /\ agenda' \in Seq(Entries) /\ Once(agenda')
      /\ \A t \in Range(queue) \cup own : t \in Range(agenda')
      /\ \A t \in Range(agenda') : t \in Range(queue) \/ t \in own \/ Asked(s, queue, own, t)
  BY <1>1, Chain
<1>3. /\ \A d \in Parts :
           /\ state'.on[d] \in BOOLEAN
           /\ state'.on[d] # s.on[d] => Kind(d) = "lamp" /\ state'.on[d] /\ ~s.on[d]
           /\ since'[d] = IF state'.on[d] # state.on[d] THEN 0 ELSE since[d]
      /\ since' = [d \in Parts |-> since'[d]]
  BY <1>1, Chain
<1>4. \A d \in Parts : s.on[d] \in BOOLEAN /\ state.on[d] \in BOOLEAN
  BY <1>1 DEF Shaped, IInv
<1>5. since' \in [Parts -> Nat]
  <2>1. \A d \in Parts : since'[d] \in Nat
    BY <1>3 DEF Punctual
  <2> QED
    BY <1>3, <2>1
<1>6. ASSUME NEW t \in Range(queue)
      PROVE  /\ t \in Range(agenda) /\ t.part \in Parts /\ t.left \in Int
             /\ Kind(t.part) # "lever" =>
                  state'.on[t.part] = state.on[t.part] /\ since'[t.part] = since[t.part]
  <2>1. t \in Range(agenda) /\ t.part \in Parts /\ t.left \in Int /\ Pending(queue, t.part)
    BY <1>1, Entry DEF Orderly
  <2>2. Kind(t.part) # "lever" => s.on[t.part] = state.on[t.part]
    BY <2>1 DEF Orderly
  <2>3. Kind(t.part) = "lamp" => state.on[t.part]
    BY <2>1 DEF Punctual, OnWhilePending
  <2> QED
    BY <1>3, <1>4, <2>1, <2>2, <2>3
<1>7. ASSUME NEW t \in own
      PROVE  /\ t.part = c /\ c \in Parts /\ t.left \in Int /\ t.left > 0
             /\ Kind(c) \notin {"lever", "button"} => t.left >= Delay(c)
             /\ Kind(c) \in {"lamp", "button"} => state'.on[c]
  <2>1. t.part \in Parts /\ t.left \in Int
    BY <1>1 DEF Entries
  <2> QED
    BY <1>3, <2>1 DEF Orderly
<1>8. ASSUME NEW t, Asked(s, queue, own, t)
      PROVE  /\ t.part \in Parts /\ t.left = Delay(t.part) /\ t.left \in Nat /\ t.left > 0
             /\ Kind(t.part) \in {"lamp", "button"} => state'.on[t.part]
  <2>1. t.part \in Parts /\ t.left = Delay(t.part)
    BY <1>8 DEF Asked
  <2>2. Kind(t.part) \in {"lamp", "button"} => s.on[t.part]
    BY <1>4, <1>8 DEF Asked, AsksForTick
  <2>3. Delay(t.part) \in Nat /\ Delay(t.part) > 0
    BY <1>1, <2>1, DelayInHorizon
  <2> QED
    BY <1>3, <2>1, <2>2, <2>3
<1>9. NoneOverdue(agenda', phase')
  <2> SUFFICES ASSUME NEW t \in Range(agenda')
               PROVE  t.left >= 0 /\ (phase' = "rest" => t.left > 0)
    BY DEF NoneOverdue
  <2>1. CASE t \in Range(queue)
    <3>1. phase # "load"
      BY <1>6, <2>1 DEF Punctual, Range
    <3> QED
      BY <1>6, <2>1, <3>1 DEF Punctual, NoneOverdue
  <2> QED
    BY <1>2, <1>7, <1>8, <2>1
<1>10. Waits(agenda', since')
  <2> SUFFICES ASSUME NEW t \in Range(agenda'), Kind(t.part) \notin {"lever", "button"}
               PROVE  t.left + since'[t.part] >= Delay(t.part)
    BY DEF Waits
  <2>1. CASE t \in Range(queue)
    BY <1>6, <2>1 DEF Punctual, Waits
  <2>2. CASE t \in own
    <3>1. t.left >= Delay(t.part) /\ t.left \in Int /\ since'[t.part] \in Nat /\ t.part \in Parts
      BY <1>5, <1>7, <2>2
    <3>2. Delay(t.part) \in Nat
      BY <1>1, <3>1, DelayInHorizon
    <3> QED
      BY <3>1, <3>2
  <2>3. CASE Asked(s, queue, own, t)
    <3>1. t.left = Delay(t.part) /\ t.left \in Nat /\ since'[t.part] \in Nat
      BY <1>5, <1>8, <2>3
    <3> QED
      BY <3>1
  <2> QED
    BY <1>2, <2>1, <2>2, <2>3
<1>11. OnWhilePending(state'.on, agenda')
  <2> SUFFICES ASSUME NEW t \in Range(agenda'), Kind(t.part) \in {"lamp", "button"}
               PROVE  state'.on[t.part]
    BY DEF OnWhilePending
  <2>1. CASE t \in Range(queue)
    BY <1>6, <2>1 DEF Punctual, OnWhilePending
  <2> QED
    BY <1>2, <1>7, <1>8, <2>1
<1>12. EndScheduled(state'.on, agenda', since')
  <2> SUFFICES ASSUME NEW d \in Parts, Kind(d) \in {"observer", "button"}, state'.on[d]
               PROVE  \E t \in Range(agenda') : t.part = d /\ t.left + since'[d] = PulseLength(d)
    BY DEF EndScheduled
  <2>1. state'.on[d] = s.on[d]
    BY <1>3
  <2>2. CASE s.on[d] # state.on[d]
    <3>1. d = c /\ since'[d] = 0
      BY <1>3, <2>1, <2>2 DEF Orderly
    <3>2. PICK t \in own : t.left = PulseLength(c)
      BY <2>1, <2>2, <3>1 DEF Orderly
    <3>3. t \in Range(agenda') /\ t.part = d /\ t.left \in Int
      BY <1>2, <1>7, <3>1
    <3> QED
      BY <3>1, <3>2, <3>3
  <2>3. CASE s.on[d] = state.on[d]
    <3>1. PICK t \in Range(agenda) : t.part = d /\ t.left + since[d] = PulseLength(d)
      BY <2>1, <2>3 DEF Punctual, EndScheduled
    <3>2. t \in Range(queue)
      BY <2>1, <2>3, <3>1 DEF Orderly
    <3> QED
      BY <1>2, <1>3, <2>1, <2>3, <3>1, <3>2
  <2> QED
    BY <2>2, <2>3
<1>13. AllTimely
  <2> SUFFICES ASSUME NEW d \in Parts, state'.on[d] # state.on[d] PROVE Timely(d)
    BY DEF AllTimely
  <2>1. CASE s.on[d] # state.on[d]
    BY <2>1 DEF Orderly
  <2>2. CASE s.on[d] = state.on[d]
    BY <1>3, <2>2 DEF Timely
  <2> QED
    BY <2>1, <2>2
<1>14. ASSUME c \in Parts => Kind(c) # "torch"
       PROVE  Quiet
  <2>1. ASSUME NEW d \in Parts, Kind(d) = "torch"
        PROVE  /\ state'.on[d] = state.on[d]
               /\ \A t \in Range(agenda) : t.part = d => t \in Range(agenda')
    <3>1. d # c
      BY <1>14, <2>1
    <3>2. state'.on[d] = s.on[d] /\ s.on[d] = state.on[d]
      BY <1>3, <2>1, <3>1 DEF Orderly
    <3>3. \A t \in Range(agenda) : t.part = d => t \in Range(agenda')
      BY <1>2, <3>1 DEF Orderly
    <3> QED
      BY <3>2, <3>3
  <2>2. \A t \in Range(agenda') : t \in Range(agenda) \/ t.left > 0
    BY <1>2, <1>6, <1>7, <1>8
  <2> QED
    BY <2>1, <2>2 DEF Quiet
<1> QED
  BY <1>2, <1>5, <1>9, <1>10, <1>11, <1>12, <1>13, <1>14, PunctualNext

\* A tick that is due has waited as long as its part's delay, and the tick of a
\* pulse is the one that ends it.
LEMMA DueTimely ==
  ASSUME IInv, Punctual, NEW i \in DOMAIN agenda, agenda[i].left = 0
  PROVE  Timely(agenda[i].part)
<1> DEFINE t == agenda[i]
<1>1. /\ circuit \in Circuits /\ agenda \in Seq(Entries)
      /\ t \in Range(agenda) /\ t.part \in Parts /\ since[t.part] \in Nat
  BY Entry DEF IInv, Punctual
<1>2. Kind(t.part) \notin {"lever", "button"} => since[t.part] >= Delay(t.part)
  <2>1. Delay(t.part) \in Nat
    BY <1>1, DelayInHorizon
  <2>2. Kind(t.part) \notin {"lever", "button"} => t.left + since[t.part] >= Delay(t.part)
    BY <1>1 DEF Punctual, Waits
  <2> QED
    BY <1>1, <2>1, <2>2
<1>3. ASSUME Kind(t.part) \in {"observer", "button"}, state.on[t.part]
      PROVE  since[t.part] = PulseLength(t.part)
  <2>1. PICK u \in Range(agenda) : u.part = t.part /\ u.left + since[t.part] = PulseLength(t.part)
    BY <1>1, <1>3 DEF Punctual, EndScheduled
  <2>2. u = t
    BY <2>1 DEF Punctual, Once, Range
  <2> QED
    BY <1>1, <2>1, <2>2
<1> HIDE DEF t
<1>4. Timely(t.part)
  BY <1>1, <1>2, <1>3 DEF Timely, Delay, PulseLength
<1> QED
  BY <1>4 DEF t

\* A part that answers its tick may change, and schedule a tick of its own
Turning(c, s) == Shaped(s) /\ \A d \in Parts \ {c} : s.on[d] = state.on[d]

Scheduling(c, s, own, left, priority) ==
  /\ left \in Int /\ left > 0 /\ priority \in Int
  /\ own \in {{}, {Tick(c, left, priority)}}
  /\ own # {} /\ Kind(c) \notin {"lever", "button"} => left >= Delay(c)
  /\ own # {} /\ Kind(c) \in {"lamp", "button"} => s.on[c]
  /\ Kind(c) \in {"observer", "button"} /\ s.on[c] =>
       s.on[c] # state.on[c] /\ own # {} /\ left = PulseLength(c)

LEMMA Answers ==
  ASSUME IInv, Punctual, NEW i \in DOMAIN agenda, NEW s, Turning(agenda[i].part, s),
         NEW own, NEW left, NEW priority, Scheduling(agenda[i].part, s, own, left, priority)
  PROVE  Orderly(agenda[i].part, s, Without(agenda, i), own)
<1> DEFINE c == agenda[i].part
           queue == Without(agenda, i)
           tick == Tick(c, left, priority)
<1>0. Turning(c, s) /\ Scheduling(c, s, own, left, priority)
  OBVIOUS
<1>1. agenda \in Seq(Entries) /\ Once(agenda) /\ c \in Parts /\ queue \in Seq(Entries)
  BY TickPart DEF IInv, Punctual
<1>2. /\ Once(queue) /\ ~Pending(queue, c)
      /\ \A t : t \in Range(queue) <=> t \in Range(agenda) /\ t.part # c
  BY <1>1, TicksLeft
<1>3. tick \in Entries /\ tick.part = c /\ tick.left = left
  BY <1>0, <1>1 DEF Tick, Entries, Scheduling
<1>4. own \in {{}, {tick}}
  BY DEF Scheduling
<1> HIDE DEF c, queue, tick
<1>5. own \in SUBSET Entries /\ IsFiniteSet(own)
  BY <1>3, <1>4, OwnTick
<1>6. \A t, u \in own : t = u
  BY <1>4
<1>7. \A t \in own : t = tick
  BY <1>4
<1>8. own # {} => tick \in own
  BY <1>4
<1>9. Orderly(c, s, queue, own)
  BY <1>0, <1>1, <1>2, <1>3, <1>5, <1>6, <1>7, <1>8 DEF Orderly, Turning, Scheduling
<1> QED
  BY <1>9 DEF c, queue

LEMMA DropPunctual ==
  ASSUME IInv, Punctual, phase = "ticks", NEW i \in DOMAIN agenda, NothingToDo(i),
         Kind(agenda[i].part) \in {"observer", "button"} => ~state.on[agenda[i].part]
  PROVE  Punctual' /\ AllTimely /\ (Kind(agenda[i].part) # "torch" => Quiet)
<1>1. /\ UNCHANGED <<circuit, state, phase, since>> /\ agenda' = Without(agenda, i)
      /\ agenda \in Seq(Entries) /\ Once(agenda)
  BY DEF NothingToDo, history, IInv, Punctual
<1>2. /\ Once(agenda')
      /\ \A t : t \in Range(agenda') <=> t \in Range(agenda) /\ t.part # agenda[i].part
  BY <1>1, TicksLeft
<1>3. NoneOverdue(agenda', phase')
  BY <1>1, <1>2 DEF Punctual, NoneOverdue
<1>4. Waits(agenda', since')
  BY <1>1, <1>2 DEF Punctual, Waits
<1>5. OnWhilePending(state'.on, agenda')
  BY <1>1, <1>2 DEF Punctual, OnWhilePending
<1>6. EndScheduled(state'.on, agenda', since')
  BY <1>1, <1>2 DEF Punctual, EndScheduled
<1>7. Punctual'
  BY <1>1, <1>2, <1>3, <1>4, <1>5, <1>6, PunctualNext DEF Punctual
<1>8. Kind(agenda[i].part) # "torch" => Quiet
  BY <1>1, <1>2 DEF Quiet
<1> QED
  BY <1>1, <1>7, <1>8 DEF AllTimely

\* A part with a tick turns when it runs.
LEMMA TurnedState ==
  ASSUME IInv, NEW c \in Parts
  PROVE  /\ Turning(c, Turned(c))
         /\ Turned(c).on[c] # state.on[c]
         /\ Turned(c).on[c] <=> ~state.on[c]
<1> DEFINE s == Turned(c)
<1>1. s = [on |-> [state.on EXCEPT ![c] = ~@], output |-> state.output,
           subtract |-> state.subtract]
  BY DEF Turned, WithOn
<1>2. /\ s.on = [state.on EXCEPT ![c] = ~@]
      /\ s.output = state.output
      /\ s.subtract = state.subtract
  BY <1>1
<1>3. /\ s.on \in [Parts -> BOOLEAN] /\ state.on \in [Parts -> BOOLEAN]
      /\ s.on[c] = ~state.on[c] /\ state.on[c] \in BOOLEAN
      /\ \A d \in Parts \ {c} : s.on[d] = state.on[d]
  BY <1>2 DEF Shaped, IInv
<1> HIDE DEF s
<1>4. Shaped(s)
  BY <1>1, <1>2, <1>3 DEF Shaped, IInv
<1>5. s.on[c] # state.on[c] /\ (s.on[c] <=> ~state.on[c])
  BY <1>3
<1> QED
  BY <1>3, <1>4, <1>5 DEF s, Turning

\* The step of a part that answers its tick, with the change of its own
LEMMA AnswerPunctual ==
  ASSUME IInv, Punctual, phase = "ticks", UNCHANGED <<circuit, phase>>,
         NEW i \in DOMAIN agenda, agenda[i].left = 0,
         NEW s, Turning(agenda[i].part, s),
         NEW own, NEW left, NEW priority, Scheduling(agenda[i].part, s, own, left, priority),
         NEW told \in SUBSET Parts, NEW seen,
         Settle(s, Without(agenda, i), own, told, seen)
  PROVE  Punctual' /\ AllTimely /\ (Kind(agenda[i].part) # "torch" => Quiet)
<1>1. Orderly(agenda[i].part, s, Without(agenda, i), own)
  BY Answers
<1>2. Timely(agenda[i].part)
  BY DueTimely
<1> QED
  BY <1>1, <1>2, CallbackPunctual


LEMMA Running ==
  ASSUME IInv, NEW i \in DOMAIN agenda, NEW kind, Runs(i, kind)
  PROVE  /\ phase = "ticks" /\ agenda[i].left = 0
         /\ agenda[i].part \in Parts /\ Kind(agenda[i].part) = kind
         /\ state.on[agenda[i].part] \in BOOLEAN
         /\ Fed(agenda[i].part) \in SUBSET Parts
         /\ circuit \in Circuits
BY TickPart DEF Runs, IsNext, Fed, IInv, Shaped

LEMMA TorchTickPunctual ==
  ASSUME IInv, Punctual, NEW i \in DOMAIN agenda, TorchTick(i)
  PROVE  Punctual' /\ AllTimely
<1> DEFINE c == agenda[i].part
           own == IF /\ Powered(state, c)
                     /\ Cardinality({j \in DOMAIN Recent : Recent[j].part = c}) >= BurnLimit
                  THEN {Tick(c, BurnDelay, 0)} ELSE {}
<1>1. Runs(i, "torch")
  BY DEF TorchTick
<1>2. CASE NothingToDo(i)
  BY <1>1, <1>2, Running, DropPunctual
<1>3. CASE Settle(Turned(c), Without(agenda, i), own, Fed(c), {c}) /\ UNCHANGED <<circuit, phase>>
  <2>1. own \in {{}, {Tick(c, BurnDelay, 0)}}
    OBVIOUS
  <2>2. Turning(c, Turned(c))
    BY <1>1, Running, TurnedState
  <2> HIDE DEF own
  <2>3. Scheduling(c, Turned(c), own, BurnDelay, 0)
    BY <1>1, <2>1, Running, CircuitsAssumption DEF Scheduling, Delay
  <2> QED
    BY <1>1, <1>3, <2>2, <2>3, Running, AnswerPunctual
<1>4. \/ NothingToDo(i)
      \/ Settle(Turned(c), Without(agenda, i), own, Fed(c), {c}) /\ UNCHANGED <<circuit, phase>>
  BY DEF TorchTick
<1> QED
  BY <1>2, <1>3, <1>4

LEMMA RepeaterTickPunctual ==
  ASSUME IInv, Punctual, NEW i \in DOMAIN agenda, RepeaterTick(i)
  PROVE  Punctual' /\ AllTimely /\ Quiet
<1> DEFINE c == agenda[i].part
           again == IF Powered(state, c) \/ state.on[c] THEN {} ELSE {Tick(c, Delay(c), -2)}
<1>1. Runs(i, "repeater")
  BY DEF RepeaterTick
<1>2. CASE NothingToDo(i)
  BY <1>1, <1>2, Running, DropPunctual
<1>3. CASE Settle(Turned(c), Without(agenda, i), again, Fed(c), {c}) /\ UNCHANGED <<circuit, phase>>
  <2>1. again \in {{}, {Tick(c, Delay(c), -2)}}
    OBVIOUS
  <2>2. Turning(c, Turned(c))
    BY <1>1, Running, TurnedState
  <2>3. Delay(c) \in Nat /\ Delay(c) > 0
    BY <1>1, Running, DelayInHorizon
  <2> HIDE DEF again
  <2>4. Scheduling(c, Turned(c), again, Delay(c), -2)
    BY <1>1, <2>1, <2>3, Running DEF Scheduling
  <2>5. Punctual' /\ AllTimely /\ (Kind(c) # "torch" => Quiet)
    BY <1>1, <1>3, <2>2, <2>4, Running, AnswerPunctual
  <2> QED
    BY <1>1, <2>5, Running
<1> QED
  BY <1>2, <1>3 DEF RepeaterTick

LEMMA ComparatorTickPunctual ==
  ASSUME IInv, Punctual, NEW i \in DOMAIN agenda, ComparatorTick(i)
  PROVE  Punctual' /\ AllTimely /\ Quiet
<1> DEFINE c == agenda[i].part
           output == Compared(state, c)
           on == output > 0
           s == [on |-> [state.on EXCEPT ![c] = on],
                 output |-> [state.output EXCEPT ![c] = output], subtract |-> state.subtract]
           seen == IF state.on[c] # on THEN {c} ELSE {}
<1>1. Runs(i, "comparator")
  BY DEF ComparatorTick
<1>2. CASE NothingToDo(i)
  BY <1>1, <1>2, Running, DropPunctual
<1>3. CASE Settle(s, Without(agenda, i), {}, Fed(c), seen) /\ UNCHANGED <<circuit, phase>>
  <2>1. /\ s.on = [state.on EXCEPT ![c] = on]
        /\ s.output = [state.output EXCEPT ![c] = output]
        /\ s = [on |-> s.on, output |-> s.output, subtract |-> s.subtract]
    OBVIOUS
  <2>2. c \in Parts /\ Shaped(state) /\ on \in BOOLEAN
    BY <1>1, Running DEF IInv
  <2> HIDE DEF s, output, on, seen
  <2>3. Turning(c, s)
    BY <2>1, <2>2 DEF Shaped, Turning
  <2>4. Scheduling(c, s, {}, 1, 0)
    BY <1>1, Running DEF Scheduling
  <2>5. Punctual' /\ AllTimely /\ (Kind(c) # "torch" => Quiet)
    BY <1>1, <1>3, <2>3, <2>4, Running, AnswerPunctual
  <2> QED
    BY <1>1, <2>5, Running
<1> QED
  BY <1>2, <1>3 DEF ComparatorTick

LEMMA ObserverTickPunctual ==
  ASSUME IInv, Punctual, NEW i \in DOMAIN agenda, ObserverTick(i)
  PROVE  Punctual' /\ AllTimely /\ Quiet
<1> DEFINE c == agenda[i].part
           own == IF state.on[c] THEN {} ELSE {Tick(c, 2, 0)}
<1>1. /\ Runs(i, "observer") /\ UNCHANGED <<circuit, phase>>
      /\ Settle(Turned(c), Without(agenda, i), own, Fed(c), {c})
  BY DEF ObserverTick
<1>2. /\ own \in {{}, {Tick(c, 2, 0)}}
      /\ ~state.on[c] => own # {}
  OBVIOUS
<1>3. Turning(c, Turned(c)) /\ Turned(c).on[c] # state.on[c] /\ (Turned(c).on[c] <=> ~state.on[c])
  BY <1>1, Running, TurnedState
<1> HIDE DEF own
<1>4. Scheduling(c, Turned(c), own, 2, 0)
  BY <1>1, <1>2, <1>3, Running DEF Scheduling, Delay, PulseLength
<1>5. Punctual' /\ AllTimely /\ (Kind(c) # "torch" => Quiet)
  BY <1>1, <1>3, <1>4, Running, AnswerPunctual
<1> QED
  BY <1>1, <1>5, Running

LEMMA ButtonTickPunctual ==
  ASSUME IInv, Punctual, NEW i \in DOMAIN agenda, ButtonTick(i)
  PROVE  Punctual' /\ AllTimely /\ Quiet
<1> DEFINE c == agenda[i].part
<1>1. Runs(i, "button")
  BY DEF ButtonTick
<1>2. CASE ~state.on[c] /\ NothingToDo(i)
  BY <1>1, <1>2, Running, DropPunctual
<1>3. CASE /\ state.on[c] /\ UNCHANGED <<circuit, phase>>
           /\ Settle(Turned(c), Without(agenda, i), {}, Fed(c), {c})
  <2>1. Turning(c, Turned(c)) /\ Turned(c).on[c] # state.on[c] /\ (Turned(c).on[c] <=> ~state.on[c])
    BY <1>1, Running, TurnedState
  <2>2. Scheduling(c, Turned(c), {}, 1, 0)
    BY <1>1, <1>3, <2>1, Running DEF Scheduling
  <2>5. Punctual' /\ AllTimely /\ (Kind(c) # "torch" => Quiet)
    BY <1>1, <1>3, <2>1, <2>2, Running, AnswerPunctual
  <2> QED
    BY <1>1, <2>5, Running
<1> QED
  BY <1>2, <1>3 DEF ButtonTick

LEMMA LampTickPunctual ==
  ASSUME IInv, Punctual, NEW i \in DOMAIN agenda, LampTick(i)
  PROVE  Punctual' /\ AllTimely /\ Quiet
<1> DEFINE c == agenda[i].part
<1>1. Runs(i, "lamp")
  BY DEF LampTick
<1>2. CASE NothingToDo(i)
  BY <1>1, <1>2, Running, DropPunctual
<1>3. CASE Settle(Turned(c), Without(agenda, i), {}, {}, {c}) /\ UNCHANGED <<circuit, phase>>
  <2>1. Turning(c, Turned(c))
    BY <1>1, Running, TurnedState
  <2>2. Scheduling(c, Turned(c), {}, 1, 0)
    BY <1>1, Running DEF Scheduling
  <2>5. Punctual' /\ AllTimely /\ (Kind(c) # "torch" => Quiet)
    BY <1>1, <1>3, <2>1, <2>2, Running, AnswerPunctual
  <2> QED
    BY <1>1, <2>5, Running
<1> QED
  BY <1>2, <1>3 DEF LampTick

-----------------------------------------------------------------------------
\* A player's action leaves every tick where it is.
LEMMA ActPunctual ==
  ASSUME IInv, Punctual, MayAct, UNCHANGED <<circuit, phase>>,
         NEW c \in Parts, NEW s, Turning(c, s), s.on[c] # state.on[c] => Kind(c) = "lever",
         NEW told \in SUBSET Parts, NEW seen,
         Settle(s, agenda, {}, told, seen)
  PROVE  Punctual' /\ AllTimely /\ (Kind(c) # "torch" => Quiet)
<1>1. agenda \in Seq(Entries) /\ Once(agenda) /\ {} \in SUBSET Entries /\ IsFiniteSet({})
  BY FS_EmptySet DEF IInv, Punctual
<1>2. Orderly(c, s, agenda, {})
  BY <1>1 DEF Orderly, Turning
<1>3. s.on[c] # state.on[c] => Timely(c)
  BY DEF Timely
<1> QED
  BY <1>2, <1>3, CallbackPunctual DEF MayAct

LEMMA PullLeverPunctual ==
  ASSUME IInv, Punctual, NEW c \in Parts, PullLever(c)
  PROVE  Punctual' /\ AllTimely /\ Quiet
<1>1. /\ MayAct /\ Kind(c) = "lever" /\ UNCHANGED <<circuit, phase>>
      /\ Settle(Turned(c), agenda, {}, Fed(c), {c})
  BY DEF PullLever
<1>2. Fed(c) \in SUBSET Parts
  BY DEF Fed
<1> QED
  BY <1>1, <1>2, TurnedState, ActPunctual

LEMMA SwitchComparatorPunctual ==
  ASSUME IInv, Punctual, NEW c \in Parts, SwitchComparator(c)
  PROVE  Punctual' /\ AllTimely /\ Quiet
<1> DEFINE other == IF c \in state.subtract THEN state.subtract \ {c}
                                            ELSE state.subtract \cup {c}
           s == [on |-> state.on, output |-> state.output, subtract |-> other]
<1>1. /\ MayAct /\ Kind(c) = "comparator" /\ UNCHANGED <<circuit, phase>>
      /\ Settle(s, agenda, {}, Fed(c) \cup {c}, {c})
  BY DEF SwitchComparator
<1>2. /\ s.on = state.on /\ s.output = state.output
      /\ s = [on |-> s.on, output |-> s.output, subtract |-> s.subtract]
  OBVIOUS
<1> HIDE DEF s
<1>3. Turning(c, s)
  BY <1>2 DEF Turning, Shaped, IInv
<1>4. Fed(c) \cup {c} \in SUBSET Parts
  BY DEF Fed
<1> QED
  BY <1>1, <1>2, <1>3, <1>4, ActPunctual

\* A button that is off waits for nothing: whatever tick it has is its own.
LEMMA PressButtonPunctual ==
  ASSUME IInv, Punctual, NEW c \in Parts, PressButton(c)
  PROVE  Punctual' /\ AllTimely /\ Quiet
<1> DEFINE tick == Tick(c, ButtonDelay, 0)
           own == IF Pending(agenda, c) THEN {} ELSE {tick}
<1>1. /\ phase \in {"rest", "actions"} /\ UNCHANGED <<circuit, phase>>
      /\ Kind(c) = "button" /\ ~state.on[c]
      /\ Settle(Turned(c), agenda, own, Fed(c), {c})
      /\ agenda \in Seq(Entries) /\ Once(agenda)
  BY DEF PressButton, MayAct, IInv, Punctual
<1>2. ~Pending(agenda, c)
  BY <1>1, Entry DEF Punctual, OnWhilePending
<1>3. tick \in Entries /\ tick.part = c /\ tick.left = ButtonDelay /\ ButtonDelay > 0
  BY CircuitsAssumption DEF Tick, Entries
<1>4. Turning(c, Turned(c)) /\ Turned(c).on[c] # state.on[c] /\ (Turned(c).on[c] <=> ~state.on[c])
  BY TurnedState
<1>5. own = {tick}
  BY <1>2
<1>6. Fed(c) \in SUBSET Parts
  BY DEF Fed
<1> DEFINE s == Turned(c)
<1> HIDE DEF tick, own, s
<1>7. own \in SUBSET Entries /\ IsFiniteSet(own)
  BY <1>3, <1>5, OwnTick
<1>8. Orderly(c, s, agenda, own)
  <2>1. Turning(c, s) /\ s.on[c]
    BY <1>1, <1>4 DEF s
  <2> QED
    BY <1>1, <1>2, <1>3, <1>5, <1>7, <2>1 DEF Orderly, Turning, PulseLength
<1>9. Timely(c)
  BY <1>1 DEF Timely
<1>10. Settle(s, agenda, own, Fed(c), {c})
  BY <1>1 DEF s
<1> QED
  BY <1>1, <1>6, <1>8, <1>9, <1>10, CallbackPunctual

LEMMA InitializePunctual ==
  ASSUME IInv, Punctual, Initialize
  PROVE  Punctual' /\ AllTimely /\ Quiet
<1>1. /\ phase = "load" /\ phase' = "rest" /\ UNCHANGED circuit
      /\ Settle(state, agenda, {}, Parts, {})
      /\ agenda \in Seq(Entries) /\ agenda = <<>> /\ Shaped(state) /\ Once(agenda)
      /\ \A c \in Parts : Kind(c) \in {"button", "observer"} => ~state.on[c]
  BY DEF Initialize, IInv, Punctual, PulsesOver
<1>2. {} \in SUBSET Entries /\ IsFiniteSet({}) /\ Parts \in SUBSET Parts
  BY FS_EmptySet
<1>3. Orderly(0, state, agenda, {})
  BY <1>1, <1>2 DEF Orderly
<1>4. 0 \notin Parts
  BY CircuitParts, CircuitsAssumption DEF Parts, IInv
<1> QED
  BY <1>1, <1>2, <1>3, <1>4, CallbackPunctual

\* A game tick later every scheduled tick is there, and one game tick closer.
LEMMA TicksCloser ==
  ASSUME IInv, Punctual, BeginTick
  PROVE  /\ \A u \in Range(agenda') :
              \E t \in Range(agenda) : u.part = t.part /\ u.left = t.left - 1
         /\ \A t \in Range(agenda) :
              /\ t.left \in Int /\ t.left > 0 /\ t.part \in Parts
              /\ \E u \in Range(agenda') : u.part = t.part /\ u.left = t.left - 1
         /\ Once(agenda')
<1>1. /\ agenda' = [i \in DOMAIN agenda |-> [agenda[i] EXCEPT !.left = @ - 1]]
      /\ agenda \in Seq(Entries) /\ phase = "rest"
  BY DEF BeginTick, IInv
<1>2. \A t \in Entries : /\ [t EXCEPT !.left = @ - 1].part = t.part
                         /\ [t EXCEPT !.left = @ - 1].left = t.left - 1
  BY DEF Entries
<1>3. DOMAIN agenda' = DOMAIN agenda
      /\ \A i \in DOMAIN agenda :
           /\ agenda[i] \in Range(agenda) /\ agenda[i].left \in Int /\ agenda[i].part \in Parts
           /\ agenda'[i].part = agenda[i].part /\ agenda'[i].left = agenda[i].left - 1
           /\ agenda'[i] \in Range(agenda')
  <2>1. \A i \in DOMAIN agenda : agenda[i] \in Entries /\ agenda[i] \in Range(agenda)
    BY <1>1 DEF Range
  <2>2. DOMAIN agenda' = DOMAIN agenda
    BY <1>1
  <2>3. \A i \in DOMAIN agenda : agenda'[i] = [agenda[i] EXCEPT !.left = @ - 1]
    BY <1>1
  <2>4. \A i \in DOMAIN agenda : agenda'[i] \in Range(agenda')
    BY <2>2 DEF Range
  <2>5. \A t \in Entries : t.left \in Int /\ t.part \in Parts
    BY DEF Entries
  <2> QED
    BY <1>2, <2>1, <2>2, <2>3, <2>4, <2>5
<1>4. ASSUME NEW u \in Range(agenda')
      PROVE  \E t \in Range(agenda) : u.part = t.part /\ u.left = t.left - 1
  <2>1. PICK i \in DOMAIN agenda' : u = agenda'[i]
    BY DEF Range
  <2> QED
    BY <1>3, <2>1
<1>5. ASSUME NEW t \in Range(agenda)
      PROVE  /\ t.left \in Int /\ t.left > 0 /\ t.part \in Parts
             /\ \E u \in Range(agenda') : u.part = t.part /\ u.left = t.left - 1
  <2>1. PICK i \in DOMAIN agenda : t = agenda[i]
    BY DEF Range
  <2> QED
    BY <1>1, <1>3, <2>1 DEF Punctual, NoneOverdue
<1>6. Once(agenda')
  BY <1>3 DEF Once, Punctual
<1> QED
  BY <1>4, <1>5, <1>6

\* Time passes for the ticks and for the parts alike.
LEMMA BeginTickPunctual ==
  ASSUME IInv, Punctual, BeginTick
  PROVE  Punctual' /\ AllTimely
<1>1. /\ phase = "rest" /\ phase' = "actions" /\ UNCHANGED <<circuit, state>>
      /\ agenda' = [i \in DOMAIN agenda |-> [agenda[i] EXCEPT !.left = @ - 1]]
      /\ since' = [c \in Parts |-> Smaller(since[c] + 1, Horizon)]
      /\ circuit \in Circuits /\ agenda \in Seq(Entries) /\ Horizon \in Nat
  BY CircuitsAssumption DEF BeginTick, IInv
<1>4. \A u \in Range(agenda') : \E t \in Range(agenda) :
        /\ t.left \in Int /\ t.part \in Parts /\ u.part = t.part /\ u.left = t.left - 1
  BY TicksCloser
<1>5. \A t \in Range(agenda) : t.left \in Int /\ t.left > 0 /\
        \E u \in Range(agenda') : u.part = t.part /\ u.left = t.left - 1
  BY TicksCloser
<1>6. Once(agenda')
  BY TicksCloser
<1>7. /\ since' \in [Parts -> Nat]
      /\ \A c \in Parts : /\ since[c] \in Nat
                          /\ since'[c] = IF since[c] + 1 <= Horizon THEN since[c] + 1 ELSE Horizon
  BY <1>1 DEF Punctual, Smaller
<1>8. NoneOverdue(agenda', phase')
  <2> SUFFICES ASSUME NEW u \in Range(agenda') PROVE u.left >= 0
    BY <1>1 DEF NoneOverdue
  <2> QED
    BY <1>4, <1>5
<1>9. Waits(agenda', since')
  <2> SUFFICES ASSUME NEW u \in Range(agenda'), Kind(u.part) \notin {"lever", "button"}
               PROVE  u.left + since'[u.part] >= Delay(u.part)
    BY DEF Waits
  <2>1. PICK t \in Range(agenda) :
          t.left \in Int /\ t.part \in Parts /\ u.part = t.part /\ u.left = t.left - 1
    BY <1>4
  <2>2. t.left > 0
    BY <1>5
  <2>3. t.left + since[t.part] >= Delay(t.part)
    BY <2>1 DEF Punctual, Waits
  <2>4. Delay(t.part) \in Nat /\ Delay(t.part) <= Horizon
    BY <1>1, <2>1, DelayInHorizon
  <2> QED
    BY <1>1, <1>7, <2>1, <2>2, <2>3, <2>4
<1>10. OnWhilePending(state'.on, agenda')
  <2> SUFFICES ASSUME NEW u \in Range(agenda'), Kind(u.part) \in {"lamp", "button"}
               PROVE  state.on[u.part]
    BY <1>1 DEF OnWhilePending
  <2> QED
    BY <1>4 DEF Punctual, OnWhilePending
<1>11. EndScheduled(state'.on, agenda', since')
  <2> SUFFICES ASSUME NEW c \in Parts, Kind(c) \in {"observer", "button"}, state.on[c]
               PROVE  \E u \in Range(agenda') : u.part = c /\ u.left + since'[c] = PulseLength(c)
    BY <1>1 DEF EndScheduled
  <2>1. PICK t \in Range(agenda) : t.part = c /\ t.left + since[c] = PulseLength(c)
    BY DEF Punctual, EndScheduled
  <2>2. PICK u \in Range(agenda') : u.part = t.part /\ u.left = t.left - 1
    BY <1>5
  <2>3. t.left \in Int /\ t.left > 0
    BY <1>5
  <2>4. PulseLength(c) \in Nat /\ PulseLength(c) <= Horizon
    BY CircuitsAssumption DEF PulseLength
  <2>5. since'[c] = since[c] + 1
    BY <1>1, <1>7, <2>1, <2>3, <2>4
  <2>6. u.left + since'[c] = PulseLength(c)
    BY <1>7, <2>1, <2>2, <2>3, <2>4, <2>5
  <2> QED
    BY <2>1, <2>2, <2>6
<1>12. AllTimely
  BY <1>1 DEF AllTimely
<1> QED
  BY <1>1, <1>6, <1>7, <1>8, <1>9, <1>10, <1>11, <1>12, PunctualNext

LEMMA PunctualInitially == Init => Punctual
<1> SUFFICES ASSUME Init PROVE Punctual
  OBVIOUS
<1>1. /\ agenda = <<>> /\ phase = "load" /\ since = [c \in Parts |-> Horizon]
      /\ \A c \in Parts : Kind(c) \in {"button", "observer"} => ~state.on[c]
  BY DEF Init
<1>2. \A t : t \notin Range(agenda)
  BY <1>1 DEF Range
<1> QED
  BY <1>1, <1>2, CircuitsAssumption
  DEF Punctual, Once, NoneOverdue, Waits, OnWhilePending, EndScheduled

LEMMA PunctualStep == IInv /\ Punctual /\ [Next]_vars => Punctual' /\ AllTimely
<1> SUFFICES ASSUME IInv, Punctual, [Next]_vars PROVE Punctual' /\ AllTimely
  OBVIOUS
<1>1. CASE Initialize
  BY <1>1, InitializePunctual
<1>2. CASE BeginTick
  BY <1>2, BeginTickPunctual
<1>3. CASE Act
  BY <1>3, PullLeverPunctual, PressButtonPunctual, SwitchComparatorPunctual DEF Act
<1>4. CASE RunTick
  BY <1>4, TorchTickPunctual, RepeaterTickPunctual, ComparatorTickPunctual,
     ObserverTickPunctual, ButtonTickPunctual, LampTickPunctual DEF RunTick
<1>5. CASE EndActions \/ EndTicks \/ UNCHANGED vars
  <2>1. /\ UNCHANGED <<circuit, state, agenda, since>>
        /\ \/ phase' = phase
           \/ phase' # "load" /\ (phase' = "rest" => \A i \in DOMAIN agenda : agenda[i].left > 0)
    BY <1>5 DEF EndActions, EndTicks, vars, history
  <2>2. AllTimely
    BY <2>1 DEF AllTimely
  <2>3. NoneOverdue(agenda', phase')
    BY <2>1 DEF Punctual, NoneOverdue, Range
  <2>4. phase' = "load" => phase = "load"
    BY <2>1
  <2>5. /\ Once(agenda)' /\ (since \in [Parts -> Nat])' /\ Waits(agenda, since)'
        /\ OnWhilePending(state.on, agenda)' /\ EndScheduled(state.on, agenda, since)'
    BY <2>1 DEF Punctual, Once, Waits, OnWhilePending, EndScheduled, Parts, Kind, Delay, PulseLength
  <2>6. NoneOverdue(agenda, phase)' /\ (phase = "load" => agenda = <<>>)'
    BY <2>1, <2>3, <2>4 DEF Punctual, NoneOverdue
  <2> QED
    BY <2>2, <2>5, <2>6 DEF Punctual
<1> QED
  BY <1>1, <1>2, <1>3, <1>4, <1>5 DEF Next

LEMMA PulsesEndInTime == IInv /\ Punctual => PulsesEnd
<1> SUFFICES ASSUME IInv, Punctual, NEW c \in Parts, state.on[c], Kind(c) \in {"observer", "button"}
             PROVE  since[c] <= PulseLength(c)
  BY DEF PulsesEnd, PulseLength
<1>1. PICK t \in Range(agenda) : t.part = c /\ t.left + since[c] = PulseLength(c)
  BY DEF Punctual, EndScheduled
<1>2. t.left \in Int /\ t.left >= 0
  BY Entry DEF IInv, Punctual, NoneOverdue
<1> QED
  BY <1>1, <1>2 DEF Punctual

\* Whatever the circuit and whenever the player acts, no part turns before its
\* delay is over, and the pulses of observers and buttons have their length to
\* the game tick (rules.rs, on_scheduled_tick).
THEOREM PulsesAsLong == Spec => PulsesKeepLength
<1>1. Init => IInv /\ Punctual
  BY Initially, PunctualInitially
<1>2. IInv /\ Punctual /\ [Next]_vars => IInv' /\ Punctual'
  BY Inductive, PunctualStep
<1>3. IInv /\ Punctual => PulsesEnd
  BY PulsesEndInTime
<1>4. IInv /\ Punctual /\ [Next]_vars =>
        [\A c \in Parts :
           state'.on[c] # state.on[c] =>
             /\ Kind(c) = "repeater" => since[c] >= circuit[c].delay
             /\ Kind(c) \in {"torch", "comparator"} => since[c] >= 2
             /\ Kind(c) = "lamp" /\ state.on[c] => since[c] >= 4
             /\ Kind(c) = "observer" /\ state.on[c] => since[c] = 2
             /\ Kind(c) = "button" /\ state.on[c] => since[c] = ButtonDelay]_vars
  BY PunctualStep DEF AllTimely, Timely
<1> QED
  BY <1>1, <1>2, <1>3, <1>4, PTL DEF Spec, PulsesKeepLength

-----------------------------------------------------------------------------
(***************************************************************************)
(* Burnout. All torches share one queue of toggles, oldest first, and drop *)
(* from its front what is past the window when they change. So what is     *)
(* left are the toggles within the window of every torch, and no torch     *)
(* goes out twice in one game tick, as its next tick is at least two away: *)
(* the toggles of a torch are counted by their ages. A torch that has      *)
(* burnt out waits for a tick that comes when the window is over.          *)
(***************************************************************************)
Toggles == [part : Parts, age : 0 .. BurnWindow + 1]

OldestFirst(queue) == \A i, j \in DOMAIN queue : i < j => queue[i].age >= queue[j].age

OutOncePerTick(queue) ==
  \A i, j \in DOMAIN queue :
    (queue[i].part = queue[j].part /\ queue[i].age = queue[j].age /\ queue[i].age <= BurnWindow)
      => i = j

AgesOf(queue, c) ==
  {a \in 0 .. BurnWindow : \E j \in DOMAIN queue : queue[j].part = c /\ queue[j].age = a}

Recorded(queue, ages) == ages = [c \in Parts |-> AgesOf(queue, c)]

OutForNow(queue, ages) == \A t \in Range(queue) : 0 \in ages[t.part] => t.left > 0

BurntOut(on, queue, ages) ==
  \A c \in Parts : Kind(c) = "torch" /\ ~on[c] /\ Cardinality(ages[c]) > BurnLimit =>
    \E t \in Range(queue) : t.part = c /\ \A a \in ages[c] : t.left + a >= BurnDelay

BurnInv ==
  /\ toggles \in Seq(Toggles)
  /\ OldestFirst(toggles)
  /\ OutOncePerTick(toggles)
  /\ Recorded(toggles, offs)
  /\ OutForNow(agenda, offs)
  /\ BurntOut(state.on, agenda, offs)

LEMMA LeastNatural ==
  ASSUME NEW T \in SUBSET Nat, T # {}
  PROVE  \E x \in T : \A y \in T : x <= y
<1>1. PICK x \in T : \A y \in T : ~(<<y, x>> \in OpToRel(<, Nat))
  BY WFMin, NatLessThanWellFounded
<1>2. \A y \in T : ~(y < x)
  BY <1>1 DEF OpToRel
<1> QED
  BY <1>2

LEMMA BurnConstants ==
  /\ BurnLimit \in Nat /\ BurnWindow \in Nat
  /\ BurnDelay \in Nat /\ BurnDelay > BurnWindow /\ BurnDelay > 2
BY CircuitsAssumption

LEMMA ToggleTypes ==
  ASSUME NEW queue \in Seq(Toggles)
  PROVE  /\ Len(queue) \in Nat /\ DOMAIN queue = 1 .. Len(queue)
         /\ \A i \in DOMAIN queue :
              /\ queue[i] \in Toggles /\ queue[i].part \in Parts
              /\ queue[i].age \in Nat /\ queue[i].age <= BurnWindow + 1
<1>1. \A i \in DOMAIN queue : queue[i] \in Toggles
  OBVIOUS
<1>2. \A t \in Toggles : t.part \in Parts /\ t.age \in Nat /\ t.age <= BurnWindow + 1
  BY BurnConstants DEF Toggles
<1> QED
  BY <1>1, <1>2

\* The toggles past the window are the first ones.
Past(queue) == {i \in DOMAIN queue : \A j \in 1 .. i : queue[j].age > BurnWindow}

LEMMA PastFirst ==
  ASSUME NEW queue \in Seq(Toggles), OldestFirst(queue)
  PROVE  /\ Cardinality(Past(queue)) \in 0 .. Len(queue)
         /\ \A i \in DOMAIN queue : queue[i].age <= BurnWindow <=> i > Cardinality(Past(queue))
<1> DEFINE past == Past(queue)
<1>1. /\ Len(queue) \in Nat /\ DOMAIN queue = 1 .. Len(queue) /\ BurnWindow \in Nat
      /\ \A i \in DOMAIN queue : queue[i].age \in Nat
  BY ToggleTypes, BurnConstants
<1>p. past = {i \in DOMAIN queue : \A j \in 1 .. i : queue[j].age > BurnWindow}
  BY DEF Past
<1> HIDE DEF past
<1> DEFINE rest == {n \in 1 .. Len(queue) + 1 : n \notin past}
<1>2. rest \in SUBSET Nat /\ rest # {}
  <2>1. Len(queue) + 1 \notin past
    BY <1>1, <1>p
  <2> QED
    BY <1>1, <2>1
<1>3. PICK first \in rest : \A n \in rest : first <= n
  <2> HIDE DEF rest
  <2> QED
    BY <1>2, LeastNatural
<1>4. first \in 1 .. Len(queue) + 1 /\ first \notin past
  BY <1>3
<1>5. \A i \in 1 .. Len(queue) : i < first => i \in past
  BY <1>3, <1>4
<1>6. \A i \in 1 .. Len(queue) : i < first => queue[i].age > BurnWindow
  <2> TAKE i \in 1 .. Len(queue)
  <2>1. i \in 1 .. i
    OBVIOUS
  <2> QED
    BY <1>5, <1>p, <2>1
<1>7. \A i \in 1 .. Len(queue) : i >= first => queue[i].age <= BurnWindow
  <2> SUFFICES ASSUME NEW i \in 1 .. Len(queue), i >= first PROVE queue[i].age <= BurnWindow
    OBVIOUS
  <2>1. first \in 1 .. Len(queue)
    BY <1>1, <1>4
  <2>2. PICK j \in 1 .. first : ~(queue[j].age > BurnWindow)
    BY <1>1, <1>4, <1>p, <2>1
  <2>3. j \in 1 .. Len(queue) /\ j <= i
    BY <1>1, <1>4, <2>1, <2>2
  <2>4. queue[j].age >= queue[i].age
    BY <1>1, <2>3 DEF OldestFirst
  <2> QED
    BY <1>1, <2>2, <2>3, <2>4
<1>8. past = 1 .. first - 1
  <2>1. \A i \in past : i \in 1 .. Len(queue) /\ queue[i].age > BurnWindow
    <3> TAKE i \in past
    <3>1. i \in 1 .. Len(queue)
      BY <1>1, <1>p
    <3>2. i \in 1 .. i
      BY <3>1
    <3> QED
      BY <1>p, <3>1, <3>2
  <2>2. \A i \in past : i < first
    BY <1>1, <1>4, <1>7, <2>1
  <2> HIDE DEF rest
  <2>3. \A i \in past : i \in 1 .. first - 1
    BY <1>4, <2>1, <2>2
  <2>4. \A i \in 1 .. first - 1 : i \in past
    BY <1>1, <1>4, <1>5
  <2> QED
    BY ONLY <2>3, <2>4
<1> HIDE DEF rest
<1>9. Cardinality(past) = first - 1
  <2>1. Cardinality(1 .. first - 1) = first - 1
    BY <1>4, FS_Interval
  <2> QED
    BY <1>8, <2>1
<1>10. Cardinality(past) \in 0 .. Len(queue)
  BY <1>1, <1>4, <1>9
<1>11. \A i \in DOMAIN queue : queue[i].age <= BurnWindow <=> i > Cardinality(past)
  BY <1>1, <1>4, <1>6, <1>7, <1>9
<1> QED
  BY <1>10, <1>11 DEF past

\* What a torch that changes leaves in the queue: the toggles within the window.
LEMMA RecentToggles ==
  ASSUME IInv, BurnInv
  PROVE  /\ Recent \in Seq(Toggles) /\ OldestFirst(Recent) /\ OutOncePerTick(Recent)
         /\ \A j \in DOMAIN Recent : Recent[j].age \in 0 .. BurnWindow
         /\ \A c : AgesOf(Recent, c) = AgesOf(toggles, c)
<1> DEFINE k == Cardinality(Past(toggles))
<1>1. /\ toggles \in Seq(Toggles) /\ OldestFirst(toggles) /\ OutOncePerTick(toggles)
      /\ Len(toggles) \in Nat /\ DOMAIN toggles = 1 .. Len(toggles) /\ BurnWindow \in Nat
      /\ \A i \in DOMAIN toggles : toggles[i] \in Toggles /\ toggles[i].age \in Nat
  BY ToggleTypes, BurnConstants DEF BurnInv
<1>2. Recent = SubSeq(toggles, k + 1, Len(toggles))
  BY DEF Recent, Past
<1> HIDE DEF k
<1>3. k \in 0 .. Len(toggles) /\ \A i \in DOMAIN toggles : toggles[i].age <= BurnWindow <=> i > k
  BY <1>1, PastFirst DEF k
<1>4. /\ DOMAIN Recent = 1 .. Len(toggles) - k
      /\ \A j \in DOMAIN Recent : j + k \in DOMAIN toggles /\ Recent[j] = toggles[j + k]
      /\ Recent \in Seq(Toggles)
  <2>1. \A j \in 1 .. Len(toggles) - k : j + k \in 1 .. Len(toggles)
    BY <1>1, <1>3
  <2>2. Recent = [j \in 1 .. Len(toggles) - k |-> toggles[j + k]]
    BY <1>1, <1>2, <1>3
  <2>3. Len(toggles) - k \in Nat
    BY <1>1, <1>3
  <2>4. DOMAIN Recent = 1 .. Len(toggles) - k
    BY <2>2
  <2>5. DOMAIN toggles = 1 .. Len(toggles) /\ \A i \in 1 .. Len(toggles) : toggles[i] \in Toggles
    BY <1>1
  <2>6. \A j \in DOMAIN Recent : j + k \in DOMAIN toggles /\ Recent[j] = toggles[j + k]
    BY <2>1, <2>2, <2>4, <2>5
  <2>7. \A j \in 1 .. Len(toggles) - k : toggles[j + k] \in Toggles
    BY <2>1, <2>5
  <2>8. Recent \in Seq(Toggles)
    BY <2>2, <2>3, <2>7
  <2> QED
    BY <2>4, <2>6, <2>8
<1>5. \A i \in DOMAIN toggles : toggles[i].age <= BurnWindow =>
        i - k \in DOMAIN Recent /\ Recent[i - k] = toggles[i]
  <2> SUFFICES ASSUME NEW i \in DOMAIN toggles, toggles[i].age <= BurnWindow
               PROVE  i - k \in DOMAIN Recent /\ Recent[i - k] = toggles[i]
    OBVIOUS
  <2>1. i > k /\ i - k \in 1 .. Len(toggles) - k /\ (i - k) + k = i
    BY <1>1, <1>3
  <2> QED
    BY <1>4, <2>1
<1>6. \A j \in DOMAIN Recent : Recent[j].age \in 0 .. BurnWindow
  <2> TAKE j \in DOMAIN Recent
  <2>1. j + k > k /\ j + k \in DOMAIN toggles /\ Recent[j] = toggles[j + k]
    BY <1>1, <1>3, <1>4
  <2> QED
    BY <1>1, <1>3, <2>1
<1>7. OldestFirst(Recent)
  <2> SUFFICES ASSUME NEW i \in DOMAIN Recent, NEW j \in DOMAIN Recent, i < j
               PROVE  Recent[i].age >= Recent[j].age
    BY DEF OldestFirst
  <2>1. i + k < j + k
    BY <1>3, <1>4
  <2> QED
    BY <1>1, <1>4, <2>1 DEF OldestFirst
<1>8. OutOncePerTick(Recent)
  <2> SUFFICES ASSUME NEW i \in DOMAIN Recent, NEW j \in DOMAIN Recent,
                      Recent[i].part = Recent[j].part, Recent[i].age = Recent[j].age,
                      Recent[i].age <= BurnWindow
               PROVE  i = j
    BY DEF OutOncePerTick
  <2>1. i + k = j + k
    BY <1>1, <1>4 DEF OutOncePerTick
  <2> QED
    BY <1>3, <1>4, <2>1
<1>9. ASSUME NEW c PROVE AgesOf(Recent, c) = AgesOf(toggles, c)
  <2>1. ASSUME NEW a \in AgesOf(Recent, c) PROVE a \in AgesOf(toggles, c)
    <3>1. PICK j \in DOMAIN Recent : Recent[j].part = c /\ Recent[j].age = a
      BY <2>1 DEF AgesOf
    <3>2. j + k \in DOMAIN toggles /\ Recent[j] = toggles[j + k]
      BY <1>4
    <3> QED
      BY <2>1, <3>1, <3>2 DEF AgesOf
  <2>2. ASSUME NEW a \in AgesOf(toggles, c) PROVE a \in AgesOf(Recent, c)
    <3>1. PICK i \in DOMAIN toggles : toggles[i].part = c /\ toggles[i].age = a
      BY <2>2 DEF AgesOf
    <3>2. a \in 0 .. BurnWindow
      BY <2>2 DEF AgesOf
    <3>3. i - k \in DOMAIN Recent /\ Recent[i - k] = toggles[i]
      BY <1>1, <1>5, <3>1, <3>2
    <3> QED
      BY <3>1, <3>2, <3>3 DEF AgesOf
  <2> QED
    BY <2>1, <2>2
<1> QED
  BY <1>4, <1>6, <1>7, <1>8, <1>9

\* The toggles a torch counts are as many as the ages it went out at.
LEMMA TogglesCounted ==
  ASSUME IInv, BurnInv, NEW c \in Parts
  PROVE  /\ IsFiniteSet(offs[c])
         /\ Cardinality({j \in DOMAIN Recent : Recent[j].part = c}) = Cardinality(offs[c])
<1> DEFINE before == {j \in DOMAIN Recent : Recent[j].part = c}
           f == [j \in before |-> Recent[j].age]
<1>1. /\ Recent \in Seq(Toggles) /\ OutOncePerTick(Recent) /\ BurnWindow \in Nat
      /\ \A j \in DOMAIN Recent : Recent[j].age \in 0 .. BurnWindow
      /\ offs[c] = AgesOf(Recent, c)
  BY RecentToggles, CircuitsAssumption DEF BurnInv, Recorded
<1>2. f \in [before -> offs[c]]
  BY <1>1 DEF AgesOf
<1>3. \A a \in offs[c] : \E j \in before : f[j] = a
  BY <1>1 DEF AgesOf
<1>4. \A i, j \in before : f[i] = f[j] => i = j
  BY <1>1 DEF OutOncePerTick
<1>5. IsFiniteSet(before)
  <2>1. DOMAIN Recent = 1 .. Len(Recent) /\ Len(Recent) \in Nat
    BY <1>1
  <2>2. IsFiniteSet(DOMAIN Recent)
    BY <2>1, FS_Interval
  <2> QED
    BY <2>2, FS_Subset
<1> HIDE DEF before, f
<1>6. f \in Bijection(before, offs[c])
  BY <1>2, <1>3, <1>4 DEF Bijection, Injection, Surjection, IsInjective
<1>7. ExistsBijection(before, offs[c])
  BY <1>6 DEF ExistsBijection
<1>8. IsFiniteSet(offs[c]) /\ Cardinality(before) = Cardinality(offs[c])
  BY <1>5, <1>7, FS_Bijection
<1> QED
  BY <1>8 DEF before

LEMMA AgesKept ==
  ASSUME BurnInv, NEW c \in Parts
  PROVE  /\ offs[c] = AgesOf(toggles, c)
         /\ \A a \in offs[c] : a \in Nat /\ a <= BurnWindow
         /\ IsFiniteSet(offs[c]) /\ Cardinality(offs[c]) \in Nat
<1>1. offs[c] = AgesOf(toggles, c)
  BY DEF BurnInv, Recorded
<1>2. offs[c] \in SUBSET (0 .. BurnWindow)
  BY <1>1 DEF AgesOf
<1>3. IsFiniteSet(0 .. BurnWindow)
  BY BurnConstants, FS_Interval
<1>4. IsFiniteSet(offs[c]) /\ Cardinality(offs[c]) \in Nat
  BY <1>2, <1>3, FS_Subset, FS_CardinalityType
<1> QED
  BY <1>1, <1>2, <1>4, BurnConstants

LEMMA BurnNext ==
  ASSUME UNCHANGED circuit, toggles' \in Seq(Toggles),
         OldestFirst(toggles'), OutOncePerTick(toggles'), Recorded(toggles', offs'),
         OutForNow(agenda', offs'), BurntOut(state'.on, agenda', offs')
  PROVE  BurnInv'
<1>1. Parts' = Parts /\ \A d : Kind(d)' = Kind(d)
  BY DEF Parts, Kind
<1>2. (toggles \in Seq(Toggles))'
  BY <1>1 DEF Toggles
<1>3. OldestFirst(toggles)' /\ OutOncePerTick(toggles)'
  BY DEF OldestFirst, OutOncePerTick
<1>4. Recorded(toggles, offs)'
  BY <1>1 DEF Recorded, AgesOf
<1>5. OutForNow(agenda, offs)'
  BY DEF OutForNow
<1>6. BurntOut(state.on, agenda, offs)'
  BY <1>1 DEF BurntOut
<1> QED
  BY <1>2, <1>3, <1>4, <1>5, <1>6 DEF BurnInv

\* A torch that is out and whose tick is due has not burnt out.
LEMMA DueNotBurnt ==
  ASSUME IInv, Punctual, BurnInv, NEW i \in DOMAIN agenda, agenda[i].left = 0,
         Kind(agenda[i].part) = "torch", ~state.on[agenda[i].part]
  PROVE  Cardinality(offs[agenda[i].part]) <= BurnLimit
<1> DEFINE c == agenda[i].part
<1>1. c \in Parts /\ agenda[i] \in Range(agenda)
  BY TickPart DEF Range
<1>2. Cardinality(offs[c]) \in Nat /\ BurnLimit \in Nat
  BY <1>1, AgesKept, BurnConstants
<1>3. SUFFICES ASSUME Cardinality(offs[c]) > BurnLimit PROVE FALSE
  BY <1>2
<1>4. PICK t \in Range(agenda) : t.part = c /\ \A a \in offs[c] : t.left + a >= BurnDelay
  BY <1>1, <1>3 DEF BurnInv, BurntOut
<1>5. t = agenda[i]
  BY <1>4 DEF Punctual, Once, Range
<1> HIDE DEF c
<1>6. offs[c] = {}
  <2> SUFFICES ASSUME NEW a \in offs[c] PROVE FALSE
    OBVIOUS
  <2>1. a \in Nat /\ a <= BurnWindow
    BY <1>1, AgesKept
  <2>2. 0 + a >= BurnDelay
    BY <1>4, <1>5
  <2> QED
    BY <2>1, <2>2, BurnConstants
<1> QED
  BY <1>3, <1>6, FS_EmptySet, BurnConstants

BurnsRight(c) ==
  /\ state.on[c] /\ ~state'.on[c] =>
       (Cardinality(offs'[c]) > BurnLimit <=>
          \E i \in DOMAIN agenda' : agenda'[i].part = c /\ agenda'[i].left = BurnDelay)
  /\ ~state.on[c] /\ state'.on[c] => Cardinality(offs[c]) <= BurnLimit

AllBurnRight == \A c \in Parts : Kind(c) = "torch" /\ phase = "ticks" => BurnsRight(c)

LEMMA QuietBurn ==
  ASSUME IInv, Punctual, BurnInv, Quiet, UNCHANGED <<circuit, toggles, offs>>
  PROVE  BurnInv' /\ AllBurnRight
<1>1. OutForNow(agenda', offs')
  BY DEF BurnInv, OutForNow, Quiet
<1>2. BurntOut(state'.on, agenda', offs')
  <2> SUFFICES ASSUME NEW d \in Parts, Kind(d) = "torch", ~state'.on[d],
                      Cardinality(offs[d]) > BurnLimit
               PROVE  \E t \in Range(agenda') :
                        t.part = d /\ \A a \in offs[d] : t.left + a >= BurnDelay
    BY DEF BurntOut
  <2>1. PICK t \in Range(agenda) : t.part = d /\ \A a \in offs[d] : t.left + a >= BurnDelay
    BY DEF Quiet, BurnInv, BurntOut
  <2> QED
    BY <2>1 DEF Quiet
<1>3. BurnInv'
  BY <1>1, <1>2, BurnNext DEF BurnInv
<1>4. AllBurnRight
  BY DEF AllBurnRight, BurnsRight, Quiet
<1> QED
  BY <1>3, <1>4

\* The toggles after a torch has gone out
GoesOut(c) ==
  /\ toggles' = Append(Recent, [part |-> c, age |-> 0])
  /\ offs' = [offs EXCEPT ![c] = @ \cup {0}]

LEMMA WentOut ==
  ASSUME IInv, BurnInv, NEW c \in Parts, 0 \notin offs[c], GoesOut(c)
  PROVE  /\ toggles' \in Seq(Toggles)
         /\ OldestFirst(toggles') /\ OutOncePerTick(toggles') /\ Recorded(toggles', offs')
         /\ \A d \in Parts : d # c => offs'[d] = offs[d]
         /\ offs'[c] = offs[c] \cup {0}
         /\ Cardinality(offs'[c]) = Cardinality(offs[c]) + 1
<1> DEFINE out == [part |-> c, age |-> 0]
           n == Len(Recent)
<1>1. /\ Recent \in Seq(Toggles) /\ OldestFirst(Recent) /\ OutOncePerTick(Recent)
      /\ \A j \in DOMAIN Recent : Recent[j].age \in 0 .. BurnWindow
      /\ \A d : AgesOf(Recent, d) = AgesOf(toggles, d)
  BY RecentToggles
<1>2. /\ n \in Nat /\ DOMAIN Recent = 1 .. n
      /\ \A j \in 1 .. n : Recent[j].age \in Nat /\ Recent[j].age <= BurnWindow
  BY <1>1, BurnConstants
<1>3. out \in Toggles /\ out.part = c /\ out.age = 0
  BY BurnConstants DEF Toggles
<1>4. /\ DOMAIN toggles' = 1 .. n + 1 /\ toggles'[n + 1] = out
      /\ \A j \in 1 .. n : toggles'[j] = Recent[j]
      /\ toggles' \in Seq(Toggles)
  BY <1>1, <1>2, <1>3 DEF GoesOut
<1> HIDE DEF n, out
<1>5. \A j \in 1 .. n + 1 : j \in 1 .. n \/ j = n + 1
  BY <1>2
<1>6. OldestFirst(toggles')
  <2> SUFFICES ASSUME NEW i \in 1 .. n + 1, NEW j \in 1 .. n + 1, i < j
               PROVE  toggles'[i].age >= toggles'[j].age
    BY <1>4 DEF OldestFirst
  <2>1. i \in 1 .. n
    BY <1>2
  <2>2. CASE j \in 1 .. n
    BY <1>1, <1>2, <1>4, <2>1, <2>2 DEF OldestFirst
  <2>3. CASE j = n + 1
    BY <1>2, <1>3, <1>4, <2>1, <2>3
  <2> QED
    BY <1>5, <2>2, <2>3
<1>7. \A j \in 1 .. n : Recent[j].part = c => Recent[j].age # 0
  <2> SUFFICES ASSUME NEW j \in 1 .. n, Recent[j].part = c, Recent[j].age = 0 PROVE FALSE
    OBVIOUS
  <2>1. 0 \in AgesOf(Recent, c)
    BY <1>2, BurnConstants DEF AgesOf
  <2> QED
    BY <1>1, <2>1, AgesKept
<1>8. OutOncePerTick(toggles')
  <2> SUFFICES ASSUME NEW i \in 1 .. n + 1, NEW j \in 1 .. n + 1,
                      toggles'[i].part = toggles'[j].part, toggles'[i].age = toggles'[j].age,
                      toggles'[i].age <= BurnWindow
               PROVE  i = j
    BY <1>4 DEF OutOncePerTick
  <2>1. CASE i \in 1 .. n /\ j \in 1 .. n
    BY <1>1, <1>2, <1>4, <2>1 DEF OutOncePerTick
  <2>2. CASE i \in 1 .. n /\ j = n + 1
    BY <1>3, <1>4, <1>7, <2>2
  <2>3. CASE i = n + 1 /\ j \in 1 .. n
    BY <1>3, <1>4, <1>7, <2>3
  <2> QED
    BY <1>5, <2>1, <2>2, <2>3
<1>9. \A d \in Parts : AgesOf(toggles', d) = AgesOf(toggles, d) \cup (IF d = c THEN {0} ELSE {})
  <2> TAKE d \in Parts
  <2>1. ASSUME NEW a \in AgesOf(toggles', d)
        PROVE  a \in AgesOf(toggles, d) \/ (d = c /\ a = 0)
    <3>1. PICK j \in 1 .. n + 1 : toggles'[j].part = d /\ toggles'[j].age = a
      BY <1>4, <2>1 DEF AgesOf
    <3>2. CASE j \in 1 .. n
      <4>1. a \in AgesOf(Recent, d)
        BY <1>2, <1>4, <2>1, <3>1, <3>2 DEF AgesOf
      <4> QED
        BY <1>1, <4>1
    <3>3. CASE j = n + 1
      BY <1>3, <1>4, <3>1, <3>3
    <3> QED
      BY <1>5, <3>2, <3>3
  <2>2. ASSUME NEW a \in AgesOf(toggles, d)
        PROVE  a \in AgesOf(toggles', d)
    <3>1. a \in AgesOf(Recent, d)
      BY <1>1, <2>2
    <3>2. PICK j \in 1 .. n : Recent[j].part = d /\ Recent[j].age = a
      BY <1>2, <3>1 DEF AgesOf
    <3>3. j \in DOMAIN toggles' /\ toggles'[j] = Recent[j]
      BY <1>2, <1>4
    <3> QED
      BY <3>1, <3>2, <3>3 DEF AgesOf
  <2>3. ASSUME d = c PROVE 0 \in AgesOf(toggles', d)
    <3>1. n + 1 \in DOMAIN toggles' /\ toggles'[n + 1].part = d /\ toggles'[n + 1].age = 0
      BY <1>2, <1>3, <1>4, <2>3
    <3> QED
      BY <3>1, BurnConstants DEF AgesOf
  <2> QED
    BY <2>1, <2>2, <2>3
<1> DEFINE next(d) == IF d = c THEN offs[c] \cup {0} ELSE offs[d]
<1>10. offs' = [d \in Parts |-> next(d)]
  <2>1. offs = [d \in Parts |-> AgesOf(toggles, d)]
    BY DEF BurnInv, Recorded
  <2>2. DOMAIN offs = Parts
    BY <2>1
  <2> QED
    BY <2>2 DEF GoesOut
<1>11. \A d \in Parts : next(d) = AgesOf(toggles', d)
  <2>1. \A d \in Parts : offs[d] = AgesOf(toggles, d)
    BY AgesKept
  <2> QED
    BY <1>9, <2>1
<1>12. Recorded(toggles', offs')
  <2> HIDE DEF next
  <2> QED
    BY <1>10, <1>11 DEF Recorded
<1>13. /\ \A d \in Parts : d # c => offs'[d] = offs[d]
      /\ offs'[c] = offs[c] \cup {0}
  BY <1>10
<1>14. Cardinality(offs'[c]) = Cardinality(offs[c]) + 1
  <2>1. IsFiniteSet(offs[c])
    BY AgesKept
  <2>2. Cardinality(offs[c] \cup {0}) = Cardinality(offs[c]) + 1
    BY <2>1, FS_AddElement
  <2> QED
    BY <1>13, <2>2
<1> QED
  BY <1>4, <1>6, <1>8, <1>12, <1>13, <1>14

\* What a step does to one torch leaves the others as burnt out as they were.
LEMMA OthersStayOut ==
  ASSUME BurnInv, NEW c \in Parts,
         \A d \in Parts : d # c /\ Kind(d) = "torch" =>
           /\ state'.on[d] = state.on[d] /\ offs'[d] = offs[d]
           /\ \A t \in Range(agenda) : t.part = d => t \in Range(agenda'),
         ~state'.on[c] /\ Cardinality(offs'[c]) > BurnLimit =>
           \E t \in Range(agenda') : t.part = c /\ \A a \in offs'[c] : t.left + a >= BurnDelay
  PROVE  BurntOut(state'.on, agenda', offs')
<1> SUFFICES ASSUME NEW d \in Parts, Kind(d) = "torch", ~state'.on[d],
                    Cardinality(offs'[d]) > BurnLimit
             PROVE  \E t \in Range(agenda') :
                      t.part = d /\ \A a \in offs'[d] : t.left + a >= BurnDelay
  BY DEF BurntOut
<1>1. CASE d = c
  BY <1>1
<1>2. CASE d # c
  <2>1. ~state.on[d] /\ offs'[d] = offs[d]
    BY <1>2
  <2>2. PICK t \in Range(agenda) : t.part = d /\ \A a \in offs[d] : t.left + a >= BurnDelay
    BY <2>1 DEF BurnInv, BurntOut
  <2> QED
    BY <1>2, <2>1, <2>2
<1> QED
  BY <1>1, <1>2

\* A torch decides by the toggles of its own whether it is to burn out.
LEMMA TorchTickBurn ==
  ASSUME IInv, Punctual, BurnInv, NEW i \in DOMAIN agenda, TorchTick(i)
  PROVE  BurnInv' /\ AllBurnRight
<1> DEFINE c == agenda[i].part
           queue == Without(agenda, i)
           before == {j \in DOMAIN Recent : Recent[j].part = c}
           burnt == Powered(state, c) /\ Cardinality(before) >= BurnLimit
           tick == Tick(c, BurnDelay, 0)
           own == IF burnt THEN {tick} ELSE {}
           s == Turned(c)
<1>1. /\ phase = "ticks" /\ agenda[i].left = 0 /\ c \in Parts /\ Kind(c) = "torch"
      /\ state.on[c] \in BOOLEAN /\ Fed(c) \in SUBSET Parts /\ circuit \in Circuits
  BY Running DEF TorchTick
<1>2. 0 \notin offs[c]
  <2>1. agenda[i] \in Range(agenda)
    BY DEF Range
  <2> QED
    BY <1>1, <2>1 DEF BurnInv, OutForNow
<1>3. ~state.on[c] => Cardinality(offs[c]) <= BurnLimit
  BY <1>1, DueNotBurnt
<1>4. /\ queue \in Seq(Entries) /\ Once(queue)
      /\ \A t : t \in Range(queue) <=> t \in Range(agenda) /\ t.part # c
      /\ ~Pending(queue, c)
  BY TicksLeft, WithoutKeeps DEF IInv, Punctual
<1>5. Cardinality(before) = Cardinality(offs[c]) /\ Cardinality(offs[c]) \in Nat
  BY <1>1, TogglesCounted, AgesKept
<1>6. \/ agenda' = queue /\ UNCHANGED <<circuit, state, toggles, offs>>
      \/ /\ Settle(s, queue, own, Fed(c), {c}) /\ UNCHANGED <<circuit, phase>>
         /\ state.on[c] => GoesOut(c) /\ Powered(state, c)
         /\ ~state.on[c] => toggles' = Recent /\ offs' = offs /\ ~Powered(state, c)
  BY <1>1 DEF TorchTick, NothingToDo, history, GoesOut
<1> HIDE DEF c, queue, before, s
<1>7. CASE agenda' = queue /\ UNCHANGED <<circuit, state, toggles, offs>>
  <2>1. BurntOut(state'.on, agenda', offs')
    BY <1>1, <1>3, <1>4, <1>5, <1>7, BurnConstants, OthersStayOut
  <2>2. OutForNow(agenda', offs')
    BY <1>4, <1>7 DEF BurnInv, OutForNow
  <2>3. BurnInv'
    BY <1>7, <2>1, <2>2, BurnNext DEF BurnInv
  <2>4. AllBurnRight
    BY <1>7 DEF AllBurnRight, BurnsRight
  <2> QED
    BY <2>3, <2>4
<1>8. CASE /\ Settle(s, queue, own, Fed(c), {c}) /\ UNCHANGED <<circuit, phase>>
           /\ state.on[c] => GoesOut(c) /\ Powered(state, c)
           /\ ~state.on[c] => toggles' = Recent /\ offs' = offs /\ ~Powered(state, c)
  <2>1. Turning(c, s) /\ (s.on[c] <=> ~state.on[c])
    BY <1>1, TurnedState DEF s
  <2>2. own \in {{}, {tick}} /\ tick.part = c /\ tick.left = BurnDelay
    BY DEF Tick
  <2>3. Scheduling(c, s, own, BurnDelay, 0)
    <3>1. own \in {{}, {Tick(c, BurnDelay, 0)}}
      BY <2>2
    <3> HIDE DEF own
    <3> QED
      BY <1>1, <3>1, BurnConstants DEF Scheduling, Delay
  <2>4. Orderly(c, s, queue, own)
    <3> HIDE DEF own
    <3> QED
      BY <1>1, <2>1, <2>3, Answers DEF c, queue
  <2>5. /\ Shaped(s) /\ own \in SUBSET Entries /\ IsFiniteSet(own)
        /\ \A t \in own : ~Pending(queue, t.part)
        /\ \A t, u \in own : t.part = u.part => t = u
    BY <1>4, <2>4 DEF Orderly
  <2> HIDE DEF own, tick
  <2>6. /\ \A t \in Range(queue) \cup own : t \in Range(agenda')
        /\ \A t \in Range(agenda') : t \in Range(queue) \/ t \in own \/ Asked(s, queue, own, t)
        /\ \A d \in Parts : state'.on[d] # s.on[d] => Kind(d) = "lamp"
    BY <1>1, <1>4, <1>8, <2>5, Chain
  <2>7. (state'.on[c] <=> ~state.on[c]) /\ (\A d \in Parts :
          d # c /\ Kind(d) = "torch" => state'.on[d] = state.on[d])
    BY <1>1, <2>1, <2>6 DEF Turning
  <2>8. \A d \in Parts : d # c => \A t \in Range(agenda) : t.part = d => t \in Range(agenda')
    BY <1>4, <2>6
  <2>9. \A t \in Range(agenda') : t.part = c => t \in own \/ t.left = 2
    BY <1>1, <1>4, <2>6 DEF Asked, Delay
  <2>10. \A t \in own : t = tick /\ t.left = BurnDelay /\ t.left > 0
    BY <2>2, BurnConstants
  <2>11. own = IF burnt THEN {tick} ELSE {}
    BY DEF own
  <2>12. \A t \in Range(agenda') : (t \in Range(agenda) /\ t.part # c) \/ t.left > 0
    <3>1. \A t : Asked(s, queue, own, t) => t.left > 0
      BY <1>1, DelayInHorizon DEF Asked
    <3> QED
      BY <1>4, <2>6, <2>10, <3>1
  <2>13. CASE state.on[c]
    <3>1. /\ toggles' \in Seq(Toggles)
          /\ OldestFirst(toggles') /\ OutOncePerTick(toggles') /\ Recorded(toggles', offs')
          /\ \A d \in Parts : d # c => offs'[d] = offs[d]
          /\ offs'[c] = offs[c] \cup {0}
          /\ Cardinality(offs'[c]) = Cardinality(offs[c]) + 1
      BY <1>1, <1>2, <1>8, <2>13, WentOut
    <3>2. burnt <=> Cardinality(offs'[c]) > BurnLimit
      BY <1>5, <1>8, <2>13, <3>1, BurnConstants
    <3> HIDE DEF burnt
    <3>3. Cardinality(offs'[c]) > BurnLimit => tick \in Range(agenda')
      BY <2>6, <2>11, <3>2
    <3>4. OutForNow(agenda', offs')
      <4> SUFFICES ASSUME NEW t \in Range(agenda'), 0 \in offs'[t.part] PROVE t.left > 0
        BY DEF OutForNow
      <4>1. CASE t \in Range(agenda) /\ t.part # c
        <5>1. t.part \in Parts
          BY <4>1, Entry DEF IInv
        <5> QED
          BY <3>1, <4>1, <5>1 DEF BurnInv, OutForNow
      <4> QED
        BY <2>12, <4>1
    <3>5. \A a \in offs'[c] : tick.left + a >= BurnDelay
      <4>1. \A a \in offs'[c] : a \in Nat
        BY <1>1, <3>1, AgesKept
      <4>2. tick.left = BurnDelay /\ BurnDelay \in Nat
        BY <2>2, BurnConstants
      <4> QED
        BY ONLY <4>1, <4>2
    <3>6. BurntOut(state'.on, agenda', offs')
      <4>1. Cardinality(offs'[c]) > BurnLimit =>
              \E t \in Range(agenda') : t.part = c /\ \A a \in offs'[c] : t.left + a >= BurnDelay
        BY <2>2, <3>3, <3>5
      <4>2. \A d \in Parts : d # c /\ Kind(d) = "torch" =>
              /\ state'.on[d] = state.on[d] /\ offs'[d] = offs[d]
              /\ \A t \in Range(agenda) : t.part = d => t \in Range(agenda')
        BY <2>7, <2>8, <3>1
      <4> QED
        BY <1>1, <4>1, <4>2, OthersStayOut
    <3>7. BurnInv'
      BY <1>8, <3>1, <3>4, <3>6, BurnNext
    <3>8. Cardinality(offs'[c]) > BurnLimit <=>
            \E j \in DOMAIN agenda' : agenda'[j].part = c /\ agenda'[j].left = BurnDelay
      <4>1. tick \in Range(agenda') => \E j \in DOMAIN agenda' : agenda'[j] = tick
        BY DEF Range
      <4>2. ASSUME NEW j \in DOMAIN agenda', agenda'[j].part = c, agenda'[j].left = BurnDelay
            PROVE  burnt
        <5>1. agenda'[j] \in Range(agenda')
          BY DEF Range
        <5>2. agenda'[j] \in own
          BY <2>9, <4>2, <5>1, BurnConstants
        <5> QED
          BY <2>11, <5>2
      <4> QED
        BY <2>2, <3>2, <3>3, <4>1, <4>2
    <3>9. AllBurnRight
      <4>1. BurnsRight(c)
        BY <2>13, <3>8 DEF BurnsRight
      <4>2. \A d \in Parts : d # c /\ Kind(d) = "torch" => BurnsRight(d)
        BY <2>7 DEF BurnsRight
      <4> QED
        BY <4>1, <4>2 DEF AllBurnRight
    <3> QED
      BY <3>7, <3>9
  <2>14. CASE ~state.on[c]
    <3>1. toggles' = Recent /\ offs' = offs
      BY <1>8, <2>14
    <3>2. /\ Recent \in Seq(Toggles) /\ OldestFirst(Recent) /\ OutOncePerTick(Recent)
          /\ \A d : AgesOf(Recent, d) = AgesOf(toggles, d)
      BY RecentToggles
    <3>3. Recorded(Recent, offs)
      BY <3>2 DEF BurnInv, Recorded
    <3>4. OutForNow(agenda', offs')
      BY <2>12, <3>1 DEF BurnInv, OutForNow
    <3>5. BurntOut(state'.on, agenda', offs')
      BY <1>1, <2>7, <2>8, <2>14, <3>1, OthersStayOut
    <3>6. BurnInv'
      BY <1>8, <3>1, <3>2, <3>3, <3>4, <3>5, BurnNext
    <3>7. AllBurnRight
      <4>1. BurnsRight(c)
        BY <1>3, <2>14 DEF BurnsRight
      <4>2. \A d \in Parts : d # c /\ Kind(d) = "torch" => BurnsRight(d)
        BY <2>7 DEF BurnsRight
      <4> QED
        BY <4>1, <4>2 DEF AllBurnRight
    <3> QED
      BY <3>6, <3>7
  <2> QED
    BY <2>13, <2>14
<1> QED
  BY <1>6, <1>7, <1>8

\* A game tick later a torch has gone out no more often within the window.
LEMMA FewerAges ==
  ASSUME NEW S \in SUBSET Nat, IsFiniteSet(S), NEW T, T \subseteq {a + 1 : a \in S}
  PROVE  IsFiniteSet(T) /\ Cardinality(T) <= Cardinality(S)
<1> DEFINE f == [b \in T |-> b - 1]
<1>1. \A b \in T : b - 1 \in S /\ b \in Nat
  <2> TAKE b \in T
  <2>1. PICK a \in S : b = a + 1
    OBVIOUS
  <2>2. a \in Nat
    OBVIOUS
  <2> QED
    BY <2>1, <2>2
<1>2. f \in [T -> S] /\ \A b, d \in T : f[b] = f[d] => b = d
  BY <1>1
<1> HIDE DEF f
<1>3. f \in Injection(T, S)
  BY <1>2 DEF Injection, IsInjective
<1> QED
  BY <1>3, FS_Injection

\* Time passes for the toggles and for the tick of a torch that is out alike.
LEMMA BeginTickBurn ==
  ASSUME IInv, Punctual, BurnInv, BeginTick
  PROVE  BurnInv' /\ AllBurnRight
<1>1. /\ phase = "rest" /\ UNCHANGED <<circuit, state>>
      /\ toggles' = [i \in DOMAIN toggles |->
                       [toggles[i] EXCEPT !.age = Smaller(@ + 1, BurnWindow + 1)]]
      /\ offs' = [c \in Parts |-> {age + 1 : age \in offs[c]} \cap 0 .. BurnWindow]
  BY DEF BeginTick
<1>2. /\ toggles \in Seq(Toggles) /\ DOMAIN toggles = 1 .. Len(toggles) /\ Len(toggles) \in Nat
      /\ BurnWindow \in Nat
      /\ \A i \in DOMAIN toggles :
           /\ toggles[i] \in Toggles /\ toggles[i].part \in Parts
           /\ toggles[i].age \in Nat /\ toggles[i].age <= BurnWindow + 1
  BY ToggleTypes, BurnConstants DEF BurnInv
<1>3. \A t \in Toggles :
        [t EXCEPT !.age = Smaller(@ + 1, BurnWindow + 1)] =
          [part |-> t.part, age |-> Smaller(t.age + 1, BurnWindow + 1)]
  BY DEF Toggles
<1> DEFINE next(i) == [part |-> toggles[i].part,
                       age  |-> Smaller(toggles[i].age + 1, BurnWindow + 1)]
<1>4. /\ DOMAIN toggles' = DOMAIN toggles
      /\ \A i \in DOMAIN toggles : toggles'[i] = next(i)
  <2>1. DOMAIN toggles' = DOMAIN toggles
    BY <1>1
  <2>2. \A i \in DOMAIN toggles :
          toggles'[i] = [toggles[i] EXCEPT !.age = Smaller(@ + 1, BurnWindow + 1)]
    BY <1>1
  <2> QED
    BY <1>2, <1>3, <2>1, <2>2
<1>5. \A i \in DOMAIN toggles : next(i) \in Toggles
  BY <1>2 DEF Toggles, Smaller
<1>6. toggles' \in Seq(Toggles)
  <2>1. toggles' = [i \in 1 .. Len(toggles) |-> toggles'[i]]
    BY <1>1, <1>2, <1>4
  <2> HIDE DEF next
  <2>2. \A i \in 1 .. Len(toggles) : toggles'[i] \in Toggles
    BY <1>2, <1>4, <1>5
  <2> DEFINE q == toggles'
  <2>3. q = [i \in 1 .. Len(toggles) |-> q[i]] /\ \A i \in 1 .. Len(toggles) : q[i] \in Toggles
    BY <2>1, <2>2
  <2> HIDE DEF q
  <2>4. q \in [1 .. Len(toggles) -> Toggles]
    BY <2>3
  <2>5. q \in Seq(Toggles)
    BY <1>2, <2>4
  <2> QED
    BY <2>5 DEF q
<1>7. \A i \in DOMAIN toggles :
        /\ toggles'[i].part = toggles[i].part
        /\ toggles'[i].age = IF toggles[i].age <= BurnWindow THEN toggles[i].age + 1
                                                             ELSE BurnWindow + 1
  BY <1>2, <1>4 DEF Smaller
<1> HIDE DEF next
<1>8. OldestFirst(toggles')
  <2> SUFFICES ASSUME NEW i \in DOMAIN toggles, NEW j \in DOMAIN toggles, i < j
               PROVE  toggles'[i].age >= toggles'[j].age
    BY <1>4 DEF OldestFirst
  <2>1. toggles[i].age >= toggles[j].age
    BY DEF BurnInv, OldestFirst
  <2> QED
    BY <1>2, <1>7, <2>1
<1>9. OutOncePerTick(toggles')
  <2> SUFFICES ASSUME NEW i \in DOMAIN toggles, NEW j \in DOMAIN toggles,
                      toggles'[i].part = toggles'[j].part, toggles'[i].age = toggles'[j].age,
                      toggles'[i].age <= BurnWindow
               PROVE  i = j
    BY <1>4 DEF OutOncePerTick
  <2>1. toggles[i].part = toggles[j].part /\ toggles[i].age = toggles[j].age
        /\ toggles[i].age <= BurnWindow
    BY <1>2, <1>7
  <2> QED
    BY <2>1 DEF BurnInv, OutOncePerTick
<1>10. \A c \in Parts : /\ offs'[c] = {age + 1 : age \in offs[c]} \cap 0 .. BurnWindow
                        /\ offs[c] = AgesOf(toggles, c)
                        /\ \A a \in offs[c] : a \in Nat /\ a <= BurnWindow
  BY <1>1, AgesKept
<1>11. ASSUME NEW c \in Parts PROVE offs'[c] = AgesOf(toggles', c)
  <2>1. ASSUME NEW b \in offs'[c] PROVE b \in AgesOf(toggles', c)
    <3>1. PICK a \in offs[c] : b = a + 1 /\ b \in 0 .. BurnWindow
      BY <1>10, <2>1
    <3>2. PICK j \in DOMAIN toggles : toggles[j].part = c /\ toggles[j].age = a
      BY <1>10, <3>1 DEF AgesOf
    <3>3. toggles'[j].part = c /\ toggles'[j].age = b
      BY <1>2, <1>7, <3>1, <3>2
    <3> QED
      BY <1>4, <3>1, <3>3 DEF AgesOf
  <2>2. ASSUME NEW b \in AgesOf(toggles', c) PROVE b \in offs'[c]
    <3>1. PICK j \in DOMAIN toggles : toggles'[j].part = c /\ toggles'[j].age = b
      BY <1>4, <2>2 DEF AgesOf
    <3>2. b \in 0 .. BurnWindow
      BY <2>2 DEF AgesOf
    <3>3. b = toggles[j].age + 1 /\ toggles[j].age \in 0 .. BurnWindow /\ toggles[j].part = c
      BY <1>2, <1>7, <3>1, <3>2
    <3>4. toggles[j].age \in offs[c]
      BY <1>10, <3>3 DEF AgesOf
    <3> QED
      BY <1>10, <3>2, <3>3, <3>4
  <2> QED
    BY <2>1, <2>2
<1>12. Recorded(toggles', offs')
  <2>1. offs' = [c \in Parts |-> offs'[c]]
    BY <1>1
  <2> DEFINE ages == offs'
             q == toggles'
  <2>2. ages = [c \in Parts |-> ages[c]] /\ \A c \in Parts : ages[c] = AgesOf(q, c)
    BY <1>11, <2>1
  <2> HIDE DEF ages, q
  <2>3. Recorded(q, ages)
    BY <2>2 DEF Recorded
  <2> QED
    BY <2>3 DEF ages, q
<1>13. OutForNow(agenda', offs')
  <2> SUFFICES ASSUME NEW u \in Range(agenda'), 0 \in offs'[u.part] PROVE FALSE
    BY DEF OutForNow
  <2>1. u.part \in Parts
    BY TicksCloser
  <2>2. PICK a \in offs[u.part] : 0 = a + 1
    BY <1>10, <2>1
  <2> QED
    BY <1>10, <2>1, <2>2
<1>14. BurntOut(state'.on, agenda', offs')
  <2> SUFFICES ASSUME NEW d \in Parts, Kind(d) = "torch", ~state.on[d],
                      Cardinality(offs'[d]) > BurnLimit
               PROVE  \E u \in Range(agenda') :
                        u.part = d /\ \A b \in offs'[d] : u.left + b >= BurnDelay
    BY <1>1 DEF BurntOut
  <2>1. /\ offs[d] \in SUBSET Nat /\ IsFiniteSet(offs[d]) /\ Cardinality(offs[d]) \in Nat
    BY AgesKept
  <2>2. offs'[d] \subseteq {a + 1 : a \in offs[d]}
    BY <1>10
  <2>3. IsFiniteSet(offs'[d]) /\ Cardinality(offs'[d]) <= Cardinality(offs[d])
    BY <2>1, <2>2, FewerAges
  <2>4. Cardinality(offs[d]) > BurnLimit
    BY <2>1, <2>3, BurnConstants, FS_CardinalityType
  <2>5. PICK t \in Range(agenda) : t.part = d /\ \A a \in offs[d] : t.left + a >= BurnDelay
    BY <2>4 DEF BurnInv, BurntOut
  <2>6. t.left \in Int /\ \E u \in Range(agenda') : u.part = t.part /\ u.left = t.left - 1
    BY TicksCloser
  <2>7. PICK u \in Range(agenda') : u.part = t.part /\ u.left = t.left - 1
    BY <2>6
  <2>8. ASSUME NEW b \in offs'[d] PROVE u.left + b >= BurnDelay
    <3>1. PICK a \in offs[d] : b = a + 1
      BY <2>2
    <3>2. a \in Nat /\ t.left + a >= BurnDelay
      BY <2>1, <2>5
    <3> QED
      BY <2>6, <2>7, <3>1, <3>2, BurnConstants
  <2> QED
    BY <2>5, <2>7, <2>8
<1>15. BurnInv'
  BY <1>1, <1>6, <1>8, <1>9, <1>12, <1>13, <1>14, BurnNext
<1> QED
  BY <1>1, <1>15 DEF AllBurnRight

LEMMA BurnInitially == Init => BurnInv
<1> SUFFICES ASSUME Init PROVE BurnInv
  OBVIOUS
<1>1. agenda = <<>> /\ toggles = <<>> /\ offs = [c \in Parts |-> {}]
  BY DEF Init
<1>2. \A c \in Parts : offs[c] = {} /\ AgesOf(toggles, c) = {}
  BY <1>1 DEF AgesOf
<1>3. Recorded(toggles, offs)
  BY <1>1 DEF Recorded, AgesOf
<1>4. ~(Cardinality({}) > BurnLimit)
  BY FS_EmptySet, BurnConstants
<1>5. BurntOut(state.on, agenda, offs)
  BY <1>2, <1>4 DEF BurntOut
<1>6. OutForNow(agenda, offs)
  BY <1>1 DEF OutForNow, Range
<1> QED
  BY <1>1, <1>3, <1>5, <1>6 DEF BurnInv, OldestFirst, OutOncePerTick

LEMMA BurnStep == IInv /\ Punctual /\ BurnInv /\ [Next]_vars => BurnInv' /\ AllBurnRight
<1> SUFFICES ASSUME IInv, Punctual, BurnInv, [Next]_vars PROVE BurnInv' /\ AllBurnRight
  OBVIOUS
<1>1. CASE Initialize
  <2>1. UNCHANGED <<circuit, toggles, offs>> /\ Quiet
    BY <1>1, InitializePunctual DEF Initialize
  <2> QED
    BY <2>1, QuietBurn
<1>2. CASE BeginTick
  BY <1>2, BeginTickBurn
<1>3. CASE Act
  <2>1. UNCHANGED <<circuit, toggles, offs>>
    BY <1>3 DEF Act, PullLever, PressButton, SwitchComparator
  <2>2. Quiet
    BY <1>3, PullLeverPunctual, PressButtonPunctual, SwitchComparatorPunctual DEF Act
  <2> QED
    BY <2>1, <2>2, QuietBurn
<1>4. CASE RunTick
  <2>1. PICK i \in DOMAIN agenda :
          \/ TorchTick(i) \/ RepeaterTick(i) \/ ComparatorTick(i)
          \/ ObserverTick(i) \/ ButtonTick(i) \/ LampTick(i)
    BY <1>4 DEF RunTick
  <2>2. CASE RepeaterTick(i) \/ ComparatorTick(i) \/ ObserverTick(i) \/ ButtonTick(i) \/ LampTick(i)
    <3>1. UNCHANGED <<circuit, toggles, offs>>
      BY <2>2 DEF RepeaterTick, ComparatorTick, ObserverTick, ButtonTick, LampTick,
         NothingToDo, history
    <3>2. Quiet
      BY <2>2, RepeaterTickPunctual, ComparatorTickPunctual, ObserverTickPunctual,
         ButtonTickPunctual, LampTickPunctual
    <3> QED
      BY <3>1, <3>2, QuietBurn
  <2> QED
    BY <2>1, <2>2, TorchTickBurn
<1>5. CASE EndActions \/ EndTicks \/ UNCHANGED vars
  <2>1. UNCHANGED <<circuit, state, agenda, toggles, offs>>
    BY <1>5 DEF EndActions, EndTicks, vars, history
  <2>2. Quiet
    BY <2>1 DEF Quiet
  <2> QED
    BY <2>1, <2>2, QuietBurn
<1> QED
  BY <1>1, <1>2, <1>3, <1>4, <1>5 DEF Next

\* Whatever the circuit, however many torches share the queue of toggles, a torch
\* burns out exactly when it has gone out too often within the window, and is not
\* lit again as long as that is so (rules.rs 1812-1836).
THEOREM TorchesBurnOutExactly == Spec => BurnsOutExactly
<1>1. Init => IInv /\ Punctual /\ BurnInv
  BY Initially, PunctualInitially, BurnInitially
<1>2. IInv /\ Punctual /\ BurnInv /\ [Next]_vars => IInv' /\ Punctual' /\ BurnInv'
  BY Inductive, PunctualStep, BurnStep
<1>3. IInv /\ Punctual /\ BurnInv /\ [Next]_vars =>
        [\A c \in Parts :
           Kind(c) = "torch" /\ phase = "ticks" =>
             /\ state.on[c] /\ ~state'.on[c] =>
                  (Cardinality(offs'[c]) > BurnLimit <=>
                     \E i \in DOMAIN agenda' : agenda'[i].part = c /\ agenda'[i].left = BurnDelay)
             /\ ~state.on[c] /\ state'.on[c] => Cardinality(offs[c]) <= BurnLimit]_vars
  BY BurnStep DEF AllBurnRight, BurnsRight
<1> QED
  BY <1>1, <1>2, <1>3, PTL DEF Spec, BurnsOutExactly

-----------------------------------------------------------------------------
(* Comparators.                                                            *)

Worlds ==
  [block : [Positions -> BlockStates], held : [Positions -> BlockEntities], side : [Positions -> Int]]

LineOK ==
  /\ world \in Worlds
  /\ live \in BOOLEAN

IsInformed(w, o, q) ==
  /\ Output(o, q) = ComparatorOutput(w, o, q)
  /\ ~Block(w, q).subtract => ShowsPower(w, q) = (ComparatorOutput(w, o, q) > 0)

LEMMA InformedMeans ==
  Informed <=> (stage # "load" =>
                  \A q \in Comparators(world) \ (unheard \cup DOMAIN due) : IsInformed(world, outputs, q))
  BY DEF Informed, IsInformed

LEMMA BlockTypes ==
  ASSUME NEW w \in Worlds, NEW x \in Int
  PROVE  /\ Block(w, x).facing \in {-1, 1} /\ Block(w, x).subtract \in BOOLEAN
         /\ Block(w, x) \in BlockStates
<1>1. Air \in BlockStates
  BY DEF Air, BlockStates
<1>2. x \in Positions => w.block[x] \in BlockStates
  BY DEF Worlds
<1>3. Block(w, x) \in BlockStates
  BY <1>1, <1>2 DEF Block
<1> QED BY <1>3 DEF BlockStates

LEMMA ComparatorsStand ==
  ASSUME NEW w, NEW q, IsComparator(w, q)
  PROVE  q \in Positions
  BY DEF IsComparator, Block, Air

LEMMA PositionsAreInt == Positions \subseteq Int
  BY ComparatorsAssumption DEF Positions, ComparatorsAssumption

-----------------------------------------------------------------------------
(* What a comparator reads.                                                *)

\* The position x is the same to a comparator that faces it from behind f.
AlikeAt(w, o, v, n, x, f) ==
  /\ HasAnalogOutput(Block(v, x)) <=> HasAnalogOutput(Block(w, x))
  /\ HasAnalogOutput(Block(w, x)) => Analog(v, x, f) = Analog(w, x, f)
  /\ DirectSignal(v, n, x, f) = DirectSignal(w, o, x, f)

\* And so is all that the comparator at q reads.
AlikeFor(w, o, v, n, q, f) ==
  /\ IsComparator(w, q) /\ IsComparator(v, q)
  /\ Block(w, q).facing = f /\ Block(v, q).facing = f
  /\ Block(v, q).subtract = Block(w, q).subtract
  /\ v.side[q] = w.side[q]
  /\ AlikeAt(w, o, v, n, q + f, f)
  /\ Conductor(v, q + f) <=> Conductor(w, q + f)
  /\ Conductor(w, q + f) => AlikeAt(w, o, v, n, q + f + f, f)

Through(w, q, f) == Block(w, q).facing = f /\ Conductor(w, q + f)
ConductedBehind(w, o, q, f) == Signal(w, o, q + f, f) = Max({0, DirectSignal(w, o, q + f + f, f)})

LEMMA ConductedSignal ==
  ASSUME NEW w, NEW o, NEW q \in Int, NEW f \in {-1, 1}, Through(w, q, f)
  PROVE  ConductedBehind(w, o, q, f)
<1> DEFINE S == {DirectSignal(w, o, q + f + d, d) : d \in {-1, 1}}
<1>1. Signal(w, o, q + f, f) = Max(S)
  BY DEF Signal, Through
<1>2. DirectSignal(w, o, q, -f) = 0
  BY DEF DirectSignal, Through
<1>3. S = {DirectSignal(w, o, q + f + f, f), DirectSignal(w, o, q + f + (-f), -f)}
  BY DEF S
<1>4. q + f + (-f) = q
  OBVIOUS
<1>5. S = {0, DirectSignal(w, o, q + f + f, f)}
  BY <1>2, <1>3, <1>4
<1> HIDE DEF S
<1> QED BY <1>1, <1>5 DEF ConductedBehind

LEMMA SameOutput ==
  ASSUME NEW w, NEW o, NEW v, NEW n, NEW q \in Int, NEW f \in {-1, 1}, AlikeFor(w, o, v, n, q, f)
  PROVE  ComparatorOutput(v, n, q) = ComparatorOutput(w, o, q)
<1>1. Signal(v, n, q + f, f) = Signal(w, o, q + f, f)
  <2>1. CASE Conductor(w, q + f)
    <3>0. Through(w, q, f) /\ Through(v, q, f)
      BY <2>1 DEF AlikeFor, Through
    <3>1. ConductedBehind(w, o, q, f)
      BY <3>0, ConductedSignal
    <3>3. ConductedBehind(v, n, q, f)
      BY <3>0, ConductedSignal
    <3>2. DirectSignal(w, o, q + f + f, f) = DirectSignal(v, n, q + f + f, f)
      BY <2>1 DEF AlikeFor, AlikeAt
    <3> QED BY <3>1, <3>2, <3>3 DEF ConductedBehind
  <2>2. CASE ~Conductor(w, q + f)
    BY <2>2 DEF AlikeFor, AlikeAt, Signal
  <2> QED BY <2>1, <2>2
<1>2. AnalogInput(v, n, q) = AnalogInput(w, o, q)
  <2>1. Block(w, q).facing = f /\ Block(v, q).facing = f
    BY DEF AlikeFor
  <2>2. /\ HasAnalogOutput(Block(v, q + f)) <=> HasAnalogOutput(Block(w, q + f))
        /\ HasAnalogOutput(Block(w, q + f)) => Analog(v, q + f, f) = Analog(w, q + f, f)
    BY DEF AlikeFor, AlikeAt
  <2>3. Conductor(v, q + f) <=> Conductor(w, q + f)
    BY DEF AlikeFor
  <2>4. Conductor(w, q + f) =>
          /\ HasAnalogOutput(Block(v, q + f + f)) <=> HasAnalogOutput(Block(w, q + f + f))
          /\ HasAnalogOutput(Block(w, q + f + f)) => Analog(v, q + f + f, f) = Analog(w, q + f + f, f)
    BY DEF AlikeFor, AlikeAt
  <2> QED BY <1>1, <2>1, <2>2, <2>3, <2>4 DEF AnalogInput
<1> QED BY <1>2 DEF ComparatorOutput, AlikeFor

-----------------------------------------------------------------------------
(* A step that changes one position.                                       *)

OnlyAt(w, o, v, n, p) ==
  \A x \in Int \ {p} :
    /\ Block(v, x) = Block(w, x)
    /\ Held(v, x) = Held(w, x)
    /\ Output(n, x) = Output(o, x)
    /\ x \in Positions => v.side[x] = w.side[x]

\* What is behind the comparator at q, if it is p, is the same to it.
AlikeIfRead(w, o, v, n, p, q) ==
  q \in Near(w, p) =>
    /\ AlikeAt(w, o, v, n, p, Block(w, q).facing)
    /\ Rear(w, q) = p => (Conductor(v, p) <=> Conductor(w, p))

LEMMA AlikeElsewhere ==
  ASSUME NEW w, NEW o, NEW v, NEW n, NEW p, OnlyAt(w, o, v, n, p),
         NEW x \in Int, x # p, NEW f
  PROVE  AlikeAt(w, o, v, n, x, f) /\ (Conductor(v, x) <=> Conductor(w, x))
<1>1. Block(v, x) = Block(w, x) /\ Held(v, x) = Held(w, x) /\ Output(n, x) = Output(o, x)
  BY DEF OnlyAt
<1> QED BY <1>1 DEF AlikeAt, Conductor, Analog, DirectSignal, IsComparator

LEMMA NearElsewhere ==
  ASSUME NEW w, NEW o, NEW v, NEW n, NEW p \in Int, OnlyAt(w, o, v, n, p),
         NEW q \in Int, q # p
  PROVE  /\ IsComparator(v, q) <=> IsComparator(w, q)
         /\ q \in Comparators(v) <=> q \in Comparators(w)
         /\ Rear(v, q) = Rear(w, q) /\ Block(v, q) = Block(w, q)
<1>1. Block(v, q) = Block(w, q)
  BY DEF OnlyAt
<1> QED BY <1>1 DEF IsComparator, Comparators, Rear

LEMMA NearAlike ==
  ASSUME NEW w \in Worlds, NEW o, NEW v, NEW n, NEW p \in Int, OnlyAt(w, o, v, n, p),
         NEW q \in Int, q # p
  PROVE  q \in Near(v, p) <=> q \in Near(w, p)
<1>1. /\ q \in Comparators(v) <=> q \in Comparators(w)
      /\ Rear(v, q) = Rear(w, q) /\ Block(v, q) = Block(w, q)
  BY NearElsewhere
<1>2. Rear(w, q) \in Int
  BY BlockTypes DEF Rear
<1>3. Rear(w, q) # p => (Conductor(v, Rear(w, q)) <=> Conductor(w, Rear(w, q)))
  BY <1>2, AlikeElsewhere
<1> QED BY <1>1, <1>3 DEF Near

LEMMA OutputElsewhere ==
  ASSUME NEW w \in Worlds, NEW o, NEW v, NEW n, NEW p \in Int, OnlyAt(w, o, v, n, p),
         NEW q \in Comparators(w), q # p, AlikeIfRead(w, o, v, n, p, q)
  PROVE  ComparatorOutput(v, n, q) = ComparatorOutput(w, o, q)
<1> DEFINE f == Block(w, q).facing
<1>0. q \in Positions /\ q \in Int /\ IsComparator(w, q) /\ f \in {-1, 1}
  BY PositionsAreInt, BlockTypes DEF Comparators
<1>1. /\ IsComparator(v, q) /\ Rear(v, q) = Rear(w, q) /\ Block(v, q) = Block(w, q)
      /\ Rear(w, q) = q + f /\ v.side[q] = w.side[q]
  <2>1. IsComparator(v, q) /\ Rear(v, q) = Rear(w, q) /\ Block(v, q) = Block(w, q)
    BY <1>0, NearElsewhere
  <2>2. v.side[q] = w.side[q]
    BY <1>0 DEF OnlyAt
  <2>3. Rear(w, q) = q + f
    BY DEF Rear
  <2> QED BY <2>1, <2>2, <2>3
<1>2. q + f \in Int /\ q + f + f \in Int
  BY <1>0
<1> HIDE DEF f
<1>3. AlikeAt(w, o, v, n, q + f, f) /\ (Conductor(v, q + f) <=> Conductor(w, q + f))
  <2>1. CASE q + f = p
    <3>1. q \in Near(w, p)
      BY <1>1, <2>1 DEF Near
    <3> QED BY <1>1, <2>1, <3>1 DEF AlikeIfRead, f
  <2>2. CASE q + f # p
    BY <1>2, <2>2, AlikeElsewhere
  <2> QED BY <2>1, <2>2
<1>4. ASSUME Conductor(w, q + f) PROVE AlikeAt(w, o, v, n, q + f + f, f)
  <2>1. CASE q + f + f = p
    <3>1. q \in Near(w, p)
      BY <1>1, <1>4, <2>1 DEF Near, f
    <3> QED BY <2>1, <3>1 DEF AlikeIfRead, f
  <2>2. CASE q + f + f # p
    BY <1>2, <2>2, AlikeElsewhere
  <2> QED BY <2>1, <2>2
<1>5. Block(w, q).facing = f /\ Block(v, q).facing = f
  BY <1>1 DEF f
<1>6. AlikeFor(w, o, v, n, q, f)
  BY <1>0, <1>1, <1>3, <1>4, <1>5 DEF AlikeFor
<1> QED BY <1>0, <1>6, SameOutput

LEMMA InformedElsewhere ==
  ASSUME NEW w \in Worlds, NEW o, NEW v, NEW n, NEW p \in Int, OnlyAt(w, o, v, n, p),
         NEW q \in Comparators(w), q # p, AlikeIfRead(w, o, v, n, p, q), IsInformed(w, o, q)
  PROVE  IsInformed(v, n, q)
<1>1. ComparatorOutput(v, n, q) = ComparatorOutput(w, o, q)
  BY OutputElsewhere
<1>2. q \in Int
  BY PositionsAreInt DEF Comparators
<1>3. Block(v, q) = Block(w, q) /\ Output(n, q) = Output(o, q)
  BY <1>2 DEF OnlyAt
<1> QED BY <1>1, <1>3 DEF IsInformed, ShowsPower

\* What a comparator gives does not depend on its own block entity or output.
LEMMA OwnOutput ==
  ASSUME NEW w \in Worlds, NEW o, NEW v, NEW n, NEW p \in Int, OnlyAt(w, o, v, n, p),
         IsComparator(w, p), IsComparator(v, p), Block(v, p).facing = Block(w, p).facing,
         Block(v, p).subtract = Block(w, p).subtract, v.side[p] = w.side[p]
  PROVE  ComparatorOutput(v, n, p) = ComparatorOutput(w, o, p)
<1> DEFINE f == Block(w, p).facing
<1>1. f \in {-1, 1}
  BY BlockTypes
<1>2. p + f \in Int \ {p} /\ p + f + f \in Int \ {p}
  BY <1>1
<1>3. Block(w, p).facing = f /\ Block(v, p).facing = f
  OBVIOUS
<1> HIDE DEF f
<1>4. /\ AlikeAt(w, o, v, n, p + f, f) /\ (Conductor(v, p + f) <=> Conductor(w, p + f))
      /\ AlikeAt(w, o, v, n, p + f + f, f)
  BY <1>2, AlikeElsewhere
<1>5. AlikeFor(w, o, v, n, p, f)
  BY <1>3, <1>4 DEF AlikeFor
<1> QED BY <1>1, <1>5, SameOutput

-----------------------------------------------------------------------------
(* Refreshing.                                                             *)

LEMMA RefreshedHears ==
  ASSUME NEW w, NEW o, NEW pending, NEW S
  PROVE  /\ DOMAIN pending \subseteq DOMAIN Refreshed(w, o, pending, S)
         /\ \A q \in S \cap Comparators(w) :
              q \notin DOMAIN Refreshed(w, o, pending, S) => IsInformed(w, o, q)
<1> DEFINE asks == {p \in S \cap Comparators(w) : /\ p \notin DOMAIN pending
                                                  /\ LET output == ComparatorOutput(w, o, p)
                                                     IN  \/ Output(o, p) # output
                                                         \/ ShowsPower(w, p) # (output > 0)}
<1>1. DOMAIN Refreshed(w, o, pending, S) = DOMAIN pending \cup asks
  BY DEF Refreshed
<1>2. ASSUME NEW q \in S \cap Comparators(w), q \notin DOMAIN pending, q \notin asks
      PROVE  IsInformed(w, o, q)
  <2>1. Output(o, q) = ComparatorOutput(w, o, q)
    BY <1>2
  <2>2. ShowsPower(w, q) = (ComparatorOutput(w, o, q) > 0)
    BY <1>2
  <2> QED BY <2>1, <2>2 DEF IsInformed
<1> HIDE DEF asks
<1> QED BY <1>1, <1>2

-----------------------------------------------------------------------------
(* The caches.                                                             *)

LineIInv == LineOK /\ CachesAgree /\ Informed

\* A world of which p alone is another.
DiffersAt(w, v, p) ==
  /\ p \in Positions
  /\ v \in Worlds
  /\ \A x \in Int \ {p} : Block(v, x) = Block(w, x) /\ Held(v, x) = Held(w, x)
  /\ \A x \in Positions \ {p} : v.side[x] = w.side[x]

LEMMA ComparatorsElsewhere ==
  ASSUME NEW w, NEW v, NEW p, DiffersAt(w, v, p)
  PROVE  \A x : x # p => (x \in Comparators(v) <=> x \in Comparators(w))
<1> TAKE x
<1> SUFFICES ASSUME x \in Positions, x # p PROVE x \in Comparators(v) <=> x \in Comparators(w)
  BY DEF Comparators
<1>1. x \in Int
  BY PositionsAreInt
<1>2. Block(v, x) = Block(w, x)
  BY <1>1 DEF DiffersAt
<1> QED BY <1>2 DEF Comparators, IsComparator

LEMMA CachedEffect ==
  ASSUME NEW w, NEW v, NEW p, DiffersAt(w, v, p), NEW o, DOMAIN o \subseteq Comparators(w)
  PROVE  /\ DOMAIN Cached(o, w, v, p) \subseteq Comparators(v)
         /\ \A x : x # p => Output(Cached(o, w, v, p), x) = Output(o, x)
         /\ (IsComparator(w, p) <=> IsComparator(v, p)) => Cached(o, w, v, p) = o
<1> DEFINE c == Cached(o, w, v, p)
<1>0. p \in Positions /\ \A x : x # p => (x \in Comparators(v) <=> x \in Comparators(w))
  BY ComparatorsElsewhere DEF DiffersAt
<1>1. CASE IsComparator(w, p) /\ ~IsComparator(v, p)
  <2>1. c = [q \in DOMAIN o \ {p} |-> o[q]]
    BY <1>1 DEF Cached, Removed
  <2> HIDE DEF c
  <2>2. DOMAIN c \subseteq Comparators(v)
    BY <1>0, <2>1
  <2>3. \A x : x # p => Output(c, x) = Output(o, x)
    BY <2>1 DEF Output
  <2> QED BY <1>1, <2>2, <2>3 DEF c
<1>2. CASE ~IsComparator(w, p) /\ IsComparator(v, p)
  <2> DEFINE s == Clamp(0, Held(v, p).saved, 15)
  <2>1. c = [q \in DOMAIN o \cup {p} |-> IF q = p THEN s ELSE o[q]]
    BY <1>2 DEF Cached, With
  <2>2. p \in Comparators(v)
    BY <1>0, <1>2 DEF Comparators
  <2> HIDE DEF c, s
  <2>3. DOMAIN c \subseteq Comparators(v)
    BY <1>0, <2>1, <2>2
  <2>4. \A x : x # p => Output(c, x) = Output(o, x)
    BY <2>1 DEF Output
  <2> QED BY <1>2, <2>3, <2>4 DEF c
<1>3. CASE IsComparator(w, p) <=> IsComparator(v, p)
  <2>1. c = o
    BY <1>3 DEF Cached
  <2>2. p \in Comparators(v) <=> p \in Comparators(w)
    BY <1>3 DEF Comparators
  <2>3. Comparators(v) = Comparators(w)
    BY <1>0, <2>2
  <2> HIDE DEF c
  <2> QED BY <2>1, <2>3 DEF c
<1> QED BY <1>1, <1>2, <1>3

LEMMA SourcedEffect ==
  ASSUME NEW v, NEW p, DiffersAt(world, v, p), LineIInv
  PROVE  live => Sourced(world, v, p, Cached(outputs, world, v, p))
                   = Network(v, Cached(outputs, world, v, p))
<1> DEFINE n == Cached(outputs, world, v, p)
<1>0. DOMAIN outputs \subseteq Comparators(world) /\ (live => source = Network(world, outputs))
  BY DEF LineIInv, CachesAgree
<1>1. CASE ~live
  BY <1>1
<1>2. CASE live /\ Signature(Block(world, p)) # Signature(Block(v, p))
  BY <1>2 DEF Sourced
<1>3. CASE live /\ Signature(Block(world, p)) = Signature(Block(v, p))
  <2>1. IsComparator(world, p) <=> IsComparator(v, p)
    <3>1. \A b \in BlockStates : b.kind = "comparator" <=> Signature(b).kind = "comparator"
      BY DEF BlockStates, Signature, Air
    <3>2. Block(world, p) \in BlockStates /\ Block(v, p) \in BlockStates
      BY BlockTypes, PositionsAreInt DEF DiffersAt, LineIInv, LineOK
    <3> QED BY <1>3, <3>1, <3>2 DEF IsComparator
  <2>2. n = outputs
    BY <1>0, <2>1, CachedEffect
  <2>3. Comparators(v) = Comparators(world)
    <3>1. \A x : x # p => (x \in Comparators(v) <=> x \in Comparators(world))
      BY ComparatorsElsewhere
    <3>2. p \in Comparators(v) <=> p \in Comparators(world)
      BY <2>1 DEF Comparators
    <3> QED BY <3>1, <3>2
  <2>4. source = Network(v, outputs)
    BY <1>0, <1>3, <2>3 DEF Network
  <2>5. IsComparator(v, p) => [source EXCEPT ![p] = Output(outputs, p)] = source
    <3> SUFFICES ASSUME IsComparator(v, p) PROVE [source EXCEPT ![p] = Output(outputs, p)] = source
      OBVIOUS
    <3>1. p \in Comparators(v)
      BY DEF DiffersAt, Comparators
    <3>2. source = [q \in Comparators(v) |-> Output(outputs, q)]
      BY <2>4 DEF Network
    <3> QED BY <3>1, <3>2
  <2> HIDE DEF n
  <2>6. Sourced(world, v, p, n) = source
    BY <1>3, <2>2, <2>5 DEF Sourced
  <2> QED BY <1>3, <2>2, <2>4, <2>6 DEF n
<1> QED BY <1>1, <1>2, <1>3

LEMMA SynchronizeAgrees ==
  ASSUME NEW v, NEW p, DiffersAt(world, v, p), LineIInv, Synchronize(v, p), world' = v, live' = live
  PROVE  LineOK' /\ CachesAgree'
<1> DEFINE n == Cached(outputs, world, v, p)
<1>1. outputs = copy /\ DOMAIN outputs \subseteq Comparators(world)
  BY DEF LineIInv, CachesAgree
<1>2. outputs' = n /\ copy' = n /\ source' = Sourced(world, v, p, n)
  BY <1>1 DEF Synchronize
<1>3. DOMAIN n \subseteq Comparators(v)
  BY <1>1, CachedEffect
<1>4. live => source' = Network(v, n)
  BY <1>2, SourcedEffect
<1> HIDE DEF n
<1>5. CachesAgree'
  BY <1>2, <1>3, <1>4 DEF CachesAgree
<1>6. LineOK'
  BY <1>4 DEF LineOK, LineIInv, DiffersAt
<1> QED BY <1>5, <1>6

-----------------------------------------------------------------------------
(* The changes from outside.                                               *)

LEMMA AllInformed ==
  ASSUME \A q \in Comparators(world') :
           q \notin unheard' /\ q \notin DOMAIN due' => IsInformed(world', outputs', q)
  PROVE  Informed'
  BY DEF Informed, IsInformed

LEMMA WasInformed ==
  ASSUME LineIInv, stage # "load", NEW q \in Comparators(world), q \notin unheard, q \notin DOMAIN due
  PROVE  IsInformed(world, outputs, q)
  BY DEF LineIInv, Informed, IsInformed

LEMMA DiffersOnly ==
  ASSUME NEW w, NEW v, NEW o, NEW n, NEW p, DiffersAt(w, v, p), \A x : x # p => Output(n, x) = Output(o, x)
  PROVE  OnlyAt(w, o, v, n, p)
  BY DEF DiffersAt, OnlyAt

LEMMA PutDiffers ==
  ASSUME NEW w \in Worlds, NEW p \in Positions, NEW b \in BlockStates, NEW d \in BlockEntities, NEW s \in Int
  PROVE  DiffersAt(w, Put(w, p, b, d, s), p) /\ Block(Put(w, p, b, d, s), p) = b
<1> DEFINE v == Put(w, p, b, d, s)
<1>1. /\ w.block \in [Positions -> BlockStates] /\ w.held \in [Positions -> BlockEntities]
      /\ w.side \in [Positions -> Int]
  BY DEF Worlds
<1>2. v = [block |-> [w.block EXCEPT ![p] = b], held |-> [w.held EXCEPT ![p] = d],
           side |-> [w.side EXCEPT ![p] = s]]
  BY DEF Put
<1>3. v.block = [w.block EXCEPT ![p] = b] /\ v.held = [w.held EXCEPT ![p] = d]
      /\ v.side = [w.side EXCEPT ![p] = s]
  BY <1>2
<1>4. v \in Worlds
  BY <1>1, <1>2 DEF Worlds
<1> HIDE DEF v
<1>5. \A x \in Int \ {p} : Block(v, x) = Block(w, x) /\ Held(v, x) = Held(w, x)
  BY <1>1, <1>3 DEF Block, Held
<1>6. Block(v, p) = b /\ \A x \in Positions \ {p} : v.side[x] = w.side[x]
  BY <1>1, <1>3 DEF Block
<1> QED BY <1>4, <1>5, <1>6 DEF DiffersAt, v

LEMMA WorldTypes ==
  ASSUME NEW w \in Worlds, NEW p \in Positions
  PROVE  w.block[p] \in BlockStates /\ w.held[p] \in BlockEntities /\ w.side[p] \in Int
         /\ Block(w, p) = w.block[p]
  BY DEF Worlds, Block

LEMMA NoDataType == NoData \in BlockEntities
<1>1. <<>> \in Seq(Int \X (Nat \ {0})) /\ {} \in SUBSET Int /\ None \in Int /\ 0 \in Int
  BY DEF None
<1> QED BY <1>1 DEF NoData, BlockEntities

LEMMA WithBlockDiffers ==
  ASSUME NEW w \in Worlds, NEW p \in Positions, NEW b \in BlockStates
  PROVE  DiffersAt(w, WithBlock(w, p, b), p) /\ Block(WithBlock(w, p, b), p) = b
<1> DEFINE d == IF b.kind = "air" THEN NoData ELSE w.held[p]
           s == w.side[p]
<1>1. d \in BlockEntities /\ s \in Int
  BY NoDataType, WorldTypes
<1>2. WithBlock(w, p, b) = Put(w, p, b, d, s)
  BY DEF WithBlock
<1> HIDE DEF d, s
<1> QED BY <1>1, <1>2, PutDiffers

LEMMA DirectOfOther ==
  ASSUME NEW w, NEW o, NEW x, NEW f, ~IsComparator(w, x)
  PROVE  DirectSignal(w, o, x, f) = 0
  BY DEF DirectSignal

LEMMA SetBlockInv ==
  ASSUME LineIInv, NEW p \in Positions, NEW b \in BlockStates, SetBlock(p, b)
  PROVE  LineIInv'
<1> DEFINE v == WithBlock(world, p, b)
           n == Cached(outputs, world, v, p)
           near == IF HasAnalogOutput(Block(world, p)) \/ HasAnalogOutput(Block(v, p))
                   THEN Near(v, p) ELSE {}
           moved == IF IsComparator(world, p) \/ IsComparator(v, p) THEN {p} ELSE {}
           first == Refreshed(v, outputs, due, near)
<1>1. world \in Worlds /\ outputs = copy /\ DOMAIN outputs \subseteq Comparators(world)
  BY DEF LineIInv, LineOK, CachesAgree
<1>2. DiffersAt(world, v, p)
  BY <1>1, WithBlockDiffers
<1>3. /\ world' = v /\ Synchronize(v, p) /\ live' = live /\ stage = "actions" /\ stage' = stage
      /\ due' = Refreshed(v, outputs', first, Beside(p))
      /\ unheard' = (((unheard \ near) \cup moved \cup Behind(world, moved) \cup Behind(v, moved))
                       \cap Comparators(v)) \ Beside(p)
  <2>1. Change(p, v, {}) /\ stage = "actions" /\ live' = live /\ stage' = stage
    BY DEF SetBlock, Acts
  <2>2. (IF HasAnalogOutput(Block(world, p)) \/ HasAnalogOutput(Block(v, p))
         THEN WithNear(v, p, {}) ELSE {}) = near
    BY DEF WithNear
  <2>3. {q \in {p} \ {} : IsComparator(world, q) \/ IsComparator(v, q)} = moved
    OBVIOUS
  <2>4. {} \cup Beside(p) = Beside(p)
    OBVIOUS
  <2> HIDE DEF v, near, moved
  <2> QED BY <2>1, <2>2, <2>3, <2>4 DEF Change, first
<1>4. LineOK' /\ CachesAgree'
  BY <1>2, <1>3, SynchronizeAgrees
<1>5. outputs' = n
  BY <1>3 DEF Synchronize
<1>6. /\ \A x : x # p => Output(n, x) = Output(outputs, x)
      /\ moved = {} => n = outputs
  BY <1>1, <1>2, CachedEffect
<1>7. p \in Int /\ OnlyAt(world, outputs, v, n, p)
  BY <1>2, <1>6, DiffersOnly, PositionsAreInt
<1>8. moved = {} => ~IsComparator(world, p) /\ ~IsComparator(v, p)
  OBVIOUS
<1>9. moved = {} \/ moved = {p}
  OBVIOUS
<1>10. \/ near = Near(v, p)
       \/ near = {} /\ ~HasAnalogOutput(Block(world, p)) /\ ~HasAnalogOutput(Block(v, p))
  OBVIOUS
<1> HIDE DEF v, n, near, moved, first
<1>11. ASSUME NEW q \in Comparators(v), q \notin unheard', q \notin DOMAIN due'
       PROVE  IsInformed(v, n, q)
  <2>1. q \in Int /\ q \in Positions
    BY PositionsAreInt DEF Comparators
  <2>2. DOMAIN due \subseteq DOMAIN first /\ DOMAIN first \subseteq DOMAIN due'
    BY <1>3, RefreshedHears DEF first
  <2>3. CASE q \in Beside(p)
    BY <1>3, <1>5, <1>11, <2>3, RefreshedHears
  <2>4. q \in Beside(p) \/ (q \notin moved /\ q \notin Behind(v, moved) /\ q \notin Behind(world, moved)
                           /\ (q \notin unheard \/ q \in near))
    BY <1>3, <1>11
  <2>5. CASE q \notin Beside(p)
    <3>1. q # p
      BY <1>8, <1>9, <1>11, <2>4, <2>5 DEF Comparators
    <3>2. q \in Comparators(world) /\ Rear(v, q) = Rear(world, q) /\ Block(v, q) = Block(world, q)
          /\ (q \in Near(v, p) <=> q \in Near(world, p))
      BY <1>1, <1>7, <1>11, <2>1, <3>1, NearElsewhere, NearAlike
    <3>3. Rear(world, q) # p
      <4>1. Block(world, q).facing \in {-1, 1}
        BY <1>1, <2>1, BlockTypes
      <4> QED BY <1>7, <2>1, <2>5, <4>1 DEF Rear, Beside
    <3>4. CASE q \in Near(world, p) /\ moved = {p}
      <4>1. q \in Behind(v, {p})
        BY <3>2, <3>3, <3>4 DEF Behind
      <4> QED BY <2>4, <2>5, <3>4, <4>1
    <3>5. CASE q \in near /\ moved = {}
      <4>1. IsInformed(v, outputs, q)
        BY <1>11, <2>2, <3>5, RefreshedHears DEF first
      <4> QED BY <1>6, <3>5, <4>1
    <3>6. CASE q \notin near /\ (q \notin Near(world, p) \/ moved = {})
      <4>1. IsInformed(world, outputs, q)
        BY <1>3, <1>11, <2>2, <2>4, <2>5, <3>2, <3>6, WasInformed
      <4>2. AlikeIfRead(world, outputs, v, n, p, q)
        <5>1. CASE q \notin Near(world, p)
          BY <5>1 DEF AlikeIfRead
        <5>2. CASE q \in Near(world, p) /\ moved = {}
          <6>1. ~HasAnalogOutput(Block(world, p)) /\ ~HasAnalogOutput(Block(v, p))
            BY <1>10, <3>2, <3>6, <5>2
          <6>2. \A f : DirectSignal(v, n, p, f) = 0 /\ DirectSignal(world, outputs, p, f) = 0
            BY <1>8, <5>2, DirectOfOther
          <6> QED BY <3>3, <6>1, <6>2 DEF AlikeIfRead, AlikeAt
        <5> QED BY <3>6, <5>1, <5>2
      <4> QED BY <1>1, <1>7, <3>1, <3>2, <4>1, <4>2, InformedElsewhere
    <3>7. q \in near => q \in Near(world, p)
      BY <1>10, <3>2
    <3> QED BY <1>9, <3>4, <3>5, <3>6, <3>7
  <2> QED BY <2>3, <2>5
<1>12. Informed'
  BY <1>3, <1>5, <1>11, AllInformed
<1> QED BY <1>4, <1>12 DEF LineIInv

LEMMA WithStateDiffers ==
  ASSUME NEW w \in Worlds, NEW p \in Positions, NEW b \in BlockStates
  PROVE  DiffersAt(w, WithState(w, p, b), p) /\ Block(WithState(w, p, b), p) = b
<1> DEFINE d == w.held[p]
           s == w.side[p]
<1>1. d \in BlockEntities /\ s \in Int
  BY WorldTypes
<1>2. WithState(w, p, b) = Put(w, p, b, d, s)
  BY DEF WithState
<1> HIDE DEF d, s
<1> QED BY <1>1, <1>2, PutDiffers

\* A comparator reads of another its facing and its output.
LEMMA AlikeComparators ==
  ASSUME NEW w, NEW o, NEW v, NEW n, NEW p, NEW f, IsComparator(w, p), IsComparator(v, p),
         Block(v, p).facing = Block(w, p).facing,
         Output(n, p) = Output(o, p) \/ Block(w, p).facing # f
  PROVE  AlikeAt(w, o, v, n, p, f) /\ ~Conductor(w, p) /\ ~Conductor(v, p)
<1>1. /\ ~HasAnalogOutput(Block(w, p)) /\ ~HasAnalogOutput(Block(v, p))
      /\ ~Conductor(w, p) /\ ~Conductor(v, p)
  BY DEF IsComparator, HasAnalogOutput, AnalogKinds, Conductor
<1>2. DirectSignal(v, n, p, f) = DirectSignal(w, o, p, f)
  BY DEF DirectSignal
<1> QED BY <1>1, <1>2 DEF AlikeAt

LEMMA UseComparatorInv ==
  ASSUME LineIInv, NEW p \in Positions, UseComparator(p)
  PROVE  LineIInv'
<1> DEFINE b == [world.block[p] EXCEPT !.subtract = ~@]
           v == WithState(world, p, b)
           n == Cached(outputs, world, v, p)
           first == Refreshed(v, outputs, due, {p})
<1>1. world \in Worlds /\ outputs = copy /\ DOMAIN outputs \subseteq Comparators(world)
  BY DEF LineIInv, LineOK, CachesAgree
<1>2. b \in BlockStates /\ b.kind = world.block[p].kind /\ b.facing = world.block[p].facing
  <2>1. world.block[p] \in BlockStates
    BY <1>1, WorldTypes
  <2> QED BY <2>1 DEF BlockStates
<1>3. IsComparator(world, p) /\ Block(world, p) = world.block[p] /\ stage = "actions" /\ live' = live
      /\ stage' = stage /\ Change(p, v, {p})
  BY <1>1, WorldTypes DEF UseComparator, Acts
<1> HIDE DEF b
<1>4. DiffersAt(world, v, p) /\ Block(v, p) = b
  BY <1>1, <1>2, WithStateDiffers
<1> HIDE DEF v
<1>5. IsComparator(v, p) /\ Block(v, p).facing = Block(world, p).facing
  BY <1>2, <1>3, <1>4 DEF IsComparator
<1>6. ~HasAnalogOutput(Block(world, p)) /\ ~HasAnalogOutput(Block(v, p))
  BY <1>3, <1>5 DEF IsComparator, HasAnalogOutput, AnalogKinds
<1>7. /\ world' = v /\ Synchronize(v, p)
      /\ due' = Refreshed(v, outputs', first, Beside(p))
      /\ unheard' = ((unheard \ {p}) \cap Comparators(v)) \ ({p} \cup Beside(p))
  <2>1. {q \in {p} \ {p} : IsComparator(world, q) \/ IsComparator(v, q)} = {}
    OBVIOUS
  <2>2. Behind(world, {}) = {} /\ Behind(v, {}) = {}
    BY DEF Behind
  <2> QED BY <1>3, <1>6, <2>1, <2>2 DEF Change, first
<1>8. LineOK' /\ CachesAgree'
  BY <1>3, <1>4, <1>7, SynchronizeAgrees
<1>9. outputs' = outputs
  <2>1. n = outputs
    BY <1>1, <1>3, <1>4, <1>5, CachedEffect
  <2> QED BY <1>7, <2>1 DEF Synchronize
<1>10. p \in Int /\ OnlyAt(world, outputs, v, outputs, p)
  BY <1>4, DiffersOnly, PositionsAreInt
<1> HIDE DEF n, first
<1>11. ASSUME NEW q \in Comparators(v), q \notin unheard', q \notin DOMAIN due'
       PROVE  IsInformed(v, outputs, q)
  <2>1. q \in Int /\ q \in Positions
    BY PositionsAreInt DEF Comparators
  <2>2. DOMAIN due \subseteq DOMAIN first /\ DOMAIN first \subseteq DOMAIN due'
    BY <1>7, RefreshedHears DEF first
  <2>3. CASE q \in Beside(p)
    BY <1>7, <1>9, <1>11, <2>3, RefreshedHears
  <2>4. CASE q = p
    <3>1. q \in {p} \cap Comparators(v) /\ q \notin DOMAIN first
      BY <1>11, <2>2, <2>4
    <3> QED BY <3>1, RefreshedHears DEF first
  <2>5. CASE q \notin Beside(p) /\ q # p
    <3>1. q \in Comparators(world)
      BY <1>10, <1>11, <2>1, <2>5, NearElsewhere
    <3>2. IsInformed(world, outputs, q)
      <4>1. q \notin unheard /\ q \notin DOMAIN due
        BY <1>7, <1>11, <2>2, <2>5
      <4> QED BY <1>3, <3>1, <4>1, WasInformed
    <3>3. AlikeIfRead(world, outputs, v, outputs, p, q)
      <4>1. AlikeAt(world, outputs, v, outputs, p, Block(world, q).facing)
            /\ ~Conductor(world, p) /\ ~Conductor(v, p)
        BY <1>3, <1>5, AlikeComparators
      <4> QED BY <4>1 DEF AlikeIfRead
    <3> QED BY <1>1, <1>10, <2>5, <3>1, <3>2, <3>3, InformedElsewhere
  <2> QED BY <2>3, <2>4, <2>5
<1>12. Informed'
  BY <1>7, <1>9, <1>11, AllInformed
<1> QED BY <1>8, <1>12 DEF LineIInv

LEMMA DiffersComparators ==
  ASSUME NEW w, NEW v, NEW p, DiffersAt(w, v, p), IsComparator(w, p) <=> IsComparator(v, p)
  PROVE  Comparators(v) = Comparators(w)
<1>1. \A x : x # p => (x \in Comparators(v) <=> x \in Comparators(w))
  BY ComparatorsElsewhere
<1>2. p \in Comparators(v) <=> p \in Comparators(w)
  BY DEF Comparators
<1> QED BY <1>1, <1>2

\* The memory agrees with a world that has the same comparators.
LEMMA MemoryAgrees ==
  ASSUME LineIInv, Comparators(world') = Comparators(world), UNCHANGED <<memory, live>>, world' \in Worlds
  PROVE  LineOK' /\ CachesAgree'
<1>1. outputs' = outputs /\ copy' = copy /\ source' = source /\ live' = live
  BY DEF memory
<1>2. LineOK'
  BY <1>1 DEF LineIInv, LineOK
<1>3. CachesAgree'
  BY <1>1 DEF LineIInv, CachesAgree, Network
<1> QED BY <1>2, <1>3

LEMMA SetBlockEntityInv ==
  ASSUME LineIInv, NEW p \in Positions, NEW held \in BlockEntities, SetBlockEntity(p, held)
  PROVE  LineIInv'
<1> DEFINE v == Put(world, p, world.block[p], held, world.side[p])
<1>1. world \in Worlds /\ Block(world, p) = world.block[p]
  BY WorldTypes DEF LineIInv, LineOK
<1>2. DiffersAt(world, v, p) /\ Block(v, p) = Block(world, p)
  BY <1>1, WorldTypes, PutDiffers
<1>3. /\ world' = v /\ UNCHANGED <<memory, live>> /\ outputs' = outputs /\ stage = "actions" /\ stage' = stage
      /\ due' = Refreshed(v, outputs, due, Near(world, p))
      /\ unheard' = unheard \ Near(world, p)
  BY DEF SetBlockEntity, Acts, memory
<1> HIDE DEF v
<1>4. Comparators(v) = Comparators(world)
  BY <1>2, DiffersComparators DEF IsComparator
<1>5. LineOK' /\ CachesAgree'
  BY <1>2, <1>3, <1>4, MemoryAgrees DEF DiffersAt
<1>6. p \in Int /\ OnlyAt(world, outputs, v, outputs, p)
  BY <1>2, DiffersOnly, PositionsAreInt
<1>7. ASSUME NEW q \in Comparators(v), q \notin unheard', q \notin DOMAIN due'
      PROVE  IsInformed(v, outputs, q)
  <2>1. DOMAIN due \subseteq DOMAIN due'
    BY <1>3, RefreshedHears
  <2>2. CASE q \in Near(world, p)
    BY <1>3, <1>7, <2>2, RefreshedHears
  <2>3. CASE q \notin Near(world, p)
    <3>1. IsInformed(world, outputs, q)
      BY <1>3, <1>4, <1>7, <2>1, <2>3, WasInformed
    <3>2. CASE q # p
      BY <1>1, <1>4, <1>6, <1>7, <2>3, <3>1, <3>2, InformedElsewhere DEF AlikeIfRead
    <3>3. CASE q = p
      <4>1. v.side[p] = world.side[p]
        <5>1. p \in DOMAIN world.side
          BY <1>1 DEF Worlds
        <5> QED BY <5>1 DEF v, Put
      <4>2. ComparatorOutput(v, outputs, p) = ComparatorOutput(world, outputs, p)
        <5>1. IsComparator(world, p) /\ IsComparator(v, p)
          BY <1>4, <1>7, <3>3 DEF Comparators
        <5> QED BY <1>1, <1>2, <1>6, <4>1, <5>1, OwnOutput
      <4> QED BY <1>2, <3>1, <3>3, <4>2 DEF IsInformed, ShowsPower
    <3> QED BY <3>2, <3>3
  <2> QED BY <2>2, <2>3
<1>8. Informed'
  BY <1>3, <1>7, AllInformed
<1> QED BY <1>5, <1>8 DEF LineIInv

LEMMA SideChangesInv ==
  ASSUME LineIInv, NEW p \in Positions, NEW level \in Int, SideChanges(p, level)
  PROVE  LineIInv'
<1> DEFINE v == Put(world, p, world.block[p], world.held[p], level)
<1>1. world \in Worlds /\ Block(world, p) = world.block[p]
  BY WorldTypes DEF LineIInv, LineOK
<1>2. DiffersAt(world, v, p) /\ Block(v, p) = Block(world, p)
  BY <1>1, WorldTypes, PutDiffers
<1>3. /\ world' = v /\ UNCHANGED <<memory, live>> /\ outputs' = outputs /\ stage = "actions" /\ stage' = stage
      /\ due' = Refreshed(v, outputs, due, {p})
      /\ unheard' = unheard \ {p} /\ IsComparator(world, p)
  BY DEF SideChanges, Acts, memory
<1> HIDE DEF v
<1>4. Comparators(v) = Comparators(world) /\ IsComparator(v, p)
  BY <1>2, <1>3, DiffersComparators DEF IsComparator
<1>5. LineOK' /\ CachesAgree'
  BY <1>2, <1>3, <1>4, MemoryAgrees DEF DiffersAt
<1>6. p \in Int /\ OnlyAt(world, outputs, v, outputs, p)
  BY <1>2, DiffersOnly, PositionsAreInt
<1>7. ASSUME NEW q \in Comparators(v), q \notin unheard', q \notin DOMAIN due'
      PROVE  IsInformed(v, outputs, q)
  <2>1. DOMAIN due \subseteq DOMAIN due'
    BY <1>3, RefreshedHears
  <2>2. CASE q = p
    BY <1>3, <1>7, <2>2, RefreshedHears
  <2>3. CASE q # p
    <3>1. IsInformed(world, outputs, q)
      BY <1>3, <1>4, <1>7, <2>1, <2>3, WasInformed
    <3>2. AlikeIfRead(world, outputs, v, outputs, p, q)
      <4>1. AlikeAt(world, outputs, v, outputs, p, Block(world, q).facing)
            /\ ~Conductor(world, p) /\ ~Conductor(v, p)
        BY <1>2, <1>3, <1>4, AlikeComparators
      <4> QED BY <4>1 DEF AlikeIfRead
    <3> QED BY <1>1, <1>4, <1>6, <1>7, <2>3, <3>1, <3>2, InformedElsewhere
  <2> QED BY <2>2, <2>3
<1>8. Informed'
  BY <1>3, <1>7, AllInformed
<1> QED BY <1>5, <1>8 DEF LineIInv

-----------------------------------------------------------------------------
(* Ticks, pastes and the rest.                                             *)

GivesAt(n, o, p, m) ==
  /\ DOMAIN n = DOMAIN o \cup {p}
  /\ Output(n, p) = m
  /\ \A x : x # p => Output(n, x) = Output(o, x)

LEMMA WithOutput == \A o, p, m : GivesAt(With(o, p, m), o, p, m)
<1> TAKE o, p, m
<1> DEFINE n == With(o, p, m)
<1>1. n = [q \in DOMAIN o \cup {p} |-> IF q = p THEN m ELSE o[q]]
  BY DEF With
<1> HIDE DEF n
<1>2. DOMAIN n = DOMAIN o \cup {p} /\ Output(n, p) = m
  BY <1>1 DEF Output
<1>3. \A x : x # p => Output(n, x) = Output(o, x)
  BY <1>1 DEF Output
<1>4. GivesAt(n, o, p, m)
  BY <1>2, <1>3 DEF GivesAt
<1> QED BY <1>4 DEF n

LEMMA OutputTickInv ==
  ASSUME LineIInv, NEW p \in Positions, IsComparator(world, p), stage # "load", live' = live,
         NEW output, output = ComparatorOutput(world, outputs, p), OutputTick(p, output)
  PROVE  LineIInv'
<1> DEFINE b == [world.block[p] EXCEPT !.level = IF output > 0 THEN 1 ELSE 0]
           v == WithState(world, p, b)
           n == With(outputs, p, output)
           f == Block(world, p).facing
           follows == Output(outputs, p) # output \/ ~Block(world, p).subtract
           told == IF follows THEN {p - f, p - 2 * f} ELSE {}
           pending == Removed(due, p)
           u == IF follows THEN v ELSE world
<1>1. world \in Worlds /\ outputs = copy /\ DOMAIN outputs \subseteq Comparators(world)
      /\ (live => source = Network(world, outputs))
  BY DEF LineIInv, LineOK, CachesAgree
<1>2. /\ b \in BlockStates /\ b.kind = world.block[p].kind /\ b.facing = world.block[p].facing
      /\ b.subtract = world.block[p].subtract /\ b.level = IF output > 0 THEN 1 ELSE 0
  <2>1. world.block[p] \in BlockStates
    BY <1>1, WorldTypes
  <2> QED BY <2>1 DEF BlockStates
<1>3. Block(world, p) = world.block[p] /\ p \in Int /\ f \in {-1, 1}
  BY <1>1, WorldTypes, BlockTypes, PositionsAreInt
<1>4. /\ outputs' = n /\ copy' = n
      /\ source' = IF live THEN [source EXCEPT ![p] = output] ELSE source
      /\ world' = u
      /\ due' = Refreshed(u, n, pending, told)
      /\ unheard' = unheard \ (told \cup {p})
  BY <1>1 DEF OutputTick
<1>5. DiffersAt(world, v, p) /\ Block(v, p) = b
  <2> HIDE DEF b
  <2> QED BY <1>1, <1>2, WithStateDiffers
<1>6. v.side[p] = world.side[p]
  <2>1. p \in DOMAIN world.side
    BY <1>1 DEF Worlds
  <2> QED BY <2>1 DEF WithState, Put
<1>7. DOMAIN pending = DOMAIN due \ {p}
  BY DEF Removed
<1>9. p - f # p /\ p - 2 * f # p
  BY <1>3
<1>15. /\ DOMAIN n = DOMAIN outputs \cup {p} /\ Output(n, p) = output
       /\ \A x : x # p => Output(n, x) = Output(outputs, x)
  <2>1. GivesAt(n, outputs, p, output)
    BY WithOutput
  <2> HIDE DEF n
  <2> QED BY <2>1 DEF GivesAt
<1> HIDE DEF b, v, n, pending
<1>8. ShowsPower(v, p) = (output > 0)
  <2>1. Block(v, p).level = IF output > 0 THEN 1 ELSE 0
    BY <1>2, <1>5
  <2> QED BY <2>1 DEF ShowsPower
<1>10. DiffersAt(world, u, p) /\ Block(u, p).kind = Block(world, p).kind
       /\ Block(u, p).facing = f /\ Block(u, p).subtract = Block(world, p).subtract
       /\ u.side[p] = world.side[p] /\ u \in Worlds
  <2>1. CASE follows
    BY <1>2, <1>3, <1>5, <1>6, <2>1 DEF DiffersAt
  <2>2. CASE ~follows
    BY <1>1, <2>2 DEF DiffersAt
  <2> QED BY <2>1, <2>2
<1>11. ~Block(u, p).subtract => ShowsPower(u, p) = (output > 0)
  <2>1. CASE follows
    BY <1>8, <2>1
  <2>2. CASE ~follows
    BY <1>10, <2>2
  <2> QED BY <2>1, <2>2
<1>12. ~follows => Output(outputs, p) = output
  OBVIOUS
<1>13. (follows /\ told = {p - f, p - 2 * f}) \/ (~follows /\ told = {})
  OBVIOUS
<1> HIDE DEF u, follows, told
<1>14. IsComparator(u, p) /\ Comparators(u) = Comparators(world)
  BY <1>10, DiffersComparators DEF IsComparator
<1>16. OnlyAt(world, outputs, u, n, p)
  BY <1>10, <1>15, DiffersOnly
<1>17. CachesAgree'
  <2>1. p \in Comparators(world)
    BY DEF Comparators
  <2>2. DOMAIN n \subseteq Comparators(u)
    BY <1>1, <1>14, <1>15, <2>1
  <2>3. live => source' = Network(u, n)
    <3> SUFFICES ASSUME live PROVE source' = Network(u, n)
      OBVIOUS
    <3>1. source = [q \in Comparators(world) |-> Output(outputs, q)]
      BY <1>1 DEF Network
    <3>2. source' = [source EXCEPT ![p] = output]
      BY <1>4
    <3>3. source' = [q \in Comparators(world) |-> IF q = p THEN output ELSE Output(outputs, q)]
      BY <3>1, <3>2
    <3>4. \A q \in Comparators(world) : (IF q = p THEN output ELSE Output(outputs, q)) = Output(n, q)
      BY <1>15
    <3> QED BY <1>14, <3>3, <3>4 DEF Network
  <2> QED BY <1>4, <2>2, <2>3 DEF CachesAgree
<1>18. LineOK'
  BY <1>4, <1>10 DEF LineIInv, LineOK
<1>19. ASSUME NEW q \in Comparators(u), q \notin unheard', q \notin DOMAIN due'
       PROVE  IsInformed(u, n, q)
  <2>1. DOMAIN pending \subseteq DOMAIN due'
    BY <1>4, RefreshedHears
  <2>2. CASE q = p
    <3>1. ComparatorOutput(u, n, p) = output
      BY <1>1, <1>3, <1>10, <1>14, <1>16, OwnOutput
    <3> QED BY <1>11, <1>15, <2>2, <3>1 DEF IsInformed
  <2>3. CASE q # p /\ q \in told
    BY <1>4, <1>19, <2>3, RefreshedHears
  <2>4. CASE q # p /\ q \notin told
    <3>1. q \in Comparators(world) /\ q \notin unheard /\ q \notin DOMAIN due
      BY <1>4, <1>7, <1>14, <1>19, <2>1, <2>4
    <3>2. IsInformed(world, outputs, q)
      BY <3>1, WasInformed
    <3>3. q \in Int /\ Block(world, q).facing \in {-1, 1}
      BY <1>1, <3>1, PositionsAreInt, BlockTypes DEF Comparators
    <3>4. AlikeIfRead(world, outputs, u, n, p, q)
      <4> SUFFICES ASSUME q \in Near(world, p)
                   PROVE  /\ AlikeAt(world, outputs, u, n, p, Block(world, q).facing)
                          /\ Conductor(u, p) <=> Conductor(world, p)
        BY DEF AlikeIfRead
      <4>1. Output(n, p) = Output(outputs, p) \/ f # Block(world, q).facing
        <5>1. CASE ~follows
          BY <1>12, <1>15, <5>1
        <5>2. CASE follows
          <6>1. p = q + Block(world, q).facing \/ p = q + Block(world, q).facing + Block(world, q).facing
            BY DEF Near, Rear
          <6>2. q # p - f /\ q # p - 2 * f
            BY <1>13, <2>4, <5>2
          <6> QED BY <1>3, <3>3, <6>1, <6>2
        <5> QED BY <5>1, <5>2
      <4>2. Block(u, p).facing = Block(world, p).facing
        BY <1>10 DEF f
      <4> QED BY <1>14, <4>1, <4>2, AlikeComparators DEF f
    <3> QED BY <1>1, <1>3, <1>16, <2>4, <3>1, <3>2, <3>4, InformedElsewhere
  <2> QED BY <2>2, <2>3, <2>4
<1>20. Informed'
  BY <1>4, <1>19, AllInformed
<1> QED BY <1>17, <1>18, <1>20 DEF LineIInv

LEMMA RunDueInv ==
  ASSUME LineIInv, NEW p \in Positions, RunDue(p)
  PROVE  LineIInv'
<1>1. stage # "load" /\ live' = live /\ stage' = "ticks"
  BY DEF RunDue
<1>2. CASE IsComparator(world, p)
  <2>1. PICK output \in {ComparatorOutput(world, outputs, p)} : OutputTick(p, output)
    BY <1>2 DEF RunDue
  <2> QED BY <1>1, <1>2, <2>1, OutputTickInv
<1>3. CASE ~IsComparator(world, p)
  <2>1. due' = Removed(due, p) /\ UNCHANGED <<world, memory, unheard>>
    BY <1>3 DEF RunDue
  <2>2. world' = world /\ outputs' = outputs /\ unheard' = unheard /\ DOMAIN due' = DOMAIN due \ {p}
    BY <2>1 DEF memory, Removed
  <2>3. LineOK' /\ CachesAgree'
    BY <1>1, <2>1, <2>2, MemoryAgrees DEF LineIInv, LineOK
  <2>4. ASSUME NEW q \in Comparators(world), q \notin unheard', q \notin DOMAIN due'
        PROVE  IsInformed(world, outputs, q)
    <3>1. q # p
      BY <1>3 DEF Comparators
    <3> QED BY <1>1, <2>2, <2>4, <3>1, WasInformed
  <2>5. Informed'
    BY <2>2, <2>4, AllInformed
  <2> QED BY <2>3, <2>5 DEF LineIInv
<1> QED BY <1>2, <1>3

LEMMA ReplacedNetwork ==
  ASSUME NEW v, NEW c, NEW new
  PROVE  Replaced(Network(v, c), c, new) = Network(v, new)
<1> DEFINE net == Network(v, c)
           r == Replaced(net, c, new)
<1>1. DOMAIN net = Comparators(v) /\ \A q \in Comparators(v) : net[q] = Output(c, q)
  BY DEF Network
<1> HIDE DEF net
<1>2. r = [q \in DOMAIN net |->
             IF q \in DOMAIN new /\ (q \notin DOMAIN c \/ c[q] # new[q]) THEN new[q]
             ELSE IF q \in DOMAIN c \ DOMAIN new THEN 0
             ELSE net[q]]
  BY DEF Replaced
<1> HIDE DEF r
<1>3. ASSUME NEW q \in Comparators(v) PROVE r[q] = Output(new, q)
  <2>1. r[q] = IF q \in DOMAIN new /\ (q \notin DOMAIN c \/ c[q] # new[q]) THEN new[q]
               ELSE IF q \in DOMAIN c \ DOMAIN new THEN 0
               ELSE Output(c, q)
    BY <1>1, <1>2
  <2> QED BY <2>1 DEF Output
<1>4. r = [q \in Comparators(v) |-> Output(new, q)]
  BY <1>1, <1>2, <1>3
<1> QED BY <1>4 DEF Network, r, net

LEMMA PasteInv ==
  ASSUME LineIInv, NEW p \in Positions, NEW b \in BlockStates, NEW held \in BlockEntities, Paste(p, b, held)
  PROVE  LineIInv'
<1> DEFINE v == Put(world, p, b, held, world.side[p])
           new == Loaded(v)
           c == Cached(outputs, world, v, p)
           lost == {q \in Comparators(v) : Output(new, q) # Output(outputs, q)}
           readers == UNION {Near(v, q) : q \in lost \cup {p}}
<1>1. world \in Worlds /\ outputs = copy /\ DOMAIN outputs \subseteq Comparators(world)
  BY DEF LineIInv, LineOK, CachesAgree
<1>2. DiffersAt(world, v, p)
  BY <1>1, WorldTypes, PutDiffers
<1>3. /\ world' = v /\ outputs' = new /\ copy' = new /\ due' = due /\ live' = live
      /\ source' = Replaced(Sourced(world, v, p, c), c, new)
      /\ unheard' = (unheard \cup lost \cup readers \cup {p}) \cap Comparators(v)
      /\ stage = "rest" /\ stage' = stage
  BY <1>1 DEF Paste, Acts
<1>4. DOMAIN new \subseteq Comparators(v)
  BY DEF Loaded
<1>5. live => source' = Network(v, new)
  <2> SUFFICES ASSUME live PROVE source' = Network(v, new)
    OBVIOUS
  <2> HIDE DEF v, new
  <2>1. Sourced(world, v, p, c) = Network(v, c)
    BY <1>2, SourcedEffect
  <2> QED BY <1>3, <2>1, ReplacedNetwork
<1> HIDE DEF v, new, c
<1>6. LineOK' /\ CachesAgree'
  BY <1>2, <1>3, <1>4, <1>5 DEF LineOK, CachesAgree, LineIInv, DiffersAt
<1>7. ASSUME NEW q \in Comparators(v), q \notin unheard', q \notin DOMAIN due'
      PROVE  IsInformed(v, new, q)
  <2>1. q \notin unheard /\ q \notin lost /\ q \notin readers /\ q # p
    BY <1>3, <1>7
  <2>2. q \in Comparators(world) /\ q \in Int
    BY <1>2, <1>7, <2>1, ComparatorsElsewhere, PositionsAreInt DEF Comparators
  <2>3. IsInformed(world, outputs, q)
    BY <1>3, <1>7, <2>1, <2>2, WasInformed
  <2>4. Block(v, q) = Block(world, q) /\ Output(new, q) = Output(outputs, q) /\ v.side[q] = world.side[q]
        /\ q \in Positions
    BY <1>2, <1>7, <2>1, <2>2 DEF DiffersAt, Comparators
  <2> DEFINE f == Block(world, q).facing
  <2>5. f \in {-1, 1} /\ Rear(v, q) = q + f /\ Block(v, q).facing = f
    BY <1>1, <2>2, <2>4, BlockTypes DEF Rear
  <2>6. ASSUME NEW x \in Int, q \in Near(v, x)
        PROVE  AlikeAt(world, outputs, v, new, x, f) /\ (Conductor(v, x) <=> Conductor(world, x))
    <3>1. x \notin lost /\ x # p
      BY <2>1, <2>6
    <3>2. Block(v, x) = Block(world, x) /\ Held(v, x) = Held(world, x)
      BY <1>2, <3>1 DEF DiffersAt
    <3>3. IsComparator(v, x) => Output(new, x) = Output(outputs, x)
      BY <3>1, ComparatorsStand DEF Comparators
    <3> QED BY <3>2, <3>3 DEF AlikeAt, Conductor, Analog, DirectSignal, IsComparator
  <2>7. q \in Near(v, q + f) /\ (Conductor(v, q + f) => q \in Near(v, q + f + f))
    BY <1>7, <2>5 DEF Near
  <2>8. q + f \in Int /\ q + f + f \in Int
    BY <2>2, <2>5
  <2>9. Block(world, q).facing = f
    OBVIOUS
  <2> HIDE DEF f
  <2>10. AlikeAt(world, outputs, v, new, q + f, f) /\ (Conductor(v, q + f) <=> Conductor(world, q + f))
    BY <2>6, <2>7, <2>8
  <2>11. Conductor(world, q + f) => AlikeAt(world, outputs, v, new, q + f + f, f)
    BY <2>6, <2>7, <2>8, <2>10
  <2>12. IsComparator(world, q) /\ IsComparator(v, q)
    BY <1>7, <2>2 DEF Comparators
  <2>13. AlikeFor(world, outputs, v, new, q, f)
    BY <2>4, <2>5, <2>9, <2>10, <2>11, <2>12 DEF AlikeFor
  <2>14. ComparatorOutput(v, new, q) = ComparatorOutput(world, outputs, q)
    BY <2>2, <2>5, <2>13, SameOutput
  <2> QED BY <2>3, <2>4, <2>14 DEF IsInformed, ShowsPower
<1>8. Informed'
  BY <1>3, <1>7, AllInformed
<1> QED BY <1>6, <1>8 DEF LineIInv

LEMMA RefreshInv ==
  ASSUME LineIInv, NEW S, UNCHANGED <<world, memory, live>>, due' = Refreshed(world, outputs, due, S),
         unheard' = unheard \ S \/ (stage = "load" /\ S = Positions),
         stage # "load" \/ S = Positions
  PROVE  LineIInv'
<1>1. world' = world /\ outputs' = outputs
  BY DEF memory
<1>2. LineOK' /\ CachesAgree'
  BY <1>1, MemoryAgrees DEF LineIInv, LineOK
<1>3. ASSUME NEW q \in Comparators(world), q \notin unheard', q \notin DOMAIN due'
      PROVE  IsInformed(world, outputs, q)
  <2>1. DOMAIN due \subseteq DOMAIN due'
    BY RefreshedHears
  <2>2. CASE q \in S
    BY <1>3, <2>2, RefreshedHears
  <2>3. CASE q \notin S
    <3>1. stage # "load" /\ q \notin unheard
      BY <1>3, <2>3 DEF Comparators
    <3> QED BY <1>3, <2>1, <3>1, WasInformed
  <2> QED BY <2>2, <2>3
<1>4. Informed'
  BY <1>1, <1>3, AllInformed
<1> QED BY <1>2, <1>4 DEF LineIInv

LEMMA QuietInv ==
  ASSUME LineIInv, world' = world, outputs' = outputs, unheard' = unheard, DOMAIN due' = DOMAIN due,
         stage = "load" => stage' = "load", LineOK', CachesAgree'
  PROVE  LineIInv'
<1>1. CASE stage = "load"
  <2>1. Informed'
    BY <1>1 DEF Informed
  <2> QED BY <2>1 DEF LineIInv
<1>2. CASE stage # "load"
  <2>1. ASSUME NEW q \in Comparators(world), q \notin unheard', q \notin DOMAIN due'
        PROVE  IsInformed(world, outputs, q)
    BY <1>2, <2>1, WasInformed
  <2>2. Informed'
    BY <2>1, AllInformed
  <2> QED BY <2>2 DEF LineIInv
<1> QED BY <1>1, <1>2

LEMMA FallbackInv ==
  ASSUME LineIInv, Fallback
  PROVE  LineIInv'
<1>1. /\ world' = world /\ live' = FALSE /\ copy' = outputs' /\ due' = due /\ stage' = stage
      /\ unheard' = unheard /\ stage # "load"
      /\ outputs' = [q \in DOMAIN copy \cap Comparators(world) |-> copy[q]]
  BY DEF Fallback
<1>2. outputs = copy /\ DOMAIN outputs \subseteq Comparators(world) /\ world \in Worlds
  BY DEF LineIInv, CachesAgree, LineOK
<1>3. DOMAIN outputs' = DOMAIN outputs /\ \A q : Output(outputs', q) = Output(outputs, q)
  BY <1>1, <1>2 DEF Output
<1>4. LineOK' /\ CachesAgree'
  BY <1>1, <1>2, <1>3 DEF LineOK, CachesAgree
<1>5. ASSUME NEW q \in Comparators(world), q \notin unheard', q \notin DOMAIN due'
      PROVE  IsInformed(world, outputs', q)
  <2>1. IsInformed(world, outputs, q)
    BY <1>1, <1>5, WasInformed
  <2>2. ComparatorOutput(world, outputs', q) = ComparatorOutput(world, outputs, q)
    BY <1>3 DEF ComparatorOutput, AnalogInput, Signal, DirectSignal
  <2> QED BY <1>3, <2>1, <2>2 DEF IsInformed
<1>6. Informed'
  BY <1>1, <1>5, AllInformed
<1> QED BY <1>4, <1>6 DEF LineIInv
-----------------------------------------------------------------------------
(* The whole specification.                                                *)

LEMMA InitInv ==
  ASSUME ComparatorsInit
  PROVE  LineIInv
<1>1. world \in Worlds
  BY ComparatorsAssumption DEF ComparatorsInit, ComparatorsAssumption, Worlds
<1>2. LineOK
  BY <1>1 DEF LineOK, ComparatorsInit
<1>3. CachesAgree
  BY DEF CachesAgree, ComparatorsInit, Loaded
<1>4. Informed
  BY DEF Informed, ComparatorsInit
<1> QED BY <1>2, <1>3, <1>4 DEF LineIInv

LEMMA SteppedMemory ==
  ASSUME LineIInv, world' = world, UNCHANGED <<memory, live>>
  PROVE  LineOK' /\ CachesAgree'
<1>1. world \in Worlds
  BY DEF LineIInv, LineOK
<1>2. Comparators(world') = Comparators(world)
  OBVIOUS
<1>3. world' \in Worlds
  BY <1>1
<1> QED BY <1>2, <1>3, MemoryAgrees

LEMMA NextInv ==
  ASSUME LineIInv, [ComparatorsNext]_comparatorVars
  PROVE  LineIInv'
<1>1. CASE InitializeLine
  BY <1>1, RefreshInv DEF InitializeLine
<1>2. CASE BeginStep
  <2>1. /\ world' = world /\ UNCHANGED <<memory, live>> /\ unheard' = unheard
        /\ DOMAIN due' = DOMAIN due /\ stage # "load"
    BY <1>2 DEF BeginStep
  <2>2. outputs' = outputs
    BY <2>1 DEF memory
  <2>3. LineOK' /\ CachesAgree'
    BY <2>1, SteppedMemory
  <2> QED BY <2>1, <2>2, <2>3, QuietInv
<1>3. CASE EndStep
  <2>1. /\ world' = world /\ UNCHANGED <<memory, live>> /\ unheard' = unheard
        /\ due' = due /\ stage # "load"
    BY <1>3 DEF EndStep
  <2>2. outputs' = outputs
    BY <2>1 DEF memory
  <2>3. LineOK' /\ CachesAgree'
    BY <2>1, SteppedMemory
  <2> QED BY <2>1, <2>2, <2>3, QuietInv
<1>4. CASE Configure
  <2>1. /\ world' = world /\ outputs' = outputs /\ copy' = copy /\ live' = FALSE
        /\ unheard' = unheard /\ due' = due /\ stage' = stage
    BY <1>4 DEF Configure
  <2>2. LineOK' /\ CachesAgree'
    BY <2>1 DEF LineIInv, LineOK, CachesAgree
  <2> QED BY <2>1, <2>2, QuietInv
<1>5. CASE Prepare
  <2>1. /\ world' = world /\ outputs' = outputs /\ copy' = copy /\ live' = TRUE
        /\ unheard' = unheard /\ due' = due /\ stage' = stage /\ source' = Network(world, copy)
    BY <1>5 DEF Prepare
  <2>2. LineOK' /\ CachesAgree'
    BY <2>1 DEF LineIInv, LineOK, CachesAgree
  <2> QED BY <2>1, <2>2, QuietInv
<1>6. CASE Fallback
  BY <1>6, FallbackInv
<1>7. ASSUME NEW p \in Positions, RunDue(p) PROVE LineIInv'
  BY <1>7, RunDueInv
<1>8. ASSUME NEW p \in Positions, UseComparator(p) PROVE LineIInv'
  BY <1>8, UseComparatorInv
<1>9. ASSUME NEW p \in Positions, UpdatePosition(p) PROVE LineIInv'
  BY <1>9, RefreshInv DEF UpdatePosition, Acts
<1>10. ASSUME NEW p \in Positions, NEW b \in Placed, SetBlock(p, b) PROVE LineIInv'
  <2>1. b \in BlockStates
    BY ComparatorsAssumption DEF ComparatorsAssumption
  <2> QED BY <1>10, <2>1, SetBlockInv
<1>11. ASSUME NEW p \in Positions, NEW b \in Pasted, Paste(p, b.block, b.held) PROVE LineIInv'
  <2>1. b.block \in BlockStates /\ b.held \in BlockEntities
    BY ComparatorsAssumption DEF ComparatorsAssumption
  <2> QED BY <1>11, <2>1, PasteInv
<1>12. ASSUME NEW p \in Positions, NEW held \in Contents, SetBlockEntity(p, held) PROVE LineIInv'
  <2>1. held \in BlockEntities
    BY ComparatorsAssumption DEF ComparatorsAssumption
  <2> QED BY <1>12, <2>1, SetBlockEntityInv
<1>13. ASSUME NEW p \in Positions, NEW level \in SideLevels, SideChanges(p, level) PROVE LineIInv'
  <2>1. level \in Int
    BY ComparatorsAssumption DEF ComparatorsAssumption
  <2> QED BY <1>13, <2>1, SideChangesInv
<1>14. CASE UNCHANGED comparatorVars
  <2>1. /\ world' = world /\ UNCHANGED <<memory, live>> /\ unheard' = unheard
        /\ due' = due /\ stage' = stage
    BY <1>14 DEF comparatorVars
  <2>2. outputs' = outputs
    BY <2>1 DEF memory
  <2>3. LineOK' /\ CachesAgree'
    BY <2>1, SteppedMemory
  <2> QED BY <2>1, <2>2, <2>3, QuietInv
<1> QED BY <1>1, <1>2, <1>3, <1>4, <1>5, <1>6, <1>7, <1>8, <1>9, <1>10, <1>11, <1>12, <1>13, <1>14
        DEF ComparatorsNext

LEMMA Invariant == ComparatorsSpec => []LineIInv
<1>1. ComparatorsInit => LineIInv
  BY InitInv
<1>2. LineIInv /\ [ComparatorsNext]_comparatorVars => LineIInv'
  BY NextInv
<1> QED BY <1>1, <1>2, PTL DEF ComparatorsSpec

-----------------------------------------------------------------------------
(* What a container gives.                                                 *)

LEMMA Scaled ==
  ASSUME NEW a \in Int, NEW b \in Int, NEW s \in Int, s >= 1, a <= b
  PROVE  a * s <= b * s /\ (a * s = b * s => a = b)
  OBVIOUS

LEMMA Clamped ==
  ASSUME NEW c \in Int, NEW s \in Int, s >= 1
  PROVE  /\ Clamp(0, c, s) \in Int /\ 0 <= Clamp(0, c, s) /\ Clamp(0, c, s) <= s
         /\ Clamp(0, c, s) = 0 <=> c <= 0
         /\ Clamp(0, c, s) = s <=> c >= s
  BY DEF Clamp, Least

\* One more slot, whose clamped count is x and whose stack is s.
LEMMA FillAdded ==
  ASSUME NEW num \in Int, NEW den \in Int, NEW k \in Int, NEW x \in Int, NEW s \in Int,
         den >= 1, k >= 0, 0 <= num, num <= k * den, s >= 1, 0 <= x, x <= s
  PROVE  /\ num * s + x * den \in Int /\ den * s \in Int /\ den * s >= 1
         /\ 0 <= num * s + x * den /\ num * s + x * den <= (k + 1) * (den * s)
         /\ num * s + x * den = 0 <=> num = 0 /\ x = 0
         /\ num * s + x * den = (k + 1) * (den * s) <=> num = k * den /\ x = s
<1>1. 0 * s <= num * s /\ (0 * s = num * s => 0 = num)
  BY Scaled
<1>2. 0 * den <= x * den /\ (0 * den = x * den => 0 = x)
  BY Scaled
<1>3. num * s <= (k * den) * s /\ (num * s = (k * den) * s => num = k * den)
  <2>1. k * den \in Int
    OBVIOUS
  <2> DEFINE e == k * den
  <2>2. e \in Int /\ num <= e
    BY <2>1
  <2> HIDE DEF e
  <2>3. num * s <= e * s /\ (num * s = e * s => num = e)
    BY <2>2, Scaled
  <2> QED BY <2>3 DEF e
<1>4. x * den <= s * den /\ (x * den = s * den => x = s)
  BY Scaled
<1>5. 1 * s <= den * s
  BY Scaled
<1>6. (k + 1) * (den * s) = (k * den) * s + s * den
  OBVIOUS
<1>7. num * s \in Int /\ x * den \in Int /\ den * s \in Int /\ (k * den) * s \in Int /\ s * den \in Int
  OBVIOUS
<1>8. 0 * s = 0 /\ 0 * den = 0 /\ 1 * s = s
  OBVIOUS
<1>9. num = 0 => num * s = 0
  BY <1>8
<1>10. x = 0 => x * den = 0
  BY <1>8
<1> DEFINE a == num * s
           c == x * den
           d == den * s
           e == (k * den) * s
           g == s * den
           h == (k + 1) * (den * s)
<1>11. /\ a \in Int /\ c \in Int /\ d \in Int /\ e \in Int /\ g \in Int /\ h = e + g
       /\ 0 <= a /\ (a = 0 <=> num = 0) /\ 0 <= c /\ (c = 0 <=> x = 0)
       /\ a <= e /\ (a = e <=> num = k * den) /\ c <= g /\ (c = g <=> x = s) /\ d >= 1
  BY <1>1, <1>2, <1>3, <1>4, <1>5, <1>6, <1>7, <1>8, <1>9, <1>10
<1> HIDE DEF a, c, d, e, g, h
<1>12. /\ a + c \in Int /\ d \in Int /\ d >= 1 /\ 0 <= a + c /\ a + c <= h
       /\ a + c = 0 <=> num = 0 /\ x = 0
       /\ a + c = h <=> num = k * den /\ x = s
  BY <1>11
<1> QED BY <1>12 DEF a, c, d, h

IsSum(u, slots, m) ==
  u = [n \in 0 .. m |->
         IF n = 0 THEN <<0, 1>>
         ELSE <<u[n - 1][1] * slots[n][2] + Clamp(0, slots[n][1], slots[n][2]) * u[n - 1][2],
                u[n - 1][2] * slots[n][2]>>]

LEMMA SumExtends ==
  ASSUME NEW slots, NEW m \in Nat, m # 0, NEW g, IsSum(g, slots, m - 1)
  PROVE  \E u : IsSum(u, slots, m)
<1> DEFINE last == <<g[m - 1][1] * slots[m][2] + Clamp(0, slots[m][1], slots[m][2]) * g[m - 1][2],
                     g[m - 1][2] * slots[m][2]>>
           u == [n \in 0 .. m |-> IF n = m THEN last ELSE g[n]]
           NextSum(n) == IF n = 0 THEN <<0, 1>>
                      ELSE <<u[n - 1][1] * slots[n][2] + Clamp(0, slots[n][1], slots[n][2]) * u[n - 1][2],
                             u[n - 1][2] * slots[n][2]>>
<1>1. ASSUME NEW n \in 0 .. m PROVE u[n] = NextSum(n)
  <2>1. CASE n = m
    <3>1. m - 1 \in 0 .. m /\ m - 1 # m /\ m \in 0 .. m
      OBVIOUS
    <3>2. u[m] = last /\ u[m - 1] = g[m - 1]
      BY <3>1
    <3> HIDE DEF u
    <3> QED BY <2>1, <3>2
  <2>2. CASE n # m
    <3>1. n \in 0 .. m - 1
      BY <2>2
    <3>2. u[n] = g[n]
      BY <2>2
    <3>3. n # 0 => n - 1 \in 0 .. m /\ n - 1 # m
      BY <2>2
    <3>4. n # 0 => u[n - 1] = g[n - 1]
      BY <3>3
    <3>5. g[n] = IF n = 0 THEN <<0, 1>>
                 ELSE <<g[n - 1][1] * slots[n][2] + Clamp(0, slots[n][1], slots[n][2]) * g[n - 1][2],
                        g[n - 1][2] * slots[n][2]>>
      BY <3>1 DEF IsSum
    <3> HIDE DEF u
    <3> QED BY <3>2, <3>4, <3>5
  <2> QED BY <2>1, <2>2
<1>2. u = [n \in 0 .. m |-> u[n]]
  OBVIOUS
<1> HIDE DEF u
<1>3. u = [n \in 0 .. m |-> NextSum(n)]
  BY <1>1, <1>2
<1>4. IsSum(u, slots, m)
  BY <1>3 DEF IsSum
<1> QED BY <1>4

LEMMA SumExists ==
  ASSUME NEW slots, NEW m \in Nat
  PROVE  \E u : IsSum(u, slots, m)
<1> DEFINE T == {n \in Nat : ~\E u : IsSum(u, slots, n)}
<1>1. ASSUME T # {} PROVE FALSE
  <2>1. PICK n \in T : \A k \in T : n <= k
    <3>1. T \in SUBSET Nat
      OBVIOUS
    <3> HIDE DEF T
    <3> QED BY <1>1, <3>1, LeastNatural
  <2>2. CASE n = 0
    <3> DEFINE u == [t \in 0 .. 0 |-> <<0, 1>>]
    <3>1. u = [t \in 0 .. 0 |->
                 IF t = 0 THEN <<0, 1>>
                 ELSE <<u[t - 1][1] * slots[t][2] + Clamp(0, slots[t][1], slots[t][2]) * u[t - 1][2],
                        u[t - 1][2] * slots[t][2]>>]
      OBVIOUS
    <3> HIDE DEF u
    <3>2. IsSum(u, slots, 0)
      BY <3>1 DEF IsSum
    <3> QED BY <2>2, <3>2
  <2>3. CASE n # 0
    <3>1. n \in Nat /\ n - 1 \in Nat /\ ~(n <= n - 1)
      BY <2>3
    <3>2. n - 1 \notin T
      BY <2>1, <3>1
    <3>3. PICK g : IsSum(g, slots, n - 1)
      BY <3>1, <3>2
    <3>4. \E u : IsSum(u, slots, n)
      BY <2>3, <3>1, <3>3, SumExtends
    <3> QED BY <3>4
  <2> QED BY <2>2, <2>3
<1> QED BY <1>1

SlotList == Seq(Int \X (Nat \ {0}))

\* The fill of the first n slots is n only when they are full, and 0 only
\* when they are empty.
SumRight(fill, slots, n) ==
  /\ fill[1] \in Int /\ fill[2] \in Int /\ fill[2] >= 1
  /\ 0 <= fill[1] /\ fill[1] <= n * fill[2]
  /\ fill[1] = 0 <=> \A k \in 1 .. n : slots[k][1] <= 0
  /\ fill[1] = n * fill[2] <=> \A k \in 1 .. n : slots[k][1] >= slots[k][2]

LEMMA NextSum ==
  ASSUME NEW slots \in SlotList, NEW n \in 1 .. Len(slots), NEW f, SumRight(f, slots, n - 1)
  PROVE  SumRight(<<f[1] * slots[n][2] + Clamp(0, slots[n][1], slots[n][2]) * f[2], f[2] * slots[n][2]>>,
                  slots, n)
<1>1. slots[n] \in Int \X (Nat \ {0})
  BY DEF SlotList
<1> DEFINE c == slots[n][1]
           s == slots[n][2]
           x == Clamp(0, c, s)
           num == f[1]
           den == f[2]
           k == n - 1
<1>2. c \in Int /\ s \in Int /\ s >= 1
  BY <1>1
<1>3. /\ num \in Int /\ den \in Int /\ den >= 1 /\ 0 <= num /\ num <= k * den
      /\ (num = 0 <=> \A j \in 1 .. k : slots[j][1] <= 0)
      /\ (num = k * den <=> \A j \in 1 .. k : slots[j][1] >= slots[j][2])
  BY DEF SumRight
<1>4. k \in Int /\ k >= 0 /\ n = k + 1 /\ n \in 1 .. n
  OBVIOUS
<1>5. \A j \in 1 .. n : j \in 1 .. k \/ j = n
  OBVIOUS
<1>6. \A j \in 1 .. k : j \in 1 .. n
  OBVIOUS
<1>7. (\A j \in 1 .. n : slots[j][1] <= 0) <=> (\A j \in 1 .. k : slots[j][1] <= 0) /\ c <= 0
  BY <1>4, <1>5, <1>6
<1>8. (\A j \in 1 .. n : slots[j][1] >= slots[j][2])
        <=> (\A j \in 1 .. k : slots[j][1] >= slots[j][2]) /\ c >= s
  BY <1>4, <1>5, <1>6
<1> HIDE DEF c, s, num, den, k
<1>9. x \in Int /\ 0 <= x /\ x <= s /\ (x = 0 <=> c <= 0) /\ (x = s <=> c >= s)
  BY <1>2, Clamped
<1> HIDE DEF x
<1>10. /\ num * s + x * den \in Int /\ den * s \in Int /\ den * s >= 1
       /\ 0 <= num * s + x * den /\ num * s + x * den <= (k + 1) * (den * s)
       /\ (num * s + x * den = 0 <=> num = 0 /\ x = 0)
       /\ (num * s + x * den = (k + 1) * (den * s) <=> num = k * den /\ x = s)
  BY <1>2, <1>3, <1>4, <1>9, FillAdded
<1> DEFINE a == num * s + x * den
           d == den * s
<1>11. /\ a \in Int /\ d \in Int /\ d >= 1 /\ 0 <= a /\ a <= n * d
       /\ (a = 0 <=> num = 0 /\ x = 0) /\ (a = n * d <=> num = k * den /\ x = s)
  BY <1>4, <1>10
<1> HIDE DEF a, d
<1>12. a = 0 <=> \A j \in 1 .. n : slots[j][1] <= 0
  BY <1>3, <1>7, <1>9, <1>11
<1>13. a = n * d <=> \A j \in 1 .. n : slots[j][1] >= slots[j][2]
  BY <1>3, <1>8, <1>9, <1>11
<1>14. <<a, d>>[1] = a /\ <<a, d>>[2] = d
  OBVIOUS
<1>15. SumRight(<<a, d>>, slots, n)
  BY <1>11, <1>12, <1>13, <1>14 DEF SumRight
<1> QED BY <1>15 DEF a, d, num, den, s, x, c

LEMMA FillRight ==
  ASSUME NEW slots \in SlotList
  PROVE  SumRight(Fill(slots), slots, Len(slots))
<1> DEFINE m == Len(slots)
           u == CHOOSE u : IsSum(u, slots, m)
<1>1. m \in Nat
  BY DEF SlotList
<1>2. IsSum(u, slots, m)
  <2> HIDE DEF m
  <2> QED BY <1>1, SumExists
<1>3. Fill(slots) = u[m]
  BY DEF Fill, IsSum
<1> HIDE DEF u
<1> DEFINE T == {n \in 0 .. m : ~SumRight(u[n], slots, n)}
<1>4. ASSUME T # {} PROVE FALSE
  <2>1. PICK n \in T : \A k \in T : n <= k
    <3>1. T \in SUBSET Nat
      OBVIOUS
    <3> HIDE DEF T
    <3> QED BY <1>4, <3>1, LeastNatural
  <2>2. CASE n = 0
    <3>1. u[0] = <<0, 1>>
      BY <1>1, <1>2 DEF IsSum
    <3>2. SumRight(<<0, 1>>, slots, 0)
      BY DEF SumRight
    <3>3. ~SumRight(u[0], slots, 0)
      BY <2>1, <2>2
    <3> QED BY <3>1, <3>2, <3>3
  <2>3. CASE n # 0
    <3>1. n \in 1 .. m /\ n - 1 \in 0 .. m /\ ~(n <= n - 1) /\ n \in 0 .. m
      BY <1>1, <2>1, <2>3
    <3>2. SumRight(u[n - 1], slots, n - 1)
      BY <2>1, <3>1
    <3>3. u[n] = <<u[n - 1][1] * slots[n][2] + Clamp(0, slots[n][1], slots[n][2]) * u[n - 1][2],
                   u[n - 1][2] * slots[n][2]>>
      BY <1>2, <2>3, <3>1 DEF IsSum
    <3> DEFINE f == u[n - 1]
    <3> HIDE DEF f
    <3>4. SumRight(f, slots, n - 1)
      BY <3>2 DEF f
    <3>5. SumRight(<<f[1] * slots[n][2] + Clamp(0, slots[n][1], slots[n][2]) * f[2], f[2] * slots[n][2]>>,
                   slots, n)
      BY <3>1, <3>4, NextSum
    <3>6. SumRight(u[n], slots, n)
      BY <3>3, <3>5 DEF f
    <3> QED BY <2>1, <3>6
  <2> QED BY <2>2, <2>3
<1>5. m \in 0 .. m
  BY <1>1
<1> QED BY <1>3, <1>4, <1>5

LEMMA StepsRight ==
  ASSUME NEW num \in Int, NEW den \in Int, NEW m \in Int, m >= 1, den >= 1, 0 <= num, num <= m * den
  PROVE  /\ (Steps(<<num, den>>, m) = 0) <=> (num = 0)
         /\ (Steps(<<num, den>>, m) = 15) <=> (num = m * den)
<1> DEFINE d == den * m
           q == (14 * num) \div d
<1>1. 1 * m <= den * m
  BY Scaled
<1>2. d \in Int /\ d >= 1 /\ num <= d /\ m * den = d
  BY <1>1
<1> HIDE DEF d
<1>3. q \in Int /\ 0 <= q /\ d * q <= 14 * num /\ 14 * num < d * (q + 1)
  BY <1>2
<1> HIDE DEF q
<1>4. q >= 14 => num = d
  <2> SUFFICES ASSUME q >= 14 PROVE num = d
    OBVIOUS
  <2>1. 14 * d <= q * d
    BY <1>2, <1>3, Scaled
  <2> QED BY <1>2, <1>3, <2>1
<1>5. num = d => q >= 14
  <2> SUFFICES ASSUME num = d, q <= 13 PROVE FALSE
    BY <1>3
  <2>1. (q + 1) * d <= 14 * d
    BY <1>2, <1>3, Scaled
  <2> QED BY <1>2, <1>3, <2>1
<1>6. Steps(<<num, den>>, m) = IF num = 0 THEN 0 ELSE Least(q + 1, 15)
  BY DEF Steps, q, d
<1> QED BY <1>2, <1>3, <1>4, <1>5, <1>6 DEF Least

LEMMA ContainerRight ==
  ASSUME NEW slots \in SlotList, slots # <<>>
  PROVE  /\ (ContainerSignal(slots) = 0) = (\A n \in DOMAIN slots : slots[n][1] <= 0)
         /\ (ContainerSignal(slots) = 15) = (\A n \in DOMAIN slots : slots[n][1] >= slots[n][2])
<1> DEFINE m == Len(slots)
           f == Fill(slots)
<1>1. m \in Int /\ m >= 1 /\ DOMAIN slots = 1 .. m
  BY DEF SlotList
<1>2. SumRight(f, slots, m)
  BY FillRight
<1>3. ContainerSignal(slots) = Steps(<<f[1], f[2]>>, m)
  BY DEF ContainerSignal, Steps
<1> HIDE DEF f, m
<1>4. /\ (Steps(<<f[1], f[2]>>, m) = 0) <=> (f[1] = 0)
      /\ (Steps(<<f[1], f[2]>>, m) = 15) <=> (f[1] = m * f[2])
  BY <1>1, <1>2, StepsRight DEF SumRight
<1> QED BY <1>1, <1>2, <1>3, <1>4 DEF SumRight

LEMMA AllGraded ==
  ASSUME LineOK
  PROVE  Graded
<1> SUFFICES ASSUME NEW p \in Positions, Held(world, p).slots # <<>>
             PROVE  LET slots == Held(world, p).slots
                    IN  /\ (ContainerSignal(slots) = 0) = (\A n \in DOMAIN slots : slots[n][1] <= 0)
                        /\ (ContainerSignal(slots) = 15)
                             = (\A n \in DOMAIN slots : slots[n][1] >= slots[n][2])
  BY Zenon DEF Graded
<1>1. Held(world, p) \in BlockEntities
  BY WorldTypes DEF LineOK, Held
<1>2. Held(world, p).slots \in SlotList
  BY <1>1 DEF BlockEntities, SlotList
<1> QED BY <1>2, ContainerRight

\* Whatever the line, the outputs of comparators agree wherever they are kept,
\* whatever a comparator reads it hears of, also through a block, unless the
\* change is one the program tells nobody of, and an empty and a full
\* container are told apart (synchronize_comparator_cache,
\* refresh_comparators_near and container_signal_from_fill).
THEOREM ComparatorsHear == ComparatorsSpec => []ComparatorsRight
<1>1. LineIInv => ComparatorsRight
  BY AllGraded DEF LineIInv, ComparatorsRight
<1> QED BY <1>1, Invariant, PTL
==============================================================================
