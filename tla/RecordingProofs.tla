--------------------------- MODULE RecordingProofs ---------------------------
(***************************************************************************)
(* Recordings and scenarios, for every region, world and run.              *)
(*                                                                         *)
(* A viewer of a recording sees the simulated world. The chunks that are   *)
(* sent lie within the radius announced before them, so the viewer keeps   *)
(* all of them; a chunk is sent empty only once and before any update in   *)
(* it; and while a delta is being written, each position either shows its  *)
(* final state or has the events to come that bring it there (Catching).   *)
(*                                                                         *)
(* The actions of a scenario are sorted once and taken from the list while *)
(* they are due; the second part splits that list at the current tick into *)
(* what was given, what is due and what is later. The quiet ticks that     *)
(* last until now are the interval the tracker counts.                     *)
(*                                                                         *)
(* In a batch, permits and the tasks that hold one are as many as ever, a  *)
(* trace file has a task that will remove it, and a task that passed its   *)
(* comparison has two traces that agree.                                   *)
(***************************************************************************)
EXTENDS ReplayWriter, ScenarioRun, ScenarioBatch, FiniteSetTheorems, FunctionTheorems, SequenceTheorems,
        WellFoundedInduction, TLAPS

Chunks == Int \X Int
Views == [loaded : SUBSET Chunks, block : [Positions -> Blocks], mover : [Positions -> Int],
          center : Chunks, radius : Int, clock : Int]
Recordings == [loaded : SUBSET Chunks, center : Chunks, radius : Int, stamp : Int,
               packetStamp : Int, view : Views]
WorldStates == [block : [Positions -> Blocks], mover : [Positions -> Int]]

-----------------------------------------------------------------------------
\* Geometry

\* The least of some natural numbers.
LEMMA LeastNatural ==
  ASSUME NEW T \in SUBSET Nat, T # {}
  PROVE  \E x \in T : \A y \in T : x <= y
<1>1. PICK x \in T : \A y \in T : ~(<<y, x>> \in OpToRel(<, Nat))
  BY WFMin, NatLessThanWellFounded
<1>2. \A y \in T : ~(y < x)
  BY <1>1 DEF OpToRel
<1> QED
  BY <1>2

\* A bounded set of integers has a maximum.
LEMMA MaxOfBounded ==
  ASSUME NEW S \in SUBSET Int, S # {}, NEW b \in Int, \A x \in S : x <= b
  PROVE  Max(S) \in S /\ \A y \in S : y <= Max(S)
<1> DEFINE T == {b - x : x \in S}
<1>1. T \in SUBSET Nat /\ T # {}
  <2>1. ASSUME NEW u \in T PROVE u \in Nat
    <3>1. PICK x \in S : u = b - x
      OBVIOUS
    <3>2. x \in Int /\ x <= b
      OBVIOUS
    <3> QED
      BY <3>1, <3>2
  <2>2. PICK x \in S : TRUE
    OBVIOUS
  <2>3. b - x \in T
    OBVIOUS
  <2> QED
    BY <2>1, <2>3
<1>2. PICK t \in T : \A u \in T : t <= u
  <2> HIDE DEF T
  <2> QED
    BY <1>1, LeastNatural
<1>3. PICK x \in S : t = b - x
  BY <1>2
<1>4. \A y \in S : x >= y
  <2> TAKE y \in S
  <2>1. b - y \in T
    OBVIOUS
  <2>2. b - x <= b - y
    BY <1>2, <1>3, <2>1
  <2> QED
    BY <2>2
<1>5. Max(S) \in S /\ \A y \in S : Max(S) >= y
  BY <1>3, <1>4 DEF Max
<1> QED
  BY <1>5

\* A finite set of integers is bounded: an element with the fewest above it is
\* the greatest.
LEMMA FiniteBounded ==
  ASSUME NEW S \in SUBSET Int, IsFiniteSet(S), S # {}
  PROVE  \E b \in S : \A x \in S : x <= b
<1> DEFINE above(x) == {y \in S : y > x}
           T == {Cardinality(above(x)) : x \in S}
<1>1. \A x \in S : IsFiniteSet(above(x)) /\ Cardinality(above(x)) \in Nat
  BY FS_Subset, FS_CardinalityType
<1>2. T \in SUBSET Nat /\ T # {}
  <2> HIDE DEF above
  <2> QED
    BY <1>1
<1>3. PICK t \in T : \A u \in T : t <= u
  <2> HIDE DEF T
  <2> QED
    BY <1>2, LeastNatural
<1>4. PICK b \in S : t = Cardinality(above(b))
  BY <1>3
<1>5. ASSUME NEW x \in S, x > b PROVE FALSE
  <2>1. above(x) \in SUBSET above(b) /\ x \in above(b) /\ x \notin above(x)
    <3> HIDE DEF above, T
    <3>1. \A i, j, k \in Int : i > j /\ k > i => k > j
      OBVIOUS
    <3>2. ~(x > x)
      OBVIOUS
    <3>3. x \in Int /\ b \in Int /\ \A y \in S : y \in Int
      OBVIOUS
    <3>4. \A y \in S : y > x => y > b
      BY <1>5, <3>1, <3>3
    <3> QED
      BY <1>5, <3>2, <3>4 DEF above
  <2>2. Cardinality(above(x)) \in T /\ t <= Cardinality(above(x))
    BY <1>3
  <2> HIDE DEF above
  <2>3. Cardinality(above(x)) <= Cardinality(above(b)) /\ Cardinality(above(x)) # Cardinality(above(b))
    BY <1>1, <2>1, FS_Subset
  <2> QED
    BY <1>1, <1>4, <2>2, <2>3
<1>6. \A x \in S : x <= b
  BY <1>5
<1> QED
  BY <1>6

LEMMA Distances ==
  ASSUME NEW c \in Chunks, NEW d \in Chunks
  PROVE  /\ Distance(c, d) \in Nat
         /\ \A n \in Int : Distance(c, d) <= n <=> Abs(c[1] - d[1]) <= n /\ Abs(c[2] - d[2]) <= n
<1>1. c[1] \in Int /\ c[2] \in Int /\ d[1] \in Int /\ d[2] \in Int
  BY DEF Chunks
<1> DEFINE a == Abs(c[1] - d[1])
           b == Abs(c[2] - d[2])
<1>2. a \in Nat /\ b \in Nat
  BY <1>1 DEF Abs
<1>3. Distance(c, d) = Max({a, b})
  BY DEF Distance
<1> HIDE DEF a, b
<1>4. \E m \in Int : \A x \in {a, b} : x <= m
  <2>1. CASE a <= b
    BY <1>2, <2>1
  <2>2. CASE b <= a
    BY <1>2, <2>2
  <2> QED
    BY <1>2, <2>1, <2>2
<1>5. Max({a, b}) \in {a, b} /\ \A y \in {a, b} : y <= Max({a, b})
  BY <1>2, <1>4, MaxOfBounded
<1>6. /\ Max({a, b}) \in Nat
      /\ \A n \in Int : Max({a, b}) <= n <=> a <= n /\ b <= n
  BY <1>2, <1>5
<1> QED
  BY <1>3, <1>6 DEF a, b

LEMMA ExpandedChunks ==
  ASSUME NEW S \in SUBSET Chunks
  PROVE  /\ Expanded(S) \in SUBSET Chunks
         /\ S \subseteq Expanded(S)
         /\ \A c \in Expanded(S) : \E s \in S : /\ c[1] - s[1] \in -1 .. 1
                                                /\ c[2] - s[2] \in -1 .. 1
<1>1. \A c \in Chunks : c = <<c[1], c[2]>> /\ c[1] \in Int /\ c[2] \in Int
  BY DEF Chunks
<1>2. ASSUME NEW c \in Expanded(S)
      PROVE  /\ c \in Chunks
             /\ \E s \in S : c[1] - s[1] \in -1 .. 1 /\ c[2] - s[2] \in -1 .. 1
  <2>1. PICK s \in S : c \in (s[1] - 1 .. s[1] + 1) \X (s[2] - 1 .. s[2] + 1)
    BY DEF Expanded
  <2>2. s[1] \in Int /\ s[2] \in Int
    BY <1>1
  <2>3. c[1] \in s[1] - 1 .. s[1] + 1 /\ c[2] \in s[2] - 1 .. s[2] + 1 /\ c = <<c[1], c[2]>>
    BY <2>1
  <2>4. c[1] \in Int /\ c[2] \in Int /\ c[1] - s[1] \in -1 .. 1 /\ c[2] - s[2] \in -1 .. 1
    BY <2>2, <2>3
  <2> QED
    BY <2>3, <2>4 DEF Chunks
<1>3. ASSUME NEW s \in S PROVE s \in Expanded(S)
  <2>1. s \in (s[1] - 1 .. s[1] + 1) \X (s[2] - 1 .. s[2] + 1)
    BY <1>1
  <2> QED
    BY <2>1 DEF Expanded
<1> QED
  BY <1>2, <1>3

\* The chunks around a finite set of chunks are within some distance.
LEMMA ExpandedBounded ==
  ASSUME NEW S \in SUBSET Chunks, IsFiniteSet(S), NEW d \in Chunks
  PROVE  \E b \in Int : \A c \in Expanded(S) : Distance(c, d) <= b
<1>1. CASE S = {}
  BY <1>1 DEF Expanded
<1>2. CASE S # {}
  <2> DEFINE f == [s \in S |-> Distance(s, d)]
             T == {Distance(s, d) : s \in S}
  <2>1. f \in Surjection(S, T)
    BY DEF Surjection
  <2>2. IsFiniteSet(T)
    <3> HIDE DEF f, T
    <3> QED
      BY <2>1, FS_Surjection
  <2>3. T \in SUBSET Int /\ T # {}
    BY <1>2, Distances
  <2>4. PICK b \in T : \A x \in T : x <= b
    <3> HIDE DEF T
    <3> QED
      BY <2>2, <2>3, FiniteBounded
  <2>5. b \in Int /\ \A s \in S : Distance(s, d) <= b
    BY <2>3, <2>4
  <2> HIDE DEF f, T
  <2>6. ASSUME NEW c \in Expanded(S) PROVE Distance(c, d) <= b + 1
    <3>1. PICK s \in S : c[1] - s[1] \in -1 .. 1 /\ c[2] - s[2] \in -1 .. 1
      BY ExpandedChunks
    <3>2. c \in Chunks
      BY ExpandedChunks
    <3>3. Abs(s[1] - d[1]) <= b /\ Abs(s[2] - d[2]) <= b
      BY <2>5, Distances
    <3>4. /\ c[1] \in Int /\ c[2] \in Int /\ d[1] \in Int /\ d[2] \in Int
          /\ s[1] \in Int /\ s[2] \in Int
      BY <3>2 DEF Chunks
    <3>5. Abs(c[1] - d[1]) <= b + 1 /\ Abs(c[2] - d[2]) <= b + 1
      BY <2>5, <3>1, <3>3, <3>4 DEF Abs
    <3> QED
      BY <2>5, <3>2, <3>5, Distances
  <2> QED
    BY <2>5, <2>6
<1> QED
  BY <1>1, <1>2

\* A radius taken as the maximum of distances covers the chunks.
LEMMA RadiusCovers ==
  ASSUME NEW S \in SUBSET Chunks, NEW d \in Chunks, NEW b \in Int,
         \A c \in S : Distance(c, d) <= b
  PROVE  LET radius == Max({Distance(c, d) : c \in S} \cup {ViewDistance})
         IN radius \in Int /\ \A c \in S : Distance(c, d) <= radius
<1> DEFINE T == {Distance(c, d) : c \in S} \cup {ViewDistance}
<1>1. ViewDistance \in Nat /\ \A c \in S : Distance(c, d) \in Nat
  BY ReplayAssumption, Distances
<1>2. T \in SUBSET Int /\ T # {}
  BY <1>1
<1>3. \E m \in Int : \A x \in T : x <= m
  <2>1. CASE b <= ViewDistance
    BY <1>1, <2>1
  <2>2. CASE ViewDistance <= b
    BY <1>1, <2>2
  <2> QED
    BY <1>1, <2>1, <2>2
<1>4. Max(T) \in T /\ \A y \in T : y <= Max(T)
  <2> HIDE DEF T
  <2> QED
    BY <1>2, <1>3, MaxOfBounded
<1>5. \A c \in S : Distance(c, d) \in T
  OBVIOUS
<1> HIDE DEF T
<1>6. Max(T) \in Int /\ \A c \in S : Distance(c, d) <= Max(T)
  BY <1>2, <1>4, <1>5
<1> QED
  BY <1>6 DEF T

-----------------------------------------------------------------------------
\* The simulated world after the events of a delta

Events == [kind : {"block"}, pos : Positions, state : Blocks]
          \cup [kind : {"data"}, pos : Positions, settle : Int]
          \cup [kind : {"removed", "event"}, pos : Positions]

IsBlock(e, p) == e.kind = "block" /\ e.pos = p
IsData(e, p) == e.kind = "data" /\ e.pos = p
IsRemoved(e, p) == e.kind = "removed" /\ e.pos = p
IsPiston(e, p) == IsData(e, p) \/ IsRemoved(e, p)

\* The worlds after 0, 1, ... n of the events
IsRun(f, w, events, n) ==
  f = [i \in 0 .. n |-> IF i = 0 THEN w ELSE Applied(f[i - 1], events[i])]

LEMMA RunExtends ==
  ASSUME NEW w, NEW events, NEW n \in Nat, n # 0, NEW g, IsRun(g, w, events, n - 1)
  PROVE  \E f : IsRun(f, w, events, n)
<1> DEFINE f == [i \in 0 .. n |-> IF i = n THEN Applied(g[n - 1], events[n]) ELSE g[i]]
<1>1. \A i \in 0 .. n - 1 : g[i] = IF i = 0 THEN w ELSE Applied(g[i - 1], events[i])
  BY DEF IsRun
<1>2. ASSUME NEW i \in 0 .. n
      PROVE  f[i] = IF i = 0 THEN w ELSE Applied(f[i - 1], events[i])
  <2>1. CASE i = n
    <3>1. f[i] = Applied(g[n - 1], events[n]) /\ f[n - 1] = g[n - 1]
      BY <2>1
    <3> QED
      BY <2>1, <3>1
  <2>2. CASE i # n /\ i # 0
    <3>1. f[i] = g[i] /\ f[i - 1] = g[i - 1] /\ i \in 0 .. n - 1
      BY <2>2
    <3> QED
      BY <1>1, <2>2, <3>1
  <2>3. CASE i # n /\ i = 0
    <3>1. f[i] = g[i] /\ i \in 0 .. n - 1
      BY <2>3
    <3> QED
      BY <1>1, <2>3, <3>1
  <2> QED
    BY <2>1, <2>2, <2>3
<1>3. f = [i \in 0 .. n |-> f[i]]
  OBVIOUS
<1> HIDE DEF f
<1>4. f = [i \in 0 .. n |-> IF i = 0 THEN w ELSE Applied(f[i - 1], events[i])]
  BY <1>2, <1>3
<1> QED
  BY <1>4 DEF IsRun

LEMMA RunExists ==
  ASSUME NEW w, NEW events, NEW m \in Nat
  PROVE  \E f : IsRun(f, w, events, m)
<1> DEFINE T == {n \in Nat : ~\E f : IsRun(f, w, events, n)}
<1>1. ASSUME T # {} PROVE FALSE
  <2>1. PICK n \in T : \A k \in T : n <= k
    <3>1. T \in SUBSET Nat
      OBVIOUS
    <3> HIDE DEF T
    <3> QED
      BY <1>1, <3>1, LeastNatural
  <2>2. CASE n = 0
    <3> DEFINE f == [i \in 0 .. 0 |-> w]
    <3>1. f = [i \in 0 .. 0 |-> IF i = 0 THEN w ELSE Applied(f[i - 1], events[i])]
      OBVIOUS
    <3> HIDE DEF f
    <3>2. IsRun(f, w, events, 0)
      BY <3>1 DEF IsRun
    <3> QED
      BY <2>2, <3>2
  <2>3. CASE n # 0
    <3>1. n \in Nat /\ n - 1 \in Nat /\ ~(n <= n - 1)
      BY <2>3
    <3>2. n - 1 \notin T
      BY <2>1, <3>1
    <3>3. PICK g : IsRun(g, w, events, n - 1)
      BY <3>1, <3>2
    <3>4. \E f : IsRun(f, w, events, n)
      BY <2>3, <3>1, <3>3, RunExtends
    <3> QED
      BY <3>4
  <2> QED
    BY <2>2, <2>3
<1> QED
  BY <1>1

LEMMA AfterRun ==
  ASSUME NEW w, NEW events \in Seq(Events)
  PROVE  \E f : IsRun(f, w, events, Len(events)) /\ After(w, events) = f[Len(events)]
<1> DEFINE step == CHOOSE f : IsRun(f, w, events, Len(events))
<1>1. IsRun(step, w, events, Len(events))
  BY RunExists
<1>2. After(w, events) = step[Len(events)]
  BY DEF After, IsRun
<1> HIDE DEF step
<1> QED
  BY <1>1, <1>2

\* The last of the first n events that speaks of a position decides what is
\* there in v, when w was before them.
BlockSaid(v, w, events, n) ==
  \A p \in Positions :
    /\ (\A i \in 1 .. n : ~IsBlock(events[i], p)) => v.block[p] = w.block[p]
    /\ \A i \in 1 .. n :
         IsBlock(events[i], p) /\ (\A j \in i + 1 .. n : ~IsBlock(events[j], p))
           => v.block[p] = events[i].state
MoverSaid(v, w, events, n) ==
  \A p \in Positions :
    /\ (\A i \in 1 .. n : ~IsPiston(events[i], p)) => v.mover[p] = w.mover[p]
    /\ \A i \in 1 .. n :
         IsPiston(events[i], p) /\ (\A j \in i + 1 .. n : ~IsPiston(events[j], p))
           => v.mover[p] = MoverOf(events[i])
Said(v, w, events, n) ==
  v \in WorldStates /\ BlockSaid(v, w, events, n) /\ MoverSaid(v, w, events, n)

LEMMA AppliedRight ==
  ASSUME NEW v \in WorldStates, NEW e \in Events
  PROVE  /\ Applied(v, e) \in WorldStates
         /\ \A p \in Positions :
              /\ IsBlock(e, p) => Applied(v, e).block[p] = e.state
              /\ ~IsBlock(e, p) => Applied(v, e).block[p] = v.block[p]
              /\ IsPiston(e, p) => Applied(v, e).mover[p] = MoverOf(e)
              /\ ~IsPiston(e, p) => Applied(v, e).mover[p] = v.mover[p]
<1>1. e.kind = "block" => e.state \in Blocks
  BY DEF Events
<1>2. MoverOf(e) \in Int
  BY DEF Events, MoverOf, NoMover
<1>3. v.block \in [Positions -> Blocks] /\ v.mover \in [Positions -> Int]
  BY DEF WorldStates
<1> DEFINE b == [p \in Positions |-> IF e.kind = "block" /\ e.pos = p THEN e.state ELSE v.block[p]]
           m == [p \in Positions |-> IF e.kind \in {"data", "removed"} /\ e.pos = p
                                     THEN MoverOf(e) ELSE v.mover[p]]
<1>4. b \in [Positions -> Blocks]
  BY <1>1, <1>3
<1>5. m \in [Positions -> Int]
  BY <1>2, <1>3
<1>6. Applied(v, e) = [block |-> b, mover |-> m]
  BY DEF Applied
<1>7. \A p \in Positions :
        /\ IsBlock(e, p) => b[p] = e.state
        /\ ~IsBlock(e, p) => b[p] = v.block[p]
        /\ IsPiston(e, p) => m[p] = MoverOf(e)
        /\ ~IsPiston(e, p) => m[p] = v.mover[p]
  BY DEF IsBlock, IsPiston, IsData, IsRemoved
<1> HIDE DEF b, m
<1> QED
  BY <1>4, <1>5, <1>6, <1>7 DEF WorldStates

LEMMA SaidNext ==
  ASSUME NEW u \in WorldStates, NEW w, NEW events \in Seq(Events), NEW n \in 1 .. Len(events),
         Said(u, w, events, n - 1)
  PROVE  Said(Applied(u, events[n]), w, events, n)
<1> DEFINE v == Applied(u, events[n])
<1>1. events[n] \in Events
  OBVIOUS
<1>2. v \in WorldStates
  BY <1>1, AppliedRight
<1>3. \A p \in Positions :
        /\ IsBlock(events[n], p) => v.block[p] = events[n].state
        /\ ~IsBlock(events[n], p) => v.block[p] = u.block[p]
        /\ IsPiston(events[n], p) => v.mover[p] = MoverOf(events[n])
        /\ ~IsPiston(events[n], p) => v.mover[p] = u.mover[p]
  BY <1>1, AppliedRight
<1>4. n \in 1 .. n /\ n \in Nat /\ n > 0 /\ \A i \in 1 .. n : i # n => i \in 1 .. n - 1 /\ n \in i + 1 .. n
  OBVIOUS
<1>5. \A i \in 1 .. n - 1 : i \in 1 .. n /\ \A j \in i + 1 .. n - 1 : j \in i + 1 .. n
  OBVIOUS
<1> HIDE DEF v
<1>6. BlockSaid(v, w, events, n)
  <2> SUFFICES ASSUME NEW p \in Positions
               PROVE  /\ (\A i \in 1 .. n : ~IsBlock(events[i], p)) => v.block[p] = w.block[p]
                      /\ \A i \in 1 .. n :
                           IsBlock(events[i], p) /\ (\A j \in i + 1 .. n : ~IsBlock(events[j], p))
                             => v.block[p] = events[i].state
    BY DEF BlockSaid
  <2>1. /\ (\A i \in 1 .. n - 1 : ~IsBlock(events[i], p)) => u.block[p] = w.block[p]
        /\ \A i \in 1 .. n - 1 :
             IsBlock(events[i], p) /\ (\A j \in i + 1 .. n - 1 : ~IsBlock(events[j], p))
               => u.block[p] = events[i].state
    BY DEF Said, BlockSaid
  <2>2. CASE IsBlock(events[n], p)
    BY <1>3, <1>4, <2>2
  <2>3. CASE ~IsBlock(events[n], p)
    <3>1. v.block[p] = u.block[p]
      BY <1>3, <2>3
    <3>2. (\A i \in 1 .. n : ~IsBlock(events[i], p)) => v.block[p] = w.block[p]
      BY <1>5, <2>1, <3>1
    <3>3. ASSUME NEW i \in 1 .. n, IsBlock(events[i], p), \A j \in i + 1 .. n : ~IsBlock(events[j], p)
          PROVE  v.block[p] = events[i].state
      <4>1. i # n
        BY <2>3, <3>3
      <4>2. i \in 1 .. n - 1 /\ \A j \in i + 1 .. n - 1 : ~IsBlock(events[j], p)
        BY <1>4, <1>5, <3>3, <4>1
      <4> QED
        BY <2>1, <3>1, <3>3, <4>2
    <3> QED
      BY <3>2, <3>3
  <2> QED
    BY <2>2, <2>3
<1>7. MoverSaid(v, w, events, n)
  <2> SUFFICES ASSUME NEW p \in Positions
               PROVE  /\ (\A i \in 1 .. n : ~IsPiston(events[i], p)) => v.mover[p] = w.mover[p]
                      /\ \A i \in 1 .. n :
                           IsPiston(events[i], p) /\ (\A j \in i + 1 .. n : ~IsPiston(events[j], p))
                             => v.mover[p] = MoverOf(events[i])
    BY DEF MoverSaid
  <2>1. /\ (\A i \in 1 .. n - 1 : ~IsPiston(events[i], p)) => u.mover[p] = w.mover[p]
        /\ \A i \in 1 .. n - 1 :
             IsPiston(events[i], p) /\ (\A j \in i + 1 .. n - 1 : ~IsPiston(events[j], p))
               => u.mover[p] = MoverOf(events[i])
    BY DEF Said, MoverSaid
  <2>2. CASE IsPiston(events[n], p)
    BY <1>3, <1>4, <2>2
  <2>3. CASE ~IsPiston(events[n], p)
    <3>1. v.mover[p] = u.mover[p]
      BY <1>3, <2>3
    <3>2. (\A i \in 1 .. n : ~IsPiston(events[i], p)) => v.mover[p] = w.mover[p]
      BY <1>5, <2>1, <3>1
    <3>3. ASSUME NEW i \in 1 .. n, IsPiston(events[i], p), \A j \in i + 1 .. n : ~IsPiston(events[j], p)
          PROVE  v.mover[p] = MoverOf(events[i])
      <4>1. i # n
        BY <2>3, <3>3
      <4>2. i \in 1 .. n - 1 /\ \A j \in i + 1 .. n - 1 : ~IsPiston(events[j], p)
        BY <1>4, <1>5, <3>3, <4>1
      <4> QED
        BY <2>1, <3>1, <3>3, <4>2
    <3> QED
      BY <3>2, <3>3
  <2> QED
    BY <2>2, <2>3
<1> QED
  BY <1>2, <1>6, <1>7 DEF Said, v

\* What is at a position after a delta is what its last event about it says.
LEMMA AfterSaid ==
  ASSUME NEW w \in WorldStates, NEW events \in Seq(Events)
  PROVE  Said(After(w, events), w, events, Len(events))
<1>1. PICK f : IsRun(f, w, events, Len(events)) /\ After(w, events) = f[Len(events)]
  BY AfterRun
<1> DEFINE N == Len(events)
           T == {n \in 0 .. N : ~Said(f[n], w, events, n)}
<1>2. N \in Nat
  OBVIOUS
<1>3. \A i \in 0 .. N : f[i] = IF i = 0 THEN w ELSE Applied(f[i - 1], events[i])
  BY <1>1 DEF IsRun
<1>4. ASSUME T # {} PROVE FALSE
  <2>1. PICK n \in T : \A k \in T : n <= k
    <3>1. T \in SUBSET Nat
      OBVIOUS
    <3> HIDE DEF T
    <3> QED
      BY <1>4, <3>1, LeastNatural
  <2>2. n \in 0 .. N /\ ~Said(f[n], w, events, n)
    OBVIOUS
  <2> HIDE DEF N
  <2>3. CASE n = 0
    <3>1. f[0] = w
      BY <1>3, <2>2, <2>3
    <3>2. Said(w, w, events, 0)
      BY DEF Said, BlockSaid, MoverSaid
    <3> QED
      BY <2>2, <2>3, <3>1, <3>2
  <2>4. CASE n # 0
    <3>1. n - 1 \in 0 .. N /\ ~(n <= n - 1) /\ n \in 1 .. N
      BY <1>2, <2>2, <2>4
    <3>2. Said(f[n - 1], w, events, n - 1)
      BY <2>1, <3>1
    <3>3. f[n] = Applied(f[n - 1], events[n])
      BY <1>3, <2>2, <2>4
    <3>4. f[n - 1] \in WorldStates
      BY <3>2 DEF Said
    <3>5. Said(f[n], w, events, n)
      BY <3>1, <3>2, <3>3, <3>4, SaidNext DEF N
    <3> QED
      BY <2>2, <3>5
  <2> QED
    BY <2>3, <2>4
<1>5. Said(f[N], w, events, N)
  BY <1>2, <1>4
<1> QED
  BY <1>1, <1>5

\* The frame of the render trace says the same.
LEMMA FramedRight ==
  ASSUME NEW w \in WorldStates, NEW events \in Seq(Events), NEW t, NEW stamp,
         t.block = w.block, t.mover = w.mover
  PROVE  /\ Framed(t, stamp, events).block = After(w, events).block
         /\ Framed(t, stamp, events).mover = After(w, events).mover
         /\ Framed(t, stamp, events).ticks = t.ticks
<1> DEFINE N == Len(events)
           v == After(w, events)
           blocks(p) == {i \in DOMAIN events : events[i].kind \in {"block"} /\ events[i].pos = p}
           pistons(p) == {i \in DOMAIN events : events[i].kind \in {"data", "removed"} /\ events[i].pos = p}
           b == [p \in Positions |-> IF blocks(p) = {} THEN t.block[p]
                                     ELSE events[Max(blocks(p))].state]
           m == [p \in Positions |-> IF pistons(p) = {} THEN t.mover[p]
                                     ELSE MoverOf(events[Max(pistons(p))])]
<1>1. N \in Nat /\ DOMAIN events = 1 .. N
  OBVIOUS
<1>2. v \in WorldStates /\ BlockSaid(v, w, events, N) /\ MoverSaid(v, w, events, N)
  BY AfterSaid DEF Said
<1>3. v.block = [p \in Positions |-> v.block[p]] /\ v.mover = [p \in Positions |-> v.mover[p]]
  BY <1>2 DEF WorldStates
<1>4. /\ w.block = [p \in Positions |-> w.block[p]] /\ w.mover = [p \in Positions |-> w.mover[p]]
  BY DEF WorldStates
<1>5. CASE \A i \in DOMAIN events : events[i].kind = "event"
  <2>1. Framed(t, stamp, events) = t
    BY <1>5 DEF Framed
  <2>2. \A p \in Positions : \A i \in 1 .. N : ~IsBlock(events[i], p) /\ ~IsPiston(events[i], p)
    BY <1>1, <1>5 DEF IsBlock, IsPiston, IsData, IsRemoved
  <2> HIDE DEF v, N
  <2>3. \A p \in Positions : v.block[p] = w.block[p] /\ v.mover[p] = w.mover[p]
    BY <1>2, <2>2 DEF BlockSaid, MoverSaid
  <2>4. v.block = w.block /\ v.mover = w.mover
    BY <1>3, <1>4, <2>3
  <2> QED
    BY <2>1, <2>4 DEF v
<1>6. CASE ~\A i \in DOMAIN events : events[i].kind = "event"
  <2>1. Framed(t, stamp, events) = [clock |-> stamp, ticks |-> t.ticks, block |-> b, mover |-> m]
    BY <1>6 DEF Framed
  <2> HIDE DEF v, N
  <2>2. ASSUME NEW p \in Positions PROVE b[p] = v.block[p]
    <3>1. blocks(p) \in SUBSET Int /\ \A i \in blocks(p) : i \in 1 .. N /\ IsBlock(events[i], p) /\ i <= N
      BY <1>1 DEF IsBlock
    <3>2. \A i \in 1 .. N : IsBlock(events[i], p) => i \in blocks(p)
      BY <1>1 DEF IsBlock
    <3>3. b[p] = IF blocks(p) = {} THEN w.block[p] ELSE events[Max(blocks(p))].state
      OBVIOUS
    <3> HIDE DEF blocks, b
    <3>4. CASE blocks(p) = {}
      BY <1>2, <3>2, <3>3, <3>4 DEF BlockSaid
    <3>5. CASE blocks(p) # {}
      <4> DEFINE S == blocks(p)
      <4>a. S \in SUBSET Int /\ S # {} /\ N \in Int /\ \A x \in S : x <= N
        BY <1>1, <3>1, <3>5
      <4> HIDE DEF S
      <4>b. Max(S) \in S /\ \A j \in S : j <= Max(S)
        BY <4>a, MaxOfBounded
      <4>1. PICK i \in blocks(p) : i = Max(blocks(p)) /\ \A j \in blocks(p) : j <= i
        BY <4>b DEF S
      <4>2. i \in 1 .. N /\ IsBlock(events[i], p)
        BY <3>1
      <4>3. \A j \in i + 1 .. N : j \in 1 .. N /\ ~(j <= i)
        BY <4>2, <1>1
      <4>4. \A j \in i + 1 .. N : ~IsBlock(events[j], p)
        BY <3>2, <4>1, <4>3
      <4>5. v.block[p] = events[i].state
        BY <1>2, <4>2, <4>4 DEF BlockSaid
      <4> QED
        BY <3>3, <3>5, <4>1, <4>5
    <3> QED
      BY <3>4, <3>5
  <2>3. ASSUME NEW p \in Positions PROVE m[p] = v.mover[p]
    <3>1. pistons(p) \in SUBSET Int /\ \A i \in pistons(p) : i \in 1 .. N /\ IsPiston(events[i], p) /\ i <= N
      BY <1>1 DEF IsPiston, IsData, IsRemoved
    <3>2. \A i \in 1 .. N : IsPiston(events[i], p) => i \in pistons(p)
      BY <1>1 DEF IsPiston, IsData, IsRemoved
    <3>3. m[p] = IF pistons(p) = {} THEN w.mover[p] ELSE MoverOf(events[Max(pistons(p))])
      OBVIOUS
    <3> HIDE DEF pistons, m
    <3>4. CASE pistons(p) = {}
      BY <1>2, <3>2, <3>3, <3>4 DEF MoverSaid
    <3>5. CASE pistons(p) # {}
      <4> DEFINE S == pistons(p)
      <4>a. S \in SUBSET Int /\ S # {} /\ N \in Int /\ \A x \in S : x <= N
        BY <1>1, <3>1, <3>5
      <4> HIDE DEF S
      <4>b. Max(S) \in S /\ \A j \in S : j <= Max(S)
        BY <4>a, MaxOfBounded
      <4>1. PICK i \in pistons(p) : i = Max(pistons(p)) /\ \A j \in pistons(p) : j <= i
        BY <4>b DEF S
      <4>2. i \in 1 .. N /\ IsPiston(events[i], p)
        BY <3>1
      <4>3. \A j \in i + 1 .. N : j \in 1 .. N /\ ~(j <= i)
        BY <4>2, <1>1
      <4>4. \A j \in i + 1 .. N : ~IsPiston(events[j], p)
        BY <3>2, <4>1, <4>3
      <4>5. v.mover[p] = MoverOf(events[i])
        BY <1>2, <4>2, <4>4 DEF MoverSaid
      <4> QED
        BY <3>3, <3>5, <4>1, <4>5
    <3> QED
      BY <3>4, <3>5
  <2>4. b = [p \in Positions |-> b[p]] /\ m = [p \in Positions |-> m[p]]
    OBVIOUS
  <2> HIDE DEF b, m
  <2>5. b = v.block /\ m = v.mover
    BY <1>3, <2>2, <2>3, <2>4
  <2> QED
    BY <2>1, <2>5 DEF v
<1> QED
  BY <1>5, <1>6

-----------------------------------------------------------------------------
\* The deltas of a step

\* How the events at a position belong together, when w was before them
Tidy(q, w, p) ==
  /\ \A i, j \in DOMAIN q : IsBlock(q[i], p) /\ IsBlock(q[j], p) => i = j
  /\ \A i, j \in DOMAIN q : IsData(q[i], p) /\ IsData(q[j], p) => i = j
  /\ \A i, j \in DOMAIN q : IsRemoved(q[i], p) /\ IsRemoved(q[j], p) => i = j
  /\ \A i, j \in DOMAIN q : ~(IsData(q[i], p) /\ IsRemoved(q[j], p))
  /\ \A i \in DOMAIN q : IsData(q[i], p) =>
       \E j \in DOMAIN q : j < i /\ IsBlock(q[j], p) /\ q[j].state = Moving
  /\ \A i \in DOMAIN q : IsRemoved(q[i], p) =>
       w.mover[p] # NoMover /\ \E j \in DOMAIN q : IsBlock(q[j], p) /\ q[j].state # Moving
  /\ \A i \in DOMAIN q : IsBlock(q[i], p) =>
       \/ w.mover[p] = NoMover
       \/ \E j \in DOMAIN q : IsRemoved(q[j], p)

\* The events of q at p are those of s, k places later.
PartOf(q, p, s, k) ==
  /\ \A i \in DOMAIN q : q[i].pos = p => i - k \in DOMAIN s /\ s[i - k] = q[i]
  /\ \A i \in DOMAIN s : i + k \in DOMAIN q /\ q[i + k] = s[i]

Parts(w, p, t) == {<<>>} \cup Changes(w, p, t)

LEMMA PartsTidy ==
  ASSUME NEW w \in WorldStates, NEW p \in Positions, NEW t \in Int, NEW s \in Parts(w, p, t)
  PROVE  /\ s \in Seq(Events)
         /\ \A i \in DOMAIN s : s[i].pos = p
         /\ Tidy(s, w, p)
<1>1. \A state \in Blocks :
        /\ Block(p, state) \in Events /\ Block(p, state).pos = p
        /\ IsBlock(Block(p, state), p) /\ ~IsData(Block(p, state), p) /\ ~IsRemoved(Block(p, state), p)
        /\ Block(p, state).state = state
  BY DEF Block, Events, IsBlock, IsData, IsRemoved
<1>2. /\ Data(p, t) \in Events /\ Data(p, t).pos = p
      /\ ~IsBlock(Data(p, t), p) /\ IsData(Data(p, t), p) /\ ~IsRemoved(Data(p, t), p)
  BY DEF Data, Events, IsBlock, IsData, IsRemoved, SettleDelay
<1>3. /\ Removed(p) \in Events /\ Removed(p).pos = p
      /\ ~IsBlock(Removed(p), p) /\ ~IsData(Removed(p), p) /\ IsRemoved(Removed(p), p)
  BY DEF Removed, Events, IsBlock, IsData, IsRemoved
<1>4. /\ Event(p) \in Events /\ Event(p).pos = p
      /\ ~IsBlock(Event(p), p) /\ ~IsData(Event(p), p) /\ ~IsRemoved(Event(p), p)
  BY DEF Event, Events, IsBlock, IsData, IsRemoved
<1>5. /\ Air \in Blocks /\ Moving \in Blocks /\ "stone" \in Blocks
      /\ Air # Moving /\ "stone" # Moving
  <2>1. Air \in Blocks /\ Moving \in Blocks /\ "stone" \in Blocks
    BY DEF Blocks
  <2>2. Air # Moving /\ "stone" # Moving
    BY DEF Air, Moving
  <2> QED
    BY <2>1, <2>2
<1>6. \/ s = <<>> \/ s = <<Event(p)>>
      \/ w.mover[p] # NoMover /\ (s = <<Removed(p), Block(p, "stone")>> \/ s = <<Block(p, Air), Removed(p)>>)
      \/ w.mover[p] = NoMover /\ s = <<Block(p, Moving), Data(p, t)>>
      \/ w.mover[p] = NoMover /\ \E state \in Blocks : s = <<Block(p, state)>>
  BY <1>5 DEF Parts, Changes
<1> HIDE DEF Block, Data, Removed, Event
<1>7. CASE s = <<>>
  BY <1>7 DEF Tidy
<1>8. CASE s = <<Event(p)>>
  BY <1>4, <1>8 DEF Tidy
<1>9. CASE w.mover[p] # NoMover /\ s = <<Removed(p), Block(p, "stone")>>
  BY <1>1, <1>3, <1>5, <1>9 DEF Tidy
<1>10. CASE w.mover[p] # NoMover /\ s = <<Block(p, Air), Removed(p)>>
  BY <1>1, <1>3, <1>5, <1>10 DEF Tidy
<1>11. CASE w.mover[p] = NoMover /\ s = <<Block(p, Moving), Data(p, t)>>
  BY <1>1, <1>2, <1>5, <1>11 DEF Tidy
<1>12. CASE w.mover[p] = NoMover /\ \E state \in Blocks : s = <<Block(p, state)>>
  BY <1>1, <1>12 DEF Tidy
<1> QED
  BY <1>6, <1>7, <1>8, <1>9, <1>10, <1>11, <1>12

LEMMA TidyPart ==
  ASSUME NEW w, NEW p, NEW k \in Nat, NEW q, NEW s, Tidy(s, w, p), PartOf(q, p, s, k),
         DOMAIN q \in SUBSET Int, DOMAIN s \in SUBSET Int
  PROVE  Tidy(q, w, p)
<1>1. /\ \A i \in DOMAIN q : q[i].pos = p => i - k \in DOMAIN s /\ s[i - k] = q[i]
      /\ \A i \in DOMAIN s : i + k \in DOMAIN q /\ q[i + k] = s[i]
  BY DEF PartOf
<1>2. /\ \A i \in DOMAIN q : i \in Int
      /\ \A i \in DOMAIN s : i \in Int
  OBVIOUS
<1>3. \A i \in DOMAIN q : IsBlock(q[i], p) \/ IsData(q[i], p) \/ IsRemoved(q[i], p) => q[i].pos = p
  BY DEF IsBlock, IsData, IsRemoved
<1>4. /\ \A i, j \in DOMAIN s : IsBlock(s[i], p) /\ IsBlock(s[j], p) => i = j
      /\ \A i, j \in DOMAIN s : IsData(s[i], p) /\ IsData(s[j], p) => i = j
      /\ \A i, j \in DOMAIN s : IsRemoved(s[i], p) /\ IsRemoved(s[j], p) => i = j
      /\ \A i, j \in DOMAIN s : ~(IsData(s[i], p) /\ IsRemoved(s[j], p))
      /\ \A i \in DOMAIN s : IsData(s[i], p) =>
           \E j \in DOMAIN s : j < i /\ IsBlock(s[j], p) /\ s[j].state = Moving
      /\ \A i \in DOMAIN s : IsRemoved(s[i], p) =>
           w.mover[p] # NoMover /\ \E j \in DOMAIN s : IsBlock(s[j], p) /\ s[j].state # Moving
      /\ \A i \in DOMAIN s : IsBlock(s[i], p) =>
           \/ w.mover[p] = NoMover
           \/ \E j \in DOMAIN s : IsRemoved(s[j], p)
  BY DEF Tidy
<1>5. /\ \A i, j \in DOMAIN q : IsBlock(q[i], p) /\ IsBlock(q[j], p) => i = j
      /\ \A i, j \in DOMAIN q : IsData(q[i], p) /\ IsData(q[j], p) => i = j
      /\ \A i, j \in DOMAIN q : IsRemoved(q[i], p) /\ IsRemoved(q[j], p) => i = j
      /\ \A i, j \in DOMAIN q : ~(IsData(q[i], p) /\ IsRemoved(q[j], p))
  <2> SUFFICES ASSUME NEW i \in DOMAIN q, NEW j \in DOMAIN q
               PROVE  /\ IsBlock(q[i], p) /\ IsBlock(q[j], p) => i = j
                      /\ IsData(q[i], p) /\ IsData(q[j], p) => i = j
                      /\ IsRemoved(q[i], p) /\ IsRemoved(q[j], p) => i = j
                      /\ ~(IsData(q[i], p) /\ IsRemoved(q[j], p))
    OBVIOUS
  <2>1. i - k = j - k => i = j
    BY <1>2
  <2> QED
    BY <1>1, <1>3, <1>4, <2>1
<1>6. ASSUME NEW i \in DOMAIN q, IsData(q[i], p)
      PROVE  \E j \in DOMAIN q : j < i /\ IsBlock(q[j], p) /\ q[j].state = Moving
  <2>1. i - k \in DOMAIN s /\ IsData(s[i - k], p)
    BY <1>1, <1>3, <1>6
  <2>2. PICK j \in DOMAIN s : j < i - k /\ IsBlock(s[j], p) /\ s[j].state = Moving
    BY <1>4, <2>1
  <2>3. j + k < i
    BY <1>2, <2>2
  <2>4. j + k \in DOMAIN q /\ IsBlock(q[j + k], p) /\ q[j + k].state = Moving
    BY <1>1, <2>2
  <2> QED
    BY <2>3, <2>4
<1>7. ASSUME NEW i \in DOMAIN q, IsRemoved(q[i], p)
      PROVE  w.mover[p] # NoMover /\ \E j \in DOMAIN q : IsBlock(q[j], p) /\ q[j].state # Moving
  <2>1. i - k \in DOMAIN s /\ IsRemoved(s[i - k], p)
    BY <1>1, <1>3, <1>7
  <2>2. PICK j \in DOMAIN s : IsBlock(s[j], p) /\ s[j].state # Moving
    BY <1>4, <2>1
  <2>3. j + k \in DOMAIN q /\ IsBlock(q[j + k], p) /\ q[j + k].state # Moving
    BY <1>1, <2>2
  <2> QED
    BY <1>4, <2>1, <2>3
<1>8. ASSUME NEW i \in DOMAIN q, IsBlock(q[i], p)
      PROVE  w.mover[p] = NoMover \/ \E j \in DOMAIN q : IsRemoved(q[j], p)
  <2>1. i - k \in DOMAIN s /\ IsBlock(s[i - k], p)
    BY <1>1, <1>3, <1>8
  <2>2. CASE w.mover[p] = NoMover
    BY <2>2
  <2>3. CASE w.mover[p] # NoMover
    <3>1. PICK j \in DOMAIN s : IsRemoved(s[j], p)
      BY <1>4, <2>1, <2>3
    <3>2. j + k \in DOMAIN q /\ IsRemoved(q[j + k], p)
      BY <1>1, <3>1
    <3> QED
      BY <3>2
  <2> QED
    BY <2>2, <2>3
<1> QED
  BY <1>5, <1>6, <1>7, <1>8 DEF Tidy

LEMMA DeltasTidy ==
  ASSUME NEW w \in WorldStates, NEW t \in Int, NEW q \in Deltas(w, t)
  PROVE  q \in Seq(Events) /\ \A p \in Positions : Tidy(q, w, p)
<1>1. \A p \in Positions : Changes(w, p, t) \subseteq Parts(w, p, t) /\ <<>> \in Parts(w, p, t)
  BY DEF Parts
<1>2. \A p \in Positions : \A s \in Parts(w, p, t) :
        s \in Seq(Events) /\ (\A i \in DOMAIN s : s[i].pos = p) /\ Tidy(s, w, p)
  BY PartsTidy
<1>3. ASSUME NEW p \in Positions, NEW k \in Nat, NEW s \in Parts(w, p, t),
             q \in Seq(Events), PartOf(q, p, s, k)
      PROVE  Tidy(q, w, p)
  <2>1. Tidy(s, w, p) /\ s \in Seq(Events)
    BY <1>2
  <2>2. DOMAIN q \in SUBSET Int /\ DOMAIN s \in SUBSET Int
    BY <1>3, <2>1
  <2> QED
    BY <1>3, <2>1, <2>2, TidyPart
<1>4. \/ q = <<>>
      \/ \E r \in Positions : q \in Changes(w, r, t)
      \/ \E r, u \in Positions : r # u /\ \E a \in Changes(w, r, t), b \in Changes(w, u, t) : q = a \o b
  <2> DEFINE D == {d \in Positions \X Positions : d[1] # d[2]}
             U == UNION {Changes(w, p, t) : p \in Positions}
             V == UNION {Both(w, d[1], d[2], t) : d \in D}
  <2>1. Deltas(w, t) = ({<<>>} \cup U) \cup V
    BY DEF Deltas
  <2>2. q \in V => \E r, u \in Positions : r # u /\ q \in Both(w, r, u, t)
    OBVIOUS
  <2>3. q \in U => \E r \in Positions : q \in Changes(w, r, t)
    OBVIOUS
  <2> HIDE DEF U, V
  <2>4. q = <<>> \/ q \in U \/ q \in V
    BY <2>1
  <2> QED
    BY <2>2, <2>3, <2>4 DEF Both
<1>5. CASE q = <<>>
  <2>1. \A p \in Positions : PartOf(q, p, <<>>, 0)
    BY <1>5 DEF PartOf
  <2>2. q \in Seq(Events)
    BY <1>5
  <2> QED
    BY <1>1, <1>3, <2>1, <2>2
<1>6. ASSUME NEW r \in Positions, q \in Changes(w, r, t)
      PROVE  q \in Seq(Events) /\ \A p \in Positions : Tidy(q, w, p)
  <2>1. q \in Seq(Events) /\ (\A i \in DOMAIN q : q[i].pos = r) /\ Tidy(q, w, r)
    BY <1>1, <1>2, <1>6
  <2>2. ASSUME NEW p \in Positions, p # r PROVE Tidy(q, w, p)
    <3>1. PartOf(q, p, <<>>, 0)
      BY <2>1, <2>2 DEF PartOf
    <3> QED
      BY <1>1, <1>3, <2>1, <3>1
  <2> QED
    BY <2>1, <2>2
<1>7. ASSUME NEW r \in Positions, NEW u \in Positions, r # u,
             NEW a \in Changes(w, r, t), NEW b \in Changes(w, u, t), q = a \o b
      PROVE  q \in Seq(Events) /\ \A p \in Positions : Tidy(q, w, p)
  <2>1. a \in Seq(Events) /\ b \in Seq(Events)
    BY <1>1, <1>2
  <2>2. (\A i \in DOMAIN a : a[i].pos = r) /\ (\A i \in DOMAIN b : b[i].pos = u)
    BY <1>1, <1>2
  <2> HIDE DEF Changes
  <2>3. q \in Seq(Events)
    BY <1>7, <2>1
  <2>4. /\ \A i \in DOMAIN a : i + 0 \in DOMAIN q /\ q[i + 0] = a[i]
        /\ \A i \in DOMAIN b : i + Len(a) \in DOMAIN q /\ q[i + Len(a)] = b[i]
        /\ \A i \in DOMAIN q : \/ i - 0 \in DOMAIN a /\ q[i] = a[i - 0]
                               \/ i - Len(a) \in DOMAIN b /\ q[i] = b[i - Len(a)]
    BY <1>7, <2>1
  <2>5. PartOf(q, r, a, 0)
    BY <1>7, <2>2, <2>4 DEF PartOf
  <2>6. PartOf(q, u, b, Len(a)) /\ Len(a) \in Nat
    BY <1>7, <2>1, <2>2, <2>4 DEF PartOf
  <2>7. ASSUME NEW p \in Positions, p # r, p # u PROVE PartOf(q, p, <<>>, 0)
    BY <2>2, <2>4, <2>7 DEF PartOf
  <2>8. a \in Parts(w, r, t) /\ b \in Parts(w, u, t)
    BY <1>1
  <2>9. Tidy(q, w, r)
    BY <1>3, <2>3, <2>5, <2>8
  <2>10. Tidy(q, w, u)
    BY <1>3, <2>3, <2>6, <2>8
  <2>11. ASSUME NEW p \in Positions, p # r, p # u PROVE Tidy(q, w, p)
    BY <1>1, <1>3, <2>3, <2>7, <2>11
  <2> QED
    BY <2>3, <2>9, <2>10, <2>11
<1> QED
  BY <1>4, <1>5, <1>6, <1>7

-----------------------------------------------------------------------------
\* What the packets do to the recording

\* The viewer has the chunks, the center and the radius that the writer
\* remembers, and a position of a chunk it does not have shows nothing.
Viewing(r) ==
  /\ r \in Recordings
  /\ r.view.loaded = r.loaded /\ r.view.center = r.center /\ r.view.radius = r.radius
  /\ r.view.clock = r.packetStamp
  /\ \A p \in Positions : Chunk(p) \notin r.loaded =>
       r.view.block[p] = Air /\ r.view.mover[p] = NoMover

LEMMA ChunkType ==
  \A p \in Positions : Chunk(p) \in Chunks
<1> TAKE p \in Positions
<1>1. p[1] \in Int /\ p[2] \in Int /\ Edge \in Nat /\ Edge > 0
  BY ReplayAssumption
<1>2. p[1] \div Edge \in Int /\ p[2] \div Edge \in Int
  BY <1>1
<1> QED
  BY <1>2 DEF Chunk, Chunks

LEMMA EmptyWorldType ==
  EmptyWorld \in WorldStates
BY DEF EmptyWorld, WorldStates, Air, NoMover, Blocks

\* A record that is sent
LEMMA SentRight ==
  ASSUME NEW r \in Recordings, NEW stamp \in Int, NEW v \in Views
  PROVE  LET n == Sent(r, stamp, v)
         IN /\ n \in Recordings
            /\ n.loaded = r.loaded /\ n.center = r.center /\ n.radius = r.radius
            /\ n.stamp = stamp /\ n.packetStamp = stamp
            /\ n.view \in Views /\ n.view.clock = stamp
            /\ n.view.loaded = v.loaded /\ n.view.center = v.center /\ n.view.radius = v.radius
            /\ n.view.block = v.block /\ n.view.mover = v.mover
<1> DEFINE u == [v EXCEPT !.clock = stamp]
<1>1. /\ u \in Views /\ u.clock = stamp
      /\ u.loaded = v.loaded /\ u.center = v.center /\ u.radius = v.radius
      /\ u.block = v.block /\ u.mover = v.mover
  BY DEF Views
<1>2. Sent(r, stamp, v) = [r EXCEPT !.stamp = stamp, !.packetStamp = stamp, !.view = u]
  BY DEF Sent
<1> HIDE DEF u
<1> QED
  BY <1>1, <1>2 DEF Recordings

LEMMA SeenChunksRight ==
  ASSUME NEW v \in Views, NEW chunks \in SUBSET Chunks, NEW w \in WorldStates,
         \A c \in chunks : Distance(c, v.center) <= v.radius
  PROVE  LET n == SeenChunks(v, chunks, w)
         IN /\ n \in Views
            /\ n.loaded = v.loaded \cup chunks
            /\ n.center = v.center /\ n.radius = v.radius /\ n.clock = v.clock
            /\ \A p \in Positions :
                 /\ Chunk(p) \in chunks => n.block[p] = w.block[p] /\ n.mover[p] = w.mover[p]
                 /\ Chunk(p) \notin chunks => n.block[p] = v.block[p] /\ n.mover[p] = v.mover[p]
<1> DEFINE kept == {c \in chunks : Distance(c, v.center) <= v.radius}
           b == [p \in Positions |-> IF Chunk(p) \in chunks THEN w.block[p] ELSE v.block[p]]
           m == [p \in Positions |-> IF Chunk(p) \in chunks THEN w.mover[p] ELSE v.mover[p]]
<1>1. kept = chunks
  OBVIOUS
<1>2. SeenChunks(v, chunks, w) =
        [v EXCEPT !.loaded = @ \cup kept,
          !.block = [p \in Positions |-> IF Chunk(p) \in kept THEN w.block[p] ELSE v.block[p]],
          !.mover = [p \in Positions |-> IF Chunk(p) \in kept THEN w.mover[p] ELSE v.mover[p]]]
  BY DEF SeenChunks
<1> HIDE DEF kept
<1>3. SeenChunks(v, chunks, w) =
        [v EXCEPT !.loaded = @ \cup chunks, !.block = b, !.mover = m]
  BY <1>1, <1>2
<1>4. b \in [Positions -> Blocks] /\ m \in [Positions -> Int]
  BY DEF WorldStates, Views
<1>5. \A p \in Positions :
        /\ Chunk(p) \in chunks => b[p] = w.block[p] /\ m[p] = w.mover[p]
        /\ Chunk(p) \notin chunks => b[p] = v.block[p] /\ m[p] = v.mover[p]
  OBVIOUS
<1> HIDE DEF b, m
<1> QED
  BY <1>3, <1>4, <1>5 DEF Views

Within(chunks, r) == \A c \in chunks : Distance(c, r.center) <= r.radius

\* n is r with the chunks as they are in w.
Extended(n, r, stamp, chunks, w) ==
  /\ Viewing(n)
  /\ n.loaded = r.loaded \cup chunks
  /\ n.center = r.center /\ n.radius = r.radius /\ n.stamp = stamp
  /\ \A p \in Positions :
       /\ Chunk(p) \in chunks => n.view.block[p] = w.block[p] /\ n.view.mover[p] = w.mover[p]
       /\ Chunk(p) \notin chunks =>
            n.view.block[p] = r.view.block[p] /\ n.view.mover[p] = r.view.mover[p]

LEMMA WithChunksRight ==
  ASSUME NEW r, Viewing(r), NEW stamp \in Int, NEW chunks \in SUBSET Chunks, NEW w \in WorldStates,
         Within(chunks, r)
  PROVE  Extended(WithChunks(r, stamp, chunks, w), r, stamp, chunks, w)
<1> DEFINE v == SeenChunks(r.view, chunks, w)
           s == Sent(r, stamp, v)
<1>1. /\ r \in Recordings /\ r.view \in Views
      /\ r.view.loaded = r.loaded /\ r.view.center = r.center /\ r.view.radius = r.radius
      /\ \A p \in Positions : Chunk(p) \notin r.loaded =>
           r.view.block[p] = Air /\ r.view.mover[p] = NoMover
  BY DEF Viewing, Recordings
<1>2. \A c \in chunks : Distance(c, r.view.center) <= r.view.radius
  BY <1>1 DEF Within
<1>3. /\ v \in Views
      /\ v.loaded = r.view.loaded \cup chunks
      /\ v.center = r.view.center /\ v.radius = r.view.radius
      /\ \A p \in Positions :
           /\ Chunk(p) \in chunks => v.block[p] = w.block[p] /\ v.mover[p] = w.mover[p]
           /\ Chunk(p) \notin chunks => v.block[p] = r.view.block[p] /\ v.mover[p] = r.view.mover[p]
  BY <1>1, <1>2, SeenChunksRight
<1> HIDE DEF v
<1>4. /\ s \in Recordings
      /\ s.loaded = r.loaded /\ s.center = r.center /\ s.radius = r.radius
      /\ s.stamp = stamp /\ s.packetStamp = stamp /\ s.view.clock = stamp
      /\ s.view.loaded = v.loaded /\ s.view.center = v.center /\ s.view.radius = v.radius
      /\ s.view.block = v.block /\ s.view.mover = v.mover
  BY <1>1, <1>3, SentRight
<1>5. WithChunks(r, stamp, chunks, w) = [s EXCEPT !.loaded = @ \cup chunks]
  BY DEF WithChunks, v
<1> HIDE DEF s
<1> DEFINE n == WithChunks(r, stamp, chunks, w)
<1>6. /\ n \in Recordings
      /\ n.loaded = r.loaded \cup chunks /\ n.center = r.center /\ n.radius = r.radius
      /\ n.stamp = stamp /\ n.packetStamp = stamp /\ n.view = s.view
  <2>1. s.loaded \in SUBSET Chunks /\ s.loaded \cup chunks \in SUBSET Chunks
    BY <1>4 DEF Recordings
  <2> QED
    BY <1>4, <1>5, <2>1 DEF Recordings
<1> HIDE DEF n
<1>7. Viewing(n)
  BY <1>1, <1>3, <1>4, <1>6 DEF Viewing
<1>8. \A p \in Positions :
        /\ Chunk(p) \in chunks => n.view.block[p] = w.block[p] /\ n.view.mover[p] = w.mover[p]
        /\ Chunk(p) \notin chunks => n.view.block[p] = r.view.block[p] /\ n.view.mover[p] = r.view.mover[p]
  BY <1>3, <1>4, <1>6
<1> QED
  BY <1>6, <1>7, <1>8 DEF n, Extended

LEMMA WithRadiusRight ==
  ASSUME NEW r, Viewing(r), NEW stamp \in Int, NEW radius \in Int
  PROVE  LET n == WithRadius(r, stamp, radius)
         IN /\ Viewing(n)
            /\ n.loaded = r.loaded /\ n.center = r.center /\ radius <= n.radius
            /\ n.view.block = r.view.block /\ n.view.mover = r.view.mover
<1>1. /\ r \in Recordings /\ r.view \in Views /\ r.radius \in Int
      /\ r.view.loaded = r.loaded /\ r.view.center = r.center /\ r.view.radius = r.radius
      /\ \A p \in Positions : Chunk(p) \notin r.loaded =>
           r.view.block[p] = Air /\ r.view.mover[p] = NoMover
  BY DEF Viewing, Recordings
<1>2. CASE radius <= r.radius
  BY <1>2 DEF WithRadius
<1>3. CASE ~(radius <= r.radius)
  <2> DEFINE v == [r.view EXCEPT !.radius = radius]
             s == Sent(r, stamp, v)
             n == WithRadius(r, stamp, radius)
  <2>1. /\ v \in Views /\ v.loaded = r.loaded /\ v.center = r.center /\ v.radius = radius
        /\ v.block = r.view.block /\ v.mover = r.view.mover
    BY <1>1 DEF Views
  <2> HIDE DEF v
  <2>2. /\ s \in Recordings
        /\ s.loaded = r.loaded /\ s.center = r.center
        /\ s.packetStamp = stamp /\ s.view.clock = stamp
        /\ s.view.loaded = v.loaded /\ s.view.center = v.center /\ s.view.radius = v.radius
        /\ s.view.block = v.block /\ s.view.mover = v.mover
    BY <1>1, <2>1, SentRight
  <2>3. n = [s EXCEPT !.radius = radius]
    BY <1>3 DEF WithRadius, v
  <2> HIDE DEF s, n
  <2>4. /\ n \in Recordings
        /\ n.loaded = s.loaded /\ n.center = s.center /\ n.radius = radius
        /\ n.packetStamp = s.packetStamp /\ n.view = s.view
    BY <2>2, <2>3 DEF Recordings
  <2>5. Viewing(n)
    BY <1>1, <2>1, <2>2, <2>4 DEF Viewing
  <2>6. radius <= n.radius
    BY <2>4
  <2> QED
    BY <2>1, <2>2, <2>4, <2>5, <2>6 DEF n
<1> QED
  BY <1>2, <1>3

\* The chunks around a change are there afterwards, and nothing else changed.
LEMMA EnsuredRight ==
  ASSUME NEW r, Viewing(r), NEW stamp \in Int, NEW c \in Chunks
  PROVE  LET n == Ensured(r, stamp, c)
         IN /\ Viewing(n)
            /\ n.loaded = r.loaded \cup Expanded({c})
            /\ \A p \in Positions :
                 n.view.block[p] = r.view.block[p] /\ n.view.mover[p] = r.view.mover[p]
<1>1. CASE Missing(r, c) = {}
  <2>1. Ensured(r, stamp, c) = r
    BY <1>1 DEF Ensured
  <2>2. r.loaded = r.loaded \cup Expanded({c})
    BY <1>1 DEF Missing
  <2> QED
    BY <2>1, <2>2
<1>2. CASE Missing(r, c) # {}
  <2> DEFINE chunks == Missing(r, c)
             radius == Needed(r, c)
             wide == WithRadius(r, stamp, radius)
             n == WithChunks(wide, stamp, chunks, EmptyWorld)
  <2>1. /\ r.center \in Chunks
        /\ \A p \in Positions : Chunk(p) \notin r.loaded =>
             r.view.block[p] = Air /\ r.view.mover[p] = NoMover
    BY DEF Viewing, Recordings
  <2>2. {c} \in SUBSET Chunks /\ IsFiniteSet({c})
    BY FS_Singleton
  <2>3. Expanded({c}) \in SUBSET Chunks
    BY <2>2, ExpandedChunks
  <2>4. chunks \in SUBSET Chunks /\ chunks \subseteq Expanded({c})
    BY <2>3 DEF Missing
  <2>5. PICK b \in Int : \A d \in Expanded({c}) : Distance(d, r.center) <= b
    BY <2>1, <2>2, ExpandedBounded
  <2>6. radius = Max({Distance(d, r.center) : d \in chunks} \cup {ViewDistance})
    BY DEF Needed
  <2> HIDE DEF chunks, radius
  <2>7. \A d \in chunks : Distance(d, r.center) <= b
    BY <2>4, <2>5
  <2>8. radius \in Int /\ \A d \in chunks : Distance(d, r.center) <= radius
    BY <2>1, <2>4, <2>6, <2>7, RadiusCovers
  <2>9. /\ Viewing(wide)
        /\ wide.loaded = r.loaded /\ wide.center = r.center /\ radius <= wide.radius
        /\ wide.view.block = r.view.block /\ wide.view.mover = r.view.mover
    BY <2>8, WithRadiusRight
  <2> HIDE DEF wide
  <2>10. Within(chunks, wide)
    <3> SUFFICES ASSUME NEW d \in chunks PROVE Distance(d, wide.center) <= wide.radius
      BY DEF Within
    <3>1. Distance(d, r.center) \in Int /\ Distance(d, r.center) <= radius
      BY <2>1, <2>4, <2>8, Distances
    <3>2. wide.radius \in Int
      BY <2>9 DEF Viewing, Recordings
    <3>3. Distance(d, r.center) <= wide.radius
      BY <2>8, <2>9, <3>1, <3>2
    <3> QED
      BY <2>9, <3>3
  <2>11. Extended(n, wide, stamp, chunks, EmptyWorld)
    BY <2>4, <2>9, <2>10, EmptyWorldType, WithChunksRight
  <2>12. Ensured(r, stamp, c) = n
    BY <1>2 DEF Ensured, chunks, wide, radius
  <2> HIDE DEF n
  <2>13. ASSUME NEW p \in Positions
         PROVE  n.view.block[p] = r.view.block[p] /\ n.view.mover[p] = r.view.mover[p]
    <3>1. CASE Chunk(p) \in chunks
      <4>1. Chunk(p) \notin r.loaded
        BY <3>1 DEF chunks, Missing
      <4>2. EmptyWorld.block[p] = Air /\ EmptyWorld.mover[p] = NoMover
        BY DEF EmptyWorld
      <4> QED
        BY <2>1, <2>11, <3>1, <4>1, <4>2 DEF Extended
    <3>2. CASE Chunk(p) \notin chunks
      BY <2>9, <2>11, <3>2 DEF Extended
    <3> QED
      BY <3>1, <3>2
  <2>14. n.loaded = r.loaded \cup Expanded({c})
    BY <2>9, <2>11 DEF chunks, Missing, Extended
  <2>15. Viewing(n)
    BY <2>11 DEF Extended
  <2> QED
    BY <2>12, <2>13, <2>14, <2>15
<1> QED
  BY <1>1, <1>2

\* What an event changes of what a viewer shows at a position
Shown(u, v, e, p) ==
  /\ IsBlock(e, p) => /\ v.block[p] = e.state
                      /\ e.state = u.block[p] => v.mover[p] = u.mover[p]
                      /\ e.state # u.block[p] => v.mover[p] = NoMover
  /\ IsData(e, p) => v.block[p] = u.block[p] /\ v.mover[p] = e.settle
  /\ ~IsBlock(e, p) /\ ~IsData(e, p) => v.block[p] = u.block[p] /\ v.mover[p] = u.mover[p]

LEMMA SeenEventRight ==
  ASSUME NEW u \in Views, NEW e \in Events, Chunk(e.pos) \in u.loaded
  PROVE  LET v == SeenEvent(u, e)
         IN /\ v \in Views
            /\ v.loaded = u.loaded /\ v.center = u.center /\ v.radius = u.radius
            /\ \A p \in Positions : Shown(u, v, e, p)
<1>1. e.pos \in Positions /\ u.block \in [Positions -> Blocks] /\ u.mover \in [Positions -> Int]
  BY DEF Events, Views
<1>2. CASE e.kind = "block"
  <2> DEFINE m == IF e.state = u.block[e.pos] THEN u.mover[e.pos] ELSE NoMover
             v == [u EXCEPT !.block[e.pos] = e.state, !.mover[e.pos] = m]
  <2>1. e.state \in Blocks /\ m \in Int
    BY <1>1, <1>2 DEF Events, NoMover
  <2>2. SeenEvent(u, e) = v
    BY <1>2 DEF SeenEvent
  <2>3. /\ v \in Views
        /\ v.loaded = u.loaded /\ v.center = u.center /\ v.radius = u.radius
        /\ v.block = [u.block EXCEPT ![e.pos] = e.state]
        /\ v.mover = [u.mover EXCEPT ![e.pos] = m]
    BY <1>1, <2>1 DEF Views
  <2>4. \A p \in Positions : Shown(u, v, e, p)
    BY <1>1, <1>2, <2>3 DEF Shown, IsBlock, IsData
  <2> QED
    BY <2>2, <2>3, <2>4
<1>3. CASE e.kind = "data"
  <2> DEFINE v == [u EXCEPT !.mover[e.pos] = e.settle]
  <2>1. e.settle \in Int
    BY <1>3 DEF Events
  <2>2. SeenEvent(u, e) = v
    BY <1>3 DEF SeenEvent
  <2>3. /\ v \in Views
        /\ v.loaded = u.loaded /\ v.center = u.center /\ v.radius = u.radius
        /\ v.block = u.block
        /\ v.mover = [u.mover EXCEPT ![e.pos] = e.settle]
    BY <1>1, <2>1 DEF Views
  <2>4. \A p \in Positions : Shown(u, v, e, p)
    BY <1>1, <1>3, <2>3 DEF Shown, IsBlock, IsData
  <2> QED
    BY <2>2, <2>3, <2>4
<1>4. CASE e.kind # "block" /\ e.kind # "data"
  <2>1. SeenEvent(u, e) = u
    BY <1>4 DEF SeenEvent
  <2>2. \A p \in Positions : Shown(u, u, e, p)
    BY <1>4 DEF Shown, IsBlock, IsData
  <2> QED
    BY <2>1, <2>2
<1> QED
  BY <1>2, <1>3, <1>4

LEMMA EventRecordedRight ==
  ASSUME NEW r, Viewing(r), NEW stamp \in Int, NEW e \in Events
  PROVE  LET n == EventRecorded(r, stamp, e)
         IN /\ Viewing(n)
            /\ r.loaded \subseteq n.loaded
            /\ e.kind # "removed" => Expanded({Chunk(e.pos)}) \subseteq n.loaded
            /\ \A p \in Positions : Shown(r.view, n.view, e, p)
<1>1. CASE e.kind = "removed"
  <2>1. EventRecorded(r, stamp, e) = r
    BY <1>1 DEF EventRecorded
  <2>2. \A p \in Positions : Shown(r.view, r.view, e, p)
    BY <1>1 DEF Shown, IsBlock, IsData
  <2> QED
    BY <1>1, <2>1, <2>2
<1>2. CASE e.kind # "removed"
  <2> DEFINE c == Chunk(e.pos)
             ready == Ensured(r, stamp, c)
             v == SeenEvent(ready.view, e)
             n == Sent(ready, stamp, v)
  <2>1. e.pos \in Positions
    BY DEF Events
  <2>2. c \in Chunks
    BY <2>1, ChunkType
  <2>3. EventRecorded(r, stamp, e) = n
    BY <1>2 DEF EventRecorded
  <2> HIDE DEF c
  <2>4. /\ Viewing(ready)
        /\ ready.loaded = r.loaded \cup Expanded({c})
        /\ \A p \in Positions :
             ready.view.block[p] = r.view.block[p] /\ ready.view.mover[p] = r.view.mover[p]
    BY <2>2, EnsuredRight
  <2> HIDE DEF ready
  <2>5. /\ ready \in Recordings /\ ready.view \in Views
        /\ ready.view.loaded = ready.loaded /\ ready.view.center = ready.center
        /\ ready.view.radius = ready.radius
        /\ \A p \in Positions : Chunk(p) \notin ready.loaded =>
             ready.view.block[p] = Air /\ ready.view.mover[p] = NoMover
    BY <2>4 DEF Viewing, Recordings
  <2>6. {c} \subseteq Expanded({c})
    BY <2>2, ExpandedChunks
  <2>7. Chunk(e.pos) \in ready.view.loaded
    BY <2>4, <2>5, <2>6 DEF c
  <2>8. /\ v \in Views
        /\ v.loaded = ready.loaded /\ v.center = ready.center /\ v.radius = ready.radius
        /\ \A p \in Positions : Shown(ready.view, v, e, p)
    BY <2>5, <2>7, SeenEventRight
  <2> HIDE DEF v
  <2>9. /\ n \in Recordings
        /\ n.loaded = ready.loaded /\ n.center = ready.center /\ n.radius = ready.radius
        /\ n.packetStamp = stamp /\ n.view.clock = stamp
        /\ n.view.loaded = v.loaded /\ n.view.center = v.center /\ n.view.radius = v.radius
        /\ n.view.block = v.block /\ n.view.mover = v.mover
    BY <2>5, <2>8, SentRight
  <2> HIDE DEF n
  <2>10. \A p \in Positions : Chunk(p) \notin n.loaded => n.view.block[p] = Air /\ n.view.mover[p] = NoMover
    <3> SUFFICES ASSUME NEW p \in Positions, Chunk(p) \notin n.loaded
                 PROVE  n.view.block[p] = Air /\ n.view.mover[p] = NoMover
      OBVIOUS
    <3>1. p # e.pos
      BY <2>5, <2>7, <2>9
    <3>2. ~IsBlock(e, p) /\ ~IsData(e, p)
      BY <3>1 DEF IsBlock, IsData
    <3>3. v.block[p] = ready.view.block[p] /\ v.mover[p] = ready.view.mover[p]
      BY <2>8, <3>2 DEF Shown
    <3> QED
      BY <2>5, <2>9, <3>3
  <2>11. Viewing(n)
    BY <2>8, <2>9, <2>10 DEF Viewing
  <2>12. \A p \in Positions : Shown(r.view, n.view, e, p)
    BY <2>4, <2>8, <2>9 DEF Shown
  <2>13. r.loaded \subseteq n.loaded /\ Expanded({c}) \subseteq n.loaded
    BY <2>4, <2>9
  <2> QED
    BY <2>3, <2>11, <2>12, <2>13 DEF c
<1> QED
  BY <1>1, <1>2

-----------------------------------------------------------------------------
\* The invariant

\* While the events q are still to be written, the position p is, in what a
\* viewer shows, as it is in the world w or will be after them.
Catching(q, w, v, p) ==
  /\ (\A i \in DOMAIN q : ~IsBlock(q[i], p)) => v.block[p] = w.block[p]
  /\ \A i \in DOMAIN q : IsBlock(q[i], p) => q[i].state = w.block[p]
  /\ (\A i \in DOMAIN q : ~IsBlock(q[i], p) /\ ~IsData(q[i], p)) => v.mover[p] = w.mover[p]
  /\ (\A i \in DOMAIN q : ~IsData(q[i], p)) /\ (\E i \in DOMAIN q : IsBlock(q[i], p)) =>
       w.mover[p] = NoMover /\ (v.mover[p] = NoMover \/ v.block[p] # w.block[p])
  /\ \A i \in DOMAIN q : IsData(q[i], p) =>
       q[i].settle = w.mover[p] /\ \A j \in DOMAIN q : IsBlock(q[j], p) => j < i

\* A position that holds something and that q does not speak of is in a chunk
\* whose neighbours are there.
Covered(q, w, loaded, p) ==
  /\ \A i \in DOMAIN q : ~IsBlock(q[i], p) /\ ~IsData(q[i], p)
  /\ w.block[p] # Air \/ w.mover[p] # NoMover
  => Expanded({Chunk(p)}) \subseteq loaded

Early == {"none", "recording", "archive", "created"}
Writing == {"open", "delta", "anchored", "traced"}
Statuses == Early \cup Writing \cup {"packed", "renamed", "finished", "refused", "dropped", "killed"}

Traces == [block : [Positions -> Blocks], mover : [Positions -> Int], clock : Int, ticks : Int]

TypeOK ==
  /\ world \in WorldStates /\ status \in Statuses
  /\ tick \in Nat /\ lastTick \in Nat
  /\ pending \in Seq(Events) /\ rec \in Recordings /\ trace \in Traces

MoversMove == \A p \in Positions : world.mover[p] # NoMover => world.block[p] = Moving

\* Nothing is written before the initial world.
Unwritten ==
  status \in Early =>
    /\ rec = [loaded |-> {}, center |-> <<0, 0>>, radius |-> ViewDistance, stamp |-> 0,
              packetStamp |-> 0, view |-> EmptyView]
    /\ tick = 0 /\ lastTick = 0

Shows == status \in Writing => Viewing(rec)
TraceShows ==
  status \in Writing \cup {"created"} => trace.block = world.block /\ trace.mover = world.mover

Catches ==
  status = "delta" =>
    \A p \in Positions : Catching(pending, world, rec.view, p) /\ Covered(pending, world, rec.loaded, p)

CaughtUp ==
  status \in {"open", "anchored", "traced"} =>
    Agrees(rec.view) /\ rec.stamp = Stamp(tick) /\ lastTick = tick

Ending ==
  /\ status \in {"anchored", "traced"} => rec.view.clock = rec.stamp
  /\ status = "traced" => trace.ticks = tick
  /\ status = "packed" => Whole(packed)

Output ==
  /\ status \notin {"renamed", "finished", "killed"} => output = NoOutput
  /\ output # NoOutput => Whole(output)
  /\ status \in {"dropped", "finished"} => temp = {}

Inv == /\ TypeOK /\ MoversMove /\ Unwritten /\ Shows /\ TraceShows
       /\ Catches /\ CaughtUp /\ Ending /\ Output

-----------------------------------------------------------------------------
\* A delta that begins, and one of its events that is written

LEMMA DeltaCatches ==
  ASSUME NEW w \in WorldStates, NEW q \in Seq(Events), NEW p \in Positions, Tidy(q, w, p),
         NEW v, v.block[p] = w.block[p], v.mover[p] = w.mover[p],
         w.mover[p] # NoMover => w.block[p] = Moving
  PROVE  LET n == After(w, q)
         IN /\ Catching(q, n, v, p)
            /\ n.mover[p] # NoMover => n.block[p] = Moving
            /\ (\A i \in DOMAIN q : ~IsBlock(q[i], p) /\ ~IsData(q[i], p)) =>
                 n.block[p] = w.block[p] /\ n.mover[p] = w.mover[p]
<1> DEFINE n == After(w, q)
           N == Len(q)
<1>1. BlockSaid(n, w, q, N) /\ MoverSaid(n, w, q, N)
  BY AfterSaid DEF Said
<1>2. DOMAIN q = 1 .. N /\ N \in Nat
  OBVIOUS
<1>3. \A i \in 1 .. N : \A j \in i + 1 .. N : j \in DOMAIN q /\ j # i
  BY <1>2
<1>4. /\ \A i, j \in DOMAIN q : IsBlock(q[i], p) /\ IsBlock(q[j], p) => i = j
      /\ \A i, j \in DOMAIN q : IsData(q[i], p) /\ IsData(q[j], p) => i = j
      /\ \A i, j \in DOMAIN q : IsRemoved(q[i], p) /\ IsRemoved(q[j], p) => i = j
      /\ \A i, j \in DOMAIN q : ~(IsData(q[i], p) /\ IsRemoved(q[j], p))
      /\ \A i \in DOMAIN q : IsData(q[i], p) =>
           \E j \in DOMAIN q : j < i /\ IsBlock(q[j], p) /\ q[j].state = Moving
      /\ \A i \in DOMAIN q : IsRemoved(q[i], p) =>
           w.mover[p] # NoMover /\ \E j \in DOMAIN q : IsBlock(q[j], p) /\ q[j].state # Moving
      /\ \A i \in DOMAIN q : IsBlock(q[i], p) =>
           \/ w.mover[p] = NoMover
           \/ \E j \in DOMAIN q : IsRemoved(q[j], p)
  BY DEF Tidy
<1> HIDE DEF n, N
<1>5. (\A i \in DOMAIN q : ~IsBlock(q[i], p)) => n.block[p] = w.block[p]
  BY <1>1, <1>2 DEF BlockSaid
<1>6. ASSUME NEW i \in DOMAIN q, IsBlock(q[i], p) PROVE n.block[p] = q[i].state
  <2>1. i \in 1 .. N /\ \A j \in i + 1 .. N : ~IsBlock(q[j], p)
    BY <1>2, <1>3, <1>4, <1>6
  <2> QED
    BY <1>1, <1>6, <2>1 DEF BlockSaid
<1>7. (\A i \in DOMAIN q : ~IsData(q[i], p) /\ ~IsRemoved(q[i], p)) => n.mover[p] = w.mover[p]
  BY <1>1, <1>2 DEF MoverSaid, IsPiston
<1>8. ASSUME NEW i \in DOMAIN q, IsData(q[i], p) PROVE n.mover[p] = q[i].settle
  <2>1. i \in 1 .. N /\ \A j \in i + 1 .. N : ~IsPiston(q[j], p)
    BY <1>2, <1>3, <1>4, <1>8 DEF IsPiston
  <2>2. n.mover[p] = MoverOf(q[i])
    BY <1>1, <1>8, <2>1 DEF MoverSaid, IsPiston
  <2> QED
    BY <1>8, <2>2 DEF MoverOf, IsData
<1>9. ASSUME NEW i \in DOMAIN q, IsRemoved(q[i], p) PROVE n.mover[p] = NoMover
  <2>1. i \in 1 .. N /\ \A j \in i + 1 .. N : ~IsPiston(q[j], p)
    BY <1>2, <1>3, <1>4, <1>9 DEF IsPiston
  <2>2. n.mover[p] = MoverOf(q[i])
    BY <1>1, <1>9, <2>1 DEF MoverSaid, IsPiston
  <2> QED
    BY <1>9, <2>2 DEF MoverOf, IsRemoved
<1>10. (\A i \in DOMAIN q : ~IsBlock(q[i], p) /\ ~IsData(q[i], p)) =>
         n.block[p] = w.block[p] /\ n.mover[p] = w.mover[p]
  BY <1>4, <1>5, <1>7
<1>11. ASSUME \A i \in DOMAIN q : ~IsData(q[i], p), NEW k \in DOMAIN q, IsBlock(q[k], p)
       PROVE  n.mover[p] = NoMover /\ (v.mover[p] = NoMover \/ v.block[p] # n.block[p])
  <2>1. CASE \E j \in DOMAIN q : IsRemoved(q[j], p)
    <3>1. PICK j \in DOMAIN q : IsRemoved(q[j], p)
      BY <2>1
    <3>2. w.block[p] = Moving
      BY <1>4, <3>1
    <3>3. PICK i \in DOMAIN q : IsBlock(q[i], p) /\ q[i].state # Moving
      BY <1>4, <3>1
    <3>4. n.block[p] # Moving
      BY <1>6, <3>3
    <3>5. n.mover[p] = NoMover
      BY <1>9, <3>1
    <3> QED
      BY <3>2, <3>4, <3>5
  <2>2. CASE ~\E j \in DOMAIN q : IsRemoved(q[j], p)
    <3>1. w.mover[p] = NoMover
      BY <1>4, <1>11, <2>2
    <3>2. n.mover[p] = w.mover[p]
      BY <1>7, <1>11, <2>2
    <3> QED
      BY <3>1, <3>2
  <2> QED
    BY <2>1, <2>2
<1>12. ASSUME NEW i \in DOMAIN q, IsData(q[i], p)
       PROVE  q[i].settle = n.mover[p] /\ \A j \in DOMAIN q : IsBlock(q[j], p) => j < i
  <2>1. PICK k \in DOMAIN q : k < i /\ IsBlock(q[k], p)
    BY <1>4, <1>12
  <2>2. \A j \in DOMAIN q : IsBlock(q[j], p) => j < i
    BY <1>4, <2>1
  <2> QED
    BY <1>8, <1>12, <2>2
<1>13. Catching(q, n, v, p)
  <2>1. (\A i \in DOMAIN q : ~IsBlock(q[i], p)) => v.block[p] = n.block[p]
    BY <1>5
  <2>2. (\A i \in DOMAIN q : ~IsBlock(q[i], p) /\ ~IsData(q[i], p)) => v.mover[p] = n.mover[p]
    BY <1>10
  <2>3. \A i \in DOMAIN q : IsBlock(q[i], p) => q[i].state = n.block[p]
    BY <1>6
  <2> QED
    BY <1>11, <1>12, <2>1, <2>2, <2>3 DEF Catching
<1>14. ASSUME n.mover[p] # NoMover PROVE n.block[p] = Moving
  <2>1. \A i \in DOMAIN q : ~IsRemoved(q[i], p)
    BY <1>9, <1>14
  <2>2. CASE \E i \in DOMAIN q : IsData(q[i], p)
    <3>1. PICK j \in DOMAIN q : IsBlock(q[j], p) /\ q[j].state = Moving
      BY <1>4, <2>2
    <3> QED
      BY <1>6, <3>1
  <2>3. CASE \A i \in DOMAIN q : ~IsData(q[i], p)
    <3>1. w.mover[p] # NoMover
      BY <1>7, <1>14, <2>1, <2>3
    <3>2. \A i \in DOMAIN q : ~IsBlock(q[i], p)
      BY <1>4, <2>1, <3>1
    <3> QED
      BY <1>5, <3>1, <3>2
  <2> QED
    BY <2>2, <2>3
<1> QED
  BY <1>10, <1>13, <1>14 DEF n

LEMMA EventCatches ==
  ASSUME NEW q \in Seq(Events), q # <<>>, NEW w, NEW u, NEW v, NEW p,
         Catching(q, w, u, p), Shown(u, v, Head(q), p)
  PROVE  Catching(Tail(q), w, v, p)
<1> DEFINE t == Tail(q)
           e == Head(q)
<1>1. /\ 1 \in DOMAIN q /\ q[1] = e
      /\ \A i \in DOMAIN q : i \in Int /\ 1 <= i /\ (i = 1 \/ (i - 1 \in DOMAIN t /\ t[i - 1] = q[i]))
      /\ \A i \in DOMAIN t : i \in Int /\ i + 1 \in DOMAIN q /\ t[i] = q[i + 1]
  OBVIOUS
<1>2. /\ (\A i \in DOMAIN q : ~IsBlock(q[i], p)) => u.block[p] = w.block[p]
      /\ \A i \in DOMAIN q : IsBlock(q[i], p) => q[i].state = w.block[p]
      /\ (\A i \in DOMAIN q : ~IsBlock(q[i], p) /\ ~IsData(q[i], p)) => u.mover[p] = w.mover[p]
      /\ (\A i \in DOMAIN q : ~IsData(q[i], p)) /\ (\E i \in DOMAIN q : IsBlock(q[i], p)) =>
           w.mover[p] = NoMover /\ (u.mover[p] = NoMover \/ u.block[p] # w.block[p])
      /\ \A i \in DOMAIN q : IsData(q[i], p) =>
           q[i].settle = w.mover[p] /\ \A j \in DOMAIN q : IsBlock(q[j], p) => j < i
  BY DEF Catching
<1>3. /\ IsBlock(e, p) => /\ v.block[p] = e.state
                          /\ e.state = u.block[p] => v.mover[p] = u.mover[p]
                          /\ e.state # u.block[p] => v.mover[p] = NoMover
      /\ IsData(e, p) => v.block[p] = u.block[p] /\ v.mover[p] = e.settle
      /\ ~IsBlock(e, p) /\ ~IsData(e, p) => v.block[p] = u.block[p] /\ v.mover[p] = u.mover[p]
  BY DEF Shown
<1>4. ~(IsBlock(e, p) /\ IsData(e, p))
  BY DEF IsBlock, IsData
<1> HIDE DEF t, e
<1>5. \A i \in DOMAIN t : IsBlock(t[i], p) => t[i].state = w.block[p]
  BY <1>1, <1>2
<1>6. ASSUME NEW i \in DOMAIN t, IsData(t[i], p)
      PROVE  t[i].settle = w.mover[p] /\ \A j \in DOMAIN t : IsBlock(t[j], p) => j < i
  <2>1. i + 1 \in DOMAIN q /\ IsData(q[i + 1], p) /\ t[i] = q[i + 1]
    BY <1>1, <1>6
  <2>2. t[i].settle = w.mover[p] /\ \A j \in DOMAIN q : IsBlock(q[j], p) => j < i + 1
    BY <1>2, <2>1
  <2>3. ASSUME NEW j \in DOMAIN t, IsBlock(t[j], p) PROVE j < i
    <3>1. j + 1 \in DOMAIN q /\ IsBlock(q[j + 1], p) /\ j \in Int /\ i \in Int
      BY <1>1, <2>3
    <3>2. j + 1 < i + 1
      BY <2>2, <3>1
    <3> QED
      BY <3>1, <3>2
  <2> QED
    BY <2>2, <2>3
<1>7. CASE IsBlock(e, p)
  <2>1. e.state = w.block[p] /\ v.block[p] = w.block[p]
    BY <1>1, <1>2, <1>3, <1>7
  <2>2. ASSUME \A i \in DOMAIN t : ~IsData(t[i], p)
        PROVE  w.mover[p] = NoMover /\ v.mover[p] = NoMover
    <3>1. \A i \in DOMAIN q : ~IsData(q[i], p)
      BY <1>1, <1>4, <1>7, <2>2
    <3>2. w.mover[p] = NoMover /\ (u.mover[p] = NoMover \/ u.block[p] # w.block[p])
      BY <1>1, <1>2, <1>7, <3>1
    <3> QED
      BY <1>3, <1>7, <2>1, <3>2
  <2> QED
    BY <1>5, <1>6, <2>1, <2>2 DEF Catching, t
<1>8. CASE IsData(e, p)
  <2>1. v.block[p] = u.block[p] /\ v.mover[p] = w.mover[p]
    BY <1>1, <1>2, <1>3, <1>8
  <2>2. \A j \in DOMAIN q : ~IsBlock(q[j], p)
    <3>1. \A j \in DOMAIN q : IsBlock(q[j], p) => j < 1
      BY <1>1, <1>2, <1>8
    <3> QED
      BY <1>1, <3>1
  <2>3. \A j \in DOMAIN t : ~IsBlock(t[j], p)
    BY <1>1, <2>2
  <2>4. u.block[p] = w.block[p]
    BY <1>2, <2>2
  <2> QED
    BY <1>5, <1>6, <2>1, <2>3, <2>4 DEF Catching, t
<1>9. CASE ~IsBlock(e, p) /\ ~IsData(e, p)
  <2>1. v.block[p] = u.block[p] /\ v.mover[p] = u.mover[p]
    BY <1>3, <1>9
  <2>2. /\ (\A i \in DOMAIN t : ~IsBlock(t[i], p)) => \A i \in DOMAIN q : ~IsBlock(q[i], p)
        /\ (\A i \in DOMAIN t : ~IsData(t[i], p)) => \A i \in DOMAIN q : ~IsData(q[i], p)
        /\ (\E i \in DOMAIN t : IsBlock(t[i], p)) => \E i \in DOMAIN q : IsBlock(q[i], p)
    BY <1>1, <1>9
  <2>3. (\A i \in DOMAIN t : ~IsBlock(t[i], p)) => v.block[p] = w.block[p]
    BY <1>2, <2>1, <2>2
  <2>4. (\A i \in DOMAIN t : ~IsBlock(t[i], p) /\ ~IsData(t[i], p)) => v.mover[p] = w.mover[p]
    BY <1>2, <2>1, <2>2
  <2>5. (\A i \in DOMAIN t : ~IsData(t[i], p)) /\ (\E i \in DOMAIN t : IsBlock(t[i], p)) =>
          w.mover[p] = NoMover /\ (v.mover[p] = NoMover \/ v.block[p] # w.block[p])
    BY <1>2, <2>1, <2>2
  <2> QED
    BY <1>5, <1>6, <2>3, <2>4, <2>5 DEF Catching, t
<1> QED
  BY <1>7, <1>8, <1>9

LEMMA EventCovers ==
  ASSUME NEW q \in Seq(Events), q # <<>>, NEW w, NEW L, NEW M, NEW p, Covered(q, w, L, p),
         L \subseteq M, Head(q).kind # "removed" => Expanded({Chunk(Head(q).pos)}) \subseteq M
  PROVE  Covered(Tail(q), w, M, p)
<1> DEFINE t == Tail(q)
           e == Head(q)
<1>1. \A i \in DOMAIN q : (i = 1 /\ q[i] = e) \/ (i - 1 \in DOMAIN t /\ t[i - 1] = q[i])
  OBVIOUS
<1>2. IsBlock(e, p) \/ IsData(e, p) => Expanded({Chunk(p)}) \subseteq M
  BY DEF IsBlock, IsData
<1>3. (\A i \in DOMAIN t : ~IsBlock(t[i], p) /\ ~IsData(t[i], p)) /\ ~(IsBlock(e, p) \/ IsData(e, p)) =>
        \A i \in DOMAIN q : ~IsBlock(q[i], p) /\ ~IsData(q[i], p)
  BY <1>1
<1> HIDE DEF t, e
<1>4. Covered(t, w, M, p)
  BY <1>2, <1>3 DEF Covered
<1> QED
  BY <1>4 DEF t

-----------------------------------------------------------------------------
\* The invariant holds at first and is kept by every step.

LEMMA InitInv ==
  Init => Inv
<1> SUFFICES ASSUME Init PROVE Inv
  OBVIOUS
<1>1. /\ world \in Worlds
      /\ tick = 0 /\ status = "none" /\ pending = <<>> /\ lastTick = 0
      /\ rec = [loaded |-> {}, center |-> <<0, 0>>, radius |-> ViewDistance, stamp |-> 0,
                packetStamp |-> 0, view |-> EmptyView]
      /\ trace = [block |-> EmptyWorld.block, mover |-> EmptyWorld.mover, clock |-> 0, ticks |-> 0]
      /\ output = NoOutput
  BY DEF Init
<1>2. world \in WorldStates /\ MoversMove
  BY <1>1, ReplayAssumption DEF WorldStates, MoversMove
<1>3. EmptyView \in Views
  BY DEF EmptyView, Views, Chunks, Air, NoMover, Blocks
<1>4. rec \in Recordings
  BY <1>1, <1>3, ReplayAssumption DEF Recordings, Chunks
<1>5. trace \in Traces
  BY <1>1 DEF Traces, EmptyWorld, Air, NoMover, Blocks
<1>6. TypeOK
  BY <1>1, <1>2, <1>4, <1>5 DEF TypeOK, Statuses, Early
<1>7. Unwritten
  BY <1>1 DEF Unwritten
<1>8. Shows /\ TraceShows /\ Catches /\ CaughtUp /\ Ending /\ Output
  BY <1>1 DEF Shows, TraceShows, Catches, CaughtUp, Ending, Output, Writing
<1> QED
  BY <1>2, <1>6, <1>7, <1>8 DEF Inv

\* A step of the writer that writes nothing and does not begin to record
LEMMA Resting ==
  ASSUME Inv, UNCHANGED <<outside, rec, trace>>,
         status' \in Statuses, status' \notin Writing \cup {"created", "packed"},
         status' \in Early => status \in Early,
         status' \notin {"renamed", "finished", "killed"} =>
           status \notin {"renamed", "finished", "killed"},
         status' \in {"dropped", "finished"} => temp' = {}
  PROVE  Inv'
<1>1. /\ world' = world /\ tick' = tick /\ lastTick' = lastTick /\ pending' = pending
      /\ output' = output /\ rec' = rec /\ trace' = trace
  BY DEF outside
<1>2. status' \notin {"open", "delta", "anchored", "traced", "created", "packed"}
  BY DEF Writing
<1>3. TypeOK' /\ MoversMove'
  BY <1>1 DEF Inv, TypeOK, MoversMove
<1>4. Unwritten'
  BY <1>1 DEF Inv, Unwritten
<1>5. Shows' /\ TraceShows' /\ Catches' /\ CaughtUp'
  BY <1>2 DEF Shows, TraceShows, Catches, CaughtUp, Writing
<1>6. Ending'
  BY <1>2 DEF Ending
<1>7. Output'
  BY <1>1 DEF Inv, Output, Whole, Agrees
<1> QED
  BY <1>3, <1>4, <1>5, <1>6, <1>7 DEF Inv

LEMMA RestingSteps ==
  ASSUME Inv, CreateRecording \/ CreateArchive \/ Fails \/ Clean \/ Killed
  PROVE  Inv'
<1>1. status \in Statuses
  BY DEF Inv, TypeOK
<1>2. CASE CreateRecording
  <2>1. status = "none" /\ status' \in {"recording", "refused"} /\ UNCHANGED <<outside, rec, trace>>
    BY <1>2 DEF CreateRecording
  <2> QED
    BY <2>1, Resting DEF Statuses, Early, Writing
<1>3. CASE CreateArchive
  <2>1. status = "recording" /\ status' \in {"archive", "refused"} /\ UNCHANGED <<outside, rec, trace>>
    BY <1>3 DEF CreateArchive
  <2> QED
    BY <2>1, Resting DEF Statuses, Early, Writing
<1>4. CASE Fails
  <2>1. /\ status \in {"created", "open", "delta", "anchored", "traced", "packed"}
        /\ status' = "dropped" /\ temp' = {} /\ UNCHANGED <<outside, rec, trace>>
    BY <1>4 DEF Fails
  <2> QED
    BY <2>1, Resting DEF Statuses, Early, Writing
<1>5. CASE Clean
  <2>1. status' = "finished" /\ temp' = {} /\ UNCHANGED <<outside, rec, trace>>
    BY <1>5 DEF Clean
  <2> QED
    BY <2>1, Resting DEF Statuses, Early, Writing
<1>6. CASE Killed
  <2>1. status' = "killed" /\ UNCHANGED <<outside, rec, trace>>
    BY <1>6 DEF Killed
  <2> QED
    BY <2>1, Resting DEF Statuses, Early, Writing
<1> QED
  BY <1>2, <1>3, <1>4, <1>5, <1>6

LEMMA CreateTraceStep ==
  ASSUME Inv, CreateTrace
  PROVE  Inv'
<1>1. status = "archive" /\ UNCHANGED <<outside, rec>>
  BY DEF CreateTrace
<1>2. CASE status' = "refused" /\ UNCHANGED trace
  BY <1>1, <1>2, Resting DEF Statuses, Early, Writing
<1>3. CASE status' = "created" /\ trace' = [trace EXCEPT !.block = world.block, !.mover = world.mover]
  <2>1. /\ world' = world /\ tick' = tick /\ lastTick' = lastTick /\ pending' = pending
        /\ output' = output /\ rec' = rec
    BY <1>1 DEF outside
  <2>2. trace' \in Traces /\ trace'.block = world.block /\ trace'.mover = world.mover
    BY <1>3 DEF Inv, TypeOK, Traces, WorldStates
  <2>3. TypeOK' /\ MoversMove'
    BY <1>3, <2>1, <2>2 DEF Inv, TypeOK, MoversMove, Statuses, Early
  <2>4. Unwritten'
    BY <1>1, <2>1 DEF Inv, Unwritten, Early
  <2>5. TraceShows'
    BY <2>1, <2>2 DEF TraceShows
  <2>6. Shows' /\ Catches' /\ CaughtUp' /\ Ending'
    BY <1>3 DEF Shows, Catches, CaughtUp, Writing, Ending
  <2>7. Output'
    BY <1>1, <1>3, <2>1 DEF Inv, Output
  <2> QED
    BY <2>3, <2>4, <2>5, <2>6, <2>7 DEF Inv
<1> QED
  BY <1>2, <1>3 DEF CreateTrace

LEMMA FinishStep ==
  ASSUME Inv, Finish
  PROVE  Inv'
<1>1. /\ status = "open" /\ status' = "anchored" /\ rec' = Anchored(rec)
      /\ world' = world /\ tick' = tick /\ lastTick' = lastTick /\ pending' = pending
      /\ output' = output /\ trace' = trace
  BY DEF Finish, outside
<1>2. /\ Viewing(rec) /\ rec.stamp \in Int
      /\ trace.block = world.block /\ trace.mover = world.mover
      /\ Agrees(rec.view) /\ rec.stamp = Stamp(tick) /\ lastTick = tick /\ output = NoOutput
  BY <1>1 DEF Inv, TypeOK, Recordings, Shows, TraceShows, CaughtUp, Output, Writing
<1>3. /\ Viewing(rec') /\ rec'.view.clock = rec'.stamp /\ rec'.stamp = rec.stamp
      /\ rec'.view.loaded = rec.view.loaded
      /\ rec'.view.block = rec.view.block /\ rec'.view.mover = rec.view.mover
  <2>1. CASE rec.packetStamp = rec.stamp
    BY <1>1, <1>2, <2>1 DEF Anchored, Viewing
  <2>2. CASE rec.packetStamp # rec.stamp
    <3> DEFINE v == [rec.view EXCEPT !.radius = rec.radius]
    <3>1. rec \in Recordings /\ rec.view \in Views /\ rec.view.radius = rec.radius
      BY <1>2 DEF Viewing, Recordings
    <3>2. /\ v \in Views /\ v.loaded = rec.view.loaded /\ v.center = rec.view.center
          /\ v.radius = rec.view.radius /\ v.block = rec.view.block /\ v.mover = rec.view.mover
      BY <3>1 DEF Views
    <3>3. rec' = Sent(rec, rec.stamp, v)
      BY <1>1, <2>2 DEF Anchored
    <3> HIDE DEF v
    <3>4. /\ rec' \in Recordings
          /\ rec'.loaded = rec.loaded /\ rec'.center = rec.center /\ rec'.radius = rec.radius
          /\ rec'.stamp = rec.stamp /\ rec'.packetStamp = rec.stamp /\ rec'.view.clock = rec.stamp
          /\ rec'.view.loaded = v.loaded /\ rec'.view.center = v.center /\ rec'.view.radius = v.radius
          /\ rec'.view.block = v.block /\ rec'.view.mover = v.mover
      BY <1>2, <3>1, <3>2, <3>3, SentRight
    <3> QED
      BY <1>2, <3>2, <3>4 DEF Viewing
  <2> QED
    BY <2>1, <2>2
<1>4. TypeOK'
  <2>1. rec' \in Recordings
    BY <1>3 DEF Viewing
  <2> QED
    BY <1>1, <2>1 DEF Inv, TypeOK, Statuses, Writing
<1>5. MoversMove' /\ Unwritten'
  BY <1>1 DEF Inv, MoversMove, Unwritten, Early
<1>6. Shows' /\ TraceShows' /\ Catches' /\ Ending'
  BY <1>1, <1>2, <1>3 DEF Shows, TraceShows, Catches, Ending
<1>7. CaughtUp'
  BY <1>1, <1>2, <1>3 DEF CaughtUp, Agrees
<1>8. Output'
  BY <1>1, <1>2 DEF Output
<1> QED
  BY <1>4, <1>5, <1>6, <1>7, <1>8 DEF Inv

LEMMA FinishTraceStep ==
  ASSUME Inv, FinishTrace
  PROVE  Inv'
<1>1. /\ status = "anchored" /\ status' = "traced" /\ trace' = [trace EXCEPT !.ticks = lastTick]
      /\ world' = world /\ tick' = tick /\ lastTick' = lastTick /\ pending' = pending
      /\ output' = output /\ rec' = rec
  BY DEF FinishTrace, outside
<1>2. /\ Viewing(rec) /\ rec.view.clock = rec.stamp /\ trace \in Traces /\ lastTick \in Nat
      /\ trace.block = world.block /\ trace.mover = world.mover
      /\ Agrees(rec.view) /\ rec.stamp = Stamp(tick) /\ lastTick = tick /\ output = NoOutput
  BY <1>1 DEF Inv, TypeOK, Shows, TraceShows, CaughtUp, Ending, Output, Writing
<1>3. /\ trace' \in Traces /\ trace'.block = trace.block /\ trace'.mover = trace.mover
      /\ trace'.ticks = lastTick
  BY <1>1, <1>2 DEF Traces
<1>4. TypeOK'
  BY <1>1, <1>3 DEF Inv, TypeOK, Statuses, Writing
<1>5. MoversMove' /\ Unwritten'
  BY <1>1 DEF Inv, MoversMove, Unwritten, Early
<1>6. Shows' /\ TraceShows' /\ Catches' /\ Ending'
  BY <1>1, <1>2, <1>3 DEF Shows, TraceShows, Catches, Ending
<1>7. CaughtUp'
  BY <1>1, <1>2 DEF CaughtUp, Agrees
<1>8. Output'
  BY <1>1, <1>2 DEF Output
<1> QED
  BY <1>4, <1>5, <1>6, <1>7, <1>8 DEF Inv

LEMMA PackStep ==
  ASSUME Inv, Pack
  PROVE  Inv'
<1>1. /\ status = "traced" /\ status' = "packed"
      /\ packed' = [view |-> rec.view, trace |-> trace, duration |-> rec.stamp]
      /\ world' = world /\ tick' = tick /\ lastTick' = lastTick /\ pending' = pending
      /\ output' = output /\ rec' = rec /\ trace' = trace
  BY DEF Pack
<1>2. /\ rec.view.clock = rec.stamp /\ trace.ticks = tick
      /\ trace.block = world.block /\ trace.mover = world.mover
      /\ Agrees(rec.view) /\ rec.stamp = Stamp(tick) /\ output = NoOutput
  BY <1>1 DEF Inv, TraceShows, CaughtUp, Ending, Output, Writing
<1>3. TypeOK'
  BY <1>1 DEF Inv, TypeOK, Statuses
<1>4. MoversMove' /\ Unwritten'
  BY <1>1 DEF Inv, MoversMove, Unwritten, Early
<1>5. Shows' /\ TraceShows' /\ Catches' /\ CaughtUp'
  BY <1>1 DEF Shows, TraceShows, Catches, CaughtUp, Writing
<1>6. Whole(packed')
  BY <1>1, <1>2 DEF Whole
<1>7. Whole(packed)'
  BY <1>1, <1>6 DEF Whole, Agrees
<1>8. Ending' /\ Output'
  BY <1>1, <1>2, <1>7 DEF Ending, Output
<1> QED
  BY <1>3, <1>4, <1>5, <1>8 DEF Inv

LEMMA RenameStep ==
  ASSUME Inv, Rename
  PROVE  Inv'
<1>1. /\ status = "packed" /\ status' = "renamed" /\ output' = packed
      /\ world' = world /\ tick' = tick /\ lastTick' = lastTick /\ pending' = pending
      /\ packed' = packed /\ rec' = rec /\ trace' = trace
  BY DEF Rename
<1>2. Whole(packed)
  BY <1>1 DEF Inv, Ending
<1>3. TypeOK'
  BY <1>1 DEF Inv, TypeOK, Statuses
<1>4. MoversMove' /\ Unwritten'
  BY <1>1 DEF Inv, MoversMove, Unwritten, Early
<1>5. Shows' /\ TraceShows' /\ Catches' /\ CaughtUp' /\ Ending'
  BY <1>1 DEF Shows, TraceShows, Catches, CaughtUp, Writing, Ending
<1>6. Whole(output)'
  BY <1>1, <1>2 DEF Whole, Agrees
<1>7. Output'
  BY <1>1, <1>6 DEF Output
<1> QED
  BY <1>3, <1>4, <1>5, <1>7 DEF Inv

LEMMA ExpandedParts ==
  /\ \A S, T : S \subseteq T => Expanded(S) \subseteq Expanded(T)
  /\ \A S, L : (\A c \in S : Expanded({c}) \subseteq L) => Expanded(S) \subseteq L
BY DEF Expanded

LEMMA OccupiedChunks ==
  ASSUME world \in WorldStates
  PROVE  /\ Occupied(world) \in SUBSET Chunks /\ IsFiniteSet(Occupied(world))
         /\ \A c \in Occupied(world) :
              \E p \in Positions : c = Chunk(p) /\ (world.block[p] # Air \/ world.mover[p] # NoMover)
         /\ \A p \in Positions :
              (world.block[p] # Air \/ world.mover[p] # NoMover) => Chunk(p) \in Occupied(world)
<1> DEFINE H == {q \in Positions : world.block[q] # Air \/ world.mover[q] # NoMover}
           f == [p \in H |-> Chunk(p)]
<1>1. Occupied(world) = {Chunk(p) : p \in H}
  BY DEF Occupied
<1>2. IsFiniteSet(H)
  BY ReplayAssumption, FS_Subset
<1>3. f \in Surjection(H, Occupied(world))
  BY <1>1 DEF Surjection
<1>4. IsFiniteSet(Occupied(world))
  <2> HIDE DEF f, H
  <2> QED
    BY <1>2, <1>3, FS_Surjection
<1>5. Occupied(world) \in SUBSET Chunks
  BY <1>1, ChunkType
<1> QED
  BY <1>1, <1>4, <1>5

LEMMA WriteInitialWorldStep ==
  ASSUME Inv, WriteInitialWorld
  PROVE  Inv'
<1> DEFINE S == Region \cup Occupied(world)
           chunks == InitialChunks
           radius(camera) == Max({Distance(c, camera) : c \in chunks} \cup {ViewDistance})
           centered(camera) == [rec EXCEPT !.center = camera, !.radius = radius(camera),
                                  !.view.center = camera, !.view.radius = radius(camera)]
<1>1. PICK camera \in Cameras : rec' = WithChunks(centered(camera), 0, chunks, world)
  BY DEF WriteInitialWorld
<1>2. /\ status = "created" /\ status' = "open"
      /\ world' = world /\ tick' = tick /\ lastTick' = lastTick /\ pending' = pending
      /\ output' = output /\ trace' = trace
  BY DEF WriteInitialWorld, outside
<1>3. /\ world \in WorldStates /\ tick = 0 /\ lastTick = 0 /\ output = NoOutput
      /\ trace.block = world.block /\ trace.mover = world.mover
      /\ rec \in Recordings
      /\ rec = [loaded |-> {}, center |-> <<0, 0>>, radius |-> ViewDistance, stamp |-> 0,
                packetStamp |-> 0, view |-> EmptyView]
  BY <1>2 DEF Inv, TypeOK, Unwritten, TraceShows, Output, Early
<1>4. /\ Occupied(world) \in SUBSET Chunks /\ IsFiniteSet(Occupied(world))
      /\ \A p \in Positions :
           (world.block[p] # Air \/ world.mover[p] # NoMover) => Chunk(p) \in Occupied(world)
  BY <1>3, OccupiedChunks
<1>5. S \in SUBSET Chunks /\ IsFiniteSet(S)
  <2>1. Region \in SUBSET Chunks /\ IsFiniteSet(Region)
    BY ReplayAssumption DEF Chunks
  <2> QED
    BY <1>4, <2>1, FS_Union
<1>6. camera \in Chunks
  BY ReplayAssumption DEF Chunks
<1>7. chunks \in SUBSET Chunks /\ S \subseteq chunks /\ Expanded(Occupied(world)) \subseteq chunks
  <2>1. chunks = Expanded(S)
    BY DEF InitialChunks
  <2> HIDE DEF S, chunks
  <2>2. chunks \in SUBSET Chunks /\ S \subseteq chunks
    BY <1>5, <2>1, ExpandedChunks
  <2>3. Occupied(world) \subseteq S
    BY DEF S
  <2>4. Expanded(Occupied(world)) \subseteq chunks
    BY <2>1, <2>3, ExpandedParts
  <2> QED
    BY <2>2, <2>4
<1>8. radius(camera) \in Int /\ \A c \in chunks : Distance(c, camera) <= radius(camera)
  <2>1. PICK b \in Int : \A c \in Expanded(S) : Distance(c, camera) <= b
    <3> HIDE DEF S
    <3> QED
      BY <1>5, <1>6, ExpandedBounded
  <2>2. \A c \in chunks : Distance(c, camera) <= b
    BY <2>1 DEF InitialChunks
  <2> HIDE DEF chunks
  <2> QED
    BY <1>6, <1>7, <2>2, RadiusCovers
<1> HIDE DEF radius
<1> DEFINE r == centered(camera)
<1>9. /\ Viewing(r) /\ r.center = camera /\ r.radius = radius(camera)
      /\ r.loaded = {} /\ r.view.block = EmptyView.block /\ r.view.mover = EmptyView.mover
  <2> DEFINE v == [EmptyView EXCEPT !.center = camera, !.radius = radius(camera)]
  <2>1. EmptyView \in Views /\ rec.view = EmptyView
    BY <1>3 DEF Recordings
  <2>2. /\ v \in Views /\ v.center = camera /\ v.radius = radius(camera)
        /\ v.loaded = EmptyView.loaded /\ v.clock = EmptyView.clock
        /\ v.block = EmptyView.block /\ v.mover = EmptyView.mover
    BY <1>6, <1>8, <2>1 DEF Views
  <2>3. r = [rec EXCEPT !.center = camera, !.radius = radius(camera), !.view = v]
    BY <1>3, <2>1 DEF Recordings
  <2>4. /\ EmptyView.loaded = {} /\ EmptyView.clock = 0
        /\ \A p \in Positions : EmptyView.block[p] = Air /\ EmptyView.mover[p] = NoMover
    BY DEF EmptyView
  <2> HIDE DEF v, r
  <2>5. /\ r \in Recordings /\ r.center = camera /\ r.radius = radius(camera) /\ r.view = v
        /\ r.loaded = {} /\ r.packetStamp = 0
    BY <1>3, <1>6, <1>8, <2>2, <2>3 DEF Recordings
  <2> QED
    BY <2>2, <2>4, <2>5 DEF Viewing
<1> HIDE DEF r
<1>10. Within(chunks, r)
  BY <1>8, <1>9 DEF Within
<1> HIDE DEF chunks
<1>11. Extended(rec', r, 0, chunks, world)
  <2>1. rec' = WithChunks(r, 0, chunks, world)
    BY <1>1 DEF r
  <2>2. Extended(WithChunks(r, 0, chunks, world), r, 0, chunks, world)
    BY <1>3, <1>7, <1>9, <1>10, WithChunksRight
  <2> QED
    BY <2>1, <2>2
<1>12. /\ Viewing(rec') /\ rec'.loaded = chunks /\ rec'.stamp = 0
       /\ \A p \in Positions :
            /\ Chunk(p) \in chunks =>
                 rec'.view.block[p] = world.block[p] /\ rec'.view.mover[p] = world.mover[p]
  BY <1>9, <1>11 DEF Extended
<1>13. rec' \in Recordings /\ rec'.view.loaded = chunks
  BY <1>12 DEF Viewing
<1>14. Agrees(rec.view)'
  <2>1. \A p \in Positions : Chunk(p) \notin chunks => world.block[p] = Air /\ world.mover[p] = NoMover
    BY <1>4, <1>7 DEF S
  <2> QED
    BY <1>2, <1>7, <1>12, <1>13, <2>1 DEF Agrees
<1>15. TypeOK'
  BY <1>2, <1>13 DEF Inv, TypeOK, Statuses, Writing
<1>16. MoversMove' /\ Unwritten'
  BY <1>2 DEF Inv, MoversMove, Unwritten, Early
<1>17. Shows' /\ TraceShows' /\ Catches' /\ Ending'
  BY <1>2, <1>3, <1>12 DEF Shows, TraceShows, Catches, Ending
<1>18. CaughtUp'
  <2>1. Stamp(tick') = 0
    BY <1>2, <1>3, ReplayAssumption DEF Stamp
  <2> QED
    BY <1>2, <1>3, <1>12, <1>14, <2>1 DEF CaughtUp
<1>19. Output'
  BY <1>2, <1>3 DEF Output
<1> QED
  BY <1>15, <1>16, <1>17, <1>18, <1>19 DEF Inv

LEMMA RecordDeltaStep ==
  ASSUME Inv, RecordDelta
  PROVE  Inv'
<1>1. /\ status = "open" /\ tick' = tick + 1
      /\ pending' \in Deltas(world, tick + 1) /\ world' = After(world, pending')
      /\ rec' = rec /\ lastTick' = lastTick /\ packed' = packed /\ output' = output
      /\ \/ status' = "dropped" /\ temp' = {} /\ trace' = trace
         \/ status' = "delta" /\ trace' = Framed(trace, Stamp(tick'), pending')
  BY DEF RecordDelta
<1>2. /\ world \in WorldStates /\ tick \in Nat /\ MoversMove /\ trace \in Traces
      /\ Viewing(rec) /\ Agrees(rec.view) /\ output = NoOutput
      /\ trace.block = world.block /\ trace.mover = world.mover
  BY <1>1 DEF Inv, TypeOK, Shows, TraceShows, CaughtUp, Output, Writing
<1> DEFINE q == pending'
<1>3. q \in Seq(Events) /\ \A p \in Positions : Tidy(q, world, p)
  <2>1. tick + 1 \in Int
    BY <1>2
  <2> QED
    BY <1>1, <1>2, <2>1, DeltasTidy
<1> HIDE DEF q
<1>4. world' = After(world, q)
  BY <1>1 DEF q
<1>5. world' \in WorldStates
  BY <1>2, <1>3, <1>4, AfterSaid DEF Said
<1>6. ASSUME NEW p \in Positions
      PROVE  /\ rec.view.block[p] = world.block[p] /\ rec.view.mover[p] = world.mover[p]
             /\ world.block[p] # Air \/ world.mover[p] # NoMover =>
                  Expanded({Chunk(p)}) \subseteq rec.loaded
  <2>1. rec.view.loaded = rec.loaded
    BY <1>2 DEF Viewing
  <2>2. rec.view.block[p] = world.block[p] /\ rec.view.mover[p] = world.mover[p]
    BY <1>2, <2>1 DEF Viewing, Agrees
  <2>3. ASSUME world.block[p] # Air \/ world.mover[p] # NoMover
        PROVE  Expanded({Chunk(p)}) \subseteq rec.loaded
    <3>1. Chunk(p) \in Occupied(world)
      BY <1>2, <2>3, OccupiedChunks
    <3>2. Expanded({Chunk(p)}) \subseteq Expanded(Occupied(world))
      BY <3>1, ExpandedParts
    <3> QED
      BY <1>2, <2>1, <3>2 DEF Agrees
  <2> QED
    BY <2>2, <2>3
<1>7. ASSUME NEW p \in Positions
      PROVE  /\ Catching(q, world', rec.view, p) /\ Covered(q, world', rec.loaded, p)
             /\ world'.mover[p] # NoMover => world'.block[p] = Moving
  <2>1. world.mover[p] # NoMover => world.block[p] = Moving
    BY <1>2 DEF MoversMove
  <2>2. /\ Catching(q, world', rec.view, p)
        /\ world'.mover[p] # NoMover => world'.block[p] = Moving
        /\ (\A i \in DOMAIN q : ~IsBlock(q[i], p) /\ ~IsData(q[i], p)) =>
             world'.block[p] = world.block[p] /\ world'.mover[p] = world.mover[p]
    BY <1>2, <1>3, <1>4, <1>6, <2>1, DeltaCatches
  <2>3. Covered(q, world', rec.loaded, p)
    BY <1>6, <2>2 DEF Covered
  <2> QED
    BY <2>2, <2>3
<1>8. MoversMove'
  BY <1>7 DEF MoversMove
<1>9. CASE status' = "dropped" /\ temp' = {} /\ trace' = trace
  <2>1. TypeOK'
    BY <1>1, <1>2, <1>3, <1>5, <1>9 DEF Inv, TypeOK, Statuses, q
  <2>2. Unwritten' /\ Shows' /\ TraceShows' /\ Catches' /\ CaughtUp' /\ Ending'
    BY <1>9 DEF Unwritten, Early, Shows, TraceShows, Catches, CaughtUp, Writing, Ending
  <2>3. Output'
    BY <1>1, <1>2, <1>9 DEF Output
  <2> QED
    BY <1>8, <2>1, <2>2, <2>3 DEF Inv
<1>10. CASE status' = "delta" /\ trace' = Framed(trace, Stamp(tick'), pending')
  <2>1. trace' = Framed(trace, Stamp(tick'), q)
    BY <1>10 DEF q
  <2>2. trace'.block = world'.block /\ trace'.mover = world'.mover
    BY <1>2, <1>3, <1>4, <2>1, FramedRight
  <2>3. trace' \in Traces
    <3>1. CASE \A i \in DOMAIN q : q[i].kind = "event"
      BY <1>2, <2>1, <3>1 DEF Framed
    <3>2. CASE ~\A i \in DOMAIN q : q[i].kind = "event"
      <4>1. \E b, m : trace' = [clock |-> Stamp(tick'), ticks |-> trace.ticks, block |-> b, mover |-> m]
        BY <2>1, <3>2 DEF Framed
      <4>2. Stamp(tick') \in Int
        BY <1>1, <1>2, ReplayAssumption DEF Stamp
      <4>3. trace.ticks \in Int
        BY <1>2 DEF Traces
      <4>4. world'.block \in [Positions -> Blocks] /\ world'.mover \in [Positions -> Int]
        BY <1>5 DEF WorldStates
      <4>5. PICK b, m : trace' = [clock |-> Stamp(tick'), ticks |-> trace.ticks, block |-> b, mover |-> m]
        BY <4>1
      <4>6. b \in [Positions -> Blocks] /\ m \in [Positions -> Int]
        BY <2>2, <4>4, <4>5
      <4> QED
        BY <4>2, <4>3, <4>5, <4>6 DEF Traces
    <3> QED
      BY <3>1, <3>2
  <2>4. TypeOK'
    BY <1>1, <1>2, <1>3, <1>5, <1>10, <2>3 DEF Inv, TypeOK, Statuses, Writing, q
  <2>5. Unwritten' /\ CaughtUp' /\ Ending'
    BY <1>10 DEF Unwritten, Early, CaughtUp, Ending
  <2>6. Shows' /\ TraceShows'
    BY <1>1, <1>2, <2>2 DEF Shows, TraceShows
  <2>7. Catches'
    BY <1>1, <1>7 DEF Catches, q
  <2>8. Output'
    BY <1>1, <1>2, <1>10 DEF Output
  <2> QED
    BY <1>8, <2>4, <2>5, <2>6, <2>7, <2>8 DEF Inv
<1> QED
  BY <1>1, <1>9, <1>10

LEMMA RecordEventStep ==
  ASSUME Inv, RecordEvent
  PROVE  Inv'
<1>1. /\ status = "delta" /\ pending # <<>>
      /\ rec' = EventRecorded(rec, Stamp(tick), Head(pending))
      /\ pending' = Tail(pending)
      /\ world' = world /\ tick' = tick /\ status' = status /\ lastTick' = lastTick /\ trace' = trace
      /\ packed' = packed /\ output' = output
  BY DEF RecordEvent
<1>2. /\ tick \in Nat /\ pending \in Seq(Events) /\ Viewing(rec) /\ output = NoOutput
      /\ trace.block = world.block /\ trace.mover = world.mover
      /\ \A p \in Positions : Catching(pending, world, rec.view, p) /\ Covered(pending, world, rec.loaded, p)
  BY <1>1 DEF Inv, TypeOK, Shows, TraceShows, Catches, Output, Writing
<1>3. Head(pending) \in Events /\ Tail(pending) \in Seq(Events)
  BY <1>1, <1>2
<1>4. Stamp(tick) \in Int
  BY <1>2, ReplayAssumption DEF Stamp
<1>5. /\ Viewing(rec') /\ rec.loaded \subseteq rec'.loaded
      /\ Head(pending).kind # "removed" => Expanded({Chunk(Head(pending).pos)}) \subseteq rec'.loaded
      /\ \A p \in Positions : Shown(rec.view, rec'.view, Head(pending), p)
  BY <1>1, <1>2, <1>3, <1>4, EventRecordedRight
<1>6. \A p \in Positions : Catching(pending', world', rec'.view, p)
  BY <1>1, <1>2, <1>5, EventCatches
<1>7. \A p \in Positions : Covered(pending', world', rec'.loaded, p)
  BY <1>1, <1>2, <1>5, EventCovers
<1>8. TypeOK'
  <2>1. rec' \in Recordings
    BY <1>5 DEF Viewing
  <2> QED
    BY <1>1, <1>3, <2>1 DEF Inv, TypeOK
<1>9. MoversMove' /\ Unwritten'
  BY <1>1 DEF Inv, MoversMove, Unwritten, Early
<1>10. Shows' /\ TraceShows' /\ Catches' /\ CaughtUp' /\ Ending'
  BY <1>1, <1>2, <1>5, <1>6, <1>7 DEF Shows, TraceShows, Catches, CaughtUp, Ending
<1>11. Output'
  BY <1>1, <1>2 DEF Output
<1> QED
  BY <1>8, <1>9, <1>10, <1>11 DEF Inv

LEMMA EndDeltaStep ==
  ASSUME Inv, EndDelta
  PROVE  Inv'
<1>1. /\ status = "delta" /\ pending = <<>> /\ status' = "open"
      /\ lastTick' = tick /\ rec' = [rec EXCEPT !.stamp = Stamp(tick)]
      /\ world' = world /\ tick' = tick /\ pending' = pending /\ trace' = trace
      /\ packed' = packed /\ output' = output
  BY DEF EndDelta
<1>2. /\ world \in WorldStates /\ tick \in Nat /\ Viewing(rec) /\ output = NoOutput
      /\ trace.block = world.block /\ trace.mover = world.mover
      /\ \A p \in Positions : Catching(<<>>, world, rec.view, p) /\ Covered(<<>>, world, rec.loaded, p)
  BY <1>1 DEF Inv, TypeOK, Shows, TraceShows, Catches, Output, Writing
<1>3. Stamp(tick) \in Int
  BY <1>2, ReplayAssumption DEF Stamp
<1>4. /\ rec' \in Recordings /\ rec'.stamp = Stamp(tick) /\ rec'.view = rec.view
      /\ rec'.loaded = rec.loaded /\ rec'.center = rec.center /\ rec'.radius = rec.radius
      /\ rec'.packetStamp = rec.packetStamp
  BY <1>1, <1>2, <1>3 DEF Viewing, Recordings
<1>5. Viewing(rec')
  BY <1>2, <1>4 DEF Viewing
<1>6. \A p \in Positions :
        /\ rec.view.block[p] = world.block[p] /\ rec.view.mover[p] = world.mover[p]
        /\ world.block[p] # Air \/ world.mover[p] # NoMover => Expanded({Chunk(p)}) \subseteq rec.loaded
  BY <1>2 DEF Catching, Covered
<1>7. Agrees(rec.view)
  <2>1. /\ rec.view.loaded = rec.loaded
        /\ \A p \in Positions : Chunk(p) \notin rec.loaded =>
             rec.view.block[p] = Air /\ rec.view.mover[p] = NoMover
    BY <1>2 DEF Viewing
  <2>2. \A c \in Occupied(world) : Expanded({c}) \subseteq rec.loaded
    <3> TAKE c \in Occupied(world)
    <3>1. PICK p \in Positions : c = Chunk(p) /\ (world.block[p] # Air \/ world.mover[p] # NoMover)
      BY <1>2, OccupiedChunks
    <3> QED
      BY <1>6, <3>1
  <2>3. Expanded(Occupied(world)) \subseteq rec.view.loaded
    BY <2>1, <2>2, ExpandedParts
  <2> QED
    BY <1>6, <2>1, <2>3 DEF Agrees
<1>8. TypeOK'
  BY <1>1, <1>2, <1>4 DEF Inv, TypeOK, Statuses, Writing
<1>9. MoversMove' /\ Unwritten'
  BY <1>1 DEF Inv, MoversMove, Unwritten, Early
<1>10. Shows' /\ TraceShows' /\ Catches' /\ Ending'
  BY <1>1, <1>2, <1>5 DEF Shows, TraceShows, Catches, Ending
<1>11. CaughtUp'
  BY <1>1, <1>4, <1>7 DEF CaughtUp, Agrees
<1>12. Output'
  BY <1>1, <1>2 DEF Output
<1> QED
  BY <1>8, <1>9, <1>10, <1>11, <1>12 DEF Inv

LEMMA StepInv ==
  Inv /\ [Next]_vars => Inv'
<1> SUFFICES ASSUME Inv, [Next]_vars PROVE Inv'
  OBVIOUS
<1>1. CASE UNCHANGED vars
  <2>1. /\ world' = world /\ tick' = tick /\ status' = status /\ pending' = pending /\ rec' = rec
        /\ trace' = trace /\ lastTick' = lastTick /\ temp' = temp /\ packed' = packed /\ output' = output
    BY <1>1 DEF vars
  <2>2. TypeOK' /\ MoversMove' /\ Unwritten' /\ Shows' /\ TraceShows' /\ Catches'
    BY <2>1 DEF Inv, TypeOK, MoversMove, Unwritten, Shows, TraceShows, Catches
  <2>3. CaughtUp' /\ Ending' /\ Output'
    BY <2>1 DEF Inv, CaughtUp, Ending, Output, Whole, Agrees
  <2> QED
    BY <2>2, <2>3 DEF Inv
<1>2. CASE CreateRecording \/ CreateArchive \/ Fails \/ Clean \/ Killed
  BY <1>2, RestingSteps
<1>3. CASE CreateTrace
  BY <1>3, CreateTraceStep
<1>4. CASE WriteInitialWorld
  BY <1>4, WriteInitialWorldStep
<1>5. CASE RecordDelta
  BY <1>5, RecordDeltaStep
<1>6. CASE RecordEvent
  BY <1>6, RecordEventStep
<1>7. CASE EndDelta
  BY <1>7, EndDeltaStep
<1>8. CASE Finish
  BY <1>8, FinishStep
<1>9. CASE FinishTrace
  BY <1>9, FinishTraceStep
<1>10. CASE Pack
  BY <1>10, PackStep
<1>11. CASE Rename
  BY <1>11, RenameStep
<1> QED
  BY <1>1, <1>2, <1>3, <1>4, <1>5, <1>6, <1>7, <1>8, <1>9, <1>10, <1>11 DEF Next

LEMMA AlwaysInv ==
  Spec => []Inv
BY InitInv, StepInv, PTL DEF Spec

\* After every delta the packets so far, and the render trace, show the
\* simulated world, in chunks whose neighbours are loaded (record_event,
\* ensure_chunk_area, RenderTraceWriter::record_delta).
THEOREM ViewerSees ==
  Spec => []ViewerSeesWorld
<1>1. Inv => ViewerSeesWorld
  BY DEF Inv, ViewerSeesWorld, CaughtUp, TraceShows, Writing
<1> QED
  BY <1>1, AlwaysInv, PTL

\* What is at the output path is what was there before or a whole recording of
\* all deltas, and a writer that ended leaves no temporary file
\* (finish_with_progress, Drop).
THEOREM OutputRight ==
  Spec => []OutputWholeAndClean
<1>1. Inv => OutputWholeAndClean
  BY DEF Inv, OutputWholeAndClean, Output
<1> QED
  BY <1>1, AlwaysInv, PTL

-----------------------------------------------------------------------------
(* Sequences joined.                                                       *)

IsJoin(u, f, n) == u = [t \in 0 .. n |-> IF t = 0 THEN f[0] ELSE u[t - 1] \o f[t]]

LEMMA JoinAt ==
  ASSUME NEW u, NEW f, NEW n \in Nat, IsJoin(u, f, n)
  PROVE  u[0] = f[0] /\ \A t \in 1 .. n : u[t] = u[t - 1] \o f[t]
<1>1. \A t \in 0 .. n : u[t] = IF t = 0 THEN f[0] ELSE u[t - 1] \o f[t]
  BY DEF IsJoin
<1>2. 0 \in 0 .. n /\ \A t \in 1 .. n : t \in 0 .. n /\ t # 0
  OBVIOUS
<1> QED BY <1>1, <1>2

LEMMA JoinExtends ==
  ASSUME NEW f, NEW n \in Nat, n # 0, NEW g, IsJoin(g, f, n - 1)
  PROVE  \E u : IsJoin(u, f, n)
<1> DEFINE u == [t \in 0 .. n |-> IF t = n THEN g[n - 1] \o f[n] ELSE g[t]]
<1>1. \A t \in 0 .. n - 1 : g[t] = IF t = 0 THEN f[0] ELSE g[t - 1] \o f[t]
  BY DEF IsJoin
<1>2. ASSUME NEW t \in 0 .. n
      PROVE  u[t] = IF t = 0 THEN f[0] ELSE u[t - 1] \o f[t]
  <2>1. CASE t = n
    <3>1. u[t] = g[n - 1] \o f[n] /\ u[n - 1] = g[n - 1]
      BY <2>1
    <3> QED BY <2>1, <3>1
  <2>2. CASE t # n /\ t # 0
    <3>1. u[t] = g[t] /\ u[t - 1] = g[t - 1] /\ t \in 0 .. n - 1
      BY <2>2
    <3> QED BY <1>1, <2>2, <3>1
  <2>3. CASE t # n /\ t = 0
    <3>1. u[t] = g[t] /\ t \in 0 .. n - 1
      BY <2>3
    <3> QED BY <1>1, <2>3, <3>1
  <2> QED BY <2>1, <2>2, <2>3
<1>3. u = [t \in 0 .. n |-> u[t]]
  OBVIOUS
<1> HIDE DEF u
<1>4. u = [t \in 0 .. n |-> IF t = 0 THEN f[0] ELSE u[t - 1] \o f[t]]
  BY <1>2, <1>3
<1> QED BY <1>4 DEF IsJoin

LEMMA JoinExists ==
  ASSUME NEW f, NEW m \in Nat
  PROVE  \E u : IsJoin(u, f, m)
<1> DEFINE T == {n \in Nat : ~\E u : IsJoin(u, f, n)}
<1>1. ASSUME T # {} PROVE FALSE
  <2>1. PICK n \in T : \A k \in T : n <= k
    <3>1. T \in SUBSET Nat
      OBVIOUS
    <3> HIDE DEF T
    <3> QED BY <1>1, <3>1, LeastNatural
  <2>2. CASE n = 0
    <3> DEFINE u == [t \in 0 .. 0 |-> f[0]]
    <3>1. u = [t \in 0 .. 0 |-> IF t = 0 THEN f[0] ELSE u[t - 1] \o f[t]]
      OBVIOUS
    <3> HIDE DEF u
    <3>2. IsJoin(u, f, 0)
      BY <3>1 DEF IsJoin
    <3> QED BY <2>2, <3>2
  <2>3. CASE n # 0
    <3>1. n \in Nat /\ n - 1 \in Nat /\ ~(n <= n - 1)
      BY <2>3
    <3>2. n - 1 \notin T
      BY <2>1, <3>1
    <3>3. PICK g : IsJoin(g, f, n - 1)
      BY <3>1, <3>2
    <3>4. \E u : IsJoin(u, f, n)
      BY <2>3, <3>1, <3>3, JoinExtends
    <3> QED BY <3>4
  <2> QED BY <2>2, <2>3
<1> QED BY <1>1

LEMMA JoinedRun ==
  ASSUME NEW f, NEW n \in Nat
  PROVE  \E u : IsJoin(u, f, n) /\ Joined(f, n) = u[n]
<1> DEFINE u == CHOOSE u : IsJoin(u, f, n)
<1>1. IsJoin(u, f, n)
  BY JoinExists
<1>2. Joined(f, n) = u[n]
  BY DEF Joined, IsJoin
<1> HIDE DEF u
<1> QED BY <1>1, <1>2

\* What is joined up to n depends on the first n only.
Alike(f, g, n) == \A t \in 0 .. n : f[t] = g[t]

LEMMA JoinsAgree ==
  ASSUME NEW f, NEW g, NEW n \in Nat, NEW m \in Nat, n <= m, Alike(f, g, n),
         NEW u, NEW v, IsJoin(u, f, n), IsJoin(v, g, m)
  PROVE  u[n] = v[n]
<1> DEFINE T == {t \in 0 .. n : u[t] # v[t]}
<1>1. ASSUME T # {} PROVE FALSE
  <2>1. PICK t \in T : \A k \in T : t <= k
    <3>1. T \in SUBSET Nat
      OBVIOUS
    <3> HIDE DEF T
    <3> QED BY <1>1, <3>1, LeastNatural
  <2>2. t # 0
    <3>1. u[0] = f[0]
      BY JoinAt
    <3>2. v[0] = g[0]
      BY JoinAt
    <3>3. f[0] = g[0]
      BY DEF Alike
    <3>4. u[t] # v[t]
      BY <2>1
    <3> QED BY <3>1, <3>2, <3>3, <3>4
  <2>3. t - 1 \in 0 .. n /\ ~(t <= t - 1) /\ t \in 1 .. n /\ t \in 1 .. m /\ t \in 0 .. n
    BY <2>1, <2>2
  <2>4. u[t - 1] = v[t - 1]
    BY <2>1, <2>3
  <2>5. u[t] = u[t - 1] \o f[t] /\ v[t] = v[t - 1] \o g[t]
    BY <2>3, JoinAt
  <2>6. u[t] # v[t]
    BY <2>1
  <2>7. f[t] = g[t]
    BY <2>3 DEF Alike
  <2> QED BY <2>4, <2>5, <2>6, <2>7
<1>2. n \in 0 .. n
  OBVIOUS
<1> QED BY <1>1, <1>2

LEMMA JoinedZero ==
  ASSUME NEW f
  PROVE  Joined(f, 0) = f[0]
<1>1. PICK u : IsJoin(u, f, 0) /\ Joined(f, 0) = u[0]
  BY JoinedRun
<1> QED BY <1>1, JoinAt

LEMMA JoinedStep ==
  ASSUME NEW f, NEW g, NEW n \in Nat, \A t \in 0 .. n : f[t] = g[t]
  PROVE  Joined(g, n + 1) = Joined(f, n) \o g[n + 1]
<1>0. n + 1 \in Nat /\ n <= n + 1 /\ n + 1 \in 1 .. n + 1 /\ (n + 1) - 1 = n
  OBVIOUS
<1>1. PICK u : IsJoin(u, f, n) /\ Joined(f, n) = u[n]
  BY JoinedRun
<1>2. PICK v : IsJoin(v, g, n + 1) /\ Joined(g, n + 1) = v[n + 1]
  BY <1>0, JoinedRun
<1>3. u[n] = v[n]
  <2>1. IsJoin(u, f, n) /\ IsJoin(v, g, n + 1)
    BY <1>1, <1>2
  <2> DEFINE m == n + 1
  <2>2. m \in Nat /\ n <= m /\ IsJoin(v, g, m) /\ Alike(f, g, n)
    BY <1>0, <2>1 DEF Alike
  <2> HIDE DEF m
  <2> QED BY <2>1, <2>2, JoinsAgree
<1>4. v[n + 1] = v[n] \o g[n + 1]
  <2> DEFINE m == n + 1
  <2>1. m \in Nat /\ m \in 1 .. m /\ m - 1 = n /\ IsJoin(v, g, m)
    BY <1>0, <1>2
  <2> HIDE DEF m
  <2>2. v[m] = v[m - 1] \o g[m]
    BY <2>1, JoinAt
  <2>3. v[m] = v[n] \o g[m]
    BY <2>1, <2>2
  <2> QED BY <2>3 DEF m
<1> QED BY <1>1, <1>2, <1>3, <1>4

LEMMA JoinedType ==
  ASSUME NEW E, NEW n \in Nat, NEW f, \A t \in 0 .. n : f[t] \in Seq(E)
  PROVE  Joined(f, n) \in Seq(E)
<1>1. PICK u : IsJoin(u, f, n) /\ Joined(f, n) = u[n]
  BY JoinedRun
<1> DEFINE T == {t \in 0 .. n : u[t] \notin Seq(E)}
<1>2. ASSUME T # {} PROVE FALSE
  <2>1. PICK t \in T : \A k \in T : t <= k
    <3>1. T \in SUBSET Nat
      OBVIOUS
    <3> HIDE DEF T
    <3> QED BY <1>2, <3>1, LeastNatural
  <2>2. t # 0
    BY <1>1, <2>1, JoinAt
  <2>3. t - 1 \in 0 .. n /\ ~(t <= t - 1) /\ t \in 1 .. n /\ t \in 0 .. n
    BY <2>1, <2>2
  <2>4. u[t - 1] \in Seq(E) /\ f[t] \in Seq(E)
    BY <2>1, <2>3
  <2>5. u[t] = u[t - 1] \o f[t]
    BY <1>1, <2>3, JoinAt
  <2>6. u[t] \notin Seq(E)
    BY <2>1
  <2>7. u[t - 1] \o f[t] \in Seq(E)
    BY <2>4
  <2> QED BY <2>5, <2>6, <2>7
<1>3. n \in 0 .. n
  OBVIOUS
<1> QED BY <1>1, <1>2, <1>3

-----------------------------------------------------------------------------
(* The entries of a tick, and the actions in order.                        *)

Entries(list) == {list[i] : i \in DOMAIN list}
OfTick(list, t) == {e \in Entries(list) : e[1] = t}
Later(list, t) == {e \in Entries(list) : e[1] > t}

LEMMA AtType ==
  ASSUME NEW E, NEW list \in Seq(E), NEW t
  PROVE  At(list, t) \in Seq(OfTick(list, t))
<1> DEFINE f == [n \in 0 .. Len(list) |-> IF n > 0 /\ list[n][1] = t THEN <<list[n]>> ELSE <<>>]
<1>1. ASSUME NEW n \in 0 .. Len(list) PROVE f[n] \in Seq(OfTick(list, t))
  <2>1. CASE n > 0 /\ list[n][1] = t
    <3>1. n \in DOMAIN list
      BY <2>1
    <3>2. list[n] \in OfTick(list, t)
      BY <2>1, <3>1 DEF OfTick, Entries
    <3>3. f[n] = <<list[n]>>
      BY <2>1
    <3> HIDE DEF f
    <3> QED BY <3>2, <3>3
  <2>2. CASE ~(n > 0 /\ list[n][1] = t)
    <3>1. f[n] = <<>>
      BY <2>2
    <3> HIDE DEF f
    <3> QED BY <3>1
  <2> QED BY <2>1, <2>2
<1>2. Len(list) \in Nat
  OBVIOUS
<1>3. At(list, t) = Joined(f, Len(list))
  BY DEF At
<1> HIDE DEF f
<1> QED BY <1>1, <1>2, <1>3, JoinedType

\* The actions up to tick n, in order.
ActionsTo(list, n) == Joined([t \in 0 .. n |-> At(list, t)], n)

LEMMA ActionsToZero == \A list : ActionsTo(list, 0) = At(list, 0)
<1> TAKE list
<1> DEFINE f == [t \in 0 .. 0 |-> At(list, t)]
<1>1. f[0] = At(list, 0)
  OBVIOUS
<1>2. ActionsTo(list, 0) = Joined(f, 0)
  BY DEF ActionsTo
<1> HIDE DEF f
<1> QED BY <1>1, <1>2, JoinedZero

LEMMA ActionsToStep ==
  ASSUME NEW list, NEW n \in Nat
  PROVE  ActionsTo(list, n + 1) = ActionsTo(list, n) \o At(list, n + 1)
<1> DEFINE f == [t \in 0 .. n |-> At(list, t)]
           g == [t \in 0 .. n + 1 |-> At(list, t)]
<1>1. (\A t \in 0 .. n : f[t] = g[t]) /\ g[n + 1] = At(list, n + 1)
  OBVIOUS
<1>2. ActionsTo(list, n) = Joined(f, n) /\ ActionsTo(list, n + 1) = Joined(g, n + 1)
  BY DEF ActionsTo
<1> HIDE DEF f, g
<1> QED BY <1>1, <1>2, JoinedStep

LEMMA ActionsToType ==
  ASSUME NEW E, NEW list \in Seq(E), NEW n \in Nat
  PROVE  ActionsTo(list, n) \in Seq(Entries(list))
<1> DEFINE f == [t \in 0 .. n |-> At(list, t)]
<1>1. \A t \in 0 .. n : f[t] = At(list, t)
  OBVIOUS
<1>2. ActionsTo(list, n) = Joined(f, n)
  BY DEF ActionsTo
<1> HIDE DEF f
<1>3. \A t : OfTick(list, t) \subseteq Entries(list)
  BY DEF OfTick
<1>4. ASSUME NEW t \in 0 .. n PROVE f[t] \in Seq(Entries(list))
  <2>1. At(list, t) \in Seq(OfTick(list, t))
    BY AtType
  <2> QED BY <1>1, <1>3, <2>1
<1> QED BY <1>2, <1>4, JoinedType

\* What follows the actions up to tick m is later.
Follows(list, m, n) ==
  \E r \in Seq(Later(list, m)) : ActionsTo(list, n) = ActionsTo(list, m) \o r

LEMMA RestIsLater ==
  ASSUME NEW X, NEW list \in Seq(Nat \X X), NEW m \in Nat, NEW n \in Nat, m <= n
  PROVE  Follows(list, m, n)
<1> DEFINE T == {k \in Nat : m <= k /\ ~Follows(list, m, k)}
<1>1. ASSUME T # {} PROVE FALSE
  <2>1. PICK k \in T : \A j \in T : k <= j
    <3>1. T \in SUBSET Nat
      OBVIOUS
    <3> HIDE DEF T
    <3> QED BY <1>1, <3>1, LeastNatural
  <2>2. k \in Nat /\ m <= k /\ ~Follows(list, m, k)
    BY <2>1
  <2>3. CASE k = m
    <3>1. ActionsTo(list, m) \in Seq(Entries(list))
      BY ActionsToType
    <3>2. ActionsTo(list, m) = ActionsTo(list, m) \o <<>> /\ <<>> \in Seq(Later(list, m))
      BY <3>1
    <3>3. Follows(list, m, m)
      BY <3>2 DEF Follows
    <3> QED BY <2>2, <2>3, <3>3
  <2>4. CASE k # m
    <3> DEFINE j == k - 1
    <3>1. j \in Nat /\ m <= j /\ ~(k <= j) /\ k = j + 1 /\ k > m
      BY <2>2, <2>4
    <3> HIDE DEF j
    <3>2. Follows(list, m, j)
      BY <2>1, <3>1
    <3>3. PICK r \in Seq(Later(list, m)) : ActionsTo(list, j) = ActionsTo(list, m) \o r
      BY <3>2 DEF Follows
    <3>4. ActionsTo(list, k) = (ActionsTo(list, m) \o r) \o At(list, k)
      BY <3>1, <3>3, ActionsToStep
    <3>5. At(list, k) \in Seq(Later(list, m))
      <4>1. At(list, k) \in Seq(OfTick(list, k))
        BY AtType
      <4>2. OfTick(list, k) \subseteq Later(list, m)
        BY <3>1 DEF OfTick, Later
      <4> QED BY <4>1, <4>2
    <3>6. ActionsTo(list, m) \in Seq(Entries(list)) /\ Later(list, m) \subseteq Entries(list)
      BY ActionsToType DEF Later
    <3>7. (ActionsTo(list, m) \o r) \o At(list, k) = ActionsTo(list, m) \o (r \o At(list, k))
      <4> DEFINE a == ActionsTo(list, m)
                 b == At(list, k)
      <4>1. a \in Seq(Entries(list)) /\ r \in Seq(Entries(list)) /\ b \in Seq(Entries(list))
        BY <3>5, <3>6
      <4> HIDE DEF a, b
      <4>2. (a \o r) \o b = a \o (r \o b)
        BY <4>1, ConcatAssociative
      <4> QED BY <4>2 DEF a, b
    <3>8. r \o At(list, k) \in Seq(Later(list, m))
      BY <3>5
    <3>9. Follows(list, m, k)
      BY <3>4, <3>7, <3>8 DEF Follows
    <3> QED BY <2>2, <3>9
  <2> QED BY <2>3, <2>4
<1> QED BY <1>1

\* The actions that are due are those of the tick.
LEMMA DueAre ==
  ASSUME NEW E, NEW t \in Nat, NEW a \in Seq(E), NEW b \in Seq(E), NEW r \in Seq(E),
         \A i \in 1 .. Len(b) : b[i][1] = t, \A i \in 1 .. Len(r) : r[i][1] # t
  PROVE  LET acts == (a \o b) \o r
         IN  /\ DueFrom(acts, Len(a), t) = Len(b)
             /\ SubSeq(acts, Len(a) + 1, Len(a) + Len(b)) = b
<1> DEFINE acts == (a \o b) \o r
           i == Len(a)
           m == Len(b)
<1>1. acts \in Seq(E) /\ i \in Nat /\ m \in Nat /\ Len(r) \in Nat /\ Len(acts) = i + m + Len(r)
  OBVIOUS
<1>2. \A k \in 1 .. m : acts[i + k] = b[k]
  OBVIOUS
<1>3. \A k \in 1 .. Len(r) : acts[i + m + k] = r[k]
  OBVIOUS
<1>4. SubSeq(acts, i + 1, i + m) = b
  <2>1. SubSeq(acts, i + 1, i + m) \in Seq(E) /\ Len(SubSeq(acts, i + 1, i + m)) = m
    BY <1>1
  <2>2. \A k \in 1 .. m : SubSeq(acts, i + 1, i + m)[k] = acts[i + k]
    BY <1>1
  <2> HIDE DEF acts, i, m
  <2>3. Len(b) = m
    BY DEF m
  <2>4. \A k \in 1 .. m : SubSeq(acts, i + 1, i + m)[k] = b[k]
    BY <1>2, <2>2
  <2> DEFINE c == SubSeq(acts, i + 1, i + m)
  <2>5. c \in Seq(E) /\ Len(c) = Len(b) /\ \A k \in 1 .. Len(c) : c[k] = b[k]
    BY <2>1, <2>3, <2>4
  <2> HIDE DEF c
  <2>6. c = b
    BY <2>5, SeqEqual
  <2> QED BY <2>6 DEF c
<1> HIDE DEF acts, i, m
<1> DEFINE Good(n) ==
             /\ \A k \in 1 .. n : acts[i + k][1] = t
             /\ n < Len(acts) - i => acts[i + n + 1][1] # t
<1>5. m \in 0 .. Len(acts) - i /\ Good(m)
  <2>1. m \in 0 .. Len(acts) - i
    BY <1>1
  <2>2. \A k \in 1 .. m : acts[i + k][1] = t
    BY <1>2 DEF m
  <2>3. ASSUME m < Len(acts) - i PROVE acts[i + m + 1][1] # t
    <3>1. 1 \in 1 .. Len(r)
      BY <1>1, <2>3
    <3> QED BY <1>3, <3>1
  <2> QED BY <2>1, <2>2, <2>3
<1>6. ASSUME NEW n \in 0 .. Len(acts) - i, Good(n) PROVE n = m
  <2>1. CASE n < m
    <3>1. n < Len(acts) - i /\ n + 1 \in 1 .. m /\ i + (n + 1) = i + n + 1
      BY <1>1, <2>1
    <3>2. acts[i + n + 1][1] # t
      BY <1>6, <3>1
    <3>3. acts[i + (n + 1)][1] = t
      BY <1>5, <3>1
    <3> QED BY <3>1, <3>2, <3>3
  <2>2. CASE n > m
    <3>1. m < Len(acts) - i /\ m + 1 \in 1 .. n /\ i + (m + 1) = i + m + 1
      BY <1>1, <2>2
    <3>2. acts[i + m + 1][1] # t
      BY <1>5, <3>1
    <3>3. acts[i + (m + 1)][1] = t
      BY <1>6, <3>1
    <3> QED BY <3>1, <3>2, <3>3
  <2> QED BY <1>1, <2>1, <2>2
<1>7. DueFrom(acts, i, t) = m
  <2>1. DueFrom(acts, i, t) = CHOOSE n \in 0 .. Len(acts) - i : Good(n)
    BY DEF DueFrom
  <2> HIDE DEF Good
  <2> QED BY <1>5, <1>6, <2>1
<1> QED BY <1>4, <1>7 DEF acts, i, m

-----------------------------------------------------------------------------
(* The invariant.                                                          *)

\* What the simulation has been given when tick n is over.
GivenTo(s, n) ==
  Joined([t \in 0 .. n |-> IF t = 0 THEN At(s.pastes, AtStart)
                           ELSE At(s.pastes, t) \o At(s.actions, t)], n)

LEMMA GivenToZero == \A s : GivenTo(s, 0) = At(s.pastes, AtStart)
<1> TAKE s
<1> DEFINE f == [t \in 0 .. 0 |-> IF t = 0 THEN At(s.pastes, AtStart)
                                  ELSE At(s.pastes, t) \o At(s.actions, t)]
<1>1. f[0] = At(s.pastes, AtStart)
  OBVIOUS
<1>2. GivenTo(s, 0) = Joined(f, 0)
  BY DEF GivenTo
<1> HIDE DEF f
<1> QED BY <1>1, <1>2, JoinedZero

LEMMA GivenToStep ==
  ASSUME NEW s, NEW n \in Nat
  PROVE  GivenTo(s, n + 1) = GivenTo(s, n) \o (At(s.pastes, n + 1) \o At(s.actions, n + 1))
<1> DEFINE f == [t \in 0 .. n |-> IF t = 0 THEN At(s.pastes, AtStart)
                                  ELSE At(s.pastes, t) \o At(s.actions, t)]
           g == [t \in 0 .. n + 1 |-> IF t = 0 THEN At(s.pastes, AtStart)
                                      ELSE At(s.pastes, t) \o At(s.actions, t)]
<1>1. (\A t \in 0 .. n : f[t] = g[t]) /\ g[n + 1] = At(s.pastes, n + 1) \o At(s.actions, n + 1)
  OBVIOUS
<1>2. GivenTo(s, n) = Joined(f, n) /\ GivenTo(s, n + 1) = Joined(g, n + 1)
  BY DEF GivenTo
<1> HIDE DEF f, g
<1> QED BY <1>1, <1>2, JoinedStep

Things(s) == Entries(s.actions) \cup Entries(s.pastes)

LEMMA GivenToType ==
  ASSUME NEW E, NEW F, NEW s, s.actions \in Seq(E), s.pastes \in Seq(F), NEW n \in Nat
  PROVE  GivenTo(s, n) \in Seq(Things(s))
<1> DEFINE f == [t \in 0 .. n |-> IF t = 0 THEN At(s.pastes, AtStart)
                                  ELSE At(s.pastes, t) \o At(s.actions, t)]
<1>1. \A t : At(s.pastes, t) \in Seq(Things(s)) /\ At(s.actions, t) \in Seq(Things(s))
  <2> TAKE t
  <2>1. At(s.pastes, t) \in Seq(OfTick(s.pastes, t)) /\ At(s.actions, t) \in Seq(OfTick(s.actions, t))
    BY AtType
  <2>2. OfTick(s.pastes, t) \subseteq Things(s) /\ OfTick(s.actions, t) \subseteq Things(s)
    BY DEF OfTick, Things
  <2> QED BY <2>1, <2>2
<1>2. ASSUME NEW t \in 0 .. n PROVE f[t] \in Seq(Things(s))
  BY <1>1
<1>3. GivenTo(s, n) = Joined(f, n)
  BY DEF GivenTo
<1> HIDE DEF f
<1> QED BY <1>2, <1>3, JoinedType

InTime(s) == \A t \in Ticks(s.actions) : t > 0

Typed ==
  /\ sc \in Scenarios
  /\ now \in 0 .. sc.max
  /\ phase \in {"load", "run", "over"} /\ (phase = "load" => now = 0 /\ given = 0)
  /\ verdict \in {"none", "refused", "error", "passed", "failed"}
  /\ phase # "over" => verdict = "none"
  /\ probe \in Seq(Values) /\ Len(probe) = now
  /\ quiet \in Seq(BOOLEAN) /\ Len(quiet) = now

\* The actions that were given are those up to now, in order.
Timely ==
  InTime(sc) /\ (phase = "run" \/ now > 0) =>
    /\ given = Len(ActionsTo(sc.actions, now))
    /\ applied = GivenTo(sc, now)

Kept ==
  sc.replay => recorded = [t \in 1 .. now |-> t]

\* The ticks after the skipped ones are sampled.
Sampled ==
  /\ monitoring = (sc.skip = 0 \/ now > sc.skip)
  /\ DOMAIN samples = {t \in 1 .. now : t > sc.skip}
  /\ \A t \in DOMAIN samples : samples[t] = probe[t]

\* The tracker counts the quiet ticks and knows the first.
Tracked ==
  sc.replay =>
    /\ tracker.idle \in Nat
    /\ tracker.idle = 0 => tracker.since = Never /\ QuietSince = {}
    /\ tracker.idle # 0 => tracker.since \in 1 .. now /\ tracker.idle = now - tracker.since + 1
                           /\ QuietSince = tracker.since .. now
    /\ tracker.stable = IF tracker.idle >= Confirm THEN tracker.since ELSE Never

RunInv == Typed /\ Timely /\ Kept /\ Sampled /\ VerdictRight /\ Tracked

-----------------------------------------------------------------------------
LEMMA ScenarioTypes ==
  ASSUME NEW s \in Scenarios
  PROVE  /\ s.actions \in Seq(Nat \X Names) /\ s.pastes \in Seq((Nat \cup {AtStart}) \X Names)
         /\ s.skip \in Nat /\ s.max \in Nat /\ s.expects \subseteq Nat \X Values /\ s.replay \in BOOLEAN
  BY ScenarioAssumption DEF ScenarioAssumption

\* The ticks of a list are bounded.
BelowTo(f, S, n, b) == \A i \in 1 .. n : f[i] \in S => f[i] <= b

LEMMA Bounded ==
  ASSUME NEW S \in SUBSET Nat, NEW f, NEW m \in Nat
  PROVE  \E b \in Nat : BelowTo(f, S, m, b)
<1> DEFINE T == {n \in Nat : ~\E b \in Nat : BelowTo(f, S, n, b)}
<1>1. ASSUME T # {} PROVE FALSE
  <2>1. PICK n \in T : \A k \in T : n <= k
    <3>1. T \in SUBSET Nat
      OBVIOUS
    <3> HIDE DEF T
    <3> QED BY <1>1, <3>1, LeastNatural
  <2>2. BelowTo(f, S, 0, 0)
    BY DEF BelowTo
  <2>3. n \in Nat /\ n # 0
    BY <2>1, <2>2
  <2>4. n - 1 \in Nat /\ ~(n <= n - 1)
    BY <2>3
  <2>5. PICK b \in Nat : BelowTo(f, S, n - 1, b)
    BY <2>1, <2>4
  <2>6. \E c \in Nat : b <= c /\ (f[n] \in S => f[n] <= c)
    <3>1. CASE f[n] \in S
      <4>1. f[n] \in Nat
        BY <3>1
      <4>2. f[n] + b \in Nat /\ b <= f[n] + b /\ f[n] <= f[n] + b
        BY <4>1
      <4> QED BY <4>2
    <3>2. CASE f[n] \notin S
      BY <3>2
    <3> QED BY <3>1, <3>2
  <2>7. PICK c \in Nat : b <= c /\ (f[n] \in S => f[n] <= c)
    BY <2>6
  <2>8. BelowTo(f, S, n, c)
    <3> SUFFICES ASSUME NEW i \in 1 .. n, f[i] \in S PROVE f[i] <= c
      BY DEF BelowTo
    <3>1. CASE i = n
      BY <2>7, <3>1
    <3>2. CASE i # n
      <4>1. i \in 1 .. n - 1
        BY <2>3, <3>2
      <4>2. f[i] <= b
        BY <2>5, <4>1 DEF BelowTo
      <4>3. f[i] \in Nat
        OBVIOUS
      <4> QED BY <2>7, <4>2, <4>3
    <3> QED BY <3>1, <3>2
  <2> QED BY <2>1, <2>8
<1> QED BY <1>1

LEMMA TicksBounded ==
  ASSUME NEW E, NEW list \in Seq(E), Ticks(list) \subseteq Nat
  PROVE  \E b \in Nat : \A t \in Ticks(list) : t <= b
<1> DEFINE f == [i \in 1 .. Len(list) |-> list[i][1]]
<1>1. \A t \in Ticks(list) : \E i \in 1 .. Len(list) : t = f[i]
  BY DEF Ticks
<1>2. Len(list) \in Nat /\ Ticks(list) \in SUBSET Nat
  OBVIOUS
<1> HIDE DEF f
<1>3. PICK b \in Nat : BelowTo(f, Ticks(list), Len(list), b)
  BY <1>2, Bounded
<1>4. ASSUME NEW t \in Ticks(list) PROVE t <= b
  <2>1. PICK i \in 1 .. Len(list) : t = f[i]
    BY <1>1
  <2> QED BY <1>3, <2>1 DEF BelowTo
<1> QED BY <1>4

LEMMA ExternalTick ==
  ASSUME NEW s \in Scenarios
  PROVE  LastExternal(s) \in Nat
<1> DEFINE A == Ticks(s.actions)
           P == Ticks(s.pastes)
           T == A \cup P \cup {0}
           Bound(b) == \A t \in T : t <= b
<1>1. A \subseteq Nat /\ P \subseteq Nat
  BY ScenarioTypes DEF Ticks
<1>2. PICK a \in Nat : \A t \in A : t <= a
  BY <1>1, ScenarioTypes, TicksBounded
<1>3. PICK p \in Nat : \A t \in P : t <= p
  BY <1>1, ScenarioTypes, TicksBounded
<1>4. \E b \in Nat : Bound(b)
  <2>1. Bound(a + p)
    BY <1>1, <1>2, <1>3
  <2> QED BY <2>1
<1>5. PICK b \in Nat : Bound(b) /\ \A c \in Nat : Bound(c) => b <= c
  <2> DEFINE U == {c \in Nat : Bound(c)}
  <2>1. U \in SUBSET Nat /\ U # {}
    BY <1>4
  <2> HIDE DEF U
  <2>2. PICK c \in U : \A d \in U : c <= d
    BY <2>1, LeastNatural
  <2> QED BY <2>2 DEF U
<1>6. b \in T
  <2> SUFFICES ASSUME b \notin T PROVE FALSE
    OBVIOUS
  <2>1. 0 <= b /\ b # 0 /\ b - 1 \in Nat /\ ~(b <= b - 1)
    BY <1>5
  <2>2. Bound(b - 1)
    BY <1>1, <1>5
  <2> QED BY <1>5, <2>1, <2>2
<1>7. LastExternal(s) = CHOOSE t \in A \cup P \cup {0} : \A u \in A \cup P : u <= t
  BY DEF LastExternal
<1>8. \A u \in A \cup P : u <= b
  BY <1>5
<1>9. T \subseteq Nat
  BY <1>1
<1> HIDE DEF A, P
<1>10. LastExternal(s) \in T
  BY <1>6, <1>7, <1>8
<1> QED BY <1>9, <1>10

-----------------------------------------------------------------------------
\* With no action at tick 0 the actions begin after it.
LEMMA NoneAtZero ==
  ASSUME NEW s \in Scenarios, InTime(s)
  PROVE  ActionsTo(s.actions, 0) = <<>>
<1> DEFINE list == s.actions
<1>1. list \in Seq(Nat \X Names)
  BY ScenarioTypes
<1>2. OfTick(list, 0) = {}
  <2> SUFFICES ASSUME NEW e \in OfTick(list, 0) PROVE FALSE
    OBVIOUS
  <2>1. PICK i \in DOMAIN list : e = list[i]
    BY DEF OfTick, Entries
  <2>2. e[1] = 0
    BY DEF OfTick
  <2>3. 0 # AtStart
    BY ScenarioAssumption DEF ScenarioAssumption
  <2>4. 0 \in Ticks(list)
    BY <2>1, <2>2, <2>3 DEF Ticks
  <2> QED BY <2>4 DEF InTime
<1>3. At(list, 0) \in Seq(OfTick(list, 0))
  BY <1>1, AtType
<1> HIDE DEF list
<1>4. At(list, 0) = <<>>
  BY <1>2, <1>3
<1> QED BY <1>4, ActionsToZero DEF list

LEMMA RunInitInv == DriverInit => RunInv
<1> SUFFICES ASSUME DriverInit PROVE RunInv
  OBVIOUS
<1>1. sc.max \in Nat /\ sc.skip \in Nat /\ sc \in Scenarios
  BY ScenarioTypes DEF DriverInit
<1>2. Typed
  BY <1>1 DEF Typed, DriverInit
<1>3. Timely
  BY DEF Timely, DriverInit
<1>4. Kept
  <2>1. recorded = [t \in 1 .. now |-> t]
    BY DEF DriverInit
  <2> QED BY <2>1 DEF Kept
<1>5. Sampled
  BY <1>1 DEF Sampled, DriverInit
<1>6. VerdictRight
  BY DEF VerdictRight, DriverInit
<1>7. Tracked
  <2>1. QuietSince = {}
    BY DEF QuietSince, DriverInit
  <2>2. tracker.idle = 0 /\ tracker.since = Never /\ tracker.stable = Never
    BY DEF DriverInit, NoTracker
  <2>3. ~(0 >= Confirm)
    BY ScenarioAssumption DEF ScenarioAssumption
  <2> QED BY <2>1, <2>2, <2>3 DEF Tracked
<1> QED BY <1>2, <1>3, <1>4, <1>5, <1>6, <1>7 DEF RunInv

\* What loading, failing and judging leave as it is.
Rests == UNCHANGED <<sc, now, given, probe, quiet, monitoring, samples, tracker, recorded>>

LEMMA RestsInv == RunInv /\ Rests => Kept' /\ Sampled' /\ Tracked'
<1> SUFFICES ASSUME RunInv, Rests PROVE Kept' /\ Sampled' /\ Tracked'
  OBVIOUS
<1>1. Kept'
  BY DEF RunInv, Rests, Kept
<1>2. Sampled'
  BY DEF RunInv, Rests, Sampled
<1>3. QuietSince' = QuietSince
  BY DEF Rests, QuietSince
<1>4. Tracked'
  BY <1>3 DEF RunInv, Rests, Tracked
<1> QED BY <1>1, <1>2, <1>4

LEMMA LoadInv == RunInv /\ Load => RunInv'
<1> SUFFICES ASSUME RunInv, Load PROVE RunInv'
  OBVIOUS
<1>1. Rests
  BY DEF Load, Rests
<1>2. Typed'
  BY DEF RunInv, Typed, Load
<1>3. now = 0 /\ now' = 0 /\ sc' = sc /\ sc \in Scenarios /\ verdict = "none"
  BY DEF RunInv, Typed, Load
<1>4. Timely'
  <2> SUFFICES ASSUME InTime(sc), phase' = "run"
               PROVE  given' = Len(ActionsTo(sc.actions, 0)) /\ applied' = GivenTo(sc, 0)
    BY <1>3 DEF Timely
  <2>1. applied' = At(sc.pastes, AtStart)
    BY DEF Load
  <2>2. given' = 0
    BY DEF RunInv, Typed, Load
  <2>3. ActionsTo(sc.actions, 0) = <<>>
    BY <1>3, NoneAtZero
  <2> QED BY <2>1, <2>2, <2>3, GivenToZero
<1>5. VerdictRight'
  BY <1>3 DEF Load, VerdictRight
<1> QED BY <1>1, <1>2, <1>4, <1>5, RestsInv DEF RunInv

LEMMA BreakInv == RunInv /\ Break => RunInv'
<1> SUFFICES ASSUME RunInv, Break PROVE RunInv'
  OBVIOUS
<1>1. Rests
  BY DEF Break, Rests
<1>2. Typed'
  BY DEF RunInv, Typed, Break
<1>3. Timely'
  BY DEF RunInv, Timely, Break
<1>4. VerdictRight'
  BY DEF Break, VerdictRight
<1> QED BY <1>1, <1>2, <1>3, <1>4, RestsInv DEF RunInv

LEMMA JudgeInv == RunInv /\ Judge => RunInv'
<1> SUFFICES ASSUME RunInv, Judge PROVE RunInv'
  OBVIOUS
<1>1. Rests
  BY DEF Judge, Rests
<1>2. Typed'
  BY DEF RunInv, Typed, Judge
<1>3. Timely'
  BY DEF RunInv, Timely, Judge
<1>4. VerdictRight'
  <2>1. now = sc.max /\ sc' = sc /\ probe' = probe /\ sc \in Scenarios
    BY DEF RunInv, Typed, Judge
  <2>2. sc.skip \in Nat /\ sc.max \in Nat /\ sc.expects \subseteq Nat \X Values
    BY <2>1, ScenarioTypes
  <2>3. ASSUME NEW e \in Monitored(sc)
        PROVE  (e[1] \in DOMAIN samples /\ samples[e[1]] = e[2]) <=> (e[1] \in 1 .. sc.max /\ probe[e[1]] = e[2])
    <3>1. e[1] \in Nat /\ e[1] > sc.skip
      BY <2>2 DEF Monitored
    <3>2. e[1] \in DOMAIN samples <=> e[1] \in 1 .. sc.max
      BY <2>1, <3>1 DEF RunInv, Sampled
    <3>3. e[1] \in DOMAIN samples => samples[e[1]] = probe[e[1]]
      BY DEF RunInv, Sampled
    <3> QED BY <3>2, <3>3
  <2> DEFINE met == \A e \in Monitored(sc) : e[1] \in 1 .. sc.max /\ probe[e[1]] = e[2]
  <2>4. verdict' = IF met THEN "passed" ELSE "failed"
    BY <2>3 DEF Judge
  <2>5. Monitored(sc)' = Monitored(sc)
    BY <2>1
  <2>6. VerdictRight' <=> (verdict' \in {"passed", "failed"} => (verdict' = "passed" <=> met))
    BY <2>1, <2>5 DEF VerdictRight
  <2> HIDE DEF met
  <2> QED BY <2>4, <2>6
<1> QED BY <1>1, <1>2, <1>3, <1>4, RestsInv DEF RunInv

-----------------------------------------------------------------------------
\* One round of the loop.
LEMMA StepTyped == RunInv /\ Step => Typed'
<1> SUFFICES ASSUME RunInv, Step PROVE Typed'
  OBVIOUS
<1>1. sc \in Scenarios /\ sc' = sc /\ phase' = phase /\ verdict' = verdict /\ now' = now + 1
      /\ now < sc.max /\ phase = "run" /\ now \in 0 .. sc.max /\ verdict = "none"
  BY DEF RunInv, Typed, Step
<1>2. now' \in 0 .. sc'.max
  BY <1>1, ScenarioTypes
<1>3. PICK value \in Values, busy \in BOOLEAN : probe' = Append(probe, value) /\ quiet' = Append(quiet, busy)
  <2>1. PICK value \in Values, changed \in BOOLEAN, waiting \in BOOLEAN :
          probe' = Append(probe, value) /\ quiet' = Append(quiet, ~changed /\ ~waiting)
    BY DEF Step
  <2>2. (~changed /\ ~waiting) \in BOOLEAN
    OBVIOUS
  <2> QED BY <2>1, <2>2
<1>4. probe' \in Seq(Values) /\ Len(probe') = now' /\ quiet' \in Seq(BOOLEAN) /\ Len(quiet') = now'
  BY <1>1, <1>3 DEF RunInv, Typed
<1> QED BY <1>1, <1>2, <1>4 DEF Typed

LEMMA StepTimely == RunInv /\ Step => Timely'
<1> SUFFICES ASSUME RunInv, Step PROVE Timely'
  OBVIOUS
<1> SUFFICES ASSUME InTime(sc)
             PROVE  /\ given' = Len(ActionsTo(sc.actions, now + 1))
                    /\ applied' = GivenTo(sc, now + 1)
  <2>1. sc' = sc /\ now' = now + 1
    BY DEF Step
  <2> QED BY <2>1 DEF Timely
<1> DEFINE list == sc.actions
           t == now + 1
           a == ActionsTo(list, now)
           b == At(list, t)
           p == At(sc.pastes, t)
           E == Entries(list)
<1>1. /\ sc \in Scenarios /\ now \in Nat /\ now < sc.max /\ sc.max \in Nat
      /\ list \in Seq(Nat \X Names) /\ sc.pastes \in Seq((Nat \cup {AtStart}) \X Names)
  BY ScenarioTypes DEF RunInv, Typed, Step
<1>2. given = Len(a) /\ applied = GivenTo(sc, now)
  BY DEF RunInv, Timely, Step
<1>3. ActionsTo(list, t) = a \o b
  BY <1>1, ActionsToStep
<1>4. a \in Seq(E)
  BY <1>1, ActionsToType
<1>5. b \in Seq(OfTick(list, t))
  BY <1>1, AtType
<1>6. \E r \in Seq(Later(list, t)) : Actions(sc) = (a \o b) \o r
  <2>1. Actions(sc) = ActionsTo(list, sc.max + 1)
    BY DEF Actions, ActionsTo
  <2>2. t \in Nat /\ sc.max + 1 \in Nat /\ t <= sc.max + 1
    BY <1>1
  <2> HIDE DEF list, t, a, b
  <2>3. Follows(list, t, sc.max + 1)
    BY <1>1, <2>2, RestIsLater
  <2> QED BY <1>3, <2>1, <2>3 DEF Follows
<1>7. PICK r \in Seq(Later(list, t)) : Actions(sc) = (a \o b) \o r
  BY <1>6
<1>8. t \in Nat
  BY <1>1
<1>9. /\ given' = given + DueFrom(Actions(sc), given, t)
      /\ applied' = applied \o p \o SubSeq(Actions(sc), given + 1, given + DueFrom(Actions(sc), given, t))
  BY DEF Step
<1>10. GivenTo(sc, t) = GivenTo(sc, now) \o (p \o b)
  BY <1>1, GivenToStep
<1>11. OfTick(list, t) \subseteq E /\ Later(list, t) \subseteq E
  BY DEF OfTick, Later
<1>12. (\A i \in 1 .. Len(b) : b[i][1] = t) /\ (\A i \in 1 .. Len(r) : r[i][1] # t)
  <2>1. \A e \in OfTick(list, t) : e[1] = t
    BY DEF OfTick
  <2>2. \A e \in Later(list, t) : e[1] # t
    <3> TAKE e \in Later(list, t)
    <3>1. PICK i \in DOMAIN list : e = list[i]
      BY DEF Later, Entries
    <3>2. e[1] \in Nat /\ e[1] > t
      BY <1>1, <3>1 DEF Later
    <3> QED BY <1>8, <3>2
  <2> HIDE DEF list, t, a, b
  <2> QED BY <1>5, <1>7, <2>1, <2>2
<1> HIDE DEF list, t, a, b, p, E
<1>13. DueFrom(Actions(sc), given, t) = Len(b) /\ SubSeq(Actions(sc), given + 1, given + Len(b)) = b
  <2>1. b \in Seq(E) /\ r \in Seq(E)
    BY <1>5, <1>7, <1>11
  <2>2. /\ DueFrom((a \o b) \o r, Len(a), t) = Len(b)
        /\ SubSeq((a \o b) \o r, Len(a) + 1, Len(a) + Len(b)) = b
    BY <1>4, <1>8, <1>12, <2>1, DueAre
  <2> QED BY <1>2, <1>7, <2>2
<1>14. given' = Len(ActionsTo(list, t))
  <2>1. Len(a \o b) = Len(a) + Len(b)
    BY <1>4, <1>5
  <2> QED BY <1>2, <1>3, <1>9, <1>13, <2>1
<1>15. applied' = GivenTo(sc, t)
  <2>1. applied' = (applied \o p) \o b
    BY <1>9, <1>13
  <2>2. applied \in Seq(Things(sc)) /\ p \in Seq(Things(sc)) /\ b \in Seq(Things(sc))
    <3>1. GivenTo(sc, now) \in Seq(Things(sc))
      <4>1. sc.actions \in Seq(Nat \X Names)
        BY <1>1 DEF list
      <4> QED BY <1>1, <4>1, GivenToType
    <3>2. At(sc.pastes, t) \in Seq(OfTick(sc.pastes, t))
      BY <1>1, AtType
    <3>3. OfTick(sc.pastes, t) \subseteq Things(sc) /\ OfTick(list, t) \subseteq Things(sc)
      BY DEF OfTick, Things, list
    <3>4. p \in Seq(Things(sc))
      BY <3>2, <3>3 DEF p
    <3>5. b \in Seq(Things(sc))
      BY <1>5, <3>3
    <3> QED BY <1>2, <3>1, <3>4, <3>5
  <2>3. (applied \o p) \o b = applied \o (p \o b)
    BY <2>2, ConcatAssociative
  <2> QED BY <1>2, <1>10, <2>1, <2>3
<1> QED BY <1>14, <1>15 DEF list, t

LEMMA StepKept == RunInv /\ Step => Kept'
<1> SUFFICES ASSUME RunInv, Step PROVE Kept'
  OBVIOUS
<1> SUFFICES ASSUME sc.replay PROVE recorded' = [t \in 1 .. now + 1 |-> t]
  <2>1. sc' = sc /\ now' = now + 1
    BY DEF Step
  <2> QED BY <2>1 DEF Kept
<1>1. recorded = [t \in 1 .. now |-> t] /\ now \in Nat
  BY ScenarioTypes DEF RunInv, Kept, Typed
<1>2. recorded' = Append(recorded, now + 1)
  BY DEF Step
<1>3. recorded \in Seq(Nat) /\ Len(recorded) = now
  BY <1>1
<1> QED BY <1>1, <1>2, <1>3

LEMMA StepSampled == RunInv /\ Step => Sampled'
<1> SUFFICES ASSUME RunInv, Step PROVE Sampled'
  OBVIOUS
<1>1. sc' = sc /\ now' = now + 1 /\ monitoring' = Sampling(now + 1) /\ now \in Nat /\ sc.skip \in Nat
  BY ScenarioTypes DEF RunInv, Typed, Step
<1>2. PICK value \in Values :
        /\ probe' = Append(probe, value)
        /\ samples' = IF monitoring'
                      THEN [t \in DOMAIN samples \cup {now + 1} |-> IF t = now + 1 THEN value ELSE samples[t]]
                      ELSE samples
  BY DEF Step
<1>3. /\ monitoring = (sc.skip = 0 \/ now > sc.skip)
      /\ DOMAIN samples = {t \in 1 .. now : t > sc.skip}
      /\ \A t \in DOMAIN samples : samples[t] = probe[t]
  BY DEF RunInv, Sampled
<1>4. monitoring' = (sc.skip = 0 \/ now + 1 > sc.skip)
  <2>1. monitoring' = (monitoring \/ now + 1 > sc.skip)
    BY <1>1 DEF Sampling
  <2>2. now > sc.skip => now + 1 > sc.skip
    BY <1>1
  <2>3. monitoring = (sc.skip = 0 \/ now > sc.skip)
    BY <1>3
  <2> QED BY <2>1, <2>2, <2>3, Zenon
<1>5. probe'[now + 1] = value /\ \A t \in 1 .. now : probe'[t] = probe[t]
  BY <1>2 DEF RunInv, Typed
<1>6. CASE monitoring'
  <2>0. sc.skip = 0 \/ now + 1 > sc.skip
    BY <1>4, <1>6, Zenon
  <2>1. now + 1 > sc.skip
    BY <1>1, <2>0
  <2>2. samples' = [t \in DOMAIN samples \cup {now + 1} |-> IF t = now + 1 THEN value ELSE samples[t]]
    BY <1>2, <1>6
  <2>3. DOMAIN samples \cup {now + 1} = {t \in 1 .. now + 1 : t > sc.skip}
    BY <1>1, <1>3, <2>1
  <2>4. DOMAIN samples' = {t \in 1 .. now + 1 : t > sc.skip}
    BY <2>2, <2>3
  <2>5. ASSUME NEW t \in DOMAIN samples' PROVE samples'[t] = probe'[t]
    <3>1. t = now + 1 \/ (t \in DOMAIN samples /\ t # now + 1 /\ t \in 1 .. now)
      BY <1>1, <1>3, <2>4
    <3> QED BY <1>3, <1>5, <2>2, <3>1
  <2> QED BY <1>1, <1>4, <2>4, <2>5 DEF Sampled
<1>7. CASE ~monitoring'
  <2>1. ~(now + 1 > sc.skip) /\ samples' = samples
    BY <1>1, <1>2, <1>4, <1>7
  <2>2. DOMAIN samples = {} /\ {t \in 1 .. now + 1 : t > sc.skip} = {}
    BY <1>1, <1>3, <2>1
  <2> QED BY <1>1, <1>4, <2>1, <2>2 DEF Sampled
<1> QED BY <1>6, <1>7

LEMMA StepTracked == RunInv /\ Step => Tracked'
<1> SUFFICES ASSUME RunInv, Step PROVE Tracked'
  OBVIOUS
<1> SUFFICES ASSUME sc.replay PROVE Tracked'
  <2>1. sc' = sc
    BY DEF Step
  <2> QED BY <2>1 DEF Tracked
<1> DEFINE t == now + 1
           last == LastExternal(sc)
<1>1. sc' = sc /\ now' = t /\ now \in Nat /\ last \in Nat
  BY ScenarioTypes, ExternalTick DEF RunInv, Typed, Step
<1>2. PICK calm \in BOOLEAN : quiet' = Append(quiet, calm) /\ tracker' = Observed(t, last, tracker, calm)
  <2>1. PICK changed \in BOOLEAN, waiting \in BOOLEAN :
          /\ quiet' = Append(quiet, ~changed /\ ~waiting)
          /\ tracker' = Observed(t, last, tracker, ~(sc.replay /\ changed) /\ ~waiting)
    BY DEF Step
  <2>2. (~(sc.replay /\ changed) /\ ~waiting) = (~changed /\ ~waiting)
    OBVIOUS
  <2> QED BY <2>1, <2>2
<1>3. quiet'[t] = calm /\ \A u \in 1 .. now : quiet'[u] = quiet[u]
  BY <1>2 DEF RunInv, Typed
<1>4. QuietSince' = {u \in 1 .. t : u >= last /\ \A v \in u .. t : quiet'[v]}
  BY <1>1 DEF QuietSince
<1>5. QuietSince = {u \in 1 .. now : u >= last /\ \A v \in u .. now : quiet[v]}
  BY DEF QuietSince
<1>6. /\ tracker.idle \in Nat
      /\ tracker.idle = 0 => tracker.since = Never /\ QuietSince = {}
      /\ tracker.idle # 0 => tracker.since \in 1 .. now /\ tracker.idle = now - tracker.since + 1
                             /\ QuietSince = tracker.since .. now
      /\ tracker.stable = IF tracker.idle >= Confirm THEN tracker.since ELSE Never
  BY DEF RunInv, Tracked
<1>7. Confirm \in Nat /\ Confirm # 0 /\ Never \notin Nat
  BY ScenarioAssumption DEF ScenarioAssumption
<1>8. CASE t < last \/ ~calm
  <2>1. tracker' = NoTracker
    BY <1>2, <1>8 DEF Observed
  <2>2. QuietSince' = {}
    BY <1>1, <1>3, <1>4, <1>8
  <2>3. tracker'.idle = 0 /\ tracker'.since = Never /\ tracker'.stable = Never
    BY <2>1 DEF NoTracker
  <2> QED BY <1>7, <2>2, <2>3 DEF Tracked
<1>9. CASE t >= last /\ calm
  <2> DEFINE since == IF tracker.since = Never THEN t ELSE tracker.since
  <2>0. ~(t < last \/ ~calm)
    BY <1>1, <1>9
  <2>1. tracker' = [since |-> since, idle |-> tracker.idle + 1,
                    stable |-> IF tracker.idle + 1 >= Confirm THEN since ELSE tracker.stable]
    BY <1>2, <2>0 DEF Observed
  <2>2. tracker'.since = since /\ tracker'.idle = tracker.idle + 1
        /\ tracker'.stable = IF tracker.idle + 1 >= Confirm THEN since ELSE tracker.stable
    BY <2>1
  <2>3. QuietSince' = QuietSince \cup {t}
    <3>1. ASSUME NEW u \in 1 .. now
          PROVE  (\A v \in u .. t : quiet'[v]) <=> (\A v \in u .. now : quiet[v])
      <4>1. \A v \in u .. t : v = t \/ v \in u .. now
        BY <1>1
      <4>2. \A v \in u .. now : v \in u .. t /\ v \in 1 .. now
        BY <1>1
      <4> HIDE DEF t
      <4> QED BY <1>3, <1>9, <4>1, <4>2
    <3>2. t \in QuietSince'
      <4>1. \A v \in t .. t : v = t
        BY <1>1
      <4>2. t \in 1 .. t
        BY <1>1
      <4> QED BY <1>3, <1>4, <1>9, <4>1, <4>2
    <3>3. ASSUME NEW u PROVE u \in QuietSince' <=> (u \in QuietSince \/ u = t)
      <4>1. CASE u = t
        BY <3>2, <4>1
      <4>2. CASE u # t
        <5>1. u \in 1 .. t <=> u \in 1 .. now
          BY <1>1, <4>2
        <5> HIDE DEF t, last
        <5> QED BY <1>4, <1>5, <3>1, <4>2, <5>1
      <4> QED BY <4>1, <4>2
    <3> HIDE DEF t
    <3> QED BY <3>3
  <2>4. since \in 1 .. t /\ tracker.idle + 1 = t - since + 1 /\ QuietSince \cup {t} = since .. t
    <3>1. CASE tracker.idle = 0
      <4>1. since = t /\ QuietSince = {}
        BY <1>6, <3>1
      <4> QED BY <1>1, <3>1, <4>1
    <3>2. CASE tracker.idle # 0
      <4>1. tracker.since \in 1 .. now /\ tracker.since # Never
        BY <1>6, <1>7, <3>2
      <4>2. since = tracker.since /\ QuietSince = since .. now /\ tracker.idle = now - since + 1
        BY <1>6, <3>2, <4>1
      <4> HIDE DEF since
      <4> QED BY <1>1, <4>1, <4>2
    <3> QED BY <3>1, <3>2
  <2> HIDE DEF since
  <2>5. tracker'.idle \in Nat /\ tracker'.idle # 0
    BY <1>6, <2>2
  <2>6. tracker'.stable = IF tracker'.idle >= Confirm THEN tracker'.since ELSE Never
    <3>1. CASE tracker.idle + 1 >= Confirm
      BY <2>2, <3>1
    <3>2. CASE ~(tracker.idle + 1 >= Confirm)
      <4>1. ~(tracker.idle >= Confirm)
        BY <1>6, <1>7, <3>2
      <4> QED BY <1>6, <2>2, <3>2, <4>1
    <3> QED BY <3>1, <3>2
  <2> QED BY <1>1, <2>2, <2>3, <2>4, <2>5, <2>6 DEF Tracked
<1>10. calm \/ ~calm
  OBVIOUS
<1>11. t < last \/ t >= last
  BY <1>1
<1> QED BY <1>8, <1>9, <1>11

LEMMA RunStepInv == RunInv /\ Step => RunInv'
<1> SUFFICES ASSUME RunInv, Step PROVE RunInv'
  OBVIOUS
<1>1. Typed' /\ Timely' /\ Kept' /\ Sampled' /\ Tracked'
  BY StepTyped, StepTimely, StepKept, StepSampled, StepTracked
<1>2. verdict' = "none"
  BY DEF Step, RunInv, Typed
<1>3. VerdictRight'
  BY <1>2 DEF VerdictRight
<1> QED BY <1>1, <1>3 DEF RunInv

LEMMA NextInv == RunInv /\ [DriverNext]_driverVars => RunInv'
<1> SUFFICES ASSUME RunInv, [DriverNext]_driverVars PROVE RunInv'
  OBVIOUS
<1>1. CASE UNCHANGED driverVars
  <2>1. Rests /\ phase' = phase /\ applied' = applied /\ verdict' = verdict
    BY <1>1 DEF driverVars, Rests
  <2>2. Typed' /\ Timely' /\ VerdictRight'
    BY <2>1 DEF RunInv, Typed, Timely, VerdictRight, Rests
  <2> QED BY <2>1, <2>2, RestsInv DEF RunInv
<1> QED BY <1>1, LoadInv, RunStepInv, BreakInv, JudgeInv DEF DriverNext

LEMMA Inductive == DriverSpec => []RunInv
<1> QED BY RunInitInv, NextInv, PTL DEF DriverSpec

\* The tracker's tick is the first of the quiet ones, once there are enough.
LEMMA TrackedMeans == Typed /\ Tracked => StableExact
<1> SUFFICES ASSUME Typed, Tracked, sc.replay PROVE StableExact
  BY DEF StableExact
<1>1. now \in Nat
  BY ScenarioTypes DEF Typed
<1>2. Confirm \in Nat /\ Confirm # 0
  BY ScenarioAssumption DEF ScenarioAssumption
<1>3. tracker.stable = IF tracker.idle >= Confirm THEN tracker.since ELSE Never
  BY DEF Tracked
<1>4. CASE tracker.idle = 0
  <2>1. QuietSince = {}
    BY <1>4 DEF Tracked
  <2>2. Cardinality(QuietSince) = 0
    BY <2>1, FS_EmptySet
  <2> QED BY <1>2, <1>3, <1>4, <2>2 DEF StableExact
<1>5. CASE tracker.idle # 0
  <2>1. /\ tracker.since \in 1 .. now /\ tracker.idle = now - tracker.since + 1
        /\ QuietSince = tracker.since .. now
    BY <1>5 DEF Tracked
  <2>2. Cardinality(QuietSince) = tracker.idle
    <3>1. tracker.since \in Int /\ now \in Int /\ tracker.since <= now
      BY <1>1, <2>1
    <3>2. Cardinality(tracker.since .. now) = now - tracker.since + 1
      BY <3>1, FS_Interval
    <3> QED BY <2>1, <3>2
  <2>3. (CHOOSE t \in QuietSince : \A u \in QuietSince : t <= u) = tracker.since
    <3>1. tracker.since \in QuietSince /\ \A u \in QuietSince : tracker.since <= u
      BY <1>1, <2>1
    <3>2. \A t \in QuietSince : (\A u \in QuietSince : t <= u) => t = tracker.since
      BY <1>1, <2>1
    <3> QED BY <3>1, <3>2
  <2> QED BY <1>3, <2>2, <2>3 DEF StableExact
<1> QED BY <1>4, <1>5

LEMMA GivenMeans == Typed /\ Timely /\ Kept => InputsOnTime
  BY DEF Typed, Timely, Kept, InputsOnTime, InTime, GivenTo

\* For every set of scenarios and any number of confirming ticks: each step
\* gets the pastes and actions of its tick, in order, a recording has every
\* delta, the verdict is that of the expectations after the skipped ticks, and
\* the stable tick is the first of the quiet ticks (execute_scenario,
\* StabilityTracker::observe).
THEOREM ScenarioJudged == DriverSpec => []ScenarioRight
<1>1. RunInv => ScenarioRight
  BY TrackedMeans, GivenMeans DEF RunInv, ScenarioRight
<1> QED BY <1>1, Inductive, PTL

-----------------------------------------------------------------------------
(* The batch of tests.                                                     *)

\* The scenarios that hold a permit.
Holding(t) == {s \in Batch : t[s] \notin {"none", "ended", "dead"}}

\* The traces of a scenario that passed its comparison are alike.
SameEvents(s) == OfKind(rust[s], Kinds) = OfKind(java[s], Kinds)

BatchInv ==
  /\ spawned \in 0 .. Count /\ joined \in 0 .. Count /\ permits \in Nat
  /\ task \in [Batch -> {"none", "running", "comparing", "ok", "differs", "failed", "panicked",
                         "ended", "dead"}]
  /\ rust = [s \in Batch |-> rust[s]] /\ java = [s \in Batch |-> java[s]]
  /\ result \in [Batch -> {"none", "pass", "error"}]
  /\ permits + Cardinality(Holding(task)) = Permits
  /\ \A s \in Batch : task[s] = "none" <=> s > spawned
  /\ \A s \in 1 .. joined : task[s] = "ended"
  /\ \A f \in files : \E s \in Batch :
       f = <<"rust", s>> /\ task[s] \in {"comparing", "ok", "differs", "failed"}
  /\ \A s \in Batch : /\ task[s] = "ended" => result[s] # "none"
                      /\ task[s] = "ok" /\ s \in oracle => SameEvents(s)
                      /\ task[s] = "ended" /\ result[s] = "pass" /\ s \in oracle => SameEvents(s)
  /\ report \in {"success", "failures"} => joined = Count
  /\ report = "success" => \A s \in Batch : result[s] = "pass"
  /\ report = "failures" => \E s \in Batch : result[s] = "error"

LEMMA HoldingFinite ==
  ASSUME Count \in Nat, NEW t
  PROVE  IsFiniteSet(Holding(t)) /\ Cardinality(Holding(t)) \in Nat
<1>1. IsFiniteSet(Batch) BY FS_Interval DEF Batch
<1>2. IsFiniteSet(Holding(t)) BY <1>1, FS_Subset DEF Holding
<1> QED BY <1>2, FS_CardinalityType

\* A task that goes on keeps its permit.
LEMMA StillHolding ==
  ASSUME Count \in Nat, NEW t, NEW u, NEW s \in Batch, t = [i \in Batch |-> t[i]],
         u = [t EXCEPT ![s] = u[s]],
         t[s] \notin {"none", "ended", "dead"}, u[s] \notin {"none", "ended", "dead"}
  PROVE  Holding(u) = Holding(t)
BY DEF Holding

LEMMA BatchStarts ==
  ASSUME Count \in Nat, Permits \in Nat, BatchInit
  PROVE  BatchInv
<1> USE DEF BatchInit, Batch, NoTrace
<1>1. Holding(task) = {} BY DEF Holding
<1>2. Cardinality(Holding(task)) = 0 BY <1>1, FS_EmptySet
<1>3. permits + Cardinality(Holding(task)) = Permits BY <1>2
<1> QED BY <1>3 DEF BatchInv

LEMMA SpawnKept ==
  ASSUME Count \in Nat, Permits \in Nat, BatchInv, Spawn
  PROVE  BatchInv'
<1> USE DEF Spawn, Batch
<1> DEFINE s == spawned + 1
<1>1. s \in Batch /\ task[s] = "none" BY DEF BatchInv
<1>2. task' = [task EXCEPT ![s] = "running"] OBVIOUS
<1>3. Holding(task') = Holding(task) \cup {s} /\ s \notin Holding(task) BY <1>1, <1>2 DEF Holding, BatchInv
<1>4. Cardinality(Holding(task')) = Cardinality(Holding(task)) + 1 BY <1>3, HoldingFinite, FS_AddElement
<1>5. permits' + Cardinality(Holding(task')) = Permits /\ permits' \in Nat
  <2>1. permits + Cardinality(Holding(task)) = Permits /\ permits \in Nat BY DEF BatchInv
  <2>2. Cardinality(Holding(task)) \in Nat BY HoldingFinite
  <2> QED BY <1>4, <2>1, <2>2
<1>6. \A i \in Batch : task'[i] = IF i = s THEN "running" ELSE task[i] BY <1>2 DEF BatchInv
<1>7. task' \in [Batch -> {"none", "running", "comparing", "ok", "differs", "failed", "panicked",
                                "ended", "dead"}]
  BY <1>2, <1>1 DEF BatchInv
<1>8. \A i \in Batch : task'[i] = "none" <=> i > spawned'
  BY <1>6 DEF BatchInv
<1>9. \A i \in 1 .. joined : task'[i] = "ended"
  BY <1>1, <1>6 DEF BatchInv
<1>10. \A f \in files' : \E i \in Batch :
         f = <<"rust", i>> /\ task'[i] \in {"comparing", "ok", "differs", "failed"}
  BY <1>1, <1>6 DEF BatchInv
<1>11. \A i \in Batch : /\ task'[i] = "ended" => result[i] # "none"
                        /\ task'[i] = "ok" /\ i \in oracle => SameEvents(i)'
                        /\ task'[i] = "ended" /\ result[i] = "pass" /\ i \in oracle => SameEvents(i)'
  BY <1>6 DEF BatchInv, SameEvents
<1>12. spawned' \in 0 .. Count BY DEF BatchInv
<1> QED BY <1>5, <1>7, <1>8, <1>9, <1>10, <1>11, <1>12 DEF BatchInv

LEMMA ExecuteKept ==
  ASSUME Count \in Nat, Permits \in Nat, BatchInv, NEW s \in Batch, Execute(s)
  PROVE  BatchInv'
<1> USE DEF Execute, Batch
<1>1. task[s] = "running" /\ task = [i \in Batch |-> task[i]] BY DEF BatchInv
<1>2. /\ task' = [task EXCEPT ![s] = task'[s]] /\ task'[s] \in {"comparing", "ok", "failed", "panicked"}
      /\ task'[s] = "ok" => s \notin oracle
  BY <1>1
<1>3. Holding(task') = Holding(task) BY <1>1, <1>2, StillHolding
<1>4. \A i \in Batch : i # s => task'[i] = task[i] BY <1>1, <1>2
<1>5. /\ rust' = [i \in Batch |-> rust'[i]]
      /\ \A i \in Batch : i # s => rust'[i] = rust[i]
  <2>1. rust = [i \in Batch |-> rust[i]] BY DEF BatchInv
  <2> QED BY <2>1
<1>6. files' \subseteq files \cup {<<"rust", s>>} /\ (task'[s] = "panicked" => files' = files)
  BY <1>1
<1>7. s > joined /\ s <= spawned
  <2>1. spawned \in Nat /\ joined \in Nat BY DEF BatchInv
  <2>2. ~(s > spawned) BY <1>1 DEF BatchInv
  <2>3. s \notin 1 .. joined BY <1>1 DEF BatchInv
  <2> QED BY <2>1, <2>2, <2>3
<1>8. \A f \in files' : \E i \in Batch :
        f = <<"rust", i>> /\ task'[i] \in {"comparing", "ok", "differs", "failed"}
  BY <1>1, <1>2, <1>4, <1>6 DEF BatchInv
<1>9. \A i \in Batch : task'[i] = "none" <=> i > spawned BY <1>2, <1>4, <1>7 DEF BatchInv
<1>10. \A i \in 1 .. joined : task'[i] = "ended" BY <1>4, <1>7 DEF BatchInv
<1>11. \A i \in Batch : /\ task'[i] = "ended" => result[i] # "none"
                        /\ task'[i] = "ok" /\ i \in oracle => SameEvents(i)'
                        /\ task'[i] = "ended" /\ result[i] = "pass" /\ i \in oracle => SameEvents(i)'
  BY <1>2, <1>4, <1>5 DEF BatchInv, SameEvents
<1>12. task' \in [Batch -> {"none", "running", "comparing", "ok", "differs", "failed", "panicked",
                                 "ended", "dead"}]
  BY <1>2 DEF BatchInv
<1> QED BY <1>3, <1>5, <1>8, <1>9, <1>10, <1>11, <1>12 DEF BatchInv

LEMMA CompareKept ==
  ASSUME Count \in Nat, Permits \in Nat, BatchInv, NEW s \in Batch, Compare(s)
  PROVE  BatchInv'
<1> USE DEF Compare, Batch
<1>1. task[s] = "comparing" /\ task = [i \in Batch |-> task[i]] BY DEF BatchInv
<1>2. task' = [task EXCEPT ![s] = task'[s]] /\ task'[s] \in {"ok", "differs"}
  BY <1>1
<1>3. Holding(task') = Holding(task) BY <1>1, <1>2, StillHolding
<1>4. \A i \in Batch : i # s => task'[i] = task[i] BY <1>1, <1>2
<1>5. /\ java' = [i \in Batch |-> java'[i]]
      /\ \A i \in Batch : i # s => java'[i] = java[i]
  <2>1. java = [i \in Batch |-> java[i]] BY DEF BatchInv
  <2> QED BY <2>1
<1>6. task'[s] = "ok" => SameEvents(s)'
  <2>1. java = [i \in Batch |-> java[i]] BY DEF BatchInv
  <2>2. ASSUME task'[s] = "ok" PROVE SamplesAgree(rust[s], java'[s])
    BY <1>1, <2>1, <2>2
  <2> QED BY <2>2 DEF SamplesAgree, SameEvents
<1>7. s > joined /\ s <= spawned
  <2>1. spawned \in Nat /\ joined \in Nat BY DEF BatchInv
  <2>2. ~(s > spawned) BY <1>1 DEF BatchInv
  <2>3. s \notin 1 .. joined BY <1>1 DEF BatchInv
  <2> QED BY <2>1, <2>2, <2>3
<1>8. \A f \in files' : \E i \in Batch :
        f = <<"rust", i>> /\ task'[i] \in {"comparing", "ok", "differs", "failed"}
  BY <1>1, <1>2, <1>4 DEF BatchInv
<1>9. \A i \in Batch : task'[i] = "none" <=> i > spawned BY <1>2, <1>4, <1>7 DEF BatchInv
<1>10. \A i \in 1 .. joined : task'[i] = "ended" BY <1>4, <1>7 DEF BatchInv
<1>11. \A i \in Batch : /\ task'[i] = "ended" => result[i] # "none"
                        /\ task'[i] = "ok" /\ i \in oracle => SameEvents(i)'
                        /\ task'[i] = "ended" /\ result[i] = "pass" /\ i \in oracle => SameEvents(i)'
  <2>1. \A i \in Batch : i # s => SameEvents(i)' = SameEvents(i) BY <1>5 DEF SameEvents
  <2> QED BY <1>2, <1>4, <1>6, <2>1 DEF BatchInv
<1>12. task' \in [Batch -> {"none", "running", "comparing", "ok", "differs", "failed", "panicked",
                                 "ended", "dead"}]
  BY <1>2 DEF BatchInv
<1> QED BY <1>3, <1>5, <1>8, <1>9, <1>10, <1>11, <1>12 DEF BatchInv

LEMMA EndKept ==
  ASSUME Count \in Nat, Permits \in Nat, BatchInv, NEW s \in Batch, End(s)
  PROVE  BatchInv'
<1> USE DEF End, Batch, Released
<1>1. /\ task[s] \in {"ok", "failed", "differs", "panicked"}
      /\ task = [i \in Batch |-> task[i]] /\ result = [i \in Batch |-> result[i]]
  BY DEF BatchInv
<1>2. task' = [task EXCEPT ![s] = IF task[s] = "panicked" THEN "dead" ELSE "ended"] OBVIOUS
<1>3. Holding(task') = Holding(task) \ {s} /\ s \in Holding(task) BY <1>1, <1>2 DEF Holding
<1>4. permits' + Cardinality(Holding(task')) = Permits /\ permits' \in Nat
  <2>1. permits + Cardinality(Holding(task)) = Permits /\ permits \in Nat BY DEF BatchInv
  <2>2. Cardinality(Holding(task)) \in Nat BY HoldingFinite
  <2>3. Cardinality(Holding(task')) = Cardinality(Holding(task)) - 1
    BY <1>3, HoldingFinite, FS_RemoveElement
  <2> QED BY <2>1, <2>2, <2>3
<1>5. \A i \in Batch : task'[i] = IF i = s THEN IF task[s] = "panicked" THEN "dead" ELSE "ended"
                                       ELSE task[i]
  BY <1>1, <1>2
<1>6. \A i \in Batch : result'[i] = IF i = s /\ task[s] # "panicked" THEN Outcome(task[s])
                                         ELSE result[i]
  BY <1>1
<1>7. result' \in [Batch -> {"none", "pass", "error"}]
  BY <1>6 DEF BatchInv, Outcome
<1>8. s > joined /\ s <= spawned
  <2>1. spawned \in Nat /\ joined \in Nat BY DEF BatchInv
  <2>2. ~(s > spawned) BY <1>1 DEF BatchInv
  <2>3. s \notin 1 .. joined BY <1>1 DEF BatchInv
  <2> QED BY <2>1, <2>2, <2>3
<1>9. \A f \in files' : \E i \in Batch :
        f = <<"rust", i>> /\ task'[i] \in {"comparing", "ok", "differs", "failed"}
  BY <1>1, <1>5 DEF BatchInv
<1>10. \A i \in Batch : task'[i] = "none" <=> i > spawned BY <1>5, <1>8 DEF BatchInv
<1>11. \A i \in 1 .. joined : task'[i] = "ended" BY <1>5, <1>8 DEF BatchInv
<1>12. \A i \in Batch : /\ task'[i] = "ended" => result'[i] # "none"
                        /\ task'[i] = "ok" /\ i \in oracle => SameEvents(i)'
                        /\ task'[i] = "ended" /\ result'[i] = "pass" /\ i \in oracle => SameEvents(i)'
  <2>1. \A i \in Batch : SameEvents(i)' = SameEvents(i) BY DEF SameEvents
  <2> QED BY <1>1, <1>5, <1>6, <2>1 DEF BatchInv, Outcome
<1>13. task' \in [Batch -> {"none", "running", "comparing", "ok", "differs", "failed", "panicked",
                                 "ended", "dead"}]
  BY <1>2 DEF BatchInv
<1>14. report \notin {"success", "failures"} BY <1>8 DEF BatchInv
<1> QED BY <1>4, <1>7, <1>9, <1>10, <1>11, <1>12, <1>13, <1>14 DEF BatchInv

LEMMA ReportKept ==
  ASSUME Count \in Nat, Permits \in Nat, BatchInv, Join \/ Report
  PROVE  BatchInv'
<1> USE DEF Join, Report, Batch
<1>1. UNCHANGED <<spawned, permits, task, oracle, rust, java, files, result>> OBVIOUS
<1>2. \A i \in Batch : SameEvents(i)' = SameEvents(i) BY <1>1 DEF SameEvents
<1>3. CASE Join BY <1>1, <1>2, <1>3 DEF BatchInv
<1>4. CASE Report
  <2>1. \A i \in Batch : task[i] = "ended" /\ result[i] \in {"pass", "error"} BY <1>4 DEF BatchInv
  <2> QED BY <1>1, <1>2, <1>4, <2>1 DEF BatchInv
<1> QED BY <1>3, <1>4

LEMMA BatchKept ==
  ASSUME Count \in Nat, Permits \in Nat, BatchInv, [BatchNext]_batchVars
  PROVE  BatchInv'
<1>1. CASE BatchNext
  BY <1>1, SpawnKept, ExecuteKept, CompareKept, EndKept, ReportKept DEF BatchNext, Batch
<1>2. CASE UNCHANGED batchVars
  BY <1>2 DEF batchVars, BatchInv, SameEvents
<1> QED BY <1>1, <1>2

LEMMA BatchImplies ==
  ASSUME Count \in Nat, Permits \in Nat, BatchInv
  PROVE  BatchRight
<1>1. Cardinality(Holding(task)) <= Permits
  <2>1. permits + Cardinality(Holding(task)) = Permits /\ permits \in Nat BY DEF BatchInv
  <2>2. Cardinality(Holding(task)) \in Nat BY HoldingFinite
  <2> QED BY <2>1, <2>2
<1>2. report \in {"success", "failures"} => files = {} /\ joined = Count
  BY DEF BatchInv, Batch
<1>3. report = "success" => \A s \in Batch : task[s] = "ended" /\ (s \in oracle => SameEvents(s))
  BY DEF BatchInv, Batch
<1>4. report = "failures" => \E s \in Batch : result[s] = "error"
  BY DEF BatchInv, Batch
<1>5. report = "success" =>
        \A s \in Batch :
          /\ task[s] = "ended"
          /\ s \in oracle => OfKind(rust[s], Kinds) = OfKind(java[s], Kinds)
  BY <1>3 DEF SameEvents
<1> QED BY <1>1, <1>2, <1>4, <1>5, Zenon DEF BatchRight, Holding

\* However many scenarios and permits there are and however the tasks take
\* turns, fail or panic: no more tasks run at once than there are permits, the
\* command succeeds only if every scenario ran and was, where it is compared,
\* what the game did event by event, and no temporary trace is left (test_path).
THEOREM BatchReportsRight ==
  ASSUME Count \in Nat, Permits \in Nat
  PROVE  BatchSpec => []BatchRight
<1>1. BatchInit => BatchInv BY BatchStarts
<1>2. BatchInv /\ [BatchNext]_batchVars => BatchInv' BY BatchKept
<1>3. BatchInv => BatchRight BY BatchImplies
<1> QED BY <1>1, <1>2, <1>3, PTL DEF BatchSpec
==============================================================================
