----------------------------- MODULE VideoProofs -----------------------------
(***************************************************************************)
(* VideoRenderer gives FFmpeg the right frames, for every trace, plan,     *)
(* number of slots and room in the channel.                                *)
(*                                                                         *)
(* The invariant ties the loop to the last frame n it has made: its scene  *)
(* is what the trace makes of the first one up to that time (runs of the   *)
(* trace's frames, however they are cut up between the planned frames),    *)
(* the meshes in the buffers are those of the visible blocks, every mesh   *)
(* in the cache belongs to the blocks it is kept for, and the key is the   *)
(* key of frame n. What was made and not sent yet, waiting with its        *)
(* repetitions or in the slots in flight, covers the frames from the       *)
(* first one that FFmpeg and the channel do not have to frame n.           *)
(***************************************************************************)
EXTENDS VideoRenderer, SequenceTheorems, WellFoundedInduction, TLAPS

-----------------------------------------------------------------------------
(* Numbers.                                                                *)

\* The least of some natural numbers.
LEMMA LeastNatural ==
  ASSUME NEW T \in SUBSET Nat, T # {}
  PROVE  \E x \in T : \A y \in T : x <= y
<1>1. PICK x \in T : \A y \in T : ~(<<y, x>> \in OpToRel(<, Nat)) BY WFMin, NatLessThanWellFounded
<1>2. \A y \in T : ~(y < x) BY <1>1 DEF OpToRel
<1> QED BY <1>2

\* What holds of 0 and goes on to the next number holds up to n.
LEMMA UpTo ==
  ASSUME NEW n \in Nat, NEW T, 0 \in T, \A i \in 0 .. n - 1 : i \in T => i + 1 \in T
  PROVE  0 .. n \subseteq T
<1> SUFFICES ASSUME NEW m \in 0 .. n, m \notin T PROVE FALSE OBVIOUS
<1> DEFINE missing == {i \in 0 .. n : i \notin T}
<1>1. missing \in SUBSET Nat /\ missing # {} OBVIOUS
<1>2. PICK x \in missing : \A y \in missing : x <= y BY <1>1, LeastNatural
<1>3. x # 0 /\ x - 1 \in 0 .. n - 1 BY <1>2
<1>4. x - 1 \in T
  <2>1. ~(x <= x - 1) BY <1>3
  <2>2. x - 1 \notin missing BY <1>2, <2>1
  <2> QED BY <1>3, <2>2
<1>5. (x - 1) + 1 \in T BY <1>3, <1>4
<1> QED BY <1>2, <1>3, <1>5

-----------------------------------------------------------------------------
(* What a run over the frames of a trace makes of a scene.                 *)

IsRun(u, n, sc, frames) == u = [i \in 0 .. n |-> IF i = 0 THEN sc ELSE Applied(u[i - 1], frames[i])]

LEMMA RunSteps ==
  ASSUME NEW u, NEW n \in Nat, NEW sc, NEW frames, IsRun(u, n, sc, frames)
  PROVE  u[0] = sc /\ \A i \in 1 .. n : u[i] = Applied(u[i - 1], frames[i])
<1>1. \A i \in 0 .. n : u[i] = IF i = 0 THEN sc ELSE Applied(u[i - 1], frames[i]) BY DEF IsRun
<1>2. 0 \in 0 .. n /\ \A i \in 1 .. n : i \in 0 .. n /\ i # 0 OBVIOUS
<1> QED BY <1>1, <1>2

LEMMA IsStepped ==
  ASSUME NEW u, NEW n \in Nat, NEW sc, NEW frames, u = [i \in 0 .. n |-> u[i]],
         u[0] = sc, \A i \in 1 .. n : u[i] = Applied(u[i - 1], frames[i])
  PROVE  IsRun(u, n, sc, frames)
<1>1. \A i \in 0 .. n : i = 0 \/ i \in 1 .. n OBVIOUS
<1>2. \A i \in 0 .. n : u[i] = IF i = 0 THEN sc ELSE Applied(u[i - 1], frames[i]) BY <1>1
<1> QED BY <1>2 DEF IsRun

LEMMA RunExists ==
  ASSUME NEW n \in Nat, NEW sc, NEW frames
  PROVE  \E u : IsRun(u, n, sc, frames)
<1> DEFINE T == {m \in 0 .. n : \E u : IsRun(u, m, sc, frames)}
<1>1. 0 \in T
  <2> DEFINE u == [i \in 0 .. 0 |-> sc]
  <2>1. u = [i \in 0 .. 0 |-> u[i]] /\ u[0] = sc /\ 1 .. 0 = {} OBVIOUS
  <2> HIDE DEF u
  <2>2. IsRun(u, 0, sc, frames) BY <2>1, IsStepped
  <2> QED BY <2>2
<1>2. ASSUME NEW m \in 0 .. n - 1, m \in T PROVE m + 1 \in T
  <2>1. PICK g : IsRun(g, m, sc, frames) BY <1>2
  <2>2. g[0] = sc /\ \A i \in 1 .. m : g[i] = Applied(g[i - 1], frames[i]) BY <2>1, RunSteps
  <2> DEFINE last == Applied(g[m], frames[m + 1])
             u == [i \in 0 .. m + 1 |-> IF i = m + 1 THEN last ELSE g[i]]
  <2>3. /\ u = [i \in 0 .. m + 1 |-> u[i]] /\ u[m + 1] = last
        /\ \A i \in 0 .. m : u[i] = g[i]
    <3> HIDE DEF last
    <3>1. \A i \in 0 .. m : i \in 0 .. m + 1 /\ i # m + 1 OBVIOUS
    <3> QED BY <3>1
  <2> HIDE DEF u
  <2>4. \A i \in 1 .. m + 1 : u[i] = Applied(u[i - 1], frames[i])
    <3> TAKE i \in 1 .. m + 1
    <3>1. CASE i = m + 1
      <4>1. i - 1 = m /\ m \in 0 .. m BY <3>1
      <4> QED BY <2>3, <3>1, <4>1
    <3>2. CASE i # m + 1
      <4>1. i \in 1 .. m /\ i \in 0 .. m /\ i - 1 \in 0 .. m BY <3>2
      <4>2. u[i] = g[i] /\ u[i - 1] = g[i - 1] BY <2>3, <4>1
      <4>3. g[i] = Applied(g[i - 1], frames[i]) BY <2>2, <4>1
      <4> QED BY <4>2, <4>3
    <3> QED BY <3>1, <3>2
  <2>5. u[0] = sc
    <3>1. 0 \in 0 .. m OBVIOUS
    <3> QED BY <2>2, <2>3, <3>1
  <2>6. m + 1 \in Nat /\ m + 1 \in 0 .. n OBVIOUS
  <2>7. IsRun(u, m + 1, sc, frames) BY <2>3, <2>4, <2>5, <2>6, IsStepped
  <2> QED BY <2>6, <2>7
<1>3. 0 .. n \subseteq T
  <2> HIDE DEF T
  <2> QED BY <1>1, <1>2, UpTo
<1> QED BY <1>3

\* Two runs that agree on the first frames agree so far.
LEMMA RunsAgree ==
  ASSUME NEW u, NEW n \in Nat, NEW v, NEW m \in Nat, NEW sc, NEW f, NEW g, n <= m,
         IsRun(u, n, sc, f), IsRun(v, m, sc, g), \A i \in 1 .. n : f[i] = g[i]
  PROVE  \A i \in 0 .. n : u[i] = v[i]
<1> DEFINE T == {i \in 0 .. n : u[i] = v[i]}
<1>1. u[0] = sc /\ \A i \in 1 .. n : u[i] = Applied(u[i - 1], f[i]) BY RunSteps
<1>2. v[0] = sc /\ \A i \in 1 .. m : v[i] = Applied(v[i - 1], g[i]) BY RunSteps
<1>3. 0 \in T BY <1>1, <1>2
<1>4. ASSUME NEW i \in 0 .. n - 1, i \in T PROVE i + 1 \in T
  <2>1. i + 1 \in 1 .. n /\ i + 1 \in 1 .. m /\ (i + 1) - 1 = i /\ i + 1 \in 0 .. n OBVIOUS
  <2>2. u[i + 1] = Applied(u[i], f[i + 1]) /\ v[i + 1] = Applied(v[i], g[i + 1]) BY <1>1, <1>2, <2>1
  <2> QED BY <1>4, <2>1, <2>2
<1>5. 0 .. n \subseteq T
  <2> HIDE DEF T
  <2> QED BY <1>3, <1>4, UpTo
<1> QED BY <1>5

LEMMA AppliedRun ==
  ASSUME NEW sc, NEW frames, NEW time, NEW u, Due(frames, time) \in Nat,
         IsRun(u, Due(frames, time), sc, frames)
  PROVE  AppliedUntil(sc, frames, time) = u[Due(frames, time)]
<1> DEFINE n == Due(frames, time)
           P(v) == v = [i \in 0 .. n |-> IF i = 0 THEN sc ELSE Applied(v[i - 1], frames[i])]
           w == CHOOSE v : P(v)
<1>1. AppliedUntil(sc, frames, time) = w[n] BY DEF AppliedUntil
<1>2. P(u) BY DEF IsRun
<1>3. P(w)
  <2> HIDE DEF P
  <2> QED BY <1>2
<1> HIDE DEF w
<1>4. IsRun(w, n, sc, frames) BY <1>3 DEF IsRun
<1> HIDE DEF n
<1>5. n \in Nat /\ IsRun(u, n, sc, frames) /\ n <= n BY DEF n
<1>6. \A i \in 0 .. n : u[i] = w[i] BY <1>4, <1>5, RunsAgree
<1> QED BY <1>1, <1>5, <1>6 DEF n

\* The frames of a trace, or some of them: each has a time.
Timed(frames) == frames \in Seq({frames[i] : i \in DOMAIN frames}) /\ \A i \in DOMAIN frames : frames[i].stamp \in Int

IsDue(frames, time, n) ==
  /\ n \in 0 .. Len(frames)
  /\ \A i \in 1 .. n : frames[i].stamp <= time
  /\ n = Len(frames) \/ frames[n + 1].stamp > time

LEMMA TimedFacts ==
  ASSUME NEW frames, Timed(frames)
  PROVE  /\ Len(frames) \in Nat /\ DOMAIN frames = 1 .. Len(frames)
         /\ \A i \in 1 .. Len(frames) : frames[i].stamp \in Int
BY DEF Timed

LEMMA DueFacts ==
  ASSUME NEW frames, Timed(frames), NEW time \in Int
  PROVE  Due(frames, time) \in Nat /\ IsDue(frames, time, Due(frames, time))
<1> DEFINE len == Len(frames)
           late == {i \in 1 .. len : frames[i].stamp > time}
<1>1. len \in Nat /\ \A i \in 1 .. len : frames[i].stamp \in Int BY TimedFacts
<1>2. \E n \in 0 .. len : IsDue(frames, time, n)
  <2>1. CASE late = {}
    <3>1. \A i \in 1 .. len : frames[i].stamp <= time BY <1>1, <2>1
    <3> QED BY <1>1, <3>1 DEF IsDue
  <2>2. CASE late # {}
    <3>1. late \in SUBSET Nat BY <1>1
    <3>2. PICK x \in late : \A y \in late : x <= y BY <2>2, <3>1, LeastNatural
    <3>3. x \in 1 .. len /\ frames[x].stamp > time BY <3>2
    <3>4. \A i \in 1 .. x - 1 : frames[i].stamp <= time
      <4> TAKE i \in 1 .. x - 1
      <4>1. i \in 1 .. len /\ ~(x <= i) BY <1>1, <3>3
      <4>2. i \notin late BY <3>2, <4>1
      <4>3. ~(frames[i].stamp > time) BY <4>1, <4>2
      <4> QED BY <1>1, <4>1, <4>3
    <3>5. x - 1 \in 0 .. len /\ (x - 1) + 1 = x BY <1>1, <3>3
    <3> QED BY <3>3, <3>4, <3>5 DEF IsDue
  <2> QED BY <2>1, <2>2
<1>3. Due(frames, time) = CHOOSE n \in 0 .. len : /\ \A i \in 1 .. n : frames[i].stamp <= time
                                                  /\ n = len \/ frames[n + 1].stamp > time
  BY DEF Due
<1>4. \E n \in 0 .. len : /\ \A i \in 1 .. n : frames[i].stamp <= time
                          /\ n = len \/ frames[n + 1].stamp > time
  BY <1>2 DEF IsDue
<1>5. IsDue(frames, time, Due(frames, time))
  <2> HIDE DEF late
  <2> QED BY <1>3, <1>4 DEF IsDue
<1>6. Due(frames, time) \in Nat BY <1>1, <1>5 DEF IsDue
<1> QED BY <1>5, <1>6

LEMMA DueUnique ==
  ASSUME NEW frames, Timed(frames), NEW time \in Int, NEW n, NEW m, IsDue(frames, time, n), IsDue(frames, time, m)
  PROVE  n = m
<1>1. Len(frames) \in Nat /\ \A i \in 1 .. Len(frames) : frames[i].stamp \in Int BY TimedFacts
<1>2. n \in 0 .. Len(frames) /\ m \in 0 .. Len(frames) BY DEF IsDue
<1>3. ASSUME NEW a \in 0 .. Len(frames), NEW b \in 0 .. Len(frames), a < b,
             IsDue(frames, time, a), IsDue(frames, time, b)
      PROVE  FALSE
  <2>1. a + 1 \in 1 .. b /\ a + 1 \in 1 .. Len(frames) /\ a # Len(frames) BY <1>1, <1>3
  <2>2. frames[a + 1].stamp <= time BY <1>3, <2>1 DEF IsDue
  <2>3. frames[a + 1].stamp > time BY <1>3, <2>1 DEF IsDue
  <2>4. frames[a + 1].stamp \in Int BY <1>1, <2>1
  <2> QED BY <2>2, <2>3, <2>4
<1>4. ~(n < m) /\ ~(m < n) BY <1>2, <1>3
<1> QED BY <1>1, <1>2, <1>4

\* The frames after the first k, and how many of those are due.
LEMMA RestFacts ==
  ASSUME NEW frames, Timed(frames), NEW k \in 0 .. Len(frames)
  PROVE  LET rest == SubSeq(frames, k + 1, Len(frames))
         IN /\ Timed(rest) /\ Len(rest) = Len(frames) - k
            /\ \A i \in 1 .. Len(frames) - k : rest[i] = frames[k + i]
<1> DEFINE rest == SubSeq(frames, k + 1, Len(frames))
           len == Len(frames)
<1>1. len \in Nat /\ DOMAIN frames = 1 .. len /\ \A i \in 1 .. len : frames[i].stamp \in Int BY TimedFacts
<1>2. k + 1 \in Int /\ len - k \in Nat BY <1>1
<1>3. rest = [i \in 1 .. len - k |-> frames[k + i]]
  <2>1. rest = [i \in 1 .. (len - (k + 1)) + 1 |-> frames[((k + 1) + i) - 1]]
    BY <1>1, <1>2 DEF Timed
  <2>2. (len - (k + 1)) + 1 = len - k /\ \A i \in 1 .. len - k : ((k + 1) + i) - 1 = k + i BY <1>1, <1>2
  <2> QED BY <2>1, <2>2
<1> HIDE DEF rest
<1>4. \A i \in 1 .. len - k : k + i \in 1 .. len BY <1>1
<1>5. DOMAIN rest = 1 .. len - k /\ \A i \in 1 .. len - k : rest[i] = frames[k + i] BY <1>3
<1>6. rest \in Seq({rest[i] : i \in DOMAIN rest})
  <2> DEFINE R == {rest[i] : i \in DOMAIN rest}
  <2>1. \A i \in 1 .. len - k : rest[i] \in R BY <1>5
  <2>2. rest = [i \in 1 .. len - k |-> rest[i]] BY <1>3
  <2> HIDE DEF R
  <2>3. rest \in Seq(R) BY <1>2, <2>1, <2>2
  <2> QED BY <2>3 DEF R
<1>7. Len(rest) = len - k BY <1>2, <1>3, <1>5
<1>8. \A i \in DOMAIN rest : rest[i].stamp \in Int BY <1>1, <1>4, <1>5
<1>9. Timed(rest) BY <1>6, <1>8 DEF Timed
<1> QED BY <1>5, <1>7, <1>9 DEF rest

LEMMA DueAfter ==
  ASSUME NEW frames, Timed(frames), NEW time \in Int, NEW k \in 0 .. Len(frames),
         \A i \in 1 .. k : frames[i].stamp <= time
  PROVE  Due(frames, time) = k + Due(SubSeq(frames, k + 1, Len(frames)), time)
<1> DEFINE rest == SubSeq(frames, k + 1, Len(frames))
           len == Len(frames)
           n == Due(rest, time)
<1>1. len \in Nat /\ \A i \in 1 .. len : frames[i].stamp \in Int BY TimedFacts
<1>2. Timed(rest) /\ Len(rest) = len - k /\ \A i \in 1 .. len - k : rest[i] = frames[k + i] BY RestFacts
<1> HIDE DEF rest
<1>3. n \in Nat /\ IsDue(rest, time, n) BY <1>2, DueFacts
<1> HIDE DEF n
<1>4. n \in 0 .. len - k BY <1>2, <1>3 DEF IsDue
<1>5. k + n \in 0 .. len BY <1>1, <1>4
<1>6. \A i \in 1 .. k + n : frames[i].stamp <= time
  <2> TAKE i \in 1 .. k + n
  <2>1. CASE i \in 1 .. k BY <2>1
  <2>2. CASE i \notin 1 .. k
    <3>1. i - k \in 1 .. n /\ i - k \in 1 .. len - k /\ k + (i - k) = i BY <1>1, <1>4, <2>2
    <3>2. rest[i - k].stamp <= time BY <1>3, <3>1 DEF IsDue
    <3>3. rest[i - k] = frames[i] BY <1>2, <3>1
    <3> QED BY <3>2, <3>3
  <2> QED BY <2>1, <2>2
<1>7. k + n = len \/ frames[(k + n) + 1].stamp > time
  <2>1. CASE n = len - k BY <1>1, <2>1
  <2>2. CASE n # len - k
    <3>1. rest[n + 1].stamp > time BY <1>2, <1>3, <2>2 DEF IsDue
    <3>2. n + 1 \in 1 .. len - k /\ k + (n + 1) = (k + n) + 1 BY <1>1, <1>4, <2>2
    <3>3. rest[n + 1] = frames[(k + n) + 1] BY <1>2, <3>2
    <3> QED BY <3>1, <3>3
  <2> QED BY <2>1, <2>2
<1>8. IsDue(frames, time, k + n) BY <1>5, <1>6, <1>7 DEF IsDue
<1>9. IsDue(frames, time, Due(frames, time)) BY DueFacts
<1>10. Due(frames, time) = k + n BY <1>8, <1>9, DueUnique
<1> QED BY <1>10 DEF n, rest

IsScene(sc) ==
  /\ sc = [block |-> sc.block, dirty |-> sc.dirty, pistons |-> sc.pistons, generation |-> sc.generation,
           visible |-> sc.visible, key |-> sc.key, cache |-> sc.cache]
  /\ sc.block = [c \in Cells |-> sc.block[c]] /\ sc.cache = [s \in Sections |-> sc.cache[s]]
  /\ sc.generation \in Int /\ sc.pistons \subseteq Movements

\* b: some frames of a trace were applied to a.
Grown(a, b) ==
  /\ IsScene(b)
  /\ b.visible = a.visible /\ b.key = a.key /\ b.cache = a.cache
  /\ a.dirty \subseteq b.dirty
  /\ \A c \in Cells : b.block[c] # a.block[c] => Disturbed(c) \subseteq b.dirty
  /\ b.generation >= a.generation
  /\ b.generation = a.generation => b.block = a.block /\ b.dirty = a.dirty /\ b.pistons = a.pistons

Same(a, b) == a.block = b.block /\ a.pistons = b.pistons

\* Frames whose moving blocks are well formed.
Moving(frames, n) == \A i \in 1 .. n : \A m \in frames[i].moving : m \in Movements

LEMMA AppliedFields ==
  ASSUME NEW sc, IsScene(sc), NEW f, \A m \in f.moving : m \in Movements
  PROVE  LET a == Applied(sc, f)
         IN /\ IsScene(a)
            /\ a.block = [c \in Cells |-> IF c \in DOMAIN f.blocks THEN f.blocks[c] ELSE sc.block[c]]
            /\ a.dirty = sc.dirty \cup UNION {Disturbed(c) : c \in DOMAIN f.blocks}
            /\ a.pistons = {m \in sc.pistons : m.pos \notin f.settled /\ \A n \in f.moving : n.pos # m.pos}
                           \cup f.moving
            /\ a.generation = IF Changing(f) THEN sc.generation + 1 ELSE sc.generation
            /\ a.visible = sc.visible /\ a.key = sc.key /\ a.cache = sc.cache
<1> DEFINE a == Applied(sc, f)
           blocks == [c \in Cells |-> IF c \in DOMAIN f.blocks THEN f.blocks[c] ELSE sc.block[c]]
           dirty == sc.dirty \cup UNION {Disturbed(c) : c \in DOMAIN f.blocks}
           pistons == {m \in sc.pistons : m.pos \notin f.settled /\ \A n \in f.moving : n.pos # m.pos}
                      \cup f.moving
           generation == IF Changing(f) THEN sc.generation + 1 ELSE sc.generation
<1>1. a = [sc EXCEPT !.generation = generation, !.block = blocks, !.dirty = dirty, !.pistons = pistons]
  BY DEF Applied
<1>2. blocks = [c \in Cells |-> blocks[c]] OBVIOUS
<1>3. pistons \subseteq Movements BY DEF IsScene
<1>4. generation \in Int
  <2>1. sc.generation \in Int BY DEF IsScene
  <2> HIDE DEF Changing
  <2> QED BY <2>1
<1>5. sc = [block |-> sc.block, dirty |-> sc.dirty, pistons |-> sc.pistons, generation |-> sc.generation,
            visible |-> sc.visible, key |-> sc.key, cache |-> sc.cache]
  BY DEF IsScene
<1> HIDE DEF blocks, dirty, pistons, generation, a
<1>6. a = [block |-> blocks, dirty |-> dirty, pistons |-> pistons, generation |-> generation,
           visible |-> sc.visible, key |-> sc.key, cache |-> sc.cache]
  BY <1>1, <1>5
<1>7. /\ a.block = blocks /\ a.dirty = dirty /\ a.pistons = pistons /\ a.generation = generation
      /\ a.visible = sc.visible /\ a.key = sc.key /\ a.cache = sc.cache
  BY <1>6
<1>8. sc.cache = [s \in Sections |-> sc.cache[s]] BY DEF IsScene
<1>9. IsScene(a) BY ONLY <1>2, <1>3, <1>4, <1>6, <1>7, <1>8 DEF IsScene
<1> QED BY <1>7, <1>9 DEF a, blocks, dirty, pistons, generation

LEMMA GrownSelf ==
  ASSUME NEW sc, IsScene(sc)
  PROVE  Grown(sc, sc)
BY DEF Grown, IsScene

LEMMA AppliedGrown ==
  ASSUME NEW sc, IsScene(sc), NEW f, \A m \in f.moving : m \in Movements
  PROVE  Grown(sc, Applied(sc, f))
<1> DEFINE a == Applied(sc, f)
<1>1. /\ IsScene(a)
      /\ a.block = [c \in Cells |-> IF c \in DOMAIN f.blocks THEN f.blocks[c] ELSE sc.block[c]]
      /\ a.dirty = sc.dirty \cup UNION {Disturbed(c) : c \in DOMAIN f.blocks}
      /\ a.pistons = {m \in sc.pistons : m.pos \notin f.settled /\ \A n \in f.moving : n.pos # m.pos}
                     \cup f.moving
      /\ a.generation = IF Changing(f) THEN sc.generation + 1 ELSE sc.generation
      /\ a.visible = sc.visible /\ a.key = sc.key /\ a.cache = sc.cache
  BY AppliedFields
<1>2. sc.block = [c \in Cells |-> sc.block[c]] /\ sc.generation \in Int BY DEF IsScene
<1> HIDE DEF a
<1>3. sc.dirty \subseteq a.dirty BY <1>1
<1>4. ASSUME NEW c \in Cells, a.block[c] # sc.block[c] PROVE Disturbed(c) \subseteq a.dirty
  <2>1. c \in DOMAIN f.blocks BY <1>1, <1>4
  <2>2. Disturbed(c) \subseteq UNION {Disturbed(x) : x \in DOMAIN f.blocks}
    <3> HIDE DEF Disturbed
    <3> QED BY <2>1
  <2> QED BY <1>1, <2>2
<1>5. a.generation >= sc.generation
  <2> HIDE DEF Changing
  <2> QED BY <1>1, <1>2
<1>6. ASSUME a.generation = sc.generation PROVE a.block = sc.block /\ a.dirty = sc.dirty /\ a.pistons = sc.pistons
  <2>1. ~ Changing(f) BY <1>1, <1>2, <1>6
  <2>2. DOMAIN f.blocks = {} /\ f.moving = {} /\ f.settled = {} BY <2>1 DEF Changing
  <2>3. a.block = [c \in Cells |-> sc.block[c]] BY <1>1, <2>2
  <2>4. a.dirty = sc.dirty BY <1>1, <2>2
  <2>5. a.pistons = sc.pistons BY <1>1, <2>2
  <2> QED BY <1>2, <2>3, <2>4, <2>5
<1>7. Grown(sc, a) BY ONLY <1>1, <1>3, <1>4, <1>5, <1>6 DEF Grown
<1> QED BY <1>7 DEF a

LEMMA GrownOn ==
  ASSUME NEW a, NEW b, NEW c, IsScene(a), Grown(a, b), Grown(b, c)
  PROVE  Grown(a, c)
<1>1. a.generation \in Int /\ b.generation \in Int /\ c.generation \in Int BY DEF Grown, IsScene
<1>2. b.generation >= a.generation /\ c.generation >= b.generation BY DEF Grown
<1>3. c.generation >= a.generation /\ (c.generation = a.generation =>
         b.generation = a.generation /\ c.generation = b.generation)
  BY <1>1, <1>2
<1>4. \A x \in Cells : c.block[x] # a.block[x] => Disturbed(x) \subseteq c.dirty
  <2> TAKE x \in Cells
  <2>1. b.block[x] # a.block[x] => Disturbed(x) \subseteq b.dirty BY DEF Grown
  <2>2. c.block[x] # b.block[x] => Disturbed(x) \subseteq c.dirty BY DEF Grown
  <2>3. b.dirty \subseteq c.dirty BY DEF Grown
  <2> QED BY <2>1, <2>2, <2>3
<1>5. c.generation = a.generation => c.block = a.block /\ c.dirty = a.dirty /\ c.pistons = a.pistons
  BY <1>3 DEF Grown
<1>6. IsScene(c) /\ c.visible = a.visible /\ c.key = a.key /\ c.cache = a.cache /\ a.dirty \subseteq c.dirty
  BY DEF Grown
<1> QED BY ONLY <1>3, <1>4, <1>5, <1>6 DEF Grown

LEMMA RunGrown ==
  ASSUME NEW sc, IsScene(sc), NEW n \in Nat, NEW u, NEW frames, IsRun(u, n, sc, frames), Moving(frames, n)
  PROVE  \A i \in 0 .. n : Grown(sc, u[i])
<1> DEFINE T == {i \in 0 .. n : Grown(sc, u[i])}
<1>1. u[0] = sc /\ \A i \in 1 .. n : u[i] = Applied(u[i - 1], frames[i]) BY RunSteps
<1>2. 0 \in T BY <1>1, GrownSelf
<1>3. ASSUME NEW i \in 0 .. n - 1, i \in T PROVE i + 1 \in T
  <2>1. i + 1 \in 1 .. n /\ (i + 1) - 1 = i /\ i + 1 \in 0 .. n OBVIOUS
  <2>2. u[i + 1] = Applied(u[i], frames[i + 1]) BY <1>1, <2>1
  <2>3. Grown(sc, u[i]) /\ IsScene(u[i]) BY <1>3 DEF Grown
  <2>4. \A m \in frames[i + 1].moving : m \in Movements BY <2>1 DEF Moving
  <2>5. Grown(u[i], Applied(u[i], frames[i + 1])) BY <2>3, <2>4, AppliedGrown
  <2>6. Grown(sc, u[i + 1]) BY <2>2, <2>3, <2>5, GrownOn
  <2> QED BY <2>1, <2>6
<1>4. 0 .. n \subseteq T
  <2> HIDE DEF T
  <2> QED BY <1>2, <1>3, UpTo
<1> QED BY <1>4

\* Whether a frame is applied to the one scene or to another like it.
LEMMA RunSame ==
  ASSUME NEW a, IsScene(a), NEW b, IsScene(b), NEW k \in Nat, NEW n \in Nat, NEW u, NEW v, NEW f, NEW g,
         IsRun(u, k + n, a, f), IsRun(v, n, b, g), Moving(f, k + n), Moving(g, n),
         Same(u[k], b), \A i \in 1 .. n : g[i] = f[k + i]
  PROVE  Same(u[k + n], v[n])
<1> DEFINE T == {i \in 0 .. n : Same(u[k + i], v[i])}
<1>1. k + n \in Nat /\ k + 0 = k OBVIOUS
<1>2. \A i \in 1 .. k + n : u[i] = Applied(u[i - 1], f[i]) BY <1>1, RunSteps
<1>3. v[0] = b /\ \A i \in 1 .. n : v[i] = Applied(v[i - 1], g[i]) BY RunSteps
<1>4. (\A i \in 0 .. k + n : Grown(a, u[i])) /\ (\A i \in 0 .. n : Grown(b, v[i])) BY <1>1, RunGrown
<1>5. 0 \in T BY <1>1, <1>3
<1>6. ASSUME NEW i \in 0 .. n - 1, i \in T PROVE i + 1 \in T
  <2>1. /\ i + 1 \in 1 .. n /\ (i + 1) - 1 = i /\ i + 1 \in 0 .. n /\ i \in 0 .. n
        /\ k + (i + 1) \in 1 .. k + n /\ (k + (i + 1)) - 1 = k + i /\ k + i \in 0 .. k + n
    OBVIOUS
  <2>2. u[k + (i + 1)] = Applied(u[k + i], f[k + (i + 1)]) BY <1>2, <2>1
  <2>3. v[i + 1] = Applied(v[i], g[i + 1]) BY <1>3, <2>1
  <2>4. g[i + 1] = f[k + (i + 1)] BY <2>1
  <2> DEFINE x == u[k + i]
             y == v[i]
             h == g[i + 1]
  <2>5. IsScene(x) /\ IsScene(y) /\ Same(x, y) BY <1>4, <1>6, <2>1 DEF Grown
  <2>6. \A m \in h.moving : m \in Movements BY <2>1 DEF Moving
  <2> HIDE DEF x, y, h
  <2>7. Same(Applied(x, h), Applied(y, h))
    <3>1. Applied(x, h).block = [c \in Cells |-> IF c \in DOMAIN h.blocks THEN h.blocks[c] ELSE x.block[c]]
          /\ Applied(x, h).pistons = {m \in x.pistons : m.pos \notin h.settled /\ \A n1 \in h.moving : n1.pos # m.pos}
                     \cup h.moving
      BY <2>5, <2>6, AppliedFields
    <3>2. Applied(y, h).block = [c \in Cells |-> IF c \in DOMAIN h.blocks THEN h.blocks[c] ELSE y.block[c]]
          /\ Applied(y, h).pistons = {m \in y.pistons : m.pos \notin h.settled /\ \A n1 \in h.moving : n1.pos # m.pos}
                     \cup h.moving
      BY <2>5, <2>6, AppliedFields
    <3> QED BY <2>5, <3>1, <3>2 DEF Same
  <2>8. Same(u[k + (i + 1)], v[i + 1]) BY <2>2, <2>3, <2>4, <2>7 DEF x, y, h
  <2> QED BY <2>1, <2>8
<1>7. 0 .. n \subseteq T
  <2> HIDE DEF T
  <2> QED BY <1>5, <1>6, UpTo
<1> QED BY <1>7

-----------------------------------------------------------------------------
(* Sequences, whatever they hold.                                          *)

IsSeq(q) == q \in Seq({q[i] : i \in DOMAIN q})

LEMMA SeqParts ==
  ASSUME NEW q, IsSeq(q)
  PROVE  Len(q) \in Nat /\ DOMAIN q = 1 .. Len(q) /\ q = [i \in 1 .. Len(q) |-> q[i]]
BY DEF IsSeq

LEMMA SeqOf ==
  ASSUME NEW n \in Nat, NEW q, q = [i \in 1 .. n |-> q[i]]
  PROVE  IsSeq(q) /\ Len(q) = n
<1> DEFINE R == {q[i] : i \in DOMAIN q}
<1>1. DOMAIN q = 1 .. n OBVIOUS
<1>2. \A i \in 1 .. n : q[i] \in R BY <1>1
<1> HIDE DEF R
<1>3. q \in Seq(R) BY <1>2
<1>4. Len(q) = n BY <1>1, <1>3
<1> QED BY <1>3, <1>4 DEF IsSeq, R

LEMMA SeqWithin ==
  ASSUME NEW q, IsSeq(q), NEW T, \A i \in DOMAIN q : q[i] \in T
  PROVE  q \in Seq(T)
<1>1. Len(q) \in Nat /\ DOMAIN q = 1 .. Len(q) /\ q = [i \in 1 .. Len(q) |-> q[i]] BY SeqParts
<1> QED BY <1>1

LEMMA SeqEmpty ==
  ASSUME NEW q, IsSeq(q)
  PROVE  (q = <<>>) <=> (Len(q) = 0)
BY DEF IsSeq

LEMMA NothingIsSeq == ASSUME NEW q, q = <<>> PROVE IsSeq(q)
<1>1. q = [i \in 1 .. 0 |-> q[i]] OBVIOUS
<1>2. 0 \in Nat OBVIOUS
<1>3. IsSeq(q) BY <1>1, <1>2, SeqOf
<1>4. QED BY <1>3

LEMMA SeqOne ==
  ASSUME NEW x
  PROVE  IsSeq(<<x>>) /\ Len(<<x>>) = 1 /\ <<x>>[1] = x
<1>1. <<x>> = [i \in 1 .. 1 |-> <<x>>[i]] OBVIOUS
<1>2. IsSeq(<<x>>) /\ Len(<<x>>) = 1
  <2> DEFINE q == <<x>>
  <2>1. q = [i \in 1 .. 1 |-> q[i]] BY <1>1
  <2> HIDE DEF q
  <2>2. IsSeq(q) /\ Len(q) = 1 BY <2>1, SeqOf
  <2> QED BY <2>2 DEF q
<1> QED BY <1>2

LEMMA SeqAppend ==
  ASSUME NEW q, IsSeq(q), NEW x
  PROVE  /\ IsSeq(Append(q, x)) /\ Len(Append(q, x)) = Len(q) + 1
         /\ \A i \in 1 .. Len(q) : Append(q, x)[i] = q[i]
         /\ Append(q, x)[Len(q) + 1] = x
<1> DEFINE T == {q[i] : i \in DOMAIN q} \cup {x}
           a == Append(q, x)
<1>1. \A i \in DOMAIN q : q[i] \in T OBVIOUS
<1>2. x \in T OBVIOUS
<1> HIDE DEF T
<1>3. q \in Seq(T) BY <1>1, SeqWithin
<1>4. /\ a \in Seq(T) /\ Len(a) = Len(q) + 1 /\ (\A i \in 1 .. Len(q) : a[i] = q[i]) /\ a[Len(q) + 1] = x
  BY <1>2, <1>3
<1> HIDE DEF a
<1>5. Len(a) \in Nat /\ a = [i \in 1 .. Len(a) |-> a[i]] BY <1>4
<1>6. IsSeq(a) BY <1>5, SeqOf
<1> QED BY <1>4, <1>6 DEF a

LEMMA SeqTail ==
  ASSUME NEW q, IsSeq(q), q # <<>>
  PROVE  /\ IsSeq(Tail(q)) /\ Len(Tail(q)) = Len(q) - 1 /\ Len(q) \in Nat \ {0}
         /\ \A i \in 1 .. Len(q) - 1 : Tail(q)[i] = q[i + 1]
         /\ Head(q) = q[1]
<1> DEFINE T == {q[i] : i \in DOMAIN q}
           a == Tail(q)
<1>1. q \in Seq(T) BY DEF IsSeq
<1> HIDE DEF T
<1>2. /\ a \in Seq(T) /\ Len(a) = Len(q) - 1 /\ (\A i \in 1 .. Len(q) - 1 : a[i] = q[i + 1])
      /\ Len(q) \in Nat \ {0} /\ Head(q) = q[1]
  BY <1>1
<1> HIDE DEF a
<1>3. Len(a) \in Nat /\ a = [i \in 1 .. Len(a) |-> a[i]] BY <1>2
<1>4. IsSeq(a) BY <1>3, SeqOf
<1> QED BY <1>2, <1>4 DEF a

-----------------------------------------------------------------------------
(* What a mesh depends on.                                                 *)

\* Two scenes agree on the blocks of a section and on those beside it.
Near(a, b, s) == \A c \in CellsOf(s) : \A d \in {-1, 0, 1} : c + d \in Cells => a[c + d] = b[c + d]

LEMMA CellsInt == Cells \subseteq Int /\ \A s \in Sections : CellsOf(s) \subseteq Cells
<1>1. Sections \subseteq Int /\ Edge \in Nat \ {0} BY VideoAssumption
<1>2. ASSUME NEW s \in Sections, NEW i \in 0 .. Edge - 1 PROVE s * Edge + i \in Int
  BY <1>1
<1>3. Cells \subseteq Int BY <1>2 DEF Cells
<1>4. \A s \in Sections : CellsOf(s) \subseteq Cells BY DEF CellsOf
<1> QED BY <1>3, <1>4

LEMMA NearFaces ==
  ASSUME NEW a, NEW b, NEW s \in Sections, Near(a, b, s), NEW c \in CellsOf(s)
  PROVE  a[c] = b[c] /\ OpenFaces(a, c) = OpenFaces(b, c)
<1>1. c \in Cells /\ c \in Int BY CellsInt
<1>2. \A d \in {-1, 0, 1} : c + d \in Cells => a[c + d] = b[c + d] BY DEF Near
<1>3. c + 0 = c BY <1>1
<1>4. a[c] = b[c] BY <1>1, <1>2, <1>3
<1>5. \A d \in {-1, 1} : Occluding(a, c + d) = Occluding(b, c + d) BY <1>2 DEF Occluding
<1>6. OpenFaces(a, c) = OpenFaces(b, c)
  <2> HIDE DEF Occluding
  <2> QED BY <1>5 DEF OpenFaces
<1> QED BY <1>4, <1>6

LEMMA NearMesh ==
  ASSUME NEW a, NEW b, NEW s \in Sections, Near(a, b, s)
  PROVE  Vertices(a, s) = Vertices(b, s) /\ Models(a, s) = Models(b, s) /\ MeshOf(a, s) = MeshOf(b, s)
<1>1. \A c \in CellsOf(s) : a[c] = b[c] /\ OpenFaces(a, c) = OpenFaces(b, c) BY NearFaces
<1>2. Vertices(a, s) = Vertices(b, s)
  <2>1. \A f \in CellsOf(s) \X {-1, 1} : f[1] \in CellsOf(s) OBVIOUS
  <2>2. \A f \in CellsOf(s) \X {-1, 1} : a[f[1]] = b[f[1]] /\ OpenFaces(a, f[1]) = OpenFaces(b, f[1])
    BY <1>1, <2>1
  <2> QED BY <2>2 DEF Vertices
<1>3. Models(a, s) = Models(b, s)
  <2> DEFINE one(block, c) == <<c, block[c], IF block[c] \in Occluders THEN OpenFaces(block, c) ELSE {-1, 1}>>
             on(block) == {d \in CellsOf(s) : block[d] \notin Cubes \cup {Air, "moving"}}
  <2>1. on(a) = on(b) BY <1>1
  <2>2. \A c \in on(a) : one(a, c) = one(b, c) BY <1>1
  <2>3. Models(a, s) = {one(a, c) : c \in on(a)} /\ Models(b, s) = {one(b, c) : c \in on(b)} BY DEF Models
  <2> HIDE DEF one, on
  <2> QED BY <2>1, <2>2, <2>3
<1> QED BY <1>2, <1>3 DEF MeshOf

LEMMA KeyNear ==
  ASSUME NEW a, NEW b, NEW s \in Sections, MeshKey(a, s) = MeshKey(b, s)
  PROVE  Near(a, b, s)
<1> DEFINE D == {c \in Cells : \E e \in CellsOf(s) : c \in e - 1 .. e + 1}
<1>1. MeshKey(a, s) = [c \in D |-> a[c]] /\ MeshKey(b, s) = [c \in D |-> b[c]] BY DEF MeshKey
<1>2. ASSUME NEW c \in CellsOf(s), NEW d \in {-1, 0, 1}, c + d \in Cells PROVE a[c + d] = b[c + d]
  <2>1. c \in Int BY CellsInt
  <2>2. c + d \in c - 1 .. c + 1 BY <2>1
  <2>3. c + d \in D BY <1>2, <2>2
  <2> HIDE DEF D
  <2> QED BY <1>1, <2>3
<1> QED BY <1>2 DEF Near

\* A block that changed marks every section whose mesh may depend on it.
LEMMA UndisturbedNear ==
  ASSUME NEW a, NEW b, NEW s \in Sections, \A x \in Cells : a[x] # b[x] => s \notin Disturbed(x)
  PROVE  Near(a, b, s)
<1> SUFFICES ASSUME NEW c \in CellsOf(s), NEW d \in {-1, 0, 1}, c + d \in Cells PROVE a[c + d] = b[c + d]
  BY DEF Near
<1>1. c \in Int /\ SectionOf(c) = s BY CellsInt DEF CellsOf
<1> DEFINE x == c + d
<1>2. c = x \/ c = x - 1 \/ c = x + 1 BY <1>1
<1>3. s \in Disturbed(x)
  <2> HIDE DEF x
  <2> QED BY <1>1, <1>2 DEF Disturbed
<1> QED BY <1>3

LEMMA EmptyMesh ==
  ASSUME NEW block, NEW s \in Sections, s \notin Occupied(block)
  PROVE  MeshOf(block, s) = Nothing
<1>1. \A c \in CellsOf(s) : block[c] = Air BY DEF Occupied
<1>2. Vertices(block, s) = {}
  <2>1. \A f \in CellsOf(s) \X {-1, 1} : block[f[1]] = Air BY <1>1
  <2> QED BY <2>1 DEF Vertices, Air, Cubes
<1>3. Models(block, s) = {} BY <1>1 DEF Models
<1> QED BY <1>2, <1>3 DEF MeshOf, Nothing

-----------------------------------------------------------------------------
(* The cache of meshes.                                                    *)

Entry(b, s) == <<MeshKey(b, s), Vertices(b, s)>>

\* Every mesh that is kept belongs to the blocks it is kept for.
CacheOK(sc) ==
  \A s \in Sections : /\ IsSeq(sc.cache[s])
                      /\ \A i \in DOMAIN sc.cache[s] : \E b : sc.cache[s][i] = Entry(b, s)

LEMMA BuiltRight ==
  ASSUME NEW sc, CacheOK(sc), NEW s \in Sections
  PROVE  Built(sc, s) = MeshOf(sc.block, s)
<1>1. CASE s \notin Occupied(sc.block) BY <1>1, EmptyMesh DEF Built
<1>2. CASE s \in Occupied(sc.block) /\ CachedAt(sc, s) = {}
  BY <1>2 DEF Built, MeshOf
<1>3. CASE s \in Occupied(sc.block) /\ CachedAt(sc, s) # {}
  <2> DEFINE at == CHOOSE i \in CachedAt(sc, s) : \A j \in CachedAt(sc, s) : i <= j
  <2>1. IsSeq(sc.cache[s]) BY DEF CacheOK
  <2>2. DOMAIN sc.cache[s] \subseteq Nat BY <2>1, SeqParts
  <2>3. CachedAt(sc, s) \in SUBSET Nat BY <2>2 DEF CachedAt
  <2>4. \E i \in CachedAt(sc, s) : \A j \in CachedAt(sc, s) : i <= j BY <1>3, <2>3, LeastNatural
  <2>5. at \in CachedAt(sc, s)
    <3> HIDE DEF CachedAt
    <3> QED BY <2>4
  <2>6. Built(sc, s) = [vertices |-> sc.cache[s][at][2], models |-> Models(sc.block, s)]
    BY <1>3 DEF Built
  <2> HIDE DEF at
  <2>7. at \in DOMAIN sc.cache[s] /\ sc.cache[s][at][1] = MeshKey(sc.block, s) BY <2>5 DEF CachedAt
  <2>8. PICK b : sc.cache[s][at] = Entry(b, s) BY <2>7 DEF CacheOK
  <2>9. MeshKey(b, s) = MeshKey(sc.block, s) /\ sc.cache[s][at][2] = Vertices(b, s) BY <2>7, <2>8 DEF Entry
  <2>10. Vertices(b, s) = Vertices(sc.block, s) BY <2>9, KeyNear, NearMesh
  <2> QED BY <2>6, <2>9, <2>10 DEF MeshOf
<1> QED BY <1>1, <1>2, <1>3

LEMMA CacheGoesOn ==
  ASSUME NEW sc, CacheOK(sc), NEW s \in Sections
  PROVE  /\ IsSeq(CacheAfter(sc, s))
         /\ \A i \in DOMAIN CacheAfter(sc, s) : \E b : CacheAfter(sc, s)[i] = Entry(b, s)
<1> DEFINE old == sc.cache[s]
           longer == Append(old, Entry(sc.block, s))
<1>1. IsSeq(old) /\ \A i \in DOMAIN old : \E b : old[i] = Entry(b, s) BY DEF CacheOK
<1>2. CacheAfter(sc, s) \in {old, longer, Tail(longer)} BY DEF CacheAfter, Entry
<1> HIDE DEF old
<1>3. IsSeq(longer) /\ Len(longer) = Len(old) + 1 /\ (\A i \in 1 .. Len(old) : longer[i] = old[i])
      /\ longer[Len(old) + 1] = Entry(sc.block, s)
  BY <1>1, SeqAppend
<1> HIDE DEF longer
<1>4. Len(old) \in Nat /\ DOMAIN old = 1 .. Len(old) BY <1>1, SeqParts
<1>5. DOMAIN longer = 1 .. Len(longer) BY <1>3, SeqParts
<1>6. \A i \in DOMAIN longer : \E b : longer[i] = Entry(b, s)
  <2> TAKE i \in DOMAIN longer
  <2>1. CASE i \in 1 .. Len(old) BY <1>1, <1>3, <1>4, <2>1
  <2>2. CASE i \notin 1 .. Len(old)
    <3>1. i = Len(old) + 1 BY <1>3, <1>4, <1>5, <2>2
    <3> QED BY <1>3, <3>1
  <2> QED BY <2>1, <2>2
<1>7. longer # <<>> BY <1>3, <1>4, SeqEmpty
<1>8. IsSeq(Tail(longer)) /\ Len(Tail(longer)) = Len(longer) - 1
      /\ \A i \in 1 .. Len(longer) - 1 : Tail(longer)[i] = longer[i + 1]
  BY <1>3, <1>7, SeqTail
<1>9. \A i \in DOMAIN Tail(longer) : \E b : Tail(longer)[i] = Entry(b, s)
  <2> TAKE i \in DOMAIN Tail(longer)
  <2>1. i \in 1 .. Len(longer) - 1 BY <1>8, SeqParts
  <2>2. i + 1 \in DOMAIN longer BY <1>3, <1>4, <1>5, <2>1
  <2>3. Tail(longer)[i] = longer[i + 1] BY <1>8, <2>1
  <2>4. PICK b : longer[i + 1] = Entry(b, s) BY <1>6, <2>2
  <2> QED BY <2>3, <2>4
<1>10. CASE CacheAfter(sc, s) = old BY <1>1, <1>10
<1>11. CASE CacheAfter(sc, s) = longer BY <1>3, <1>6, <1>11
<1>12. CASE CacheAfter(sc, s) = Tail(longer) BY <1>8, <1>9, <1>12
<1> QED BY <1>2, <1>10, <1>11, <1>12

-----------------------------------------------------------------------------
(* The visible sections are rebuilt.                                       *)

LEMMA RebuiltFields ==
  ASSUME NEW sc, IsScene(sc), NEW view
  PROVE  LET r == Rebuilt(sc, view)
         IN /\ IsScene(r)
            /\ r.block = sc.block /\ r.pistons = sc.pistons /\ r.generation = sc.generation
            /\ r.visible = NextVisible(sc, view) /\ r.key = view
            /\ r.dirty = sc.dirty \ ToRebuild(sc, view)
            /\ r.cache = [s \in Sections |-> IF s \in ToRebuild(sc, view) THEN CacheAfter(sc, s) ELSE sc.cache[s]]
<1> DEFINE r == Rebuilt(sc, view)
           visible == NextVisible(sc, view)
           dirty == sc.dirty \ ToRebuild(sc, view)
           cache == [s \in Sections |-> IF s \in ToRebuild(sc, view) THEN CacheAfter(sc, s) ELSE sc.cache[s]]
<1>1. r = [sc EXCEPT !.visible = visible, !.key = view, !.dirty = dirty, !.cache = cache] BY DEF Rebuilt
<1>2. cache = [s \in Sections |-> cache[s]] OBVIOUS
<1>3. sc = [block |-> sc.block, dirty |-> sc.dirty, pistons |-> sc.pistons, generation |-> sc.generation,
            visible |-> sc.visible, key |-> sc.key, cache |-> sc.cache]
  BY DEF IsScene
<1> HIDE DEF r, visible, dirty, cache
<1>4. r = [block |-> sc.block, dirty |-> dirty, pistons |-> sc.pistons, generation |-> sc.generation,
           visible |-> visible, key |-> view, cache |-> cache]
  BY <1>1, <1>3
<1>5. /\ r.block = sc.block /\ r.pistons = sc.pistons /\ r.generation = sc.generation
      /\ r.visible = visible /\ r.key = view /\ r.dirty = dirty /\ r.cache = cache
  BY <1>4
<1>6. sc.block = [c \in Cells |-> sc.block[c]] /\ sc.generation \in Int /\ sc.pistons \subseteq Movements BY DEF IsScene
<1>7. IsScene(r) BY ONLY <1>2, <1>4, <1>5, <1>6 DEF IsScene
<1> QED BY <1>5, <1>7 DEF r, visible, dirty, cache

LEMMA RebuiltVisible ==
  ASSUME NEW sc, IsScene(sc), NEW view
  PROVE  Rebuilt(sc, view).visible = NextVisible(sc, view) /\ Rebuilt(sc, view).key = view
<1>1. Rebuilt(sc, view).visible = NextVisible(sc, view) BY RebuiltFields
<1>2. Rebuilt(sc, view).key = view BY RebuiltFields
<1> QED BY <1>1, <1>2

LEMMA RebuiltCache ==
  ASSUME NEW sc, IsScene(sc), CacheOK(sc), NEW view
  PROVE  CacheOK(Rebuilt(sc, view))
<1> DEFINE r == Rebuilt(sc, view)
<1>1. r.cache = [s \in Sections |-> IF s \in ToRebuild(sc, view) THEN CacheAfter(sc, s) ELSE sc.cache[s]]
  BY RebuiltFields
<1> HIDE DEF r
<1>2. ASSUME NEW s \in Sections
      PROVE  IsSeq(r.cache[s]) /\ \A i \in DOMAIN r.cache[s] : \E b : r.cache[s][i] = Entry(b, s)
  <2>1. CASE s \in ToRebuild(sc, view)
    <3>1. r.cache[s] = CacheAfter(sc, s) BY <1>1, <2>1
    <3> QED BY <3>1, CacheGoesOn
  <2>2. CASE s \notin ToRebuild(sc, view)
    <3>1. r.cache[s] = sc.cache[s] BY <1>1, <2>2
    <3> QED BY <3>1 DEF CacheOK
  <2> QED BY <2>1, <2>2
<1>3. CacheOK(r) BY <1>2 DEF CacheOK
<1> QED BY <1>3 DEF r

\* The meshes of some visible sections, and nothing of the others.
MeshesOf(block, visible) == [s \in Sections |-> IF s \in visible THEN MeshOf(block, s) ELSE Nothing]

\* Meshes that are as good as the scene's dirty sections say.
Usable(meshes, sc) ==
  \A s \in Sections : /\ s \notin sc.visible => meshes[s] = Nothing
                      /\ s \in sc.visible /\ s \notin sc.dirty => meshes[s] = MeshOf(sc.block, s)

LEMMA MeshesRight ==
  ASSUME NEW sc, CacheOK(sc), NEW view, NEW meshes, Usable(meshes, sc)
  PROVE  MeshesAfter(meshes, sc, view) = MeshesOf(sc.block, NextVisible(sc, view))
<1> DEFINE after(s) == IF s \in ToRebuild(sc, view) THEN Built(sc, s)
                       ELSE IF s \in sc.visible \ NextVisible(sc, view) THEN Nothing ELSE meshes[s]
           right(s) == IF s \in NextVisible(sc, view) THEN MeshOf(sc.block, s) ELSE Nothing
<1>1. MeshesAfter(meshes, sc, view) = [s \in Sections |-> after(s)] BY DEF MeshesAfter
<1>2. MeshesOf(sc.block, NextVisible(sc, view)) = [s \in Sections |-> right(s)] BY DEF MeshesOf
<1>3. ASSUME NEW s \in Sections PROVE after(s) = right(s)
  <2>1. CASE s \in ToRebuild(sc, view)
    <3>1. s \in NextVisible(sc, view) BY <2>1 DEF ToRebuild
    <3>2. Built(sc, s) = MeshOf(sc.block, s) BY BuiltRight
    <3> QED BY <2>1, <3>1, <3>2
  <2>2. CASE s \notin ToRebuild(sc, view) /\ s \in NextVisible(sc, view)
    <3>1. s \in sc.visible /\ s \notin sc.dirty BY <2>2 DEF ToRebuild
    <3>2. meshes[s] = MeshOf(sc.block, s) BY <3>1 DEF Usable
    <3> QED BY <2>2, <3>2
  <2>3. CASE s \notin NextVisible(sc, view)
    <3>1. s \notin ToRebuild(sc, view) BY <2>3 DEF ToRebuild
    <3>2. s \notin sc.visible => meshes[s] = Nothing BY DEF Usable
    <3> QED BY <2>3, <3>1, <3>2
  <2> QED BY <2>1, <2>2, <2>3
<1> HIDE DEF after, right
<1> QED BY <1>1, <1>2, <1>3

LEMMA GrownUsable ==
  ASSUME NEW a, NEW b, Grown(a, b), a.dirty \cap a.visible = {}
  PROVE  Usable(MeshesOf(a.block, a.visible), b)
<1> DEFINE meshes == MeshesOf(a.block, a.visible)
<1>1. \A s \in Sections : meshes[s] = IF s \in a.visible THEN MeshOf(a.block, s) ELSE Nothing BY DEF MeshesOf
<1> HIDE DEF meshes
<1>2. b.visible = a.visible /\ a.dirty \subseteq b.dirty BY DEF Grown
<1>3. ASSUME NEW s \in Sections, s \in b.visible, s \notin b.dirty PROVE meshes[s] = MeshOf(b.block, s)
  <2>1. \A x \in Cells : a.block[x] # b.block[x] => s \notin Disturbed(x)
    <3> TAKE x \in Cells
    <3>1. b.block[x] # a.block[x] => Disturbed(x) \subseteq b.dirty BY DEF Grown
    <3> QED BY <1>3, <3>1
  <2>2. MeshOf(a.block, s) = MeshOf(b.block, s) BY <2>1, UndisturbedNear, NearMesh
  <2> QED BY <1>1, <1>2, <1>3, <2>2
<1>4. \A s \in Sections : s \notin b.visible => meshes[s] = Nothing BY <1>1, <1>2
<1>5. Usable(meshes, b) BY <1>3, <1>4 DEF Usable
<1> QED BY <1>5 DEF meshes

LEMMA GrownCache ==
  ASSUME NEW a, NEW b, Grown(a, b), CacheOK(a)
  PROVE  CacheOK(b)
BY DEF Grown, CacheOK

-----------------------------------------------------------------------------
(* Since when the camera is where it is.                                   *)

IsSince(p, k, i) ==
  /\ i \in 1 .. k
  /\ \A j \in i .. k : p[j].view = p[i].view
  /\ i = 1 \/ p[i - 1].view # p[i].view

LEMMA SinceOn ==
  ASSUME NEW p, NEW k \in Nat
  PROVE  /\ k = 1 => IsSince(p, k, 1)
         /\ p[k + 1].view # p[k].view => IsSince(p, k + 1, k + 1)
         /\ \A i : p[k + 1].view = p[k].view /\ IsSince(p, k, i) => IsSince(p, k + 1, i)
<1>1. ASSUME k = 1 PROVE IsSince(p, k, 1)
  <2>1. \A j \in 1 .. k : j = 1 BY <1>1
  <2> QED BY <1>1, <2>1 DEF IsSince
<1>2. ASSUME p[k + 1].view # p[k].view PROVE IsSince(p, k + 1, k + 1)
  <2>1. k + 1 \in 1 .. k + 1 /\ (k + 1) - 1 = k /\ \A j \in k + 1 .. k + 1 : j = k + 1 OBVIOUS
  <2> QED BY <1>2, <2>1 DEF IsSince
<1>3. ASSUME NEW i, p[k + 1].view = p[k].view, IsSince(p, k, i) PROVE IsSince(p, k + 1, i)
  <2>1. i \in 1 .. k /\ k \in i .. k /\ \A j \in i .. k : p[j].view = p[i].view BY <1>3 DEF IsSince
  <2>2. \A j \in i .. k + 1 : j \in i .. k \/ j = k + 1 BY <2>1
  <2>3. \A j \in i .. k + 1 : p[j].view = p[i].view BY <1>3, <2>1, <2>2
  <2>4. i \in 1 .. k + 1 BY <2>1
  <2> QED BY <1>3, <2>3, <2>4 DEF IsSince
<1> QED BY <1>1, <1>2, <1>3

LEMMA SinceExists ==
  ASSUME NEW p, NEW k \in Nat \ {0}
  PROVE  \E i : IsSince(p, k, i)
<1> DEFINE T == {m \in 0 .. k - 1 : \E i : IsSince(p, m + 1, i)}
<1>1. 0 \in T
  <2>1. 0 \in 0 .. k - 1 /\ 0 + 1 = 1 /\ 1 \in Nat OBVIOUS
  <2>2. IsSince(p, 1, 1) BY <2>1, SinceOn
  <2> QED BY <2>1, <2>2
<1>2. ASSUME NEW m \in 0 .. (k - 1) - 1, m \in T PROVE m + 1 \in T
  <2>1. PICK i : IsSince(p, m + 1, i) BY <1>2
  <2>2. m + 1 \in Nat /\ m + 1 \in 0 .. k - 1 OBVIOUS
  <2>3. IsSince(p, (m + 1) + 1, (m + 1) + 1) \/ IsSince(p, (m + 1) + 1, i) BY <2>1, <2>2, SinceOn
  <2> QED BY <2>2, <2>3
<1>3. 0 .. k - 1 \subseteq T
  <2> HIDE DEF T
  <2>1. k - 1 \in Nat OBVIOUS
  <2> QED BY <1>1, <1>2, <2>1, UpTo
<1>4. k - 1 \in 0 .. k - 1 /\ (k - 1) + 1 = k OBVIOUS
<1> QED BY <1>3, <1>4

LEMMA SinceUnique ==
  ASSUME NEW p, NEW k \in Nat, NEW a, NEW b, IsSince(p, k, a), IsSince(p, k, b)
  PROVE  a = b
<1>1. a \in 1 .. k /\ b \in 1 .. k BY DEF IsSince
<1>2. ASSUME NEW x \in 1 .. k, NEW y \in 1 .. k, x < y, IsSince(p, k, x), IsSince(p, k, y) PROVE FALSE
  <2>1. y - 1 \in x .. k /\ y \in x .. k /\ y # 1 BY <1>2
  <2>2. p[y - 1].view = p[x].view /\ p[y].view = p[x].view BY <1>2, <2>1 DEF IsSince
  <2>3. p[y - 1].view # p[y].view BY <1>2, <2>1 DEF IsSince
  <2> QED BY <2>2, <2>3
<1>3. ~(a < b) /\ ~(b < a) BY <1>1, <1>2
<1> QED BY <1>1, <1>3

LEMMA SinceIs ==
  ASSUME NEW p, NEW k \in Nat \ {0}
  PROVE  IsSince(p, k, SinceView(p, k))
<1> DEFINE P(x) == /\ \A j \in x .. k : p[j].view = p[x].view
                   /\ x = 1 \/ p[x - 1].view # p[x].view
           least == CHOOSE x \in 1 .. k : P(x)
<1>1. SinceView(p, k) = least BY DEF SinceView
<1>2. PICK i : IsSince(p, k, i) BY SinceExists
<1>3. i \in 1 .. k /\ P(i) BY <1>2 DEF IsSince
<1>4. least \in 1 .. k /\ P(least)
  <2> HIDE DEF P
  <2> QED BY <1>3
<1> HIDE DEF least
<1>5. IsSince(p, k, least) BY <1>4 DEF IsSince
<1> QED BY <1>1, <1>5

LEMMA SinceNext ==
  ASSUME NEW p, NEW k \in Nat
  PROVE  /\ k = 0 => SinceView(p, k + 1) = 1
         /\ k # 0 /\ p[k + 1].view = p[k].view => SinceView(p, k + 1) = SinceView(p, k)
         /\ k # 0 /\ p[k + 1].view # p[k].view => SinceView(p, k + 1) = k + 1
<1>1. k + 1 \in Nat \ {0} /\ k + 1 \in Nat OBVIOUS
<1>2. IsSince(p, k + 1, SinceView(p, k + 1)) BY <1>1, SinceIs
<1>3. ASSUME k = 0 PROVE SinceView(p, k + 1) = 1
  <2>1. k + 1 = 1 BY <1>3
  <2>2. IsSince(p, k + 1, 1) BY <1>1, <2>1, SinceOn
  <2> QED BY <1>1, <1>2, <2>2, SinceUnique
<1>4. ASSUME k # 0, p[k + 1].view = p[k].view PROVE SinceView(p, k + 1) = SinceView(p, k)
  <2>1. IsSince(p, k, SinceView(p, k)) BY <1>4, SinceIs
  <2>2. IsSince(p, k + 1, SinceView(p, k)) BY <1>4, <2>1, SinceOn
  <2> QED BY <1>1, <1>2, <2>2, SinceUnique
<1>5. ASSUME k # 0, p[k + 1].view # p[k].view PROVE SinceView(p, k + 1) = k + 1
  <2>1. IsSince(p, k + 1, k + 1) BY <1>5, SinceOn
  <2> QED BY <1>1, <1>2, <2>1, SinceUnique
<1> QED BY <1>3, <1>4, <1>5

\* What a frame ought to show is settled once it is planned.
LEMMA PlannedStays ==
  ASSUME NEW p, NEW q, NEW k \in Nat \ {0}, \A j \in 1 .. k : p[j] = q[j]
  PROVE  SinceView(p, k) = SinceView(q, k) /\ (\A t : BlocksThen(t, p, k) = BlocksThen(t, q, k))
         /\ \A t, image : ShowsFrame(t, p, image, k) = ShowsFrame(t, q, image, k)
<1> DEFINE i == SinceView(p, k)
<1>1. IsSince(p, k, i) BY SinceIs
<1> HIDE DEF i
<1>2. i \in 1 .. k BY <1>1 DEF IsSince
<1>3. IsSince(q, k, i)
  <2>1. \A j \in i .. k : j \in 1 .. k BY <1>2
  <2>2. i # 1 => i - 1 \in 1 .. k BY <1>2
  <2>3. \A j \in i .. k : q[j].view = q[i].view BY <1>1, <1>2, <2>1 DEF IsSince
  <2>4. i = 1 \/ q[i - 1].view # q[i].view BY <1>1, <1>2, <2>2 DEF IsSince
  <2> QED BY <1>2, <2>3, <2>4 DEF IsSince
<1>4. SinceView(q, k) = i BY <1>3, SinceIs, SinceUnique
<1>5. ASSUME NEW t PROVE BlocksThen(t, p, k) = BlocksThen(t, q, k)
  BY <1>2, <1>4 DEF BlocksThen, i
<1>6. p[k] = q[k]
  <2>1. k \in 1 .. k OBVIOUS
  <2> QED BY <2>1
<1>7. ASSUME NEW t, NEW image PROVE ShowsFrame(t, p, image, k) = ShowsFrame(t, q, image, k)
  <2>1. BlocksThen(t, p, k) = BlocksThen(t, q, k) BY <1>5
  <2> QED BY <1>6, <2>1 DEF ShowsFrame
<1> QED BY <1>4, <1>5, <1>7 DEF i

-----------------------------------------------------------------------------
(* The scene follows the trace.                                            *)

LEMMA TraceFacts ==
  ASSUME NEW t \in Traces
  PROVE  /\ Timed(t.frames) /\ Len(t.frames) \in Nat /\ Moving(t.frames, Len(t.frames))
         /\ t.blocks = [c \in Cells |-> t.blocks[c]] /\ t.moving \subseteq Movements
<1>1. /\ t.blocks = [c \in Cells |-> t.blocks[c]]
      /\ \A m \in t.moving : m \in Movements
      /\ t.frames \in Seq({t.frames[i] : i \in DOMAIN t.frames})
      /\ \A i \in DOMAIN t.frames : t.frames[i].stamp \in Int /\ \A m \in t.frames[i].moving : m \in Movements
  BY VideoAssumption
<1>2. Timed(t.frames) BY <1>1 DEF Timed
<1>3. Len(t.frames) \in Nat /\ DOMAIN t.frames = 1 .. Len(t.frames) BY <1>2, TimedFacts
<1>4. Moving(t.frames, Len(t.frames)) BY <1>1, <1>3 DEF Moving
<1> QED BY <1>1, <1>2, <1>3, <1>4

LEMMA FirstSceneFacts ==
  ASSUME NEW t \in Traces
  PROVE  /\ IsScene(FirstScene(t)) /\ CacheOK(FirstScene(t))
         /\ FirstScene(t).block = t.blocks /\ FirstScene(t).visible = {} /\ FirstScene(t).key = NoView
<1> DEFINE f == FirstScene(t)
           dirty == UNION {Disturbed(c) : c \in {d \in Cells : t.blocks[d] # Air}}
           cache == [s \in Sections |-> <<>>]
<1>1. f = [block |-> t.blocks, dirty |-> dirty, pistons |-> t.moving, generation |-> 0, visible |-> {},
           key |-> NoView, cache |-> cache]
  BY DEF FirstScene
<1>2. cache = [s \in Sections |-> cache[s]] /\ \A s \in Sections : cache[s] = <<>> OBVIOUS
<1> HIDE DEF f, dirty, cache
<1>3. f.block = t.blocks /\ f.dirty = dirty /\ f.pistons = t.moving /\ f.generation = 0 /\ f.visible = {}
      /\ f.key = NoView /\ f.cache = cache
  BY <1>1
<1>4. t.blocks = [c \in Cells |-> t.blocks[c]] /\ t.moving \subseteq Movements /\ 0 \in Int BY TraceFacts
<1>5. IsScene(f) BY ONLY <1>1, <1>2, <1>3, <1>4 DEF IsScene
<1>6. CacheOK(f)
  <2>1. ASSUME NEW s \in Sections PROVE IsSeq(f.cache[s]) /\ DOMAIN f.cache[s] = {}
    <3>1. f.cache[s] = <<>> BY <1>2, <1>3
    <3> QED BY <3>1, NothingIsSeq
  <2> QED BY <2>1 DEF CacheOK
<1> QED BY <1>3, <1>5, <1>6 DEF f

\* Scene sc is what the first k frames of the trace made.
Follows(t, sc, k) ==
  /\ IsScene(sc) /\ k \in 0 .. Len(t.frames)
  /\ \E u : IsRun(u, k, FirstScene(t), t.frames) /\ Same(u[k], sc)

LEMMA FollowsFirst ==
  ASSUME NEW t \in Traces, NEW sc, IsScene(sc), Same(FirstScene(t), sc)
  PROVE  Follows(t, sc, 0)
<1>1. 0 \in Nat /\ 0 \in 0 .. Len(t.frames) BY TraceFacts
<1>2. PICK u : IsRun(u, 0, FirstScene(t), t.frames) BY <1>1, RunExists
<1>3. u[0] = FirstScene(t) BY <1>1, <1>2, RunSteps
<1> QED BY <1>1, <1>2, <1>3 DEF Follows

LEMMA FollowsOn ==
  ASSUME NEW t \in Traces, NEW sc, NEW k, Follows(t, sc, k), NEW time \in Int,
         \A i \in 1 .. k : t.frames[i].stamp <= time
  PROVE  LET rest == SubSeq(t.frames, k + 1, Len(t.frames))
             current == AppliedUntil(sc, rest, time)
         IN /\ Grown(sc, current) /\ k + Due(rest, time) = Due(t.frames, time)
            /\ Follows(t, current, Due(t.frames, time)) /\ Same(SceneAt(t, time), current)
<1> DEFINE frames == t.frames
           first == FirstScene(t)
           rest == SubSeq(frames, k + 1, Len(frames))
           n == Due(rest, time)
           current == AppliedUntil(sc, rest, time)
<1>1. Timed(frames) /\ Len(frames) \in Nat /\ Moving(frames, Len(frames)) BY TraceFacts
<1>2. IsScene(sc) /\ k \in 0 .. Len(frames) BY DEF Follows
<1>3. PICK u : IsRun(u, k, first, frames) /\ Same(u[k], sc) BY DEF Follows
<1>4. IsScene(first) BY FirstSceneFacts
<1>5. Due(frames, time) = k + n BY <1>1, <1>2, DueAfter
<1>6. IsDue(frames, time, Due(frames, time)) /\ Due(frames, time) \in Nat BY <1>1, DueFacts
<1>7. AppliedUntil(first, frames, time) = SceneAt(t, time) BY DEF SceneAt
<1>8. Timed(rest) /\ Len(rest) = Len(frames) - k /\ \A i \in 1 .. Len(frames) - k : rest[i] = frames[k + i]
  BY <1>1, <1>2, RestFacts
<1> HIDE DEF rest, first, frames
<1>9. n \in Nat /\ IsDue(rest, time, n) BY <1>8, DueFacts
<1>10. PICK v : IsRun(v, n, sc, rest) BY <1>9, RunExists
<1>11. current = v[n] BY <1>9, <1>10, AppliedRun
<1> HIDE DEF n, current
<1>12. n \in 0 .. Len(frames) - k /\ k \in Nat /\ k + n \in Nat /\ k <= k + n /\ k + n \in 0 .. Len(frames)
  BY <1>1, <1>2, <1>8, <1>9 DEF IsDue
<1>13. Moving(rest, n)
  <2>1. \A i \in 1 .. n : i \in 1 .. Len(frames) - k /\ k + i \in 1 .. Len(frames) BY <1>1, <1>2, <1>12
  <2> QED BY <1>1, <1>8, <2>1 DEF Moving
<1>14. Moving(frames, k + n)
  <2>1. \A i \in 1 .. k + n : i \in 1 .. Len(frames) BY <1>1, <1>12
  <2> QED BY <1>1, <2>1 DEF Moving
<1>15. Grown(sc, v[n])
  <2>1. n \in 0 .. n BY <1>9
  <2> QED BY <1>2, <1>9, <1>10, <1>13, <2>1, RunGrown
<1>16. PICK w : IsRun(w, k + n, first, frames) BY <1>12, RunExists
<1>17. u[k] = w[k]
  <2>1. k \in 0 .. k BY <1>12
  <2>2. \A i \in 1 .. k : frames[i] = frames[i] OBVIOUS
  <2> QED BY <1>3, <1>12, <1>16, <2>1, <2>2, RunsAgree
<1>18. Same(w[k], sc) BY <1>3, <1>17
<1>19. \A i \in 1 .. n : rest[i] = frames[k + i]
  <2>1. \A i \in 1 .. n : i \in 1 .. Len(frames) - k BY <1>1, <1>12
  <2> QED BY <1>8, <2>1
<1>20. Same(w[k + n], v[n]) BY <1>2, <1>4, <1>9, <1>10, <1>12, <1>13, <1>14, <1>16, <1>18, <1>19, RunSame
<1>21. SceneAt(t, time) = w[k + n] BY <1>5, <1>6, <1>7, <1>16, AppliedRun
<1>22. Follows(t, current, k + n) BY <1>11, <1>12, <1>15, <1>16, <1>20 DEF Follows, Grown, first, frames
<1>23. Grown(sc, current) /\ Same(SceneAt(t, time), current) BY <1>11, <1>15, <1>20, <1>21
<1> QED BY <1>5, <1>22, <1>23 DEF current, n, rest, frames

LEMMA FollowsAlike ==
  ASSUME NEW t \in Traces, NEW a, NEW b, NEW k, Follows(t, a, k), IsScene(b), a.block = b.block, a.pistons = b.pistons
  PROVE  Follows(t, b, k)
BY DEF Follows, Same

-----------------------------------------------------------------------------
(* A frame that has the key of the one before.                             *)

LEMMA SameMovers ==
  ASSUME NEW a, NEW b, Same(a, b), NEW time
  PROVE  Movers(a, time) = Movers(b, time) /\ Animating(a, time) = Animating(b, time)
BY DEF Same, Movers, Animating

LEMMA Settling ==
  ASSUME NEW t \in Traces, NEW time \in 0 .. MaxFrames * MaxPause
  PROVE  \A m \in SceneAt(t, time).pistons : time < m.settle
<1>1. SettledInTime(t) BY VideoAssumption
<1> QED BY <1>1 DEF SettledInTime, SceneAt

\* Nothing moves between two times at which the key is the same.
LEMMA SameKeyMovers ==
  ASSUME NEW a, NEW b, a.pistons = b.pistons, a.pistons \subseteq Movements, NEW x \in Nat, NEW y \in Nat,
         \A m \in a.pistons : x < m.settle /\ y < m.settle,
         (IF Animating(a, x) THEN x ELSE -1) = (IF Animating(b, y) THEN y ELSE -1)
  PROVE  Movers(a, x) = Movers(b, y)
<1>1. CASE x = y BY <1>1 DEF Movers
<1>2. CASE x # y
  <2>1. ~Animating(a, x) /\ ~Animating(b, y)
    <3> HIDE DEF Animating
    <3> QED BY <1>2
  <2>2. ASSUME NEW m \in a.pistons PROVE Progress(m, x) = 0 /\ Progress(m, y) = 0
    <3>1. m.start \in Int /\ m.settle \in Int BY DEF Movements
    <3>2. ~(m.start < x /\ x < m.settle) BY <2>1 DEF Animating
    <3>3. ~(m.start < y /\ y < m.settle) BY <2>1 DEF Animating
    <3>4. x <= m.start /\ y <= m.start BY <3>1, <3>2, <3>3
    <3> QED BY <3>4 DEF Progress
  <2> HIDE DEF Progress
  <2> QED BY <2>2 DEF Movers
<1> QED BY <1>1, <1>2

-----------------------------------------------------------------------------
(* Pictures on their way, each with the number of frames it is shown for.  *)

\* The picture q[i] is shown from frame from[i] on.
Covering(t, p, q, from, a, b) ==
  /\ \A i \in 1 .. Len(q) + 1 : from[i] \in Nat
  /\ \A i, j \in 1 .. Len(q) + 1 : i <= j => from[i] <= from[j]
  /\ from[1] = a /\ from[Len(q) + 1] = b
  /\ \A i \in 1 .. Len(q) : /\ q[i][2] \in Nat \ {0} /\ from[i + 1] = from[i] + q[i][2]
                            /\ \A k \in from[i] .. from[i + 1] - 1 : ShowsFrame(t, p, q[i][1], k)

\* q shows the frames from a up to the one before b.
Spans(t, p, q, a, b) == IsSeq(q) /\ \E from : Covering(t, p, q, from, a, b)

LEMMA SpansNothing ==
  ASSUME NEW t, NEW p, NEW q, q = <<>>, NEW a \in Nat
  PROVE  Spans(t, p, q, a, a)
<1> DEFINE from == [i \in 1 .. 1 |-> a]
<1>1. IsSeq(q) /\ Len(q) = 0 BY NothingIsSeq
<1>2. Covering(t, p, q, from, a, a) BY <1>1 DEF Covering
<1> QED BY <1>1, <1>2 DEF Spans

LEMMA SpansOrder ==
  ASSUME NEW t, NEW p, NEW q, NEW a, NEW b, Spans(t, p, q, a, b)
  PROVE  a \in Nat /\ b \in Nat /\ a <= b /\ (q = <<>> => a = b) /\ (q # <<>> => a < b)
<1>1. PICK from : Covering(t, p, q, from, a, b) BY DEF Spans
<1>2. IsSeq(q) /\ Len(q) \in Nat BY SeqParts DEF Spans
<1>3. 1 \in 1 .. Len(q) + 1 /\ Len(q) + 1 \in 1 .. Len(q) + 1 /\ 1 <= Len(q) + 1 BY <1>2
<1>4. a \in Nat /\ b \in Nat /\ a <= b BY <1>1, <1>3 DEF Covering
<1>5. ASSUME q = <<>> PROVE a = b
  <2>1. Len(q) + 1 = 1 BY <1>2, <1>5, SeqEmpty
  <2> QED BY <1>1, <2>1 DEF Covering
<1>6. ASSUME q # <<>> PROVE a < b
  <2>1. Len(q) # 0 BY <1>2, <1>6, SeqEmpty
  <2>2. 1 \in 1 .. Len(q) /\ 1 + 1 \in 1 .. Len(q) + 1 /\ 1 + 1 <= Len(q) + 1 BY <1>2, <2>1
  <2>3. q[1][2] \in Nat \ {0} /\ from[1 + 1] = from[1] + q[1][2] BY <1>1, <2>2 DEF Covering
  <2>4. from[1 + 1] <= from[Len(q) + 1] BY <1>1, <1>3, <2>2 DEF Covering
  <2>5. from[1] = a /\ from[Len(q) + 1] = b BY <1>1 DEF Covering
  <2> QED BY <1>4, <2>3, <2>4, <2>5
<1> QED BY <1>4, <1>5, <1>6

\* One picture more.
LEMMA SpansLonger ==
  ASSUME NEW t, NEW p, NEW q, NEW a, NEW b, Spans(t, p, q, a, b), NEW r, IsSeq(r), Len(r) = Len(q) + 1,
         \A i \in 1 .. Len(q) : r[i] = q[i], NEW n \in Nat \ {0}, r[Len(q) + 1][2] = n,
         \A k \in b .. b + n - 1 : ShowsFrame(t, p, r[Len(q) + 1][1], k)
  PROVE  Spans(t, p, r, a, b + n)
<1>1. PICK from : Covering(t, p, q, from, a, b) BY DEF Spans
<1>2. Len(q) \in Nat BY SeqParts DEF Spans
<1> DEFINE len == Len(q)
           next == [i \in 1 .. (len + 1) + 1 |-> IF i = (len + 1) + 1 THEN b + n ELSE from[i]]
<1>3. /\ \A i \in 1 .. len + 1 : from[i] \in Nat
      /\ \A i, j \in 1 .. len + 1 : i <= j => from[i] <= from[j]
      /\ from[1] = a /\ from[len + 1] = b
      /\ \A i \in 1 .. len : /\ q[i][2] \in Nat \ {0} /\ from[i + 1] = from[i] + q[i][2]
                             /\ \A k \in from[i] .. from[i + 1] - 1 : ShowsFrame(t, p, q[i][1], k)
  BY <1>1 DEF Covering
<1>4. len \in Nat /\ Len(r) = len + 1 BY <1>2
<1>5. /\ \A i \in 1 .. len : r[i] = q[i]
      /\ r[len + 1][2] = n /\ \A k \in b .. b + n - 1 : ShowsFrame(t, p, r[len + 1][1], k)
  OBVIOUS
<1> HIDE DEF len
<1>6. next[(len + 1) + 1] = b + n /\ \A i \in 1 .. len + 1 : next[i] = from[i]
  <2>1. (len + 1) + 1 \in 1 .. (len + 1) + 1 BY <1>4
  <2>2. \A i \in 1 .. len + 1 : i \in 1 .. (len + 1) + 1 /\ i # (len + 1) + 1 BY <1>4
  <2> QED BY <2>1, <2>2
<1> HIDE DEF next
<1>7. len + 1 \in 1 .. len + 1 /\ b \in Nat /\ 1 \in 1 .. len + 1 BY <1>3, <1>4
<1>8. \A i \in 1 .. (len + 1) + 1 : i \in 1 .. len + 1 \/ i = (len + 1) + 1 BY <1>4
<1>9. \A i \in 1 .. (len + 1) + 1 : next[i] \in Nat BY <1>3, <1>6, <1>7, <1>8
<1>10. ASSUME NEW i \in 1 .. (len + 1) + 1, NEW j \in 1 .. (len + 1) + 1, i <= j PROVE next[i] <= next[j]
  <2>1. CASE j \in 1 .. len + 1
    <3>1. i \in 1 .. len + 1 BY <1>4, <1>10, <2>1
    <3> QED BY <1>3, <1>6, <1>10, <2>1, <3>1
  <2>2. CASE j = (len + 1) + 1 /\ i \in 1 .. len + 1
    <3>1. from[i] <= from[len + 1] /\ from[i] \in Nat
      <4>1. i <= len + 1 BY <1>4, <2>2
      <4> QED BY <1>3, <1>7, <2>2, <4>1
    <3>2. from[i] <= b + n BY <1>3, <1>7, <3>1
    <3> QED BY <1>6, <2>2, <3>2
  <2>3. CASE j = (len + 1) + 1 /\ i = (len + 1) + 1 BY <1>6, <1>7, <2>3
  <2> QED BY <1>8, <2>1, <2>2, <2>3
<1>11. ASSUME NEW i \in 1 .. len + 1
       PROVE  /\ r[i][2] \in Nat \ {0} /\ next[i + 1] = next[i] + r[i][2]
              /\ \A k \in next[i] .. next[i + 1] - 1 : ShowsFrame(t, p, r[i][1], k)
  <2>1. CASE i \in 1 .. len
    <3>1. i + 1 \in 1 .. len + 1 /\ i \in 1 .. len + 1 BY <1>4, <2>1
    <3>2. next[i] = from[i] /\ next[i + 1] = from[i + 1] /\ r[i] = q[i] BY <1>5, <1>6, <2>1, <3>1
    <3> QED BY <1>3, <2>1, <3>2
  <2>2. CASE i = len + 1
    <3>1. next[i] = b /\ next[i + 1] = b + n BY <1>3, <1>6, <1>7, <2>2
    <3>2. (b + n) - 1 = b + n - 1 BY <1>7
    <3> QED BY <1>5, <2>2, <3>1, <3>2
  <2>3. i \in 1 .. len \/ i = len + 1 BY <1>4
  <2> QED BY <2>1, <2>2, <2>3
<1>12. next[1] = a BY <1>3, <1>6, <1>7
<1>13. Covering(t, p, r, next, a, b + n) BY <1>4, <1>6, <1>9, <1>10, <1>11, <1>12 DEF Covering
<1> QED BY <1>13 DEF Spans

\* Without the first picture.
LEMMA SpansShorter ==
  ASSUME NEW t, NEW p, NEW q, NEW a, NEW b, Spans(t, p, q, a, b), q # <<>>,
         NEW r, IsSeq(r), Len(r) = Len(q) - 1, \A i \in 1 .. Len(q) - 1 : r[i] = q[i + 1]
  PROVE  /\ q[1][2] \in Nat \ {0} /\ Spans(t, p, r, a + q[1][2], b)
         /\ \A k \in a .. a + q[1][2] - 1 : ShowsFrame(t, p, q[1][1], k)
<1>1. PICK from : Covering(t, p, q, from, a, b) BY DEF Spans
<1>2. Len(q) \in Nat /\ Len(q) # 0 BY SeqParts, SeqEmpty DEF Spans
<1> DEFINE len == Len(q)
           next == [i \in 1 .. len |-> from[i + 1]]
<1>3. /\ \A i \in 1 .. len + 1 : from[i] \in Nat
      /\ \A i, j \in 1 .. len + 1 : i <= j => from[i] <= from[j]
      /\ from[1] = a /\ from[len + 1] = b
      /\ \A i \in 1 .. len : /\ q[i][2] \in Nat \ {0} /\ from[i + 1] = from[i] + q[i][2]
                             /\ \A k \in from[i] .. from[i + 1] - 1 : ShowsFrame(t, p, q[i][1], k)
  BY <1>1 DEF Covering
<1>4. len \in Nat /\ len # 0 /\ Len(r) = len - 1 /\ (len - 1) + 1 = len /\ \A i \in 1 .. len - 1 : r[i] = q[i + 1]
  BY <1>2
<1> HIDE DEF len
<1>5. \A i \in 1 .. len : next[i] = from[i + 1] /\ i + 1 \in 1 .. len + 1 BY <1>4
<1> HIDE DEF next
<1>6. 1 \in 1 .. len /\ len \in 1 .. len BY <1>4
<1>7. \A i \in 1 .. len : next[i] \in Nat BY <1>3, <1>5
<1>8. ASSUME NEW i \in 1 .. len, NEW j \in 1 .. len, i <= j PROVE next[i] <= next[j]
  <2>1. i + 1 <= j + 1 BY <1>8
  <2> QED BY <1>3, <1>5, <2>1
<1>9. q[1][2] \in Nat \ {0} /\ from[1 + 1] = a + q[1][2] BY <1>3, <1>6
<1>10. next[1] = a + q[1][2] /\ next[len] = b BY <1>3, <1>5, <1>6, <1>9
<1>11. \A k \in a .. a + q[1][2] - 1 : ShowsFrame(t, p, q[1][1], k)
  <2>1. 1 \in 1 .. len + 1 BY <1>4
  <2>2. a \in Nat BY <1>3, <2>1
  <2>3. from[1 + 1] - 1 = a + q[1][2] - 1 BY <1>9, <2>2
  <2>4. \A k \in from[1] .. from[1 + 1] - 1 : ShowsFrame(t, p, q[1][1], k) BY <1>3, <1>6
  <2> QED BY <1>3, <2>3, <2>4
<1>12. ASSUME NEW i \in 1 .. len - 1
       PROVE  /\ r[i][2] \in Nat \ {0} /\ next[i + 1] = next[i] + r[i][2]
              /\ \A k \in next[i] .. next[i + 1] - 1 : ShowsFrame(t, p, r[i][1], k)
  <2>1. i \in 1 .. len /\ i + 1 \in 1 .. len BY <1>4
  <2>2. next[i] = from[i + 1] /\ next[i + 1] = from[(i + 1) + 1] /\ r[i] = q[i + 1] BY <1>4, <1>5, <2>1
  <2> QED BY <1>3, <2>1, <2>2
<1>13. Covering(t, p, r, next, a + q[1][2], b) BY <1>4, <1>7, <1>8, <1>10, <1>12 DEF Covering
<1> QED BY <1>9, <1>11, <1>13 DEF Spans

\* The last picture is shown for a frame more.
LEMMA SpansRepeat ==
  ASSUME NEW t, NEW p, NEW q, NEW a, NEW b, Spans(t, p, q, a, b), NEW n, n = Len(q), n # 0,
         NEW r, IsSeq(r), Len(r) = n, \A i \in 1 .. n - 1 : r[i] = q[i],
         r[n][1] = q[n][1], r[n][2] = q[n][2] + 1, ShowsFrame(t, p, q[n][1], b)
  PROVE  Spans(t, p, r, a, b + 1)
<1>1. PICK from : Covering(t, p, q, from, a, b) BY DEF Spans
<1>2. n \in Nat BY SeqParts DEF Spans
<1> DEFINE next == [i \in 1 .. n + 1 |-> IF i = n + 1 THEN b + 1 ELSE from[i]]
<1>3. /\ \A i \in 1 .. n + 1 : from[i] \in Nat
      /\ \A i, j \in 1 .. n + 1 : i <= j => from[i] <= from[j]
      /\ from[1] = a /\ from[n + 1] = b
      /\ \A i \in 1 .. n : /\ q[i][2] \in Nat \ {0} /\ from[i + 1] = from[i] + q[i][2]
                           /\ \A k \in from[i] .. from[i + 1] - 1 : ShowsFrame(t, p, q[i][1], k)
  BY <1>1 DEF Covering
<1>4. next[n + 1] = b + 1 /\ \A i \in 1 .. n : next[i] = from[i] /\ i \in 1 .. n + 1
  <2>1. n + 1 \in 1 .. n + 1 /\ \A i \in 1 .. n : i \in 1 .. n + 1 /\ i # n + 1 BY <1>2
  <2> QED BY <2>1
<1> HIDE DEF next
<1>5. n + 1 \in 1 .. n + 1 /\ n \in 1 .. n /\ 1 \in 1 .. n /\ b \in Nat
  <2>1. n + 1 \in 1 .. n + 1 /\ n \in 1 .. n /\ 1 \in 1 .. n BY <1>2
  <2> QED BY <1>3, <2>1
<1>6. \A i \in 1 .. n + 1 : i \in 1 .. n \/ i = n + 1 BY <1>2
<1>7. \A i \in 1 .. n + 1 : next[i] \in Nat
  <2>1. \A i \in 1 .. n : next[i] \in Nat BY <1>3, <1>4
  <2>2. next[n + 1] \in Nat BY <1>4, <1>5
  <2> QED BY <1>6, <2>1, <2>2
<1>8. ASSUME NEW i \in 1 .. n + 1, NEW j \in 1 .. n + 1, i <= j PROVE next[i] <= next[j]
  <2>1. CASE j \in 1 .. n
    <3>1. i \in 1 .. n BY <1>2, <1>8, <2>1
    <3> QED BY <1>3, <1>4, <1>8, <2>1, <3>1
  <2>2. CASE j = n + 1 /\ i \in 1 .. n
    <3>1. i <= n + 1 BY <1>2, <2>2
    <3>2. from[i] <= b /\ from[i] \in Nat BY <1>3, <1>4, <1>5, <2>2, <3>1
    <3>3. from[i] <= b + 1 BY <1>5, <3>2
    <3> QED BY <1>4, <2>2, <3>3
  <2>3. CASE j = n + 1 /\ i = n + 1 BY <1>4, <1>5, <2>3
  <2> QED BY <1>6, <2>1, <2>2, <2>3
<1>9. ASSUME NEW i \in 1 .. n
      PROVE  /\ r[i][2] \in Nat \ {0} /\ next[i + 1] = next[i] + r[i][2]
             /\ \A k \in next[i] .. next[i + 1] - 1 : ShowsFrame(t, p, r[i][1], k)
  <2>1. CASE i \in 1 .. n - 1
    <3>1. i + 1 \in 1 .. n /\ r[i] = q[i] BY <1>2, <2>1
    <3>2. next[i] = from[i] /\ next[i + 1] = from[i + 1] BY <1>4, <3>1
    <3> QED BY <1>3, <3>1, <3>2
  <2>2. CASE i = n
    <3>1. next[i] = from[n] /\ next[i + 1] = b + 1 /\ from[n] \in Nat BY <1>3, <1>4, <2>2
    <3>2. q[n][2] \in Nat \ {0} /\ b = from[n] + q[n][2] BY <1>3, <1>5
    <3>3. \A k \in from[n] .. b - 1 : ShowsFrame(t, p, q[n][1], k) BY <1>3, <1>5
    <3>4. \A k \in from[n] .. (b + 1) - 1 : k \in from[n] .. b - 1 \/ k = b BY <1>5, <3>1
    <3>5. \A k \in from[n] .. (b + 1) - 1 : ShowsFrame(t, p, q[n][1], k) BY <3>3, <3>4
    <3>6. r[n][2] \in Nat \ {0} /\ b + 1 = from[n] + r[n][2] BY <3>1, <3>2
    <3> QED BY <2>2, <3>1, <3>5, <3>6
  <2>3. i \in 1 .. n - 1 \/ i = n BY <1>2
  <2> QED BY <2>1, <2>2, <2>3
<1>10. next[1] = a BY <1>3, <1>4, <1>5
<1>11. Covering(t, p, r, next, a, b + 1) BY <1>4, <1>7, <1>8, <1>9, <1>10 DEF Covering
<1> QED BY <1>11 DEF Spans

\* The first picture is shown for a frame less.
LEMMA SpansRest ==
  ASSUME NEW t, NEW p, NEW q, NEW a, NEW b, Spans(t, p, q, a, b), NEW n, n = Len(q), n # 0, q[1][2] # 1,
         NEW r, IsSeq(r), Len(r) = n, \A i \in 2 .. n : r[i] = q[i],
         r[1][1] = q[1][1], r[1][2] = q[1][2] - 1
  PROVE  Spans(t, p, r, a + 1, b) /\ ShowsFrame(t, p, q[1][1], a)
<1>1. PICK from : Covering(t, p, q, from, a, b) BY DEF Spans
<1>2. n \in Nat BY SeqParts DEF Spans
<1> DEFINE next == [i \in 1 .. n + 1 |-> IF i = 1 THEN a + 1 ELSE from[i]]
<1>3. /\ \A i \in 1 .. n + 1 : from[i] \in Nat
      /\ \A i, j \in 1 .. n + 1 : i <= j => from[i] <= from[j]
      /\ from[1] = a /\ from[n + 1] = b
      /\ \A i \in 1 .. n : /\ q[i][2] \in Nat \ {0} /\ from[i + 1] = from[i] + q[i][2]
                           /\ \A k \in from[i] .. from[i + 1] - 1 : ShowsFrame(t, p, q[i][1], k)
  BY <1>1 DEF Covering
<1>4. next[1] = a + 1 /\ \A i \in 2 .. n + 1 : next[i] = from[i] /\ i \in 1 .. n + 1
  <2>1. 1 \in 1 .. n + 1 /\ \A i \in 2 .. n + 1 : i \in 1 .. n + 1 /\ i # 1 BY <1>2
  <2> QED BY <2>1
<1> HIDE DEF next
<1>5. 1 \in 1 .. n + 1 /\ 1 \in 1 .. n /\ n + 1 \in 2 .. n + 1 /\ 2 \in 2 .. n + 1 /\ 1 + 1 = 2 /\ a \in Nat
  BY <1>2, <1>3
<1>6. \A i \in 1 .. n + 1 : i \in 2 .. n + 1 \/ i = 1 BY <1>2
<1>7. q[1][2] \in Nat \ {0} /\ from[2] = a + q[1][2] /\ \A k \in a .. from[2] - 1 : ShowsFrame(t, p, q[1][1], k)
  BY <1>3, <1>5
<1>8. r[1][2] \in Nat \ {0} /\ a + 1 < from[2] /\ from[2] = (a + 1) + r[1][2] BY <1>5, <1>7
<1>9. \A i \in 1 .. n + 1 : next[i] \in Nat BY <1>3, <1>4, <1>5, <1>6
<1>10. ASSUME NEW i \in 1 .. n + 1, NEW j \in 1 .. n + 1, i <= j PROVE next[i] <= next[j]
  <2>1. CASE i \in 2 .. n + 1
    <3>1. j \in 2 .. n + 1 BY <1>2, <1>10, <2>1
    <3> QED BY <1>3, <1>4, <1>10, <2>1, <3>1
  <2>2. CASE i = 1 /\ j \in 2 .. n + 1
    <3>1. 2 <= j /\ 2 \in 1 .. n + 1 BY <1>2, <1>4, <1>5, <2>2
    <3>2. from[2] <= from[j] /\ from[j] \in Nat /\ from[2] \in Nat BY <1>3, <1>4, <2>2, <3>1
    <3>3. a + 1 <= from[j] BY <1>5, <1>8, <3>2
    <3> QED BY <1>4, <2>2, <3>3
  <2>3. CASE i = 1 /\ j = 1 BY <1>4, <1>5, <2>3
  <2> QED BY <1>6, <2>1, <2>2, <2>3
<1>11. ASSUME NEW i \in 1 .. n
       PROVE  /\ r[i][2] \in Nat \ {0} /\ next[i + 1] = next[i] + r[i][2]
              /\ \A k \in next[i] .. next[i + 1] - 1 : ShowsFrame(t, p, r[i][1], k)
  <2>1. CASE i \in 2 .. n
    <3>1. i + 1 \in 2 .. n + 1 /\ i \in 2 .. n + 1 /\ r[i] = q[i] BY <1>2, <2>1
    <3>2. next[i] = from[i] /\ next[i + 1] = from[i + 1] BY <1>4, <3>1
    <3> QED BY <1>3, <3>1, <3>2
  <2>2. CASE i = 1
    <3>1. next[i] = a + 1 /\ next[i + 1] = from[2] BY <1>4, <1>5, <2>2
    <3>2. \A k \in a + 1 .. from[2] - 1 : k \in a .. from[2] - 1 BY <1>5
    <3>3. \A k \in a + 1 .. from[2] - 1 : ShowsFrame(t, p, r[1][1], k) BY <1>7, <3>2
    <3> QED BY <1>8, <2>2, <3>1, <3>3
  <2>3. i \in 2 .. n \/ i = 1 BY <1>2
  <2> QED BY <2>1, <2>2, <2>3
<1>12. next[n + 1] = b BY <1>3, <1>4, <1>5
<1>13. Covering(t, p, r, next, a + 1, b) BY <1>4, <1>9, <1>10, <1>11, <1>12 DEF Covering
<1>14. ShowsFrame(t, p, q[1][1], a)
  <2>1. a \in a .. from[2] - 1 BY <1>5, <1>7
  <2> QED BY <1>7, <2>1
<1> QED BY <1>13, <1>14 DEF Spans

\* The plan goes on.
LEMMA SpansStay ==
  ASSUME NEW t, NEW p, NEW q, NEW a, NEW b, Spans(t, p, q, a, b), a >= 1, NEW n \in Nat, b <= n + 1,
         NEW p2, \A j \in 1 .. n : p[j] = p2[j]
  PROVE  Spans(t, p2, q, a, b)
<1>1. PICK from : Covering(t, p, q, from, a, b) BY DEF Spans
<1>2. Len(q) \in Nat BY SeqParts DEF Spans
<1>3. a \in Nat /\ b \in Nat BY SpansOrder
<1>4. ASSUME NEW i \in 1 .. Len(q), NEW k \in from[i] .. from[i + 1] - 1 PROVE ShowsFrame(t, p2, q[i][1], k)
  <2>1. ShowsFrame(t, p, q[i][1], k) BY <1>1, <1>4 DEF Covering
  <2>2. /\ 1 \in 1 .. Len(q) + 1 /\ i \in 1 .. Len(q) + 1 /\ i + 1 \in 1 .. Len(q) + 1
        /\ Len(q) + 1 \in 1 .. Len(q) + 1 /\ 1 <= i /\ i + 1 <= Len(q) + 1
    BY <1>2
  <2>3. a <= from[i] /\ from[i + 1] <= b /\ from[i] \in Nat /\ from[i + 1] \in Nat BY <1>1, <2>2 DEF Covering
  <2>4. k \in Nat \ {0} /\ k <= n BY <1>3, <2>3
  <2>5. \A j \in 1 .. k : p[j] = p2[j]
    <3>1. \A j \in 1 .. k : j \in 1 .. n BY <2>4
    <3> QED BY <3>1
  <2> QED BY <2>1, <2>4, <2>5, PlannedStays
<1>5. Covering(t, p2, q, from, a, b) BY <1>1, <1>4 DEF Covering
<1> QED BY <1>5 DEF Spans

-----------------------------------------------------------------------------
(* The readback slots are used in a circle.                                *)

LEMMA ModNext ==
  ASSUME NEW n \in Nat \ {0}, NEW x \in 0 .. n - 1
  PROVE  (x + 1) % n = IF x + 1 = n THEN 0 ELSE x + 1
<1>1. CASE x + 1 = n BY <1>1
<1>2. CASE x + 1 # n BY <1>2
<1> QED BY <1>1, <1>2

\* The slots in flight are the last ones, up to the next.
Ring(q, next) ==
  /\ IsSeq(q) /\ Len(q) <= Slots /\ next \in 0 .. Slots - 1
  /\ \A i \in 1 .. Len(q) :
       /\ q[i] \in 0 .. Slots - 1
       /\ q[i] = (next - Len(q)) + (i - 1) \/ q[i] = ((next - Len(q)) + (i - 1)) + Slots

Younger(q) == IF Len(q) = Slots THEN Tail(q) ELSE q

LEMMA YoungerParts ==
  ASSUME NEW q, IsSeq(q), Len(q) <= Slots
  PROVE  /\ IsSeq(Younger(q)) /\ Len(Younger(q)) = IF Len(q) = Slots THEN Len(q) - 1 ELSE Len(q)
         /\ Len(q) \in Nat /\ Len(Younger(q)) \in Nat /\ Len(Younger(q)) < Slots
         /\ \A i \in 1 .. Len(Younger(q)) : Younger(q)[i] = q[IF Len(q) = Slots THEN i + 1 ELSE i]
<1>1. Slots \in Nat \ {0} /\ Len(q) \in Nat BY VideoAssumption, SeqParts
<1>2. CASE Len(q) = Slots
  <2>1. Younger(q) = Tail(q) BY <1>2 DEF Younger
  <2>2. q # <<>> BY <1>1, <1>2, SeqEmpty
  <2>3. IsSeq(Tail(q)) /\ Len(Tail(q)) = Len(q) - 1 /\ \A i \in 1 .. Len(q) - 1 : Tail(q)[i] = q[i + 1]
    BY <2>2, SeqTail
  <2> QED BY <1>1, <1>2, <2>1, <2>3
<1>3. CASE Len(q) # Slots
  <2>1. Younger(q) = q BY <1>3 DEF Younger
  <2> QED BY <1>1, <1>3, <2>1
<1> QED BY <1>2, <1>3

LEMMA InCircle ==
  ASSUME NEW n \in Nat \ {0}, NEW next \in 0 .. n - 1, NEW l \in Nat, l < n, NEW i \in 1 .. l,
         NEW v \in 0 .. n - 1, v = (next - l) + (i - 1) \/ v = ((next - l) + (i - 1)) + n,
         NEW after, after = IF next + 1 = n THEN 0 ELSE next + 1
  PROVE  v # next /\ (v = (after - (l + 1)) + (i - 1) \/ v = ((after - (l + 1)) + (i - 1)) + n)
<1>1. CASE next + 1 = n BY <1>1
<1>2. CASE next + 1 # n BY <1>2
<1> QED BY <1>1, <1>2

LEMMA RingOn ==
  ASSUME NEW q, NEW next, Ring(q, next)
  PROVE  LET r == Append(Younger(q), next)
         IN /\ Ring(r, (next + 1) % Slots)
            /\ \A i \in 1 .. Len(Younger(q)) : r[i] = Younger(q)[i] /\ r[i] # next
            /\ Len(r) = Len(Younger(q)) + 1 /\ r[Len(r)] = next
<1> DEFINE y == Younger(q)
           r == Append(y, next)
           after == (next + 1) % Slots
           l == Len(y)
<1>1. IsSeq(q) /\ Len(q) <= Slots /\ next \in 0 .. Slots - 1 /\ Slots \in Nat \ {0} BY VideoAssumption DEF Ring
<1>2. /\ IsSeq(y) /\ l = (IF Len(q) = Slots THEN Len(q) - 1 ELSE Len(q))
      /\ Len(q) \in Nat /\ l \in Nat /\ l < Slots
      /\ \A i \in 1 .. l : y[i] = q[IF Len(q) = Slots THEN i + 1 ELSE i]
  BY <1>1, YoungerParts
<1> HIDE DEF y, l
<1>3. IsSeq(r) /\ Len(r) = l + 1 /\ (\A i \in 1 .. l : r[i] = y[i]) /\ r[l + 1] = next
  BY <1>2, SeqAppend DEF l
<1> HIDE DEF r
<1>4. after = IF next + 1 = Slots THEN 0 ELSE next + 1 BY <1>1, ModNext
<1> HIDE DEF after
<1>5. ASSUME NEW i \in 1 .. l
      PROVE  r[i] \in 0 .. Slots - 1 /\ (r[i] = (next - l) + (i - 1) \/ r[i] = ((next - l) + (i - 1)) + Slots)
  <2>1. CASE Len(q) = Slots
    <3>1. i + 1 \in 1 .. Len(q) /\ r[i] = q[i + 1] BY <1>2, <1>3, <2>1
    <3>2. /\ q[i + 1] \in 0 .. Slots - 1
          /\ q[i + 1] = (next - Len(q)) + ((i + 1) - 1) \/ q[i + 1] = ((next - Len(q)) + ((i + 1) - 1)) + Slots
      BY <3>1 DEF Ring
    <3>3. (next - Len(q)) + ((i + 1) - 1) = (next - l) + (i - 1) BY <1>1, <1>2, <2>1
    <3> QED BY <3>1, <3>2, <3>3
  <2>2. CASE Len(q) # Slots
    <3>1. i \in 1 .. Len(q) /\ r[i] = q[i] /\ l = Len(q) BY <1>2, <1>3, <2>2
    <3> QED BY <3>1 DEF Ring
  <2> QED BY <2>1, <2>2
<1>6. ASSUME NEW i \in 1 .. l
      PROVE  /\ r[i] # next
             /\ r[i] = (after - (l + 1)) + (i - 1) \/ r[i] = ((after - (l + 1)) + (i - 1)) + Slots
  <2> DEFINE v == r[i]
  <2>1. v \in 0 .. Slots - 1 /\ (v = (next - l) + (i - 1) \/ v = ((next - l) + (i - 1)) + Slots) BY <1>5
  <2> HIDE DEF v
  <2>2. Slots \in Nat \ {0} /\ next \in 0 .. Slots - 1 /\ l \in Nat /\ l < Slots BY <1>1, <1>2
  <2>3. v # next BY <1>4, <2>1, <2>2, InCircle
  <2>4. v = (after - (l + 1)) + (i - 1) \/ v = ((after - (l + 1)) + (i - 1)) + Slots BY <1>4, <2>1, <2>2, InCircle
  <2> QED BY <2>3, <2>4 DEF v
<1>7. ASSUME NEW i \in 1 .. l + 1
      PROVE  /\ r[i] \in 0 .. Slots - 1
             /\ r[i] = (after - (l + 1)) + (i - 1) \/ r[i] = ((after - (l + 1)) + (i - 1)) + Slots
  <2>1. CASE i \in 1 .. l BY <1>5, <1>6, <2>1
  <2>2. CASE i = l + 1 BY <1>1, <1>2, <1>3, <1>4, <2>2
  <2> QED BY <1>2, <2>1, <2>2
<1>8. after \in 0 .. Slots - 1 /\ l + 1 <= Slots BY <1>1, <1>2, <1>4
<1>9. Ring(r, after) BY <1>3, <1>7, <1>8 DEF Ring
<1> QED BY <1>3, <1>6, <1>9 DEF y, r, after, l

-----------------------------------------------------------------------------
(* The inductive invariant.                                                *)

\* The frames whose picture was made.
Framed == IF status = "frame" THEN Len(plan) - 1 ELSE Len(plan)
Going == status \in {"frame", "send"}

\* The frames that have left the loop.
Sent == Len(written) + Len(channel)

\* The pictures in the slots that are in flight.
Flight == [i \in 1 .. Len(inFlight) |-> <<slots[inFlight[i]], groups[i]>>]

Pairs(q) == \A i \in 1 .. Len(q) : q[i] = <<q[i][1], q[i][2]>>

TypeOK ==
  /\ trace \in Traces /\ total \in 1 .. MaxFrames
  /\ IsSeq(plan) /\ Len(plan) \in 1 .. total
  /\ \A i \in 1 .. Len(plan) : plan[i].time \in 0 .. i * MaxPause
  /\ \A i \in 1 .. Len(plan) - 1 : plan[i].time <= plan[i + 1].time
  /\ status \in {"frame", "send", "drain", "closed", "finished", "failed"}
  /\ feeder \in {"running", "done", "failed"}
  /\ IsSeq(groups) /\ IsSeq(sending) /\ Pairs(sending) /\ IsSeq(channel) /\ IsSeq(written)

\* The scene, and the meshes in the buffers, are those of the last frame.
SceneAgrees(t, p, n, sc, k, image, key) ==
  /\ Follows(t, sc, k) /\ CacheOK(sc) /\ sc.dirty \cap sc.visible = {}
  /\ n = 0 => k = 0 /\ key = NoKey
  /\ n # 0 => /\ k = Due(t.frames, p[n].time) /\ Same(SceneAt(t, p[n].time), sc)
              /\ key = VisualKey(sc, p[n].view, p[n].time)
              /\ image.movers = Movers(sc, p[n].time)
  /\ sc.key = p[IF n = 0 THEN 1 ELSE n].view
  /\ sc.visible = InView[sc.key] \cap Occupied(BlocksThen(t, p, IF n = 0 THEN 1 ELSE n))
  /\ image = [meshes |-> MeshesOf(sc.block, sc.visible), movers |-> image.movers]

SceneInv == Going => SceneAgrees(trace, plan, Framed, scene, applied, shown, lastKey)

RingInv ==
  /\ Ring(inFlight, nextSlot) /\ slots = [i \in 0 .. Slots - 1 |-> slots[i]] /\ Len(groups) = Len(inFlight)
  /\ Going /\ Framed # 0 => inFlight # <<>> /\ slots[inFlight[Len(inFlight)]] = shown
  /\ status = "drain" => inFlight = <<>>

\* What was made and has not been sent shows the frames that are next.
QueueInv ==
  /\ status \in {"frame", "send", "drain"} =>
       \E mid : Spans(trace, plan, sending, Sent + 1, mid) /\ Spans(trace, plan, Flight, mid, Framed + 1)
  /\ status = "frame" => sending = <<>>

Delivered ==
  /\ \A k \in 1 .. Len(written) : k <= Len(plan) /\ ShowsFrame(trace, plan, written[k], k)
  /\ \A j \in 1 .. Len(channel) :
       Len(written) + j <= Len(plan) /\ ShowsFrame(trace, plan, channel[j], Len(written) + j)

EndInv ==
  /\ status \in {"drain", "closed"} => Len(plan) = total
  /\ status = "closed" => Sent = total
  /\ feeder = "done" => channel = <<>> /\ status \in {"closed", "finished", "failed"}
  /\ status # "finished" => output = <<>>
  /\ status = "finished" => Len(output) = total
  /\ status \in {"finished", "failed"} => ~temporary

IInv == TypeOK /\ SceneInv /\ RingInv /\ QueueInv /\ Delivered /\ EndInv

-----------------------------------------------------------------------------
(* A frame.                                                                *)

LEMMA PictureRight ==
  ASSUME NEW t, NEW p, NEW k, NEW sc, NEW visible, NEW image, Same(SceneAt(t, p[k].time), sc),
         visible = InView[p[k].view] \cap Occupied(BlocksThen(t, p, k)),
         image.meshes = MeshesOf(sc.block, visible), image.movers = Movers(sc, p[k].time)
  PROVE  ShowsFrame(t, p, image, k)
<1> DEFINE now == SceneAt(t, p[k].time)
<1>1. now.block = sc.block /\ image.movers = Movers(now, p[k].time) BY SameMovers DEF Same
<1>2. ASSUME NEW s \in Sections
      PROVE  \/ image.meshes[s] = IF s \in InView[p[k].view] THEN MeshOf(now.block, s) ELSE Nothing
             \/ image.meshes[s] = Nothing /\ s \notin Occupied(BlocksThen(t, p, k))
  <2>1. image.meshes[s] = IF s \in visible THEN MeshOf(now.block, s) ELSE Nothing BY <1>1 DEF MeshesOf
  <2> HIDE DEF now
  <2> QED BY <2>1
<1> QED BY <1>1, <1>2 DEF ShowsFrame

LEMMA TimeInRange ==
  ASSUME TypeOK, NEW i \in 1 .. Len(plan)
  PROVE  plan[i].time \in 0 .. MaxFrames * MaxPause /\ plan[i].time \in Nat /\ plan[i].time \in Int
<1>1. MaxFrames \in Nat /\ MaxPause \in Nat BY VideoAssumption
<1>2. i \in Nat /\ i <= MaxFrames
  <2>1. total \in 1 .. MaxFrames /\ Len(plan) \in 1 .. total BY DEF TypeOK
  <2> QED BY <1>1, <2>1
<1>3. plan[i].time \in 0 .. i * MaxPause BY DEF TypeOK
<1>4. MaxFrames - i \in Nat BY <1>1, <1>2
<1>5. \A a \in Nat, b \in Nat, c \in Nat : a * c + b * c = (a + b) * c /\ b * c \in Nat /\ a * c \in Nat OBVIOUS
<1>6. i * MaxPause \in Nat /\ MaxFrames * MaxPause \in Nat /\ i * MaxPause <= MaxFrames * MaxPause
  <2> DEFINE rest == MaxFrames - i
  <2>1. i + rest = MaxFrames BY <1>1, <1>2
  <2>2. rest \in Nat BY <1>4
  <2> HIDE DEF rest
  <2>3. i * MaxPause + rest * MaxPause = (i + rest) * MaxPause /\ rest * MaxPause \in Nat /\ i * MaxPause \in Nat
    BY <1>1, <1>2, <1>5, <2>2
  <2>4. i * MaxPause + rest * MaxPause = MaxFrames * MaxPause BY <2>1, <2>3
  <2> DEFINE x == i * MaxPause
             z == rest * MaxPause
             w == MaxFrames * MaxPause
  <2>5. x \in Nat /\ z \in Nat /\ x + z = w BY <2>3, <2>4
  <2> HIDE DEF x, z, w
  <2>6. w \in Nat /\ x <= w BY <2>5
  <2> QED BY <2>5, <2>6 DEF x, w
<1> DEFINE x == i * MaxPause
           w == MaxFrames * MaxPause
<1>7. x \in Nat /\ w \in Nat /\ x <= w /\ plan[i].time \in 0 .. x BY <1>3, <1>6
<1> HIDE DEF x, w
<1>8. plan[i].time \in 0 .. w /\ plan[i].time \in Nat /\ plan[i].time \in Int BY <1>7
<1> QED BY <1>8 DEF w

\* What the loop makes of the scene and the buffers in frame n + 1.
IsFrame(t, p, n, sc, k, image, rest, current, next, newkey) ==
  /\ rest = SubSeq(t.frames, k + 1, Len(t.frames))
  /\ current = AppliedUntil(sc, rest, p[n + 1].time)
  /\ next = [meshes |-> MeshesAfter(image.meshes, current, p[n + 1].view), movers |-> Movers(current, p[n + 1].time)]
  /\ newkey = VisualKey(current, p[n + 1].view, p[n + 1].time)

LEMMA SceneStep ==
  ASSUME NEW t \in Traces, NEW p, NEW n \in Nat, NEW sc, NEW k, NEW image, NEW key,
         SceneAgrees(t, p, n, sc, k, image, key), p[n + 1].time \in Int,
         n # 0 => p[n].time \in Int /\ p[n].time <= p[n + 1].time,
         NEW rest, NEW current, NEW next, NEW newkey,
         IsFrame(t, p, n, sc, k, image, rest, current, next, newkey)
  PROVE  /\ SceneAgrees(t, p, n + 1, Rebuilt(current, p[n + 1].view), k + Due(rest, p[n + 1].time), next, newkey)
         /\ ShowsFrame(t, p, next, n + 1)
         /\ Grown(sc, current) /\ next.meshes = MeshesOf(current.block, NextVisible(current, p[n + 1].view))
<1> DEFINE now == p[n + 1]
           visible == NextVisible(current, now.view)
           r == Rebuilt(current, now.view)
<1>0. /\ rest = SubSeq(t.frames, k + 1, Len(t.frames)) /\ current = AppliedUntil(sc, rest, now.time)
      /\ next = [meshes |-> MeshesAfter(image.meshes, current, now.view), movers |-> Movers(current, now.time)]
      /\ newkey = VisualKey(current, now.view, now.time)
  BY DEF IsFrame
<1>1. Follows(t, sc, k) /\ CacheOK(sc) /\ sc.dirty \cap sc.visible = {} BY DEF SceneAgrees
<1>2. \A i \in 1 .. k : t.frames[i].stamp <= now.time
  <2>1. CASE n = 0
    <3>1. k = 0 BY <2>1 DEF SceneAgrees
    <3> QED BY <3>1
  <2>2. CASE n # 0
    <3>1. k = Due(t.frames, p[n].time) BY <2>2 DEF SceneAgrees
    <3>2. Timed(t.frames) /\ p[n].time \in Int BY <2>2, TraceFacts
    <3>3. IsDue(t.frames, p[n].time, k) BY <3>1, <3>2, DueFacts
    <3>4. k \in 0 .. Len(t.frames) /\ \A i \in 1 .. k : t.frames[i].stamp <= p[n].time BY <3>3 DEF IsDue
    <3>5. Len(t.frames) \in Nat /\ \A i \in 1 .. Len(t.frames) : t.frames[i].stamp \in Int BY <3>2, TimedFacts
    <3>6. \A i \in 1 .. k : i \in 1 .. Len(t.frames) BY <3>4, <3>5
    <3> QED BY <2>2, <3>2, <3>4, <3>5, <3>6
  <2> QED BY <2>1, <2>2
<1>3. /\ Grown(sc, current) /\ k + Due(rest, now.time) = Due(t.frames, now.time)
      /\ Follows(t, current, Due(t.frames, now.time)) /\ Same(SceneAt(t, now.time), current)
  BY <1>0, <1>1, <1>2, FollowsOn
<1>4. IsScene(current) /\ CacheOK(current) BY <1>1, <1>3, GrownCache DEF Grown
<1>5. image.meshes = MeshesOf(sc.block, sc.visible)
  <2>1. image = [meshes |-> MeshesOf(sc.block, sc.visible), movers |-> image.movers] BY DEF SceneAgrees
  <2> QED BY <2>1
<1>6. Usable(image.meshes, current) BY <1>1, <1>3, <1>5, GrownUsable
<1>7. next.meshes = MeshesOf(current.block, visible) /\ next.movers = Movers(current, now.time)
  <2>1. MeshesAfter(image.meshes, current, now.view) = MeshesOf(current.block, visible) BY <1>4, <1>6, MeshesRight
  <2> QED BY <1>0, <2>1
<1>8. /\ IsScene(r) /\ r.block = current.block /\ r.pistons = current.pistons /\ r.generation = current.generation
      /\ r.visible = visible /\ r.key = now.view /\ r.dirty = current.dirty \ ToRebuild(current, now.view)
  <2>1. IsScene(r) BY ONLY <1>4, RebuiltFields
  <2>2. r.block = current.block BY ONLY <1>4, RebuiltFields
  <2>3. r.pistons = current.pistons BY ONLY <1>4, RebuiltFields
  <2>4. r.generation = current.generation BY ONLY <1>4, RebuiltFields
  <2>5. r.visible = visible BY ONLY <1>4, RebuiltVisible
  <2>6. r.key = now.view BY ONLY <1>4, RebuiltVisible
  <2>7. r.dirty = current.dirty \ ToRebuild(current, now.view) BY ONLY <1>4, RebuiltFields
  <2> HIDE DEF r, visible, now
  <2> QED BY <2>1, <2>2, <2>3, <2>4, <2>5, <2>6, <2>7
<1>9. CacheOK(r) BY <1>4, RebuiltCache
<1>10. r.dirty \cap r.visible = {} BY <1>8 DEF ToRebuild
<1>11. current.key = sc.key /\ current.visible = sc.visible BY <1>3 DEF Grown
<1>12. visible = InView[now.view] \cap Occupied(BlocksThen(t, p, n + 1))
  <2>1. CASE n = 0
    <3>1. sc.key = p[1].view /\ sc.visible = InView[sc.key] \cap Occupied(BlocksThen(t, p, 1)) /\ n + 1 = 1
      BY <2>1 DEF SceneAgrees
    <3> QED BY <1>11, <3>1 DEF NextVisible
  <2>2. CASE n # 0 /\ now.view = p[n].view
    <3>1. sc.key = p[n].view /\ sc.visible = InView[sc.key] \cap Occupied(BlocksThen(t, p, n))
      BY <2>2 DEF SceneAgrees
    <3>2. SinceView(p, n + 1) = SinceView(p, n) BY <2>2, SinceNext
    <3>3. BlocksThen(t, p, n + 1) = BlocksThen(t, p, n) BY <3>2 DEF BlocksThen
    <3> QED BY <1>11, <2>2, <3>1, <3>3 DEF NextVisible
  <2>3. CASE n # 0 /\ now.view # p[n].view
    <3>1. sc.key = p[n].view BY <2>3 DEF SceneAgrees
    <3>2. SinceView(p, n + 1) = n + 1 /\ n + 1 # 1 BY <2>3, SinceNext
    <3>3. BlocksThen(t, p, n + 1) = SceneAt(t, now.time).block BY <3>2 DEF BlocksThen
    <3>4. SceneAt(t, now.time).block = current.block BY <1>3 DEF Same
    <3>5. visible = InView[now.view] \cap Occupied(current.block) BY <1>11, <2>3, <3>1 DEF NextVisible
    <3> QED BY <3>3, <3>4, <3>5
  <2> QED BY <2>1, <2>2, <2>3
<1>13. ShowsFrame(t, p, next, n + 1) BY <1>3, <1>7, <1>12, PictureRight
<1>14. Same(current, r) BY <1>8 DEF Same
<1>15. Movers(r, now.time) = Movers(current, now.time) /\ Animating(r, now.time) = Animating(current, now.time)
  BY <1>14, SameMovers
<1>16. newkey = VisualKey(r, now.view, now.time) BY <1>0, <1>8, <1>15 DEF VisualKey
<1>17. Follows(t, r, Due(t.frames, now.time)) BY <1>3, <1>8, FollowsAlike
<1>18. Same(SceneAt(t, now.time), r) BY <1>3, <1>14 DEF Same
<1>19. next = [meshes |-> MeshesOf(r.block, r.visible), movers |-> next.movers]
  BY <1>0, <1>7, <1>8
<1>20. n + 1 # 0 /\ (IF n + 1 = 0 THEN 1 ELSE n + 1) = n + 1 OBVIOUS
<1> HIDE DEF r, visible, now
<1>21. SceneAgrees(t, p, n + 1, r, k + Due(rest, now.time), next, newkey)
  BY <1>3, <1>7, <1>8, <1>9, <1>10, <1>12, <1>15, <1>16, <1>17, <1>18, <1>19, <1>20 DEF SceneAgrees, now
<1> QED BY <1>3, <1>7, <1>13, <1>21 DEF r, visible, now

\* With the key of the frame before, the picture is the one before.
LEMMA KeyStep ==
  ASSUME NEW t \in Traces, NEW p, NEW n \in Nat, NEW sc, NEW k, NEW image, NEW key,
         SceneAgrees(t, p, n, sc, k, image, key),
         n # 0 => p[n].time \in 0 .. MaxFrames * MaxPause /\ p[n].time \in Nat,
         p[n + 1].time \in 0 .. MaxFrames * MaxPause, p[n + 1].time \in Nat,
         NEW current, Grown(sc, current), Same(SceneAt(t, p[n + 1].time), current),
         NEW next, next = [meshes |-> MeshesOf(current.block, NextVisible(current, p[n + 1].view)),
                           movers |-> Movers(current, p[n + 1].time)],
         VisualKey(current, p[n + 1].view, p[n + 1].time) = key
  PROVE  n # 0 /\ next = image
<1> DEFINE x == p[n].time
           y == p[n + 1].time
<1>1. n # 0
  <2>1. <<p[n + 1].view, current.generation, IF Animating(current, y) THEN y ELSE -1>> # <<>> OBVIOUS
  <2>2. key # NoKey BY <2>1 DEF VisualKey, NoKey
  <2> QED BY <2>2 DEF SceneAgrees
<1>2. key = VisualKey(sc, p[n].view, x) /\ image.movers = Movers(sc, x) /\ Same(SceneAt(t, x), sc)
      /\ sc.key = p[n].view /\ image = [meshes |-> MeshesOf(sc.block, sc.visible), movers |-> image.movers]
      /\ IsScene(sc)
  BY <1>1 DEF SceneAgrees, Follows
<1>3. p[n].view = p[n + 1].view /\ sc.generation = current.generation
      /\ (IF Animating(sc, x) THEN x ELSE -1) = (IF Animating(current, y) THEN y ELSE -1)
  BY <1>2 DEF VisualKey
<1>4. current.block = sc.block /\ current.pistons = sc.pistons /\ current.visible = sc.visible /\ current.key = sc.key
  BY <1>3 DEF Grown
<1>5. NextVisible(current, p[n + 1].view) = sc.visible BY <1>2, <1>3, <1>4 DEF NextVisible
<1>6. sc.pistons \subseteq Movements BY <1>2 DEF IsScene
<1>7. ASSUME NEW m \in sc.pistons PROVE x < m.settle /\ y < m.settle
  <2>1. SceneAt(t, x).pistons = sc.pistons /\ SceneAt(t, y).pistons = sc.pistons BY <1>2, <1>4 DEF Same
  <2>2. x \in 0 .. MaxFrames * MaxPause /\ y \in 0 .. MaxFrames * MaxPause BY <1>1
  <2> QED BY <1>7, <2>1, <2>2, Settling
<1>8. x \in Nat /\ y \in Nat BY <1>1
<1> HIDE DEF x, y
<1>9. Movers(sc, x) = Movers(current, y) BY <1>3, <1>4, <1>6, <1>7, <1>8, SameKeyMovers
<1>10. next = [meshes |-> MeshesOf(sc.block, sc.visible), movers |-> Movers(sc, x)] BY <1>4, <1>5, <1>9 DEF y
<1> QED BY <1>1, <1>2, <1>10

\* The picture of the frame before goes on.
Repeated ==
  /\ groups' = [groups EXCEPT ![Len(groups)] = @ + 1]
  /\ UNCHANGED <<slots, nextSlot, inFlight, sending>>

LEMMA FrameScene ==
  ASSUME TypeOK, SceneInv, Frame
  PROVE  /\ SceneInv' /\ ShowsFrame(trace, plan, shown', Len(plan))
         /\ (Framed # 0 /\ shown' = shown /\ Repeated) \/ Rendered(shown')
<1> DEFINE n == Len(plan) - 1
           now == plan[Len(plan)]
           rest == SubSeq(trace.frames, applied + 1, Len(trace.frames))
           current == AppliedUntil(scene, rest, now.time)
           next == [meshes |-> MeshesAfter(shown.meshes, current, now.view), movers |-> Movers(current, now.time)]
           key == VisualKey(current, now.view, now.time)
<1>1. /\ applied' = applied + Due(rest, now.time) /\ scene' = Rebuilt(current, now.view)
      /\ shown' = next /\ lastKey' = key
  BY DEF Frame
<1>2. IF key = lastKey THEN Repeated ELSE Rendered(next) BY DEF Frame, Repeated
<1>3. status = "frame" /\ status' = "send" /\ trace' = trace /\ plan' = plan BY DEF Frame
<1>4. Len(plan) \in Nat /\ n \in Nat /\ n + 1 = Len(plan) /\ Len(plan) \in 1 .. Len(plan)
  BY DEF TypeOK
<1>5. trace \in Traces BY DEF TypeOK
<1>6. SceneAgrees(trace, plan, n, scene, applied, shown, lastKey) BY <1>3 DEF SceneInv, Going, Framed
<1>7. now.time \in 0 .. MaxFrames * MaxPause /\ now.time \in Nat /\ now.time \in Int BY <1>4, TimeInRange
<1>8. n # 0 => /\ plan[n].time \in 0 .. MaxFrames * MaxPause /\ plan[n].time \in Nat /\ plan[n].time \in Int
               /\ plan[n].time <= now.time
  <2> SUFFICES ASSUME n # 0 PROVE /\ plan[n].time \in 0 .. MaxFrames * MaxPause /\ plan[n].time \in Nat
                                  /\ plan[n].time \in Int /\ plan[n].time <= now.time
    OBVIOUS
  <2>1. n \in 1 .. Len(plan) /\ n \in 1 .. Len(plan) - 1 BY <1>4
  <2>2. plan[n].time <= plan[n + 1].time BY <2>1 DEF TypeOK
  <2> QED BY <1>4, <2>1, <2>2, TimeInRange
<1>9. now = plan[n + 1] BY <1>4
<1> HIDE DEF n, rest, current, next, key
<1>10. /\ SceneAgrees(trace, plan, n + 1, Rebuilt(current, now.view), applied + Due(rest, now.time), next, key)
       /\ ShowsFrame(trace, plan, next, n + 1)
       /\ Grown(scene, current) /\ next.meshes = MeshesOf(current.block, NextVisible(current, now.view))
  <2> DEFINE p == plan[n + 1]
  <2>1. IsFrame(trace, plan, n, scene, applied, shown, rest, current, next, key)
    BY <1>9 DEF IsFrame, rest, current, next, key
  <2>2. p.time \in Int /\ (n # 0 => plan[n].time \in Int /\ plan[n].time <= p.time) BY <1>7, <1>8, <1>9
  <2>3. /\ SceneAgrees(trace, plan, n + 1, Rebuilt(current, p.view), applied + Due(rest, p.time), next, key)
        /\ ShowsFrame(trace, plan, next, n + 1)
        /\ Grown(scene, current) /\ next.meshes = MeshesOf(current.block, NextVisible(current, p.view))
    BY ONLY <1>4, <1>5, <1>6, <2>1, <2>2, SceneStep
  <2> QED BY <1>9, <2>3
<1>11. ShowsFrame(trace, plan, shown', Len(plan)) BY <1>1, <1>4, <1>10
<1>12. Going' /\ Framed' = n + 1 BY <1>3, <1>4 DEF Going, Framed
<1>13. SceneInv'
  <2>1. SceneAgrees(trace', plan', Framed', scene', applied', shown', lastKey')
    BY <1>1, <1>3, <1>10, <1>12
  <2> QED BY <2>1 DEF SceneInv
<1>14. CASE key = lastKey
  <2>1. next = [meshes |-> next.meshes, movers |-> Movers(current, now.time)] BY DEF next
  <2>2. next = [meshes |-> MeshesOf(current.block, NextVisible(current, now.view)),
                movers |-> Movers(current, now.time)]
    BY <1>10, <2>1
  <2>3. Same(SceneAt(trace, now.time), current)
    <3>1. SceneAgrees(trace, plan, n + 1, Rebuilt(current, now.view), applied + Due(rest, now.time), next, key)
      BY <1>10
    <3>2. Same(SceneAt(trace, now.time), Rebuilt(current, now.view))
      <4>1. n + 1 # 0 BY <1>4
      <4> QED BY <1>9, <3>1, <4>1 DEF SceneAgrees
    <3>3. IsScene(current) BY <1>10 DEF Grown
    <3>4. Rebuilt(current, now.view).block = current.block BY ONLY <3>3, RebuiltFields
    <3>5. Rebuilt(current, now.view).pistons = current.pistons BY ONLY <3>3, RebuiltFields
    <3> QED BY <3>2, <3>4, <3>5 DEF Same
  <2>4. VisualKey(current, now.view, now.time) = lastKey BY <1>14 DEF key
  <2>5. n # 0 /\ next = shown
    BY <1>4, <1>5, <1>6, <1>7, <1>8, <1>9, <1>10, <2>2, <2>3, <2>4, KeyStep
  <2>6. Framed = n BY <1>3 DEF Framed, n
  <2> QED BY <1>1, <1>2, <1>11, <1>13, <1>14, <2>5, <2>6
<1>15. CASE key # lastKey BY <1>1, <1>2, <1>11, <1>13, <1>15
<1> QED BY <1>14, <1>15

-----------------------------------------------------------------------------
(* The slots and what is on its way.                                       *)

IsFlight(q, fl, sl, gr) == q = [i \in 1 .. Len(fl) |-> <<sl[fl[i]], gr[i]>>]

LEMMA PairsSeq ==
  ASSUME NEW fl, IsSeq(fl), NEW sl, NEW gr, NEW q, IsFlight(q, fl, sl, gr)
  PROVE  /\ IsSeq(q) /\ Len(q) = Len(fl) /\ Len(fl) \in Nat
         /\ \A i \in 1 .. Len(fl) : q[i] = <<sl[fl[i]], gr[i]>>
<1>1. Len(fl) \in Nat BY SeqParts
<1>2. q = [i \in 1 .. Len(fl) |-> q[i]] /\ \A i \in 1 .. Len(fl) : q[i] = <<sl[fl[i]], gr[i]>>
  BY DEF IsFlight
<1>3. IsSeq(q) /\ Len(q) = Len(fl) BY ONLY <1>1, <1>2, SeqOf
<1> QED BY <1>1, <1>2, <1>3

LEMMA FlightSeq ==
  ASSUME RingInv
  PROVE  /\ IsSeq(Flight) /\ Len(Flight) = Len(inFlight) /\ Len(inFlight) \in Nat
         /\ \A i \in 1 .. Len(inFlight) : Flight[i] = <<slots[inFlight[i]], groups[i]>>
<1>1. IsSeq(inFlight) BY DEF RingInv, Ring
<1>2. IsFlight(Flight, inFlight, slots, groups) BY DEF Flight, IsFlight
<1> QED BY ONLY <1>1, <1>2, PairsSeq

\* A picture is rendered into the next slot.
LEMMA RenderedRing ==
  ASSUME TypeOK, RingInv, NEW image, Rendered(image)
  PROVE  /\ Ring(inFlight', nextSlot') /\ slots' = [i \in 0 .. Slots - 1 |-> slots'[i]] /\ IsSeq(groups')
         /\ Len(groups') = Len(inFlight') /\ inFlight' # <<>>
         /\ slots'[inFlight'[Len(inFlight')]] = image
         /\ LET l == Len(Younger(inFlight))
            IN /\ l \in Nat /\ Len(inFlight') = l + 1
               /\ slots'[inFlight'[l + 1]] = image /\ groups'[l + 1] = 1
               /\ l = IF Len(inFlight) = Slots THEN Len(inFlight) - 1 ELSE Len(inFlight)
               /\ \A i \in 1 .. l : LET j == IF Len(inFlight) = Slots THEN i + 1 ELSE i
                                    IN slots'[inFlight'[i]] = slots[inFlight[j]] /\ groups'[i] = groups[j]
<1> DEFINE l == Len(Younger(inFlight))
<1>1. /\ Ring(inFlight, nextSlot) /\ slots = [i \in 0 .. Slots - 1 |-> slots[i]] /\ Len(groups) = Len(inFlight)
      /\ IsSeq(groups)
  BY DEF RingInv, TypeOK
<1>2. inFlight' = Append(Younger(inFlight), nextSlot) /\ nextSlot' = (nextSlot + 1) % Slots
  BY DEF Rendered, Full, Younger
<1>3. slots' = [slots EXCEPT ![nextSlot] = image] BY DEF Rendered
<1>4. groups' = Append(Younger(groups), 1) BY <1>1 DEF Rendered, Full, Younger
<1>5. IsSeq(inFlight) /\ Len(inFlight) <= Slots /\ nextSlot \in 0 .. Slots - 1 /\ Len(groups) <= Slots
  BY <1>1 DEF Ring
<1>6. /\ Ring(inFlight', nextSlot') /\ Len(inFlight') = l + 1 /\ inFlight'[Len(inFlight')] = nextSlot
      /\ \A i \in 1 .. l : inFlight'[i] = Younger(inFlight)[i] /\ inFlight'[i] # nextSlot
  BY <1>1, <1>2, RingOn
<1>7. /\ l \in Nat /\ l = (IF Len(inFlight) = Slots THEN Len(inFlight) - 1 ELSE Len(inFlight))
      /\ \A i \in 1 .. l : Younger(inFlight)[i] = inFlight[IF Len(inFlight) = Slots THEN i + 1 ELSE i]
  BY <1>5, YoungerParts
<1>8. /\ IsSeq(Younger(groups)) /\ Len(Younger(groups)) = (IF Len(groups) = Slots THEN Len(groups) - 1 ELSE Len(groups))
      /\ \A i \in 1 .. Len(Younger(groups)) : Younger(groups)[i] = groups[IF Len(groups) = Slots THEN i + 1 ELSE i]
  BY <1>1, <1>5, YoungerParts
<1>9. Len(Younger(groups)) = l BY <1>1, <1>7, <1>8
<1> HIDE DEF l
<1>10. /\ IsSeq(groups') /\ Len(groups') = l + 1 /\ groups'[l + 1] = 1
       /\ \A i \in 1 .. l : groups'[i] = Younger(groups)[i]
  BY <1>4, <1>8, <1>9, SeqAppend
<1>11. \A i \in 1 .. l : groups'[i] = groups[IF Len(inFlight) = Slots THEN i + 1 ELSE i]
  BY <1>1, <1>8, <1>9, <1>10
<1>12. slots' = [i \in 0 .. Slots - 1 |-> slots'[i]] /\ slots'[nextSlot] = image
       /\ \A x \in 0 .. Slots - 1 : x # nextSlot => slots'[x] = slots[x]
  BY <1>1, <1>3, <1>5
<1>13. \A i \in 1 .. l : inFlight'[i] \in 0 .. Slots - 1
  <2>1. \A i \in 1 .. l : i \in 1 .. l + 1 BY <1>7
  <2> QED BY <1>6, <2>1 DEF Ring
<1>14. \A i \in 1 .. l : slots'[inFlight'[i]] = slots[inFlight[IF Len(inFlight) = Slots THEN i + 1 ELSE i]]
  BY <1>6, <1>7, <1>12, <1>13
<1>15. inFlight' # <<>>
  <2>1. Len(inFlight') # 0 /\ IsSeq(inFlight') BY <1>6, <1>7 DEF Ring
  <2> QED BY <2>1, SeqEmpty
<1>16. slots'[inFlight'[l + 1]] = image /\ slots'[inFlight'[Len(inFlight')]] = image BY <1>6, <1>12
<1> QED BY <1>6, <1>7, <1>10, <1>11, <1>12, <1>14, <1>15, <1>16 DEF l

LEMMA RenderedQueue ==
  ASSUME TypeOK, RingInv, RingInv', NEW image, Rendered(image), NEW a, NEW n \in Nat, Spans(trace, plan, Flight, a, n),
         ShowsFrame(trace, plan, image, n)
  PROVE  \E mid : Spans(trace, plan, sending', a, mid) /\ Spans(trace, plan, Flight', mid, n + 1)
<1> DEFINE l == Len(Younger(inFlight))
           m == Len(inFlight)
<1>1. /\ l \in Nat /\ Len(inFlight') = l + 1
      /\ slots'[inFlight'[l + 1]] = image /\ groups'[l + 1] = 1
      /\ l = (IF m = Slots THEN m - 1 ELSE m)
      /\ \A i \in 1 .. l : LET j == IF m = Slots THEN i + 1 ELSE i
                           IN slots'[inFlight'[i]] = slots[inFlight[j]] /\ groups'[i] = groups[j]
  BY RenderedRing
<1>2. /\ IsSeq(Flight) /\ Len(Flight) = m /\ m \in Nat
      /\ \A i \in 1 .. m : Flight[i] = <<slots[inFlight[i]], groups[i]>>
  BY FlightSeq
<1>3. /\ IsSeq(Flight') /\ Len(Flight') = Len(inFlight')
      /\ \A i \in 1 .. Len(inFlight') : Flight'[i] = <<slots'[inFlight'[i]], groups'[i]>>
  <2>1. IsSeq(inFlight') BY DEF RingInv, Ring
  <2>2. IsFlight(Flight', inFlight', slots', groups') BY DEF Flight, IsFlight
  <2> QED BY ONLY <2>1, <2>2, PairsSeq
<1> HIDE DEF l, m
<1>4. a \in Nat BY SpansOrder
<1>5. Flight'[l + 1] = <<image, 1>> /\ Flight'[l + 1][1] = image /\ Flight'[l + 1][2] = 1
  <2>1. l + 1 \in 1 .. l + 1 BY <1>1
  <2> QED BY <1>1, <1>3, <2>1
<1>6. ASSUME NEW q, NEW mid, Spans(trace, plan, q, mid, n), Len(q) = l, \A i \in 1 .. l : q[i] = Flight'[i]
      PROVE  Spans(trace, plan, Flight', mid, n + 1)
  <2>1. \A k \in n .. n + 1 - 1 : ShowsFrame(trace, plan, Flight'[l + 1][1], k)
    <3>1. n + 1 - 1 = n BY SMT
    <3> QED BY <1>5, <3>1
  <2>2. 1 \in Nat \ {0} OBVIOUS
  <2>3. IsSeq(Flight') /\ Len(Flight') = Len(q) + 1 /\ \A i \in 1 .. Len(q) : Flight'[i] = q[i] BY <1>1, <1>3, <1>6
  <2>4. Flight'[Len(q) + 1][2] = 1 /\ \A k \in n .. n + 1 - 1 : ShowsFrame(trace, plan, Flight'[Len(q) + 1][1], k)
    BY <1>5, <1>6, <2>1
  <2> QED BY ONLY <1>6, <2>2, <2>3, <2>4, SpansLonger, Zenon
<1>7. CASE m # Slots
  <2>1. sending' = <<>> BY <1>7 DEF Rendered, Completed, Full, m
  <2>2. Spans(trace, plan, sending', a, a) BY <1>4, <2>1, SpansNothing
  <2>3. l = m /\ \A i \in 1 .. l : Flight[i] = Flight'[i]
    <3>1. l = m BY <1>1, <1>7
    <3>2. \A i \in 1 .. l : i \in 1 .. m /\ i \in 1 .. l + 1 BY <1>1, <3>1
    <3>3. \A i \in 1 .. l : slots'[inFlight'[i]] = slots[inFlight[i]] /\ groups'[i] = groups[i] BY <1>1, <1>7
    <3>4. ASSUME NEW i \in 1 .. l PROVE Flight[i] = Flight'[i]
      <4>1. Flight[i] = <<slots[inFlight[i]], groups[i]>> BY <1>2, <3>2
      <4>2. Flight'[i] = <<slots'[inFlight'[i]], groups'[i]>> BY <1>1, <1>3, <3>2
      <4> QED BY <3>3, <4>1, <4>2
    <3> QED BY <3>1, <3>4
  <2>4. Spans(trace, plan, Flight', a, n + 1) BY <1>2, <1>6, <2>3
  <2> QED BY <2>2, <2>4
<1>8. CASE m = Slots
  <2> DEFINE r == [i \in 1 .. m - 1 |-> Flight[i + 1]]
             first == Flight[1]
             mid == a + first[2]
  <2>1. m # 0 /\ m - 1 \in Nat /\ l = m - 1 /\ 1 \in 1 .. m BY <1>1, <1>2, <1>8, VideoAssumption
  <2>2. IsSeq(r) /\ Len(r) = m - 1 /\ \A i \in 1 .. m - 1 : r[i] = Flight[i + 1]
    <3>1. r = [i \in 1 .. m - 1 |-> r[i]] /\ \A i \in 1 .. m - 1 : r[i] = Flight[i + 1] OBVIOUS
    <3> HIDE DEF r
    <3> QED BY <2>1, <3>1, SeqOf
  <2> HIDE DEF r
  <2>3. Flight # <<>> BY <1>2, <2>1, SeqEmpty
  <2>4. /\ first[2] \in Nat \ {0} /\ Spans(trace, plan, r, mid, n)
        /\ \A k \in a .. a + first[2] - 1 : ShowsFrame(trace, plan, first[1], k)
    BY <1>2, <2>2, <2>3, SpansShorter
  <2>5. first = <<slots[inFlight[1]], groups[1]>> BY <1>2, <2>1
  <2>6. sending' = <<first>>
    <3>1. Full BY <1>8 DEF Full, m
    <3>2. IsSeq(inFlight) /\ IsSeq(groups) /\ Len(groups) = m BY DEF RingInv, Ring, TypeOK, m
    <3>3. inFlight # <<>> /\ groups # <<>> BY <2>1, <3>2, SeqEmpty DEF m
    <3>4. Head(inFlight) = inFlight[1] /\ Head(groups) = groups[1] BY <3>2, <3>3, SeqTail
    <3>5. sending' = <<<<slots[Head(inFlight)], Head(groups)>>>> BY <3>1 DEF Rendered, Completed
    <3> HIDE DEF first
    <3> QED BY <2>5, <3>4, <3>5
  <2> HIDE DEF first
  <2>7. Spans(trace, plan, sending', a, mid)
    <3> DEFINE none == <<>>
    <3>1. Spans(trace, plan, none, a, a) /\ IsSeq(none) /\ Len(none) = 0 BY <1>4, SpansNothing, NothingIsSeq
    <3>2. IsSeq(sending') /\ Len(sending') = 1 /\ sending'[1] = first BY <2>6, SeqOne
    <3> HIDE DEF none
    <3>3. Len(sending') = Len(none) + 1 /\ Len(none) + 1 = 1 /\ \A i \in 1 .. Len(none) : sending'[i] = none[i]
      BY <3>1, <3>2
    <3>4. \A k \in a .. a + first[2] - 1 : ShowsFrame(trace, plan, sending'[1][1], k) BY <2>4, <3>2
    <3>5. first[2] \in Nat \ {0} /\ sending'[Len(none) + 1][2] = first[2] BY <2>4, <3>2, <3>3
    <3> QED BY <3>1, <3>2, <3>3, <3>4, <3>5, SpansLonger
  <2> HIDE DEF mid
  <2>8. \A i \in 1 .. l : r[i] = Flight'[i]
    <3> TAKE i \in 1 .. l
    <3>1. i \in 1 .. m - 1 /\ i + 1 \in 1 .. m /\ i \in 1 .. l + 1 BY <1>2, <2>1
    <3>2. slots'[inFlight'[i]] = slots[inFlight[i + 1]] /\ groups'[i] = groups[i + 1] BY <1>1, <1>8
    <3>3. Flight'[i] = <<slots'[inFlight'[i]], groups'[i]>> BY <1>1, <1>3, <3>1
    <3> QED BY <1>2, <2>2, <3>1, <3>2, <3>3
  <2>9. Spans(trace, plan, Flight', mid, n + 1) BY <1>6, <2>1, <2>2, <2>4, <2>8
  <2> QED BY <2>7, <2>9
<1> QED BY <1>7, <1>8

\* One frame more of the last picture.
LEMMA RepeatedQueue ==
  ASSUME RingInv, Framed # 0, Going, Repeated, IsSeq(groups), NEW a, NEW n \in Nat, Spans(trace, plan, Flight, a, n),
         ShowsFrame(trace, plan, shown, n)
  PROVE  Spans(trace, plan, Flight', a, n + 1) /\ IsSeq(groups') /\ Len(groups') = Len(groups)
<1> DEFINE m == Len(inFlight)
<1>1. /\ IsSeq(Flight) /\ Len(Flight) = m /\ m \in Nat
      /\ \A i \in 1 .. m : Flight[i] = <<slots[inFlight[i]], groups[i]>>
  BY FlightSeq
<1>2. IsSeq(inFlight) /\ inFlight # <<>> /\ slots[inFlight[m]] = shown /\ Len(groups) = m
  BY DEF RingInv, Ring
<1>3. m # 0 BY <1>2, SeqEmpty
<1>4. groups' = [groups EXCEPT ![Len(groups)] = @ + 1] /\ slots' = slots /\ inFlight' = inFlight BY DEF Repeated
<1>5. IsFlight(Flight', inFlight', slots', groups') BY DEF Flight, IsFlight
<1>6. /\ IsSeq(Flight') /\ Len(Flight') = Len(inFlight')
      /\ \A i \in 1 .. Len(inFlight') : Flight'[i] = <<slots'[inFlight'[i]], groups'[i]>>
  <2>1. IsSeq(inFlight') BY <1>2, <1>4
  <2> QED BY ONLY <1>5, <2>1, PairsSeq
<1>7. Len(inFlight') = m BY <1>4
<1> HIDE DEF m
<1>8. groups = [i \in 1 .. m |-> groups[i]] BY <1>2, SeqParts
<1>9. /\ groups' = [i \in 1 .. m |-> groups'[i]]
      /\ groups'[m] = groups[m] + 1 /\ \A i \in 1 .. m - 1 : groups'[i] = groups[i]
  <2>1. m \in 1 .. m /\ \A i \in 1 .. m - 1 : i \in 1 .. m /\ i # m BY <1>1, <1>3
  <2>2. groups' = [groups EXCEPT ![m] = groups[m] + 1] BY <1>2, <1>4
  <2> QED BY <1>8, <2>1, <2>2
<1>10. IsSeq(groups') /\ Len(groups') = m BY <1>1, <1>9, SeqOf
<1>11. ASSUME NEW i \in 1 .. m - 1 PROVE Flight'[i] = Flight[i]
  <2>1. i \in 1 .. m BY <1>1
  <2>2. Flight'[i] = <<slots[inFlight[i]], groups'[i]>> BY <1>4, <1>6, <1>7, <2>1
  <2>3. groups'[i] = groups[i] BY <1>9
  <2> QED BY <1>1, <2>1, <2>2, <2>3
<1>12. Flight'[m][1] = Flight[m][1] /\ Flight'[m][2] = Flight[m][2] + 1 /\ Flight[m][1] = shown
  <2>1. m \in 1 .. m BY <1>1, <1>3
  <2>2. Flight'[m] = <<slots[inFlight[m]], groups'[m]>> BY <1>4, <1>6, <1>7, <2>1
  <2>3. Flight[m] = <<slots[inFlight[m]], groups[m]>> BY <1>1, <2>1
  <2> QED BY <1>2, <1>9, <2>2, <2>3
<1>13. Spans(trace, plan, Flight', a, n + 1)
  <2>1. ShowsFrame(trace, plan, Flight[m][1], n) BY <1>12
  <2> QED BY <1>1, <1>3, <1>6, <1>7, <1>11, <1>12, <2>1, SpansRepeat
<1> QED BY <1>2, <1>10, <1>13

LEMMA FramePreserves == IInv /\ Frame => IInv'
<1> SUFFICES ASSUME IInv, Frame PROVE IInv'
  OBVIOUS
<1>1. TypeOK /\ SceneInv /\ RingInv /\ QueueInv /\ Delivered /\ EndInv BY DEF IInv
<1>2. /\ SceneInv' /\ ShowsFrame(trace, plan, shown', Len(plan))
      /\ (Framed # 0 /\ shown' = shown /\ Repeated) \/ Rendered(shown')
  BY <1>1, FrameScene
<1>3. status = "frame" /\ status' = "send" /\ UNCHANGED <<trace, plan, total, channel, feeder, written, temporary, output>>
  BY DEF Frame
<1>4. Len(plan) \in Nat /\ Len(plan) # 0 /\ Framed = Len(plan) - 1 /\ Framed' = Len(plan) /\ Framed + 1 = Len(plan)
  BY <1>1, <1>3 DEF TypeOK, Framed
<1>5. sending = <<>> /\ IsSeq(sending) /\ Going BY <1>1, <1>3 DEF QueueInv, TypeOK, Going
<1>6. Sent' = Sent BY <1>3 DEF Sent
<1>7. PICK mid : Spans(trace, plan, sending, Sent + 1, mid) /\ Spans(trace, plan, Flight, mid, Framed + 1)
  BY <1>1, <1>3 DEF QueueInv
<1>8. mid = Sent + 1 /\ mid \in Nat BY <1>5, <1>7, SpansOrder
<1>9. Spans(trace, plan, Flight, Sent + 1, Len(plan)) BY <1>4, <1>7, <1>8
<1>10. /\ RingInv' /\ IsSeq(groups') /\ IsSeq(sending') /\ Pairs(sending')
       /\ \E m : Spans(trace, plan, sending', Sent + 1, m) /\ Spans(trace, plan, Flight', m, Len(plan) + 1)
  <2>1. CASE Framed # 0 /\ shown' = shown /\ Repeated
    <3>1. Spans(trace, plan, Flight', Sent + 1, Len(plan) + 1) /\ IsSeq(groups') /\ Len(groups') = Len(groups)
      BY <1>1, <1>2, <1>4, <1>5, <1>9, <2>1, RepeatedQueue DEF TypeOK
    <3>2. sending' = sending /\ slots' = slots /\ nextSlot' = nextSlot /\ inFlight' = inFlight BY <2>1 DEF Repeated
    <3>3. Spans(trace, plan, sending', Sent + 1, Sent + 1) BY <1>5, <1>8, <3>2, SpansNothing
    <3>4. Len(groups') = Len(inFlight') BY <1>1, <3>1, <3>2 DEF RingInv
    <3>5. Ring(inFlight', nextSlot') /\ slots' = [i \in 0 .. Slots - 1 |-> slots'[i]] BY <1>1, <3>2 DEF RingInv
    <3>6. inFlight' # <<>> /\ slots'[inFlight'[Len(inFlight')]] = shown' BY <1>1, <1>5, <2>1, <3>2 DEF RingInv
    <3>7. RingInv' BY <1>3, <3>4, <3>5, <3>6 DEF RingInv
    <3>8. Pairs(sending') BY <1>1, <3>2 DEF TypeOK, Pairs
    <3> QED BY <1>5, <3>1, <3>2, <3>3, <3>7, <3>8
  <2>2. CASE Rendered(shown')
    <3>1. /\ Ring(inFlight', nextSlot') /\ slots' = [i \in 0 .. Slots - 1 |-> slots'[i]] /\ IsSeq(groups')
          /\ Len(groups') = Len(inFlight') /\ inFlight' # <<>> /\ slots'[inFlight'[Len(inFlight')]] = shown'
      BY <1>1, <2>2, RenderedRing
    <3>2. RingInv' BY <1>3, <3>1 DEF RingInv
    <3>3. \E m : Spans(trace, plan, sending', Sent + 1, m) /\ Spans(trace, plan, Flight', m, Len(plan) + 1)
      BY <1>1, <1>2, <1>4, <1>9, <2>2, <3>2, RenderedQueue
    <3>4. IsSeq(sending') /\ Pairs(sending')
      <4>1. sending' = <<>> \/ sending' = <<<<slots[Head(inFlight)], Head(groups)>>>> BY <2>2 DEF Rendered, Completed
      <4>2. CASE sending' = <<>>
        <5>1. Len(sending') = 0 BY <4>2
        <5> QED BY <4>2, <5>1, NothingIsSeq DEF Pairs
      <4>3. CASE sending' = <<<<slots[Head(inFlight)], Head(groups)>>>>
        <5> DEFINE x == <<slots[Head(inFlight)], Head(groups)>>
        <5>1. x = <<x[1], x[2]>> /\ sending' = <<x>> BY <4>3
        <5> HIDE DEF x
        <5>2. IsSeq(sending') /\ Len(sending') = 1 /\ sending'[1] = x BY <5>1, SeqOne
        <5>3. Pairs(sending') BY <5>1, <5>2 DEF Pairs
        <5> QED BY <5>2, <5>3
      <4> QED BY <4>1, <4>2, <4>3
    <3> QED BY <3>1, <3>2, <3>3, <3>4
  <2> QED BY <1>2, <2>1, <2>2
<1>11. TypeOK' BY <1>1, <1>3, <1>10 DEF TypeOK
<1>12. QueueInv' BY <1>3, <1>4, <1>6, <1>10 DEF QueueInv
<1>13. Delivered' BY <1>1, <1>3 DEF Delivered
<1>14. EndInv' BY <1>1, <1>3 DEF EndInv
<1> QED BY <1>2, <1>10, <1>11, <1>12, <1>13, <1>14 DEF IInv

LEMMA SendPreserves == IInv /\ Send => IInv'
<1> SUFFICES ASSUME IInv, Send PROVE IInv'
  OBVIOUS
<1>1. TypeOK /\ SceneInv /\ RingInv /\ QueueInv /\ Delivered /\ EndInv BY DEF IInv
<1>2. /\ status \in {"send", "drain"} /\ sending # <<>> /\ channel' = Append(channel, sending[1][1])
      /\ sending' = (IF sending[1][2] = 1 THEN Tail(sending) ELSE [sending EXCEPT ![1][2] = @ - 1])
      /\ UNCHANGED <<trace, applied, scene, shown, plan, total, lastKey, groups, slots, nextSlot, inFlight,
                     feeder, written, status, temporary, output>>
  BY DEF Send
<1>3. IsSeq(sending) /\ Pairs(sending) /\ IsSeq(channel) /\ IsSeq(written) BY <1>1 DEF TypeOK
<1>4. Len(sending) \in Nat /\ Len(sending) # 0 /\ sending = [i \in 1 .. Len(sending) |-> sending[i]]
  BY <1>2, <1>3, SeqParts, SeqEmpty
<1>5. Len(channel) \in Nat /\ Len(written) \in Nat BY <1>3, SeqParts
<1>6. /\ IsSeq(channel') /\ Len(channel') = Len(channel) + 1 /\ channel'[Len(channel) + 1] = sending[1][1]
      /\ \A i \in 1 .. Len(channel) : channel'[i] = channel[i]
  BY <1>2, <1>3, SeqAppend
<1>7. Sent' = Sent + 1 /\ Sent \in Nat BY <1>2, <1>5, <1>6 DEF Sent
<1>8. PICK mid : Spans(trace, plan, sending, Sent + 1, mid) /\ Spans(trace, plan, Flight, mid, Framed + 1)
  BY <1>1, <1>2 DEF QueueInv
<1>9. Framed = Len(plan) /\ Framed' = Len(plan) /\ Len(plan) \in Nat BY <1>1, <1>2 DEF Framed, TypeOK
<1>10. Sent + 1 < mid /\ mid <= Framed + 1 /\ mid \in Nat BY <1>2, <1>8, SpansOrder
<1>11. Sent + 1 <= Len(plan) BY <1>7, <1>9, <1>10
<1>12. /\ IsSeq(sending') /\ Pairs(sending') /\ Spans(trace, plan, sending', (Sent + 1) + 1, mid)
       /\ ShowsFrame(trace, plan, sending[1][1], Sent + 1)
  <2>1. CASE sending[1][2] = 1
    <3>1. /\ IsSeq(sending') /\ Len(sending') = Len(sending) - 1
          /\ \A i \in 1 .. Len(sending) - 1 : sending'[i] = sending[i + 1]
      BY <1>2, <1>3, <2>1, SeqTail
    <3>2. /\ Spans(trace, plan, sending', (Sent + 1) + sending[1][2], mid)
          /\ \A k \in Sent + 1 .. Sent + 1 + sending[1][2] - 1 : ShowsFrame(trace, plan, sending[1][1], k)
      BY <1>2, <1>8, <3>1, SpansShorter
    <3>3. Sent + 1 \in Sent + 1 .. Sent + 1 + 1 - 1 BY <1>7
    <3>4. Pairs(sending')
      <4>1. \A i \in 1 .. Len(sending) - 1 : i + 1 \in 1 .. Len(sending) BY <1>4
      <4> QED BY <1>3, <3>1, <4>1 DEF Pairs
    <3> QED BY <2>1, <3>1, <3>2, <3>3, <3>4
  <2>2. CASE sending[1][2] # 1
    <3> DEFINE first == sending[1]
               l == Len(sending)
    <3>1. first = <<first[1], first[2]>>
      <4>1. 1 \in 1 .. Len(sending) BY <1>4
      <4> QED BY <1>3, <4>1 DEF Pairs
    <3>2. sending' = [sending EXCEPT ![1] = [first EXCEPT ![2] = first[2] - 1]] BY <1>2, <2>2
    <3> HIDE DEF first
    <3>3. [first EXCEPT ![2] = first[2] - 1] = <<first[1], first[2] - 1>> BY <3>1
    <3>4. sending' = [sending EXCEPT ![1] = <<first[1], first[2] - 1>>] BY <3>2, <3>3
    <3>5. l \in Nat /\ l # 0 /\ sending = [i \in 1 .. l |-> sending[i]] BY <1>4
    <3> HIDE DEF l
    <3>6. sending' = [i \in 1 .. l |-> sending'[i]] /\ sending'[1] = <<first[1], first[2] - 1>>
          /\ \A i \in 2 .. l : sending'[i] = sending[i]
      <4>1. 1 \in 1 .. l /\ \A i \in 2 .. l : i \in 1 .. l /\ i # 1 BY <3>5
      <4> QED BY <3>4, <3>5, <4>1
    <3>7. IsSeq(sending') /\ Len(sending') = l BY <3>5, <3>6, SeqOf
    <3>8. sending'[1][1] = sending[1][1] /\ sending'[1][2] = sending[1][2] - 1 BY <3>6 DEF first
    <3>9. Spans(trace, plan, sending', (Sent + 1) + 1, mid) /\ ShowsFrame(trace, plan, sending[1][1], Sent + 1)
      BY <1>8, <2>2, <3>5, <3>6, <3>7, <3>8, SpansRest DEF l
    <3>10. Pairs(sending')
      <4>1. \A i \in 1 .. l : i = 1 \/ i \in 2 .. l BY <3>5
      <4>2. \A i \in 2 .. l : i \in 1 .. l BY <3>5
      <4>3. \A i \in 2 .. l : sending[i] = <<sending[i][1], sending[i][2]>> BY <1>3, <4>2 DEF Pairs, l
      <4>4. \A i \in 2 .. l : sending'[i] = <<sending'[i][1], sending'[i][2]>> BY <3>6, <4>3
      <4>5. sending'[1] = <<sending'[1][1], sending'[1][2]>> BY <3>6
      <4> QED BY <3>7, <4>1, <4>4, <4>5 DEF Pairs
    <3> QED BY <3>7, <3>9, <3>10
  <2> QED BY <2>1, <2>2
<1>13. Flight' = Flight BY <1>2 DEF Flight
<1>14. QueueInv'
  <2>1. Spans(trace', plan', sending', Sent' + 1, mid) /\ Spans(trace', plan', Flight', mid, Framed' + 1)
    BY <1>2, <1>7, <1>8, <1>9, <1>12, <1>13
  <2>2. status' # "frame" BY <1>2
  <2> QED BY <2>1, <2>2 DEF QueueInv
<1>15. Delivered'
  <2>1. \A j \in 1 .. Len(channel') : j \in 1 .. Len(channel) \/ j = Len(channel) + 1 BY <1>5, <1>6
  <2>2. ASSUME NEW j \in 1 .. Len(channel')
        PROVE  Len(written) + j <= Len(plan) /\ ShowsFrame(trace, plan, channel'[j], Len(written) + j)
    <3>1. CASE j \in 1 .. Len(channel)
      <4>1. Len(written) + j <= Len(plan) /\ ShowsFrame(trace, plan, channel[j], Len(written) + j)
        BY <1>1, <3>1 DEF Delivered
      <4> QED BY <1>6, <3>1, <4>1
    <3>2. CASE j = Len(channel) + 1
      <4>1. Len(written) + j = Sent + 1 BY <1>5, <3>2 DEF Sent
      <4> QED BY <1>6, <1>11, <1>12, <3>2, <4>1
    <3> QED BY <2>1, <3>1, <3>2
  <2>3. \A k \in 1 .. Len(written) : k <= Len(plan) /\ ShowsFrame(trace, plan, written[k], k) BY <1>1 DEF Delivered
  <2> QED BY <1>2, <2>2, <2>3 DEF Delivered
<1>16. TypeOK' BY <1>1, <1>2, <1>6, <1>12 DEF TypeOK
<1>17. SceneInv' BY <1>1, <1>2 DEF SceneInv, Going, Framed
<1>18. RingInv' BY <1>1, <1>2 DEF RingInv, Going, Framed
<1>19. EndInv' BY <1>1, <1>2 DEF EndInv
<1> QED BY <1>14, <1>15, <1>16, <1>17, <1>18, <1>19 DEF IInv

LEMMA PlanPreserves == IInv /\ Plan => IInv'
<1> SUFFICES ASSUME IInv, Plan PROVE IInv'
  OBVIOUS
<1>1. TypeOK /\ SceneInv /\ RingInv /\ QueueInv /\ Delivered /\ EndInv BY DEF IInv
<1>2. /\ status = "send" /\ sending = <<>> /\ Len(plan) < total /\ status' = "frame"
      /\ UNCHANGED <<trace, applied, scene, shown, total, lastKey, groups, slots, nextSlot,
                     inFlight, sending, channel, feeder, written, temporary, output>>
  BY DEF Plan
<1> DEFINE n == Len(plan)
<1>3. PICK view \in Views, pause \in 0 .. MaxPause : plan' = Append(plan, [time |-> plan[n].time + pause, view |-> view])
  BY DEF Plan
<1>4. IsSeq(plan) /\ n \in Nat /\ n # 0 /\ total \in Nat /\ n < total
  <2>1. total \in Nat BY <1>1, VideoAssumption DEF TypeOK
  <2> QED BY <1>1, <1>2, <2>1 DEF TypeOK
<1>5. /\ IsSeq(plan') /\ Len(plan') = n + 1 /\ (\A i \in 1 .. n : plan'[i] = plan[i])
      /\ plan'[n + 1] = [time |-> plan[n].time + pause, view |-> view]
  BY <1>3, <1>4, SeqAppend
<1> HIDE DEF n
<1>6. Framed = n /\ Framed' = n BY <1>2, <1>4, <1>5 DEF Framed, n
<1>7. \A k \in 1 .. n : /\ \A t : BlocksThen(t, plan, k) = BlocksThen(t, plan', k)
                        /\ \A t : \A image : ShowsFrame(t, plan, image, k) = ShowsFrame(t, plan', image, k)
  <2> TAKE k \in 1 .. n
  <2>1. k \in Nat \ {0} /\ \A j \in 1 .. k : j \in 1 .. n BY <1>4
  <2>2. \A j \in 1 .. k : plan[j] = plan'[j] BY <1>5, <2>1
  <2> QED BY <2>1, <2>2, PlannedStays
<1>8. TypeOK'
  <2>1. \A i \in 1 .. n + 1 : i \in 1 .. n \/ i = n + 1 BY <1>4
  <2>2. n \in 1 .. n BY <1>4
  <2>3. plan[n].time \in 0 .. n * MaxPause BY <1>1, <2>2 DEF TypeOK, n
  <2>4. MaxPause \in Nat BY VideoAssumption
  <2>5. plan'[n + 1].time = plan[n].time + pause BY <1>5
  <2>6. plan'[n + 1].time \in 0 .. (n + 1) * MaxPause /\ plan[n].time <= plan'[n + 1].time
    <3> DEFINE x == n * MaxPause
    <3>1. (n + 1) * MaxPause = x + MaxPause /\ x \in Nat BY <1>4, <2>4
    <3>2. plan[n].time \in 0 .. x BY <2>3
    <3> HIDE DEF x
    <3> QED BY <2>4, <2>5, <3>1, <3>2
  <2>7. \A i \in 1 .. n + 1 : plan'[i].time \in 0 .. i * MaxPause
    <3>1. \A i \in 1 .. n : plan'[i].time \in 0 .. i * MaxPause BY <1>1, <1>5 DEF TypeOK, n
    <3> QED BY <2>1, <2>6, <3>1
  <2>8. ASSUME NEW i \in 1 .. (n + 1) - 1 PROVE plan'[i].time <= plan'[i + 1].time
    <3>1. i \in 1 .. n /\ (i # n => i \in 1 .. n - 1 /\ i + 1 \in 1 .. n)
      <4>1. i \in Nat /\ 1 <= i /\ i <= n BY <1>4
      <4> QED BY <1>4, <4>1
    <3>2. CASE i = n BY <1>5, <2>2, <2>6, <3>2
    <3>3. CASE i \in 1 .. n - 1 /\ i + 1 \in 1 .. n
      <4>1. plan[i].time <= plan[i + 1].time BY <1>1, <3>3 DEF TypeOK, n
      <4> QED BY <1>5, <3>1, <3>3, <4>1
    <3> QED BY <3>1, <3>2, <3>3
  <2>9. Len(plan') \in 1 .. total BY <1>4, <1>5
  <2> QED BY <1>1, <1>2, <1>5, <2>7, <2>8, <2>9 DEF TypeOK
<1>9. SceneInv'
  <2>1. SceneAgrees(trace, plan, n, scene, applied, shown, lastKey) BY <1>1, <1>2, <1>6 DEF SceneInv, Going
  <2>2. n \in 1 .. n /\ (IF n = 0 THEN 1 ELSE n) = n BY <1>4
  <2>3. plan'[n] = plan[n] /\ BlocksThen(trace, plan, n) = BlocksThen(trace, plan', n) BY <1>5, <1>7, <2>2
  <2>4. SceneAgrees(trace, plan', n, scene, applied, shown, lastKey)
    BY ONLY <1>4, <2>1, <2>2, <2>3 DEF SceneAgrees
  <2> QED BY <1>2, <1>6, <2>4 DEF SceneInv
<1>10. RingInv' BY <1>1, <1>2, <1>6 DEF RingInv, Going
<1>11. QueueInv'
  <2>1. PICK mid : Spans(trace, plan, sending, Sent + 1, mid) /\ Spans(trace, plan, Flight, mid, Framed + 1)
    BY <1>1, <1>2 DEF QueueInv
  <2>2. Sent \in Nat BY <1>1, SeqParts DEF Sent, TypeOK
  <2>3. mid = Sent + 1 /\ mid \in Nat /\ mid >= 1 BY <1>2, <2>1, <2>2, SpansOrder
  <2>4. Spans(trace, plan, Flight, mid, n + 1) BY <1>6, <2>1
  <2>5. n + 1 <= n + 1 /\ \A j \in 1 .. n : plan[j] = plan'[j] BY <1>4, <1>5
  <2>6. Spans(trace, plan', Flight, mid, n + 1) BY <1>4, <2>3, <2>4, <2>5, SpansStay
  <2>7. Spans(trace, plan', sending, mid, mid) BY <1>2, <2>3, SpansNothing
  <2>8. Flight' = Flight /\ Sent' = Sent BY <1>2 DEF Flight, Sent
  <2> QED BY <1>2, <1>6, <2>3, <2>6, <2>7, <2>8 DEF QueueInv
<1>12. Delivered'
  <2>1. Len(written) \in Nat BY <1>1, SeqParts DEF TypeOK
  <2>2. ASSUME NEW k \in 1 .. Len(written) PROVE k <= n + 1 /\ ShowsFrame(trace, plan', written[k], k)
    <3>1. k <= n /\ ShowsFrame(trace, plan, written[k], k) BY <1>1 DEF Delivered, n
    <3>2. k \in 1 .. n BY <1>4, <3>1
    <3> QED BY <1>4, <1>7, <3>1, <3>2
  <2>3. ASSUME NEW j \in 1 .. Len(channel)
        PROVE  Len(written) + j <= n + 1 /\ ShowsFrame(trace, plan', channel[j], Len(written) + j)
    <3>1. Len(written) + j <= n /\ ShowsFrame(trace, plan, channel[j], Len(written) + j) BY <1>1 DEF Delivered, n
    <3>2. Len(written) + j \in 1 .. n BY <1>4, <2>1, <3>1
    <3> QED BY <1>4, <1>7, <3>1, <3>2
  <2> QED BY <1>2, <1>5, <2>2, <2>3 DEF Delivered
<1>13. EndInv' BY <1>1, <1>2 DEF EndInv
<1> QED BY <1>8, <1>9, <1>10, <1>11, <1>12, <1>13 DEF IInv

LEMMA DrainPreserves == IInv /\ Drain => IInv'
<1> SUFFICES ASSUME IInv, Drain PROVE IInv'
  OBVIOUS
<1>1. TypeOK /\ SceneInv /\ RingInv /\ QueueInv /\ Delivered /\ EndInv BY DEF IInv
<1>2. /\ status = "send" /\ sending = <<>> /\ Len(plan) = total
      /\ sending' = [i \in DOMAIN inFlight |-> <<slots[inFlight[i]], groups[i]>>]
      /\ inFlight' = <<>> /\ groups' = <<>> /\ status' = "drain"
      /\ UNCHANGED <<trace, applied, scene, shown, plan, total, lastKey, slots, nextSlot,
                     channel, feeder, written, temporary, output>>
  BY DEF Drain
<1>3. IsSeq(inFlight) /\ DOMAIN inFlight = 1 .. Len(inFlight) BY <1>1, SeqParts DEF RingInv, Ring
<1>4. sending' = Flight BY <1>2, <1>3 DEF Flight
<1>5. /\ IsSeq(Flight) /\ Len(Flight) = Len(inFlight)
      /\ \A i \in 1 .. Len(inFlight) : Flight[i] = <<slots[inFlight[i]], groups[i]>>
  BY <1>1, FlightSeq
<1>6. IsSeq(inFlight') /\ Len(inFlight') = 0 /\ IsSeq(groups') /\ Len(groups') = 0
  BY <1>2, NothingIsSeq, SeqEmpty
<1>7. Flight' = <<>>
  <2>1. IsFlight(Flight', inFlight', slots', groups') BY DEF Flight, IsFlight
  <2>2. IsSeq(Flight') /\ Len(Flight') = Len(inFlight') BY ONLY <1>6, <2>1, PairsSeq
  <2> QED BY <1>6, <2>2, SeqEmpty
<1>8. Pairs(sending') BY <1>4, <1>5 DEF Pairs
<1>9. Framed' = Framed /\ Sent' = Sent BY <1>2 DEF Framed, Sent
<1>10. QueueInv'
  <2>1. PICK mid : Spans(trace, plan, sending, Sent + 1, mid) /\ Spans(trace, plan, Flight, mid, Framed + 1)
    BY <1>1, <1>2 DEF QueueInv
  <2>2. mid = Sent + 1 /\ Framed + 1 \in Nat BY <1>2, <2>1, SpansOrder
  <2>3. Spans(trace', plan', sending', Sent' + 1, Framed + 1) BY <1>2, <1>4, <1>9, <2>1, <2>2
  <2>4. Spans(trace', plan', Flight', Framed + 1, Framed' + 1) BY <1>7, <1>9, <2>2, SpansNothing
  <2> QED BY <1>2, <2>3, <2>4 DEF QueueInv
<1>11. TypeOK' BY <1>1, <1>2, <1>4, <1>5, <1>6, <1>8 DEF TypeOK
<1>12. SceneInv' BY <1>2 DEF SceneInv, Going
<1>13. RingInv'
  <2>1. Slots \in Nat BY VideoAssumption
  <2>2. Ring(inFlight', nextSlot') BY <1>1, <1>2, <1>6, <2>1 DEF RingInv, Ring
  <2> QED BY <1>1, <1>2, <1>6, <2>2 DEF RingInv, Going
<1>14. Delivered' BY <1>1, <1>2 DEF Delivered
<1>15. EndInv' BY <1>1, <1>2 DEF EndInv
<1> QED BY <1>10, <1>11, <1>12, <1>13, <1>14, <1>15 DEF IInv

LEMMA ClosePreserves == IInv /\ Close => IInv'
<1> SUFFICES ASSUME IInv, Close PROVE IInv'
  OBVIOUS
<1>1. TypeOK /\ SceneInv /\ RingInv /\ QueueInv /\ Delivered /\ EndInv BY DEF IInv
<1>2. /\ status = "drain" /\ sending = <<>> /\ status' = "closed"
      /\ UNCHANGED <<trace, applied, scene, shown, plan, total, lastKey, groups, slots, nextSlot,
                     inFlight, sending, channel, feeder, written, temporary, output>>
  BY DEF Close
<1>3. Sent = total
  <2>1. PICK mid : Spans(trace, plan, sending, Sent + 1, mid) /\ Spans(trace, plan, Flight, mid, Framed + 1)
    BY <1>1, <1>2 DEF QueueInv
  <2>2. IsSeq(Flight) /\ Len(Flight) = Len(inFlight) /\ inFlight = <<>> BY <1>1, <1>2, FlightSeq DEF RingInv
  <2>3. Len(inFlight) = 0 BY <1>1, <2>2, SeqEmpty DEF RingInv, Ring
  <2>4. Flight = <<>> BY <2>2, <2>3, SeqEmpty
  <2>5. mid = Sent + 1 /\ mid = Framed + 1 BY <1>2, <2>1, <2>4, SpansOrder
  <2>6. Framed = Len(plan) /\ Len(plan) = total BY <1>1, <1>2 DEF Framed, EndInv
  <2>7. Sent \in Nat /\ Len(plan) \in Nat BY <1>1, SeqParts DEF Sent, TypeOK
  <2> QED BY <2>5, <2>6, <2>7
<1>4. Sent' = Sent BY <1>2 DEF Sent
<1>5. TypeOK' BY <1>1, <1>2 DEF TypeOK
<1>6. SceneInv' BY <1>2 DEF SceneInv, Going
<1>7. RingInv' BY <1>1, <1>2 DEF RingInv, Going
<1>8. QueueInv' BY <1>2 DEF QueueInv
<1>9. Delivered' BY <1>1, <1>2 DEF Delivered
<1>10. EndInv' BY <1>1, <1>2, <1>3, <1>4 DEF EndInv
<1> QED BY <1>5, <1>6, <1>7, <1>8, <1>9, <1>10 DEF IInv

LEMMA FinishPreserves == IInv /\ Finish => IInv'
<1> SUFFICES ASSUME IInv, Finish PROVE IInv'
  OBVIOUS
<1>1. TypeOK /\ SceneInv /\ RingInv /\ QueueInv /\ Delivered /\ EndInv BY DEF IInv
<1>2. /\ status = "closed" /\ feeder = "done" /\ output' = written /\ temporary' = FALSE /\ status' = "finished"
      /\ UNCHANGED <<trace, applied, scene, shown, plan, total, lastKey, groups, slots, nextSlot,
                     inFlight, sending, channel, feeder, written>>
  BY DEF Finish
<1>3. Len(written) = total
  <2>1. channel = <<>> /\ Sent = total BY <1>1, <1>2 DEF EndInv
  <2>2. Len(channel) = 0 /\ Len(written) \in Nat BY <1>1, <2>1, SeqParts, SeqEmpty DEF TypeOK
  <2> QED BY <2>1, <2>2 DEF Sent
<1>4. TypeOK' BY <1>1, <1>2 DEF TypeOK
<1>5. SceneInv' BY <1>2 DEF SceneInv, Going
<1>6. RingInv' BY <1>1, <1>2 DEF RingInv, Going
<1>7. QueueInv' BY <1>2 DEF QueueInv
<1>8. Delivered' BY <1>1, <1>2 DEF Delivered
<1>9. EndInv' BY <1>1, <1>2, <1>3 DEF EndInv
<1> QED BY <1>4, <1>5, <1>6, <1>7, <1>8, <1>9 DEF IInv

LEMMA FailPreserves == IInv /\ Fail => IInv'
<1> SUFFICES ASSUME IInv, Fail PROVE IInv'
  OBVIOUS
<1>1. TypeOK /\ SceneInv /\ RingInv /\ QueueInv /\ Delivered /\ EndInv BY DEF IInv
<1>2. /\ status # "finished" /\ temporary' = FALSE /\ status' = "failed"
      /\ UNCHANGED <<trace, applied, scene, shown, plan, total, lastKey, groups, slots, nextSlot,
                     inFlight, sending, channel, feeder, written, output>>
  BY DEF Fail
<1>3. TypeOK' BY <1>1, <1>2 DEF TypeOK
<1>4. SceneInv' BY <1>2 DEF SceneInv, Going
<1>5. RingInv' BY <1>1, <1>2 DEF RingInv, Going
<1>6. QueueInv' BY <1>2 DEF QueueInv
<1>7. Delivered' BY <1>1, <1>2 DEF Delivered
<1>8. EndInv' BY <1>1, <1>2 DEF EndInv
<1> QED BY <1>3, <1>4, <1>5, <1>6, <1>7, <1>8 DEF IInv

LEMMA FeedPreserves == IInv /\ Feed => IInv'
<1> SUFFICES ASSUME IInv, Feed PROVE IInv'
  OBVIOUS
<1>1. TypeOK /\ SceneInv /\ RingInv /\ QueueInv /\ Delivered /\ EndInv BY DEF IInv
<1>2. /\ status \notin {"failed", "finished"} /\ feeder = "running" /\ channel # <<>>
      /\ channel' = Tail(channel) /\ written' = Append(written, Head(channel))
      /\ UNCHANGED <<trace, applied, scene, shown, plan, total, lastKey, groups, slots, nextSlot,
                     inFlight, sending, feeder, status, output>>
  BY DEF Feed
<1>3. IsSeq(channel) /\ IsSeq(written) BY <1>1 DEF TypeOK
<1> DEFINE w == Len(written)
           l == Len(channel)
<1>4. /\ IsSeq(channel') /\ Len(channel') = l - 1 /\ l \in Nat \ {0} /\ Head(channel) = channel[1]
      /\ \A i \in 1 .. l - 1 : channel'[i] = channel[i + 1]
  BY <1>2, <1>3, SeqTail
<1>5. /\ IsSeq(written') /\ Len(written') = w + 1 /\ written'[w + 1] = Head(channel)
      /\ \A i \in 1 .. w : written'[i] = written[i]
  BY <1>2, <1>3, SeqAppend
<1>6. w \in Nat BY <1>3, SeqParts
<1>7. Sent' = Sent BY <1>4, <1>5, <1>6 DEF Sent
<1>8. Delivered'
  <2>1. /\ \A k \in 1 .. w : k <= Len(plan) /\ ShowsFrame(trace, plan, written[k], k)
        /\ \A j \in 1 .. l : w + j <= Len(plan) /\ ShowsFrame(trace, plan, channel[j], w + j)
    BY <1>1 DEF Delivered
  <2> HIDE DEF w, l
  <2>2. ASSUME NEW k \in 1 .. w + 1 PROVE k <= Len(plan) /\ ShowsFrame(trace, plan, written'[k], k)
    <3>1. CASE k \in 1 .. w BY <1>5, <2>1, <3>1
    <3>2. CASE k = w + 1
      <4>1. 1 \in 1 .. l BY <1>4
      <4> QED BY <1>4, <1>5, <2>1, <3>2, <4>1
    <3> QED BY <1>6, <3>1, <3>2
  <2>3. ASSUME NEW j \in 1 .. l - 1
        PROVE  (w + 1) + j <= Len(plan) /\ ShowsFrame(trace, plan, channel'[j], (w + 1) + j)
    <3>1. j + 1 \in 1 .. l /\ (w + 1) + j = w + (j + 1) BY <1>4, <1>6
    <3> QED BY <1>4, <2>1, <3>1
  <2> QED BY <1>2, <1>4, <1>5, <2>2, <2>3 DEF Delivered
<1>9. TypeOK' BY <1>1, <1>2, <1>4, <1>5 DEF TypeOK
<1>10. SceneInv' BY <1>1, <1>2 DEF SceneInv, Going, Framed
<1>11. RingInv' BY <1>1, <1>2 DEF RingInv, Going, Framed
<1>12. QueueInv'
  <2>1. Flight' = Flight /\ Framed' = Framed BY <1>2 DEF Flight, Framed
  <2> QED BY <1>1, <1>2, <1>7, <2>1 DEF QueueInv
<1>13. EndInv' BY <1>1, <1>2, <1>7 DEF EndInv
<1> QED BY <1>8, <1>9, <1>10, <1>11, <1>12, <1>13 DEF IInv

LEMMA FeederEndsPreserves == IInv /\ FeederEnds => IInv'
<1> SUFFICES ASSUME IInv, FeederEnds PROVE IInv'
  OBVIOUS
<1>1. TypeOK /\ SceneInv /\ RingInv /\ QueueInv /\ Delivered /\ EndInv BY DEF IInv
<1>2. /\ status \notin {"failed", "finished"} /\ feeder = "running"
      /\ (status = "closed" /\ channel = <<>> /\ feeder' = "done") \/ feeder' = "failed"
      /\ UNCHANGED <<trace, applied, scene, shown, plan, total, lastKey, groups, slots, nextSlot,
                     inFlight, sending, channel, written, status, temporary, output>>
  BY DEF FeederEnds, EndOfInput
<1>3. TypeOK' BY <1>1, <1>2 DEF TypeOK
<1>4. SceneInv' BY <1>1, <1>2 DEF SceneInv, Going, Framed
<1>5. RingInv' BY <1>1, <1>2 DEF RingInv, Going, Framed
<1>6. QueueInv'
  <2>1. Flight' = Flight /\ Framed' = Framed /\ Sent' = Sent BY <1>2 DEF Flight, Framed, Sent
  <2> QED BY <1>1, <1>2, <2>1 DEF QueueInv
<1>7. Delivered' BY <1>1, <1>2 DEF Delivered
<1>8. EndInv'
  <2>1. Sent' = Sent BY <1>2 DEF Sent
  <2> QED BY <1>1, <1>2, <2>1 DEF EndInv
<1> QED BY <1>3, <1>4, <1>5, <1>6, <1>7, <1>8 DEF IInv

LEMMA NothingPreserves == IInv /\ UNCHANGED vars => IInv'
<1> SUFFICES ASSUME IInv, UNCHANGED vars PROVE IInv'
  OBVIOUS
<1>1. TypeOK /\ SceneInv /\ RingInv /\ QueueInv /\ Delivered /\ EndInv BY DEF IInv
<1>2. UNCHANGED <<trace, applied, scene, shown, plan, total, lastKey, groups, slots, nextSlot,
                  inFlight, sending, channel, feeder, written, status, temporary, output>>
  BY DEF vars
<1>3. Flight' = Flight /\ Framed' = Framed /\ Sent' = Sent BY <1>2 DEF Flight, Framed, Sent
<1>4. TypeOK' BY <1>1, <1>2 DEF TypeOK
<1>5. SceneInv' BY <1>1, <1>2, <1>3 DEF SceneInv, Going
<1>6. RingInv' BY <1>1, <1>2, <1>3 DEF RingInv, Going
<1>7. QueueInv' BY <1>1, <1>2, <1>3 DEF QueueInv
<1>8. Delivered' BY <1>1, <1>2 DEF Delivered
<1>9. EndInv' BY <1>1, <1>2, <1>3 DEF EndInv
<1> QED BY <1>4, <1>5, <1>6, <1>7, <1>8, <1>9 DEF IInv

-----------------------------------------------------------------------------
LEMMA InitInv == Init => IInv
<1> SUFFICES ASSUME Init PROVE IInv
  OBVIOUS
<1>1. PICK view \in Views, time \in 0 .. MaxPause :
        /\ plan = <<[time |-> time, view |-> view]>>
        /\ scene = Rebuilt(FirstScene(trace), view)
        /\ shown = [meshes |-> MeshesAfter(NoMeshes, FirstScene(trace), view), movers |-> {}]
  BY DEF Init
<1>2. /\ trace \in Traces /\ total \in 1 .. MaxFrames /\ applied = 0 /\ lastKey = NoKey /\ groups = <<>>
      /\ nextSlot = 0 /\ inFlight = <<>> /\ sending = <<>> /\ channel = <<>>
      /\ feeder = "running" /\ written = <<>> /\ status = "frame" /\ temporary = TRUE /\ output = <<>>
      /\ slots = [i \in 0 .. Slots - 1 |-> [meshes |-> NoMeshes, movers |-> {}]]
  BY DEF Init
<1>3. MaxFrames \in Nat /\ MaxPause \in Nat /\ Slots \in Nat \ {0} /\ NoView \notin Views BY VideoAssumption
<1>4. IsSeq(plan) /\ Len(plan) = 1 /\ plan[1] = [time |-> time, view |-> view]
  <2> DEFINE x == [time |-> time, view |-> view]
  <2>1. plan = <<x>> BY <1>1
  <2> HIDE DEF x
  <2>2. IsSeq(plan) /\ Len(plan) = 1 /\ plan[1] = x BY <2>1, SeqOne
  <2> QED BY <2>2 DEF x
<1>5. /\ IsSeq(groups) /\ Len(groups) = 0 /\ IsSeq(inFlight) /\ Len(inFlight) = 0 /\ IsSeq(sending) /\ Len(sending) = 0
      /\ IsSeq(channel) /\ Len(channel) = 0 /\ IsSeq(written) /\ Len(written) = 0
  BY <1>2, NothingIsSeq, SeqEmpty
<1>6. Framed = 0 /\ Sent = 0 BY <1>2, <1>4, <1>5 DEF Framed, Sent
<1>7. TypeOK
  <2>1. Len(plan) \in 1 .. total BY <1>2, <1>3, <1>4
  <2>2. \A i \in 1 .. Len(plan) : plan[i].time \in 0 .. i * MaxPause
    <3>1. \A i \in 1 .. Len(plan) : i = 1 BY <1>4
    <3>2. 1 * MaxPause = MaxPause /\ plan[1].time = time BY <1>3, <1>4
    <3>3. plan[1].time \in 0 .. 1 * MaxPause BY <3>2
    <3> QED BY <3>1, <3>3
  <2>3. \A i \in 1 .. Len(plan) - 1 : plan[i].time <= plan[i + 1].time BY <1>4
  <2>4. Pairs(sending) BY <1>5 DEF Pairs
  <2> QED BY <1>2, <1>4, <1>5, <2>1, <2>2, <2>3, <2>4 DEF TypeOK
<1>8. SceneInv
  <2> DEFINE first == FirstScene(trace)
             visible == NextVisible(first, view)
  <2>1. /\ IsScene(first) /\ CacheOK(first) /\ first.block = trace.blocks /\ first.visible = {} /\ first.key = NoView
    BY <1>2, FirstSceneFacts
  <2> HIDE DEF first
  <2>2. scene = Rebuilt(first, view) /\ shown = [meshes |-> MeshesAfter(NoMeshes, first, view), movers |-> {}]
    BY <1>1 DEF first
  <2>3. IsScene(scene) BY <2>1, <2>2, RebuiltFields
  <2>4. scene.block = first.block BY ONLY <2>1, <2>2, RebuiltFields
  <2>5. scene.pistons = first.pistons BY ONLY <2>1, <2>2, RebuiltFields
  <2>6. scene.dirty = first.dirty \ ToRebuild(first, view) BY ONLY <2>1, <2>2, RebuiltFields
  <2>7. scene.visible = visible /\ scene.key = view BY <2>1, <2>2, RebuiltVisible
  <2>8. CacheOK(scene) BY <2>1, <2>2, RebuiltCache
  <2>9. scene.dirty \cap scene.visible = {} BY <2>6, <2>7 DEF ToRebuild
  <2>10. Follows(trace, scene, 0)
    <3>1. Same(first, scene) BY <2>4, <2>5 DEF Same
    <3> QED BY <1>2, <2>3, <3>1, FollowsFirst DEF first
  <2>11. scene.key = plan[1].view BY <1>4, <2>7
  <2>12. scene.visible = InView[scene.key] \cap Occupied(BlocksThen(trace, plan, 1))
    <3>1. visible = InView[view] \cap Occupied(trace.blocks)
      <4>1. first.key # view BY <1>3, <2>1
      <4> QED BY <2>1, <4>1 DEF NextVisible
    <3>2. SinceView(plan, 0 + 1) = 1 BY SinceNext
    <3>3. BlocksThen(trace, plan, 1) = trace.blocks BY <3>2 DEF BlocksThen
    <3> QED BY <2>7, <3>1, <3>3
  <2>13. shown = [meshes |-> MeshesOf(scene.block, scene.visible), movers |-> shown.movers]
    <3>1. Usable(NoMeshes, first) BY <2>1 DEF Usable, NoMeshes
    <3>2. MeshesAfter(NoMeshes, first, view) = MeshesOf(first.block, visible) BY <2>1, <3>1, MeshesRight
    <3>3. shown = [meshes |-> MeshesOf(scene.block, scene.visible), movers |-> {}] BY <2>2, <2>4, <2>7, <3>2
    <3> QED BY <3>3
  <2>14. SceneAgrees(trace, plan, 0, scene, 0, shown, NoKey)
    BY <2>8, <2>9, <2>10, <2>11, <2>12, <2>13 DEF SceneAgrees
  <2> QED BY <1>2, <1>6, <2>14 DEF SceneInv
<1>9. RingInv
  <2>1. Ring(inFlight, nextSlot) BY <1>2, <1>3, <1>5 DEF Ring
  <2>2. slots = [i \in 0 .. Slots - 1 |-> slots[i]] BY <1>2
  <2> QED BY <1>2, <1>5, <1>6, <2>1, <2>2 DEF RingInv
<1>10. QueueInv
  <2>1. IsFlight(Flight, inFlight, slots, groups) BY DEF Flight, IsFlight
  <2>2. IsSeq(Flight) /\ Len(Flight) = Len(inFlight) BY ONLY <1>5, <2>1, PairsSeq
  <2>3. Flight = <<>> BY <1>5, <2>2, SeqEmpty
  <2>4. Spans(trace, plan, sending, Sent + 1, 1) /\ Spans(trace, plan, Flight, 1, Framed + 1)
    BY <1>2, <1>6, <2>3, SpansNothing
  <2> QED BY <1>2, <2>4 DEF QueueInv
<1>11. Delivered BY <1>5 DEF Delivered
<1>12. EndInv BY <1>2 DEF EndInv
<1> QED BY <1>7, <1>8, <1>9, <1>10, <1>11, <1>12 DEF IInv

LEMMA NextInv == IInv /\ [Next]_vars => IInv'
BY FramePreserves, SendPreserves, PlanPreserves, DrainPreserves, ClosePreserves, FinishPreserves, FailPreserves,
   FeedPreserves, FeederEndsPreserves, NothingPreserves
   DEF Next

LEMMA InvExact == IInv => FramesExact
<1> SUFFICES ASSUME IInv PROVE FramesExact
  OBVIOUS
<1>1. TypeOK /\ Delivered /\ EndInv BY DEF IInv
<1>2. FramesShown
  <2>1. DOMAIN written = 1 .. Len(written) BY <1>1, SeqParts DEF TypeOK
  <2> QED BY <1>1, <2>1 DEF FramesShown, Delivered
<1>3. VideoWhole BY <1>1 DEF VideoWhole, EndInv
<1> QED BY <1>2, <1>3 DEF FramesExact

\* Frame k that FFmpeg gets shows the trace at the time and from the pose
\* planned for it, whatever was cached, repeated, waiting in the slots or in the
\* channel; a video has all frames, and no run that ended leaves its temporary
\* file (FramesExact; render_replay, scene.rs, gpu.rs, encoder.rs).
THEOREM VideoExact == Spec => []FramesExact
<1>1. Spec => []IInv BY InitInv, NextInv, PTL DEF Spec
<1> QED BY <1>1, InvExact, PTL
=============================================================================
