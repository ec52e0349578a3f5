------------------------------ MODULE WorldProofs ------------------------------
(***************************************************************************)
(* Proofs about what a world keeps.                                        *)
(*                                                                         *)
(* Block entities (BlockEntityTicks), for any finite set of positions, any *)
(* sections and any number of changes per callback. TickableExact is not   *)
(* inductive: while a callback runs, tickable lags behind. Lag says by how *)
(* much: only touched positions may be wrong.                              *)
(*                                                                         *)
(* Entities (EntityIndex), for any points, section edge and ids: the index *)
(* of sections is exact, a box query returns the entities in the box and   *)
(* no others, and ids that are given out are new. The exactness of the     *)
(* sections carries itself once the positions of the entities are known to *)
(* be points; that a query misses nobody rests on the section of a point   *)
(* growing with the point. That ids are new needs the counter to be past   *)
(* every id in use, which a removal only makes easier and a given id       *)
(* repairs at once.                                                        *)
(*                                                                         *)
(* Blocks (SectionStore), for any sections, cells and states, and whenever *)
(* the array of sections is built: the sections are a map of blocks, each  *)
(* counts its blocks and has room for every state, and each is listed      *)
(* once, where its blocks are read. A position and its index in the array  *)
(* determine each other (mixed radix); a palette holds a state once, so    *)
(* that it cannot outgrow the states; a section that is neither in the map *)
(* nor in the array is air.                                                *)
(***************************************************************************)
EXTENDS BlockEntityTicks, SectionStore, EntityIndex,
        SequenceTheorems, FiniteSetTheorems, WellFoundedInduction, TLAPS

-----------------------------------------------------------------------------
(* Block entities                                                          *)


\* What shift_remove leaves of an index set.
LEMMA RemoveEffect ==
  ASSUME NEW s \in Seq(Positions), Distinct(s), NEW p \in Positions
  PROVE  /\ RemoveFirst(s, p) \in Seq(Positions)
         /\ Distinct(RemoveFirst(s, p))
         /\ \A q \in Positions : Contains(RemoveFirst(s, p), q) <=> Contains(s, q) /\ q # p
<1>1. CASE ~ \E i \in 1 .. Len(s) : s[i] = p
  BY <1>1 DEF RemoveFirst, Contains
<1>2. CASE \E i \in 1 .. Len(s) : s[i] = p
  <2> DEFINE k == SelectInSeq(s, LAMBDA v : v = p)
             r == RemoveAt(s, k)
  <2>1. PICK i \in 1 .. Len(s) : s[i] = p
    BY <1>2
  <2>2. \A j \in 1 .. Len(s) : s[j] = p => j = i
    BY <2>1 DEF Distinct
  <2>3. k = i
    <3> DEFINE I == {j \in 1 .. Len(s) : s[j] = p}
    <3>1. I = {i}
      BY <2>1, <2>2
    <3>2. k = Min(I)
      BY <3>1 DEF SelectInSeq
    <3>3. i \in I /\ \A j \in I : i =< j
      BY <3>1
    <3>4. Min(I) \in I
      BY <3>3, Zenon DEF Min
    <3> QED BY <3>1, <3>2, <3>4
  <2>4. RemoveFirst(s, p) = r
    BY <1>2 DEF RemoveFirst
  <2> HIDE DEF k
  <2>k. k \in 1 .. Len(s) /\ s[k] = p
    BY <2>1, <2>3
  <2>5. /\ r \in Seq(Positions)
        /\ Len(r) = Len(s) - 1
        /\ \A j \in 1 .. Len(s) - 1 : r[j] = IF j < k THEN s[j] ELSE s[j + 1]
    <3> DEFINE a == SubSeq(s, 1, k - 1)
               b == SubSeq(s, k + 1, Len(s))
    <3>1. /\ a \in Seq(Positions) /\ Len(a) = k - 1
          /\ \A j \in 1 .. k - 1 : a[j] = s[j]
      BY <2>k
    <3>2. /\ b \in Seq(Positions) /\ Len(b) = Len(s) - k
          /\ \A j \in 1 .. Len(s) - k : b[j] = s[k + j]
      BY <2>k
    <3>3. r = a \o b
      BY DEF RemoveAt
    <3> HIDE DEF a, b, r
    <3>4. /\ r \in Seq(Positions) /\ Len(r) = Len(a) + Len(b)
          /\ \A j \in 1 .. Len(a) + Len(b) : r[j] = IF j <= Len(a) THEN a[j] ELSE b[j - Len(a)]
      BY <3>1, <3>2, <3>3, ConcatProperties
    <3>5. Len(r) = Len(s) - 1
      BY <2>k, <3>1, <3>2, <3>4
    <3>6. ASSUME NEW j \in 1 .. Len(s) - 1, j < k
          PROVE  r[j] = s[j]
      <4>1. j \in 1 .. k - 1 /\ j <= Len(a) /\ j \in 1 .. Len(a) + Len(b)
        BY <2>k, <3>1, <3>2, <3>6
      <4>2. r[j] = a[j]
        BY <3>4, <4>1
      <4> QED BY <3>1, <4>1, <4>2
    <3>7. ASSUME NEW j \in 1 .. Len(s) - 1, ~(j < k)
          PROVE  r[j] = s[j + 1]
      <4>1. j - Len(a) \in 1 .. Len(s) - k /\ k + (j - Len(a)) = j + 1 /\ ~(j <= Len(a))
        BY <2>k, <3>1, <3>7
      <4>2. r[j] = b[j - Len(a)]
        BY <2>k, <3>1, <3>2, <3>4, <4>1
      <4> QED BY <3>2, <4>1, <4>2
    <3> QED BY <3>4, <3>5, <3>6, <3>7
  <2> HIDE DEF r
  <2>s. \A j \in 1 .. Len(r) : \E l \in 1 .. Len(s) :
          l # k /\ r[j] = s[l] /\ l = IF j < k THEN j ELSE j + 1
    BY <2>k, <2>5
  <2>6. Distinct(r)
    <3> SUFFICES ASSUME NEW x \in 1 .. Len(r), NEW y \in 1 .. Len(r), r[x] = r[y]
                 PROVE  x = y
      BY <2>5 DEF Distinct
    <3>1. PICK l \in 1 .. Len(s) : r[x] = s[l] /\ l = IF x < k THEN x ELSE x + 1
      BY <2>s
    <3>2. PICK m \in 1 .. Len(s) : r[y] = s[m] /\ m = IF y < k THEN y ELSE y + 1
      BY <2>s
    <3>3. l = m
      <4>1. s[l] = s[m]
        BY <3>1, <3>2, Zenon
      <4>2. l \in DOMAIN s /\ m \in DOMAIN s
        OBVIOUS
      <4> QED BY <4>1, <4>2 DEF Distinct
    <3> QED BY <2>k, <2>5, <3>1, <3>2, <3>3
  <2>7. ASSUME NEW q \in Positions, Contains(r, q)
        PROVE  Contains(s, q) /\ q # p
    <3>1. PICK j \in 1 .. Len(r) : r[j] = q
      BY <2>7 DEF Contains
    <3>2. PICK l \in 1 .. Len(s) : l # k /\ r[j] = s[l]
      BY <2>s
    <3> QED BY <2>k, <3>1, <3>2 DEF Distinct, Contains
  <2>8. ASSUME NEW q \in Positions, Contains(s, q), q # p
        PROVE  Contains(r, q)
    <3>1. PICK j \in 1 .. Len(s) : s[j] = q
      BY <2>8 DEF Contains
    <3>2. j # k
      BY <2>k, <2>8, <3>1
    <3>3. CASE j < k
      BY <2>k, <2>5, <3>1, <3>3 DEF Contains
    <3>4. CASE j > k
      <4>1. j - 1 \in 1 .. Len(r) /\ r[j - 1] = q
        BY <2>k, <2>5, <3>1, <3>4
      <4> QED BY <4>1 DEF Contains
    <3> QED BY <2>k, <3>1, <3>2, <3>3, <3>4
  <2> QED BY <2>4, <2>5, <2>6, <2>7, <2>8
<1> QED BY <1>1, <1>2

\* What Vec::push and IndexSet::insert make of a sequence.
LEMMA AppendEffect ==
  ASSUME NEW s \in Seq(Positions), NEW p \in Positions
  PROVE  /\ Append(s, p) \in Seq(Positions)
         /\ \A q \in Positions : Contains(Append(s, p), q) <=> Contains(s, q) \/ q = p
<1> DEFINE t == Append(s, p)
<1>1. /\ t \in Seq(Positions) /\ Len(t) = Len(s) + 1 /\ t[Len(s) + 1] = p
      /\ \A i \in 1 .. Len(s) : t[i] = s[i]
  BY AppendProperties
<1> HIDE DEF t
<1>2. \A q \in Positions : Contains(t, q) <=> Contains(s, q) \/ q = p
  BY <1>1 DEF Contains
<1> QED BY <1>1, <1>2 DEF t

LEMMA InsertEffect ==
  ASSUME NEW s \in Seq(Positions), Distinct(s), NEW p \in Positions
  PROVE  /\ Inserted(s, p) \in Seq(Positions)
         /\ Distinct(Inserted(s, p))
         /\ \A q \in Positions : Contains(Inserted(s, p), q) <=> Contains(s, q) \/ q = p
<1>1. CASE Contains(s, p)
  BY <1>1 DEF Inserted
<1>2. CASE ~Contains(s, p)
  <2>1. Distinct(Append(s, p))
    BY <1>2 DEF Distinct, Contains
  <2> QED BY <1>2, <2>1, AppendEffect DEF Inserted
<1> QED BY <1>1, <1>2

\* A queue without its head still holds everything else, and nothing new.
LEMMA TailEffect ==
  ASSUME NEW s \in Seq(Positions), s # <<>>
  PROVE  /\ Head(s) \in Positions
         /\ Tail(s) \in Seq(Positions)
         /\ Distinct(s) => Distinct(Tail(s))
         /\ \A q \in Positions : Contains(s, q) /\ q # Head(s) => Contains(Tail(s), q)
<1>1. /\ Head(s) \in Positions /\ Head(s) = s[1]
      /\ Tail(s) \in Seq(Positions) /\ Len(Tail(s)) = Len(s) - 1
      /\ \A i \in 1 .. Len(s) - 1 : Tail(s)[i] = s[i + 1]
  BY HeadTailProperties
<1>2. Distinct(s) => Distinct(Tail(s))
  BY <1>1 DEF Distinct
<1>3. ASSUME NEW q \in Positions, Contains(s, q), q # Head(s)
      PROVE  Contains(Tail(s), q)
  <2>1. PICK i \in 1 .. Len(s) : s[i] = q
    BY <1>3 DEF Contains
  <2>2. i - 1 \in 1 .. Len(Tail(s)) /\ Tail(s)[i - 1] = q
    BY <1>1, <1>3, <2>1
  <2> QED BY <2>2 DEF Contains
<1> QED BY <1>1, <1>2, <1>3
-----------------------------------------------------------------------------
\* Only what the callback has touched may be out of date, and nothing is
\* touched between callbacks.
Lag == \A p \in Positions : Contains(touched, p) \/ Exact(p)
Settled == context = "closed" => touched = <<>>

IInv == TypeOK /\ OrderAgrees /\ DeltaComplete /\ Lag /\ Settled

\* The part of the type invariant a change can disturb
EditTypeOK ==
  /\ block \in [Positions -> Blocks]
  /\ entity \in [Positions -> Data \cup {NoData}]
  /\ order \in Seq(Positions) /\ Distinct(order)
  /\ touched \in Seq(Positions)
  /\ view \in [block : [Positions -> Blocks], entity : [Positions -> Data \cup {NoData}]]

LEMMA InitIInv == Init => IInv
<1> SUFFICES ASSUME Init PROVE IInv
  OBVIOUS
<1>1. TypeOK
  <2>1. \A s \in IndexSets : s \in Seq(Positions) /\ Distinct(s)
    BY FS_CardinalityType, PositionsAssumption DEF IndexSets
  <2> QED BY <2>1, PositionsAssumption DEF Init, TypeOK, Distinct
<1>2. OrderAgrees /\ DeltaComplete /\ Settled
  BY DEF Init, DeltaComplete, Settled
<1>3. Lag
  BY DEF Init, Lag, Exact
<1> QED BY <1>1, <1>2, <1>3 DEF IInv

LEMMA SetBlockIInv ==
  ASSUME IInv, NEW p \in Positions, NEW state \in Blocks, SetBlock(p, state),
         UNCHANGED tickable
  PROVE  EditTypeOK' /\ OrderAgrees' /\ DeltaComplete' /\ Lag'
<1> DEFINE removes == state = "air" /\ Allocated(SectionOf[p])
<1> HIDE DEF removes
<1>1. /\ block' = [block EXCEPT ![p] = state]
      /\ entity' = IF removes THEN [entity EXCEPT ![p] = NoData] ELSE entity
      /\ order' = IF removes THEN RemoveFirst(order, p) ELSE order
      /\ touched' = IF state # block[p] /\ entity[p] # NoData THEN Append(touched, p) ELSE touched
      /\ view' = [block  |-> [view.block EXCEPT ![p] = IF state # block[p] THEN state ELSE @],
                  entity |-> [view.entity EXCEPT ![p] =
                                IF entity[p] # NoData /\ removes THEN NoData ELSE @]]
  BY DEF SetBlock, removes
<1>2. /\ block \in [Positions -> Blocks] /\ entity \in [Positions -> Data \cup {NoData}]
      /\ order \in Seq(Positions) /\ Distinct(order) /\ touched \in Seq(Positions)
      /\ view = [block |-> block, entity |-> entity]
  BY DEF IInv, TypeOK, DeltaComplete
<1>3. view' = [block |-> block', entity |-> entity']
  BY <1>1, <1>2
<1>4. EditTypeOK'
  BY <1>1, <1>2, <1>3, RemoveEffect, AppendEffect DEF EditTypeOK
<1>5. OrderAgrees'
  BY <1>1, <1>2, RemoveEffect DEF IInv, OrderAgrees
<1>6. Lag'
  <2> SUFFICES ASSUME NEW q \in Positions, ~Contains(touched', q)
               PROVE  Exact(q)'
    BY DEF Lag
  <2>1. ~Contains(touched, q) /\ Exact(q)
    BY <1>1, <1>2, AppendEffect DEF IInv, Lag
  <2>2. CASE q # p
    BY <1>1, <1>2, <2>1, <2>2 DEF Exact, ShouldTick
  <2>3. CASE q = p /\ entity[p] = NoData
    BY <1>1, <1>2, <2>3 DEF Exact, ShouldTick
  <2>4. CASE q = p /\ entity[p] # NoData
    <3>1. state = block[p]
      BY <1>1, <1>2, <2>4, AppendEffect
    <3> QED BY <1>1, <1>2, <2>1, <2>4, <3>1 DEF Exact, ShouldTick
  <2> QED BY <2>2, <2>3, <2>4
<1> QED BY <1>3, <1>4, <1>5, <1>6 DEF DeltaComplete

LEMMA SetBlockEntityIInv ==
  ASSUME IInv, NEW p \in Positions, NEW data \in Data, SetBlockEntity(p, data),
         UNCHANGED tickable
  PROVE  EditTypeOK' /\ OrderAgrees' /\ DeltaComplete' /\ Lag'
<1>2. /\ block \in [Positions -> Blocks] /\ entity \in [Positions -> Data \cup {NoData}]
      /\ order \in Seq(Positions) /\ Distinct(order) /\ touched \in Seq(Positions)
      /\ view = [block |-> block, entity |-> entity]
  BY DEF IInv, TypeOK, DeltaComplete
<1>3. view' = [block |-> block', entity |-> entity']
  BY <1>2 DEF SetBlockEntity
<1>4. EditTypeOK'
  <2>1. block' \in [Positions -> Blocks] /\ entity' \in [Positions -> Data \cup {NoData}]
    BY <1>2 DEF SetBlockEntity
  <2>2. order' \in Seq(Positions) /\ Distinct(order') /\ touched' \in Seq(Positions)
    BY <1>2, InsertEffect, AppendEffect DEF SetBlockEntity
  <2> QED BY <1>3, <2>1, <2>2 DEF EditTypeOK
<1>5. OrderAgrees'
  BY <1>2, InsertEffect DEF IInv, OrderAgrees, SetBlockEntity, Data, NoData
<1>6. Lag'
  BY <1>2, AppendEffect DEF IInv, Lag, Exact, ShouldTick, SetBlockEntity
<1> QED BY <1>3, <1>4, <1>5, <1>6 DEF DeltaComplete

LEMMA RemoveBlockEntityIInv ==
  ASSUME IInv, NEW p \in Positions, RemoveBlockEntity(p), UNCHANGED tickable
  PROVE  EditTypeOK' /\ OrderAgrees' /\ DeltaComplete' /\ Lag'
<1>2. /\ block \in [Positions -> Blocks] /\ entity \in [Positions -> Data \cup {NoData}]
      /\ order \in Seq(Positions) /\ Distinct(order) /\ touched \in Seq(Positions)
      /\ view = [block |-> block, entity |-> entity]
  BY DEF IInv, TypeOK, DeltaComplete
<1>3. view' = [block |-> block', entity |-> entity']
  BY <1>2 DEF RemoveBlockEntity
<1>4. EditTypeOK'
  <2>1. block' \in [Positions -> Blocks] /\ entity' \in [Positions -> Data \cup {NoData}]
    BY <1>2 DEF RemoveBlockEntity
  <2>2. order' \in Seq(Positions) /\ Distinct(order') /\ touched' \in Seq(Positions)
    BY <1>2, RemoveEffect, AppendEffect DEF RemoveBlockEntity
  <2> QED BY <1>3, <2>1, <2>2 DEF EditTypeOK
<1>5. OrderAgrees'
  BY <1>2, RemoveEffect DEF IInv, OrderAgrees, RemoveBlockEntity
<1>6. Lag'
  BY <1>2, AppendEffect DEF IInv, Lag, Exact, ShouldTick, RemoveBlockEntity
<1> QED BY <1>3, <1>4, <1>5, <1>6 DEF DeltaComplete

\* A refreshed position is exact, and no other one changes.
LEMMA RefreshIInv ==
  ASSUME IInv, RefreshNext
  PROVE  IInv'
<1> DEFINE h == Head(touched)
<1>1. touched \in Seq(Positions) /\ tickable \in Seq(Positions) /\ Distinct(tickable) /\ touched # <<>>
  BY DEF IInv, TypeOK, RefreshNext
<1>2. /\ h \in Positions /\ touched' = Tail(touched) /\ touched' \in Seq(Positions)
      /\ \A q \in Positions : Contains(touched, q) /\ q # h => Contains(touched', q)
  BY <1>1, TailEffect DEF RefreshNext
<1>3. /\ tickable' \in Seq(Positions) /\ Distinct(tickable')
      /\ Contains(tickable', h) <=> ShouldTick(h)
      /\ \A q \in Positions : q # h => (Contains(tickable', q) <=> Contains(tickable, q))
  BY <1>1, <1>2, InsertEffect, RemoveEffect DEF RefreshNext
<1>4. UNCHANGED <<world, edits, context, phase, agenda, view>>
  BY DEF RefreshNext
<1>5. TypeOK'
  BY <1>2, <1>3, <1>4 DEF IInv, TypeOK, world, Distinct
<1>6. OrderAgrees' /\ DeltaComplete'
  BY <1>4 DEF IInv, OrderAgrees, DeltaComplete, world
<1>7. Settled'
  BY <1>4 DEF RefreshNext, Settled
<1>8. Lag'
  BY <1>2, <1>3, <1>4 DEF IInv, Lag, Exact, ShouldTick, world
<1> QED BY <1>5, <1>6, <1>7, <1>8 DEF IInv

LEMMA EditIInv ==
  ASSUME IInv, Edit
  PROVE  IInv'
<1>1. UNCHANGED tickable
  BY DEF Edit, control
<1>2. EditTypeOK' /\ OrderAgrees' /\ DeltaComplete' /\ Lag'
  <2>1. PICK p \in Positions :
          \/ \E state \in Blocks : SetBlock(p, state)
          \/ \E data \in Data : SetBlockEntity(p, data)
          \/ RemoveBlockEntity(p)
    BY DEF Edit
  <2>2. ASSUME NEW state \in Blocks, SetBlock(p, state)
        PROVE  EditTypeOK' /\ OrderAgrees' /\ DeltaComplete' /\ Lag'
    BY <1>1, <2>2, SetBlockIInv
  <2>3. ASSUME NEW data \in Data, SetBlockEntity(p, data)
        PROVE  EditTypeOK' /\ OrderAgrees' /\ DeltaComplete' /\ Lag'
    BY <1>1, <2>3, SetBlockEntityIInv
  <2>4. CASE RemoveBlockEntity(p)
    BY <1>1, <2>4, RemoveBlockEntityIInv
  <2> QED BY <2>1, <2>2, <2>3, <2>4
<1>3. edits' \in 0 .. MaxEdits /\ UNCHANGED <<tickable, phase, agenda, context>> /\ context = "open"
  BY PositionsAssumption DEF IInv, TypeOK, Edit, control
<1>4. TypeOK'
  BY <1>2, <1>3 DEF IInv, TypeOK, EditTypeOK, Distinct
<1>5. Settled'
  BY <1>3 DEF Settled
<1> QED BY <1>2, <1>4, <1>5 DEF IInv

\* What does not touch the world, the touched or the tickable positions.
LEMMA QuietIInv ==
  ASSUME IInv, UNCHANGED <<world, tickable, touched, view>>,
         edits' \in 0 .. MaxEdits, context' \in {"closed", "open", "return", "fail"},
         phase' \in {"rest", "step", "tick"}, agenda' \in Seq(Positions), Distinct(agenda'),
         context' = "closed" => touched = <<>>
  PROVE  IInv'
<1>1. TypeOK'
  BY DEF IInv, TypeOK, world, Distinct
<1>2. OrderAgrees' /\ DeltaComplete' /\ Settled'
  BY DEF IInv, OrderAgrees, DeltaComplete, Settled, world
<1>3. Lag'
  BY DEF IInv, Lag, Exact, ShouldTick, world
<1> QED BY <1>1, <1>2, <1>3 DEF IInv

LEMMA NextIInv ==
  ASSUME IInv, [Next]_vars
  PROVE  IInv'
<1>t. /\ edits \in 0 .. MaxEdits /\ MaxEdits \in Nat
      /\ context \in {"closed", "open", "return", "fail"} /\ phase \in {"rest", "step", "tick"}
      /\ agenda \in Seq(Positions) /\ Distinct(agenda) /\ tickable \in Seq(Positions)
      /\ Distinct(tickable) /\ (context = "closed" => touched = <<>>)
  BY PositionsAssumption DEF IInv, TypeOK, Settled
<1>e. <<>> \in Seq(Positions) /\ Distinct(<<>>)
  BY DEF Distinct
<1>1. CASE Edit
  BY <1>1, EditIInv
<1>2. CASE RefreshNext
  BY <1>2, RefreshIInv
<1>3. CASE Callback
  BY <1>3, <1>t, QuietIInv DEF Callback, BeginContext, control
<1>4. CASE Return
  BY <1>4, <1>t, QuietIInv DEF Return, control
<1>5. CASE EndContext
  BY <1>5, <1>t, QuietIInv DEF EndContext, control
<1>6. CASE EndContextError
  BY <1>6, <1>t, <1>e, QuietIInv DEF EndContextError
<1>7. CASE BeginStep
  BY <1>7, <1>t, QuietIInv DEF BeginStep
<1>8. CASE BeginTicks
  BY <1>8, <1>t, QuietIInv DEF BeginTicks
<1>9. CASE TickNext
  <2>1. agenda' \in Seq(Positions) /\ Distinct(agenda')
    BY <1>9, <1>t, TailEffect DEF TickNext
  <2> QED BY <1>9, <1>t, <2>1, QuietIInv DEF TickNext, BeginContext
<1>10. CASE EndStep
  BY <1>10, <1>t, QuietIInv DEF EndStep
<1>11. CASE UNCHANGED vars
  BY <1>11, <1>t, QuietIInv DEF vars, world
<1> QED BY <1>1, <1>2, <1>3, <1>4, <1>5, <1>6, <1>7, <1>8, <1>9, <1>10, <1>11 DEF Next

LEMMA SpecIInv == Spec => []IInv
  BY InitIInv, NextIInv, PTL DEF Spec

-----------------------------------------------------------------------------
\* The variables keep their types; the index sets hold no position twice.
THEOREM TypeCorrect == Spec => []TypeOK
<1>1. IInv => TypeOK
  BY DEF IInv
<1> QED BY <1>1, SpecIInv, PTL

\* SparseWorld's registration order and its map of block entities agree.
THEOREM RegistrationComplete == Spec => []OrderAgrees
<1>1. IInv => OrderAgrees
  BY DEF IInv
<1> QED BY <1>1, SpecIInv, PTL

\* with_context_and_changes_into_tasks leaves no entity out of its tickable
\* set, nor one in it that must not tick, whatever the callback did.
THEOREM TickableMaintained == Spec => []TickableExact
<1>1. IInv => TickableExact
  BY EmptySeq DEF IInv, Settled, Lag, TickableExact, Contains
<1> QED BY <1>1, SpecIInv, PTL

\* The two registries of block entities follow every change.
THEOREM RegistriesMaintained == Spec => []RegistriesAgree
  BY RegistrationComplete, TickableMaintained, PTL DEF RegistriesAgree

\* EventContext records every change of blocks and block entities.
THEOREM ChangesRecorded == Spec => []DeltaComplete
<1>1. IInv => DeltaComplete
  BY DEF IInv
<1> QED BY <1>1, SpecIInv, PTL

-----------------------------------------------------------------------------
(* Entities                                                                *)


Ids == 1 .. MaxId

EntityTypeOK ==
  /\ DOMAIN entities \subseteq Ids
  /\ entities \in [DOMAIN entities -> Points]
  /\ index \in [IndexedSections -> SUBSET Ids]
  /\ nextId \in Ids

\* The counter is past every id in use, or has come to its end.
CounterPast == \A id \in DOMAIN entities : id < nextId \/ nextId = MaxId

EntityInv == EntityTypeOK /\ SectionsExact /\ CounterPast

-----------------------------------------------------------------------------
\* Sections are intervals: a later point is in the same section or a later one.
LEMMA Euclid ==
  \A a \in Int, d \in Nat \ {0} :
    a \div d \in Int /\ a % d \in 0 .. d - 1 /\ a = d * (a \div d) + (a % d)
  OBVIOUS

LEMMA SectionsInOrder ==
  ASSUME EntityAssumption, NEW a \in Int, NEW b \in Int, a <= b
  PROVE  Section(a) \in Int /\ Section(b) \in Int /\ Section(a) <= Section(b)
<1> DEFINE q == a \div Edge
           r == b \div Edge
<1>0. Edge \in Nat \ {0}
  BY DEF EntityAssumption
<1>1. q \in Int /\ r \in Int /\ Edge * q <= a /\ b < Edge * r + Edge
  BY <1>0, Euclid
<1> HIDE DEF q, r
<1>2. Edge * q < Edge * r + Edge
  BY <1>0, <1>1
<1>3. q <= r
  <2> SUFFICES ASSUME q >= r + 1 PROVE FALSE
    BY <1>1
  <2>1. Edge * q >= Edge * (r + 1)
    BY <1>0, <1>1
  <2> QED BY <1>0, <1>1, <1>2, <2>1
<1> QED BY <1>1, <1>3 DEF q, r, Section

\* The index is asked for sections that it has.
LEMMA SectionIndexed == \A p \in Points : Section(p) \in IndexedSections
  BY DEF IndexedSections

\* What an id that is inserted does to the entities and the index.
LEMMA InsertExact ==
  ASSUME EntityInv, NEW id \in Ids, id \notin DOMAIN entities, NEW point \in Points, Insert(id, point)
  PROVE  /\ DOMAIN entities' = DOMAIN entities \cup {id}
         /\ entities' \in [DOMAIN entities' -> Points]
         /\ index' \in [IndexedSections -> SUBSET Ids]
         /\ SectionsExact'
<1>1. /\ DOMAIN entities' = DOMAIN entities \cup {id}
      /\ entities'[id] = point
      /\ \A i \in DOMAIN entities : entities'[i] = entities[i] /\ entities[i] \in Points
  BY DEF EntityInv, EntityTypeOK, Insert
<1>2. entities' = [i \in DOMAIN entities \cup {id} |-> IF i = id THEN point ELSE entities[i]]
  BY DEF Insert
<1>3. entities' \in [DOMAIN entities' -> Points]
  BY <1>1, <1>2
<1>4. /\ index' \in [IndexedSections -> SUBSET Ids]
      /\ \A s \in IndexedSections :
           index'[s] = IF s = Section(point) THEN index[s] \cup {id} ELSE index[s]
  BY SectionIndexed DEF EntityInv, EntityTypeOK, Insert
<1>5. ASSUME NEW s \in IndexedSections
      PROVE  index'[s] = {i \in DOMAIN entities' : Section(entities'[i]) = s}
  BY <1>1, <1>4 DEF EntityInv, SectionsExact
<1> QED BY <1>1, <1>3, <1>4, <1>5 DEF SectionsExact

\* Spawning counts past the new id.
LEMMA SpawnCounts ==
  ASSUME EntityAssumption, EntityInv, NEW id \in Ids, id \notin DOMAIN entities, NEW point \in Points,
         Insert(id, point),
         nextId' \in {After(id), nextId}, nextId' >= After(id), nextId' >= nextId
  PROVE  EntityInv'
<1>1. /\ DOMAIN entities' = DOMAIN entities \cup {id}
      /\ entities' \in [DOMAIN entities' -> Points]
      /\ index' \in [IndexedSections -> SUBSET Ids]
      /\ SectionsExact'
  BY InsertExact
<1>2. MaxId \in Nat \ {0} /\ nextId \in Ids /\ nextId' \in Ids
  BY DEF EntityAssumption, EntityInv, EntityTypeOK, Ids, After
<1>3. ASSUME NEW i \in DOMAIN entities' PROVE i < nextId' \/ nextId' = MaxId
  <2>1. CASE i = id
    BY <1>2, <2>1 DEF After, Ids
  <2>2. CASE i \in DOMAIN entities
    <3>1. i \in Ids /\ (i < nextId \/ nextId = MaxId)
      BY <2>2 DEF EntityInv, CounterPast, EntityTypeOK
    <3> QED BY <1>2, <3>1 DEF Ids
  <2> QED BY <1>1, <2>1, <2>2
<1>4. DOMAIN entities' \subseteq Ids
  BY <1>1 DEF EntityInv, EntityTypeOK
<1> QED BY <1>1, <1>2, <1>3, <1>4 DEF EntityInv, EntityTypeOK, CounterPast

LEMMA SpawnInv ==
  ASSUME EntityAssumption, EntityInv, NEW p \in Points, Spawn(p)
  PROVE  EntityInv'
<1>1. MaxId \in Nat \ {0} /\ SpawnBound \in 1 .. MaxId - 1 /\ nextId \in Ids
  BY DEF EntityAssumption, EntityInv, EntityTypeOK
<1>2. nextId <= SpawnBound /\ nextId' = After(nextId) /\ Insert(nextId, p)
  BY DEF Spawn
<1>3. nextId \notin DOMAIN entities
  BY <1>1, <1>2 DEF EntityInv, CounterPast, Ids
<1>4. nextId' >= nextId /\ nextId' \in {After(nextId), nextId} /\ nextId' >= After(nextId)
  BY <1>1, <1>2 DEF After, Ids
<1> QED BY <1>1, <1>2, <1>3, <1>4, SpawnCounts

LEMMA SpawnWithIdInv ==
  ASSUME EntityAssumption, EntityInv, NEW id \in GivenIds, NEW p \in Points, SpawnWithId(id, p)
  PROVE  EntityInv'
<1>1. MaxId \in Nat \ {0} /\ nextId \in Ids /\ id \in Ids
  BY DEF EntityAssumption, EntityInv, EntityTypeOK, Ids
<1>2. id \notin DOMAIN entities /\ nextId' = Larger(nextId, After(id)) /\ Insert(id, p)
  BY DEF SpawnWithId
<1>3. nextId' \in {After(id), nextId} /\ nextId' >= After(id) /\ nextId' >= nextId
  BY <1>1, <1>2 DEF After, Larger, Ids
<1> QED BY <1>1, <1>2, <1>3, SpawnCounts

LEMMA RemoveInv ==
  ASSUME EntityInv, NEW id \in DOMAIN entities, RemoveEntity(id)
  PROVE  EntityInv'
<1>1. /\ entities' = [i \in DOMAIN entities \ {id} |-> entities[i]]
      /\ UNCHANGED nextId
  BY DEF RemoveEntity, Restrict
<1>2. /\ DOMAIN entities' = DOMAIN entities \ {id}
      /\ \A i \in DOMAIN entities' : entities'[i] = entities[i] /\ entities[i] \in Points
      /\ entities[id] \in Points
  BY <1>1 DEF EntityInv, EntityTypeOK
<1>3. entities' \in [DOMAIN entities' -> Points]
  BY <1>1, <1>2
<1>4. /\ index' \in [IndexedSections -> SUBSET Ids]
      /\ \A s \in IndexedSections :
           index'[s] = IF s = Section(entities[id]) THEN index[s] \ {id} ELSE index[s]
  BY <1>2, SectionIndexed DEF EntityInv, EntityTypeOK, RemoveEntity
<1>5. ASSUME NEW s \in IndexedSections
      PROVE  index'[s] = {i \in DOMAIN entities' : Section(entities'[i]) = s}
  BY <1>2, <1>4 DEF EntityInv, SectionsExact
<1>6. DOMAIN entities' \subseteq Ids /\ nextId' \in Ids /\ CounterPast'
  BY <1>1, <1>2 DEF EntityInv, EntityTypeOK, CounterPast
<1> QED BY <1>3, <1>4, <1>5, <1>6 DEF EntityInv, EntityTypeOK, SectionsExact

LEMMA MoveInv ==
  ASSUME EntityInv, NEW id \in DOMAIN entities, NEW point \in Points, Move(id, point)
  PROVE  EntityInv'
<1>1. entities' = [entities EXCEPT ![id] = point] /\ UNCHANGED nextId
  BY DEF Move
<1>2. /\ DOMAIN entities' = DOMAIN entities
      /\ entities'[id] = point
      /\ \A i \in DOMAIN entities \ {id} : entities'[i] = entities[i]
      /\ entities[id] \in Points
      /\ entities' \in [DOMAIN entities' -> Points]
  BY <1>1 DEF EntityInv, EntityTypeOK
<1>4. /\ index' \in [IndexedSections -> SUBSET Ids]
      /\ \A s \in IndexedSections :
           index'[s] = IF s = Section(point) THEN index[s] \cup {id}
                       ELSE IF s = Section(entities[id]) THEN index[s] \ {id} ELSE index[s]
  BY DEF EntityInv, EntityTypeOK, Move
<1>5. ASSUME NEW s \in IndexedSections
      PROVE  index'[s] = {i \in DOMAIN entities' : Section(entities'[i]) = s}
  BY <1>2, <1>4 DEF EntityInv, SectionsExact
<1>6. DOMAIN entities' \subseteq Ids /\ nextId' \in Ids /\ CounterPast'
  BY <1>1, <1>2 DEF EntityInv, EntityTypeOK, CounterPast
<1> QED BY <1>2, <1>4, <1>5, <1>6 DEF EntityInv, EntityTypeOK, SectionsExact

LEMMA EntityInitInv == EntityAssumption /\ EntitiesInit => EntityInv
<1> SUFFICES ASSUME EntityAssumption, EntitiesInit PROVE EntityInv
  OBVIOUS
<1>1. DOMAIN entities = {}
  BY DEF EntitiesInit
<1>2. MaxId \in Nat \ {0} /\ nextId \in Ids
  BY DEF EntityAssumption, EntitiesInit, Ids
<1> QED BY <1>1, <1>2 DEF EntitiesInit, EntityInv, EntityTypeOK, SectionsExact, CounterPast

LEMMA EntityNextInv == EntityAssumption /\ EntityInv /\ [EntitiesNext]_entityVars => EntityInv'
<1> SUFFICES ASSUME EntityAssumption, EntityInv, [EntitiesNext]_entityVars PROVE EntityInv'
  OBVIOUS
<1>1. CASE \E p \in Points : Spawn(p)
  BY <1>1, SpawnInv
<1>2. CASE \E id \in GivenIds, p \in Points : SpawnWithId(id, p)
  BY <1>2, SpawnWithIdInv
<1>3. CASE \E id \in DOMAIN entities : RemoveEntity(id)
  BY <1>3, RemoveInv
<1>4. CASE \E id \in DOMAIN entities, p \in Points : Move(id, p)
  BY <1>4, MoveInv
<1>5. CASE UNCHANGED entityVars
  BY <1>5 DEF entityVars, EntityInv, EntityTypeOK, SectionsExact, CounterPast
<1> QED BY <1>1, <1>2, <1>3, <1>4, <1>5 DEF EntitiesNext

LEMMA EntityInductive == EntityAssumption => (EntitiesSpec => []EntityInv)
<1> SUFFICES ASSUME EntityAssumption PROVE EntitiesSpec => []EntityInv
  OBVIOUS
<1>1. EntitiesInit => EntityInv
  BY EntityInitInv
<1>2. EntityInv /\ [EntitiesNext]_entityVars => EntityInv'
  BY EntityNextInv
<1> QED BY <1>1, <1>2, PTL DEF EntitiesSpec

-----------------------------------------------------------------------------
\* A query searches the section of every entity in its box.
LEMMA QueriesExact == EntityAssumption /\ EntityTypeOK /\ SectionsExact => QueryExact
<1> SUFFICES ASSUME EntityAssumption, EntityTypeOK, SectionsExact, NEW min \in Points, NEW max \in Points, min < max
             PROVE  InBox(min, max) = {id \in DOMAIN entities : entities[id] \in min .. max - 1}
  BY DEF QueryExact
<1>1. \A p \in Points : p \in Int
  BY DEF EntityAssumption
<1>2. ASSUME NEW id \in DOMAIN entities, min <= entities[id], entities[id] < max
      PROVE  \E s \in IndexedSections \cap (Section(min) .. Section(max - 1)) : id \in index[s]
  <2>1. entities[id] \in Points /\ entities[id] \in Int /\ min \in Int /\ max \in Int
    BY <1>1 DEF EntityTypeOK
  <2>2. min <= entities[id] /\ entities[id] <= max - 1 /\ max - 1 \in Int
    BY <1>2, <2>1
  <2>3. /\ Section(min) \in Int /\ Section(max - 1) \in Int /\ Section(entities[id]) \in Int
        /\ Section(min) <= Section(entities[id]) /\ Section(entities[id]) <= Section(max - 1)
    BY <2>1, <2>2, SectionsInOrder
  <2>4. Section(entities[id]) \in IndexedSections /\ id \in index[Section(entities[id])]
    BY <2>1, SectionIndexed DEF SectionsExact
  <2> QED BY <2>3, <2>4
<1>3. \A id \in DOMAIN entities : entities[id] \in Int /\ min \in Int /\ max \in Int
  BY <1>1 DEF EntityTypeOK
<1> QED BY <1>2, <1>3 DEF InBox

\* The entities keep their types: positions in the world, ids of 64 bits.
THEOREM EntityTypeCorrect == EntityAssumption => (EntitiesSpec => []EntityTypeOK)
  BY EntityInductive, PTL DEF EntityInv

\* For any points, section edge and ids: the index holds exactly the entities
\* of each section, a box query returns exactly those in the box, and an id
\* that spawn_entity gives out is new (world.rs, move_entity,
\* entity_ids_in_aabb, spawn_entity and spawn_entity_with_id).
THEOREM EntitiesFound == EntityAssumption => (EntitiesSpec => []EntitiesIndexed)
<1> SUFFICES ASSUME EntityAssumption PROVE EntitiesSpec => []EntitiesIndexed
  OBVIOUS
<1>1. EntityInv => SpawnIsFresh
  <2> SUFFICES ASSUME EntityInv, nextId <= SpawnBound PROVE nextId \notin DOMAIN entities
    BY DEF SpawnIsFresh
  <2>1. MaxId \in Nat \ {0} /\ SpawnBound \in 1 .. MaxId - 1 /\ nextId \in Ids
    BY DEF EntityAssumption, EntityInv, EntityTypeOK
  <2> QED BY <2>1 DEF EntityInv, CounterPast, Ids
<1>2. EntityInv => EntitiesIndexed
  BY <1>1, QueriesExact DEF EntityInv, EntitiesIndexed, IndexExact
<1> QED BY <1>2, EntityInductive, PTL

-----------------------------------------------------------------------------
(* Blocks                                                                  *)


-----------------------------------------------------------------------------
\* Digits of an index.
LEMMA Digits ==
  ASSUME NEW w \in Nat \ {0}, NEW h \in Nat, NEW b \in 0 .. h - 1, NEW a \in 0 .. w - 1,
         NEW n, n = b * w + a
  PROVE  n \in 0 .. h * w - 1 /\ n \div w = b /\ n % w = a
OBVIOUS

LEMMA Quotient ==
  \A n \in Int, w \in Nat \ {0} :
    n \div w \in Int /\ n % w \in 0 .. w - 1 /\ n = (n \div w) * w + (n % w)
OBVIOUS

LEMMA QuotientBelow ==
  ASSUME NEW w \in Nat \ {0}, NEW h \in Nat, NEW n \in 0 .. h * w - 1
  PROVE  n \div w \in 0 .. h - 1
OBVIOUS

LEMMA Product ==
  \A a, b, c \in Nat \ {0} : (b * c) * a = a * b * c /\ b * c \in Nat \ {0} /\ a * b * c \in Nat \ {0}
OBVIOUS

Triples == Int \X Int \X Int
Slots == box.size[1] * box.size[2] * box.size[3]

LEMMA BoxTypes ==
  box \in Boxes =>
    /\ box # None \/ None \in Boxes
    /\ box.min \in Triples
    /\ \A i \in 1 .. 3 : box.min[i] \in Int /\ box.size[i] \in Nat \ {0}
    /\ (box.size[2] * box.size[3]) * box.size[1] = Slots
    /\ Slots \in Nat \ {0} /\ box.size[2] * box.size[3] \in Nat \ {0}
<1> SUFFICES ASSUME box \in Boxes
             PROVE  /\ box # None \/ None \in Boxes
                    /\ box.min \in Triples
                    /\ \A i \in 1 .. 3 : box.min[i] \in Int /\ box.size[i] \in Nat \ {0}
                    /\ (box.size[2] * box.size[3]) * box.size[1] = Slots
                    /\ Slots \in Nat \ {0} /\ box.size[2] * box.size[3] \in Nat \ {0}
  OBVIOUS
<1>1. box.min \in Triples /\ box.size \in [1 .. 3 -> Nat \ {0}]
  BY DEF Boxes, Triples
<1>2. \A i \in 1 .. 3 : box.min[i] \in Int /\ box.size[i] \in Nat \ {0}
  <2>1. box.min[1] \in Int /\ box.min[2] \in Int /\ box.min[3] \in Int
    BY <1>1 DEF Triples
  <2> QED BY <1>1, <2>1
<1> DEFINE x == box.size[1]
           y == box.size[2]
           z == box.size[3]
<1>3. x \in Nat \ {0} /\ y \in Nat \ {0} /\ z \in Nat \ {0}
  BY <1>2
<1> HIDE DEF x, y, z
<1>4. (y * z) * x = x * y * z /\ y * z \in Nat \ {0} /\ x * y * z \in Nat \ {0}
  BY <1>3, Product
<1> QED BY <1>1, <1>2, <1>4 DEF x, y, z, Slots

\* A position in the box has an index of the array, which leads back to it.
LEMMA IndexInverse ==
  box \in Boxes => \A pos \in Triples :
    InArray(pos) => Index(pos) \in 0 .. Slots - 1 /\ PositionOf(Index(pos)) = pos
<1> SUFFICES ASSUME box \in Boxes, NEW pos \in Triples, InArray(pos)
             PROVE  Index(pos) \in 0 .. Slots - 1 /\ PositionOf(Index(pos)) = pos
  OBVIOUS
<1> DEFINE w == box.size[1]
           h == box.size[2]
           d == box.size[3]
           a == Offset(pos, 1)
           b == Offset(pos, 2)
           c == Offset(pos, 3)
           row == b * d + c
           n == row * w + a
<1>1. /\ w \in Nat \ {0} /\ h \in Nat \ {0} /\ d \in Nat \ {0}
      /\ (h * d) * w = Slots /\ h * d \in Nat \ {0}
      /\ box.min[1] \in Int /\ box.min[2] \in Int /\ box.min[3] \in Int
  BY BoxTypes
<1>2. a \in 0 .. w - 1 /\ b \in 0 .. h - 1 /\ c \in 0 .. d - 1
  BY DEF InArray
<1>3. pos = <<pos[1], pos[2], pos[3]>> /\ pos[1] \in Int /\ pos[2] \in Int /\ pos[3] \in Int
  BY DEF Triples
<1>4. box.min[1] + a = pos[1] /\ box.min[2] + b = pos[2] /\ box.min[3] + c = pos[3]
  BY <1>1, <1>3 DEF Offset
<1>5. Index(pos) = n
  BY DEF Index
<1>6. PositionOf(n) = <<box.min[1] + (n % w), box.min[2] + ((n \div w) \div d),
                        box.min[3] + ((n \div w) % d)>>
  BY DEF PositionOf
<1> HIDE DEF w, h, d, a, b, c
<1>r. row = b * d + c
  OBVIOUS
<1> HIDE DEF row
<1>7. row \in 0 .. h * d - 1 /\ row \div d = b /\ row % d = c
  BY <1>1, <1>2, <1>r, Digits
<1>n. n = row * w + a
  OBVIOUS
<1> HIDE DEF n
<1>8. n \in 0 .. (h * d) * w - 1 /\ n \div w = row /\ n % w = a
  <2> DEFINE m == h * d
  <2>1. row \in 0 .. m - 1 /\ m \in Nat /\ row \in Int
    BY <1>1, <1>7
  <2> HIDE DEF m
  <2>2. n \in 0 .. m * w - 1 /\ n \div w = row /\ n % w = a
    BY <1>1, <1>2, <1>n, <2>1, Digits
  <2> QED BY <2>2 DEF m
<1> QED BY <1>1, <1>3, <1>4, <1>5, <1>6, <1>7, <1>8

\* Every index of the array has a position in the box, which leads back to it.
LEMMA PositionInverse ==
  box \in Boxes /\ None \notin Boxes => \A n \in 0 .. Slots - 1 :
    PositionOf(n) \in Triples /\ InArray(PositionOf(n)) /\ Index(PositionOf(n)) = n
<1> SUFFICES ASSUME box \in Boxes, None \notin Boxes, NEW n \in 0 .. Slots - 1
             PROVE  PositionOf(n) \in Triples /\ InArray(PositionOf(n)) /\ Index(PositionOf(n)) = n
  OBVIOUS
<1> DEFINE w == box.size[1]
           h == box.size[2]
           d == box.size[3]
           row == n \div w
           a == n % w
           b == row \div d
           c == row % d
           pos == PositionOf(n)
<1>1. /\ w \in Nat \ {0} /\ h \in Nat \ {0} /\ d \in Nat \ {0}
      /\ (h * d) * w = Slots /\ h * d \in Nat \ {0} /\ Slots \in Nat \ {0} /\ box # None
      /\ box.min[1] \in Int /\ box.min[2] \in Int /\ box.min[3] \in Int
  BY BoxTypes
<1>2. pos = <<box.min[1] + a, box.min[2] + b, box.min[3] + c>>
  BY DEF PositionOf
<1>3. Index(pos) = (Offset(pos, 2) * d + Offset(pos, 3)) * w + Offset(pos, 1)
  BY DEF Index
<1>4. InArray(pos) <=> /\ Offset(pos, 1) \in 0 .. w - 1
                     /\ Offset(pos, 2) \in 0 .. h - 1
                     /\ Offset(pos, 3) \in 0 .. d - 1
  BY <1>1 DEF InArray
<1> HIDE DEF w, h, d
<1>5. row \in 0 .. h * d - 1 /\ a \in 0 .. w - 1 /\ n = row * w + a
  <2> DEFINE m == h * d
  <2>1. n \in 0 .. m * w - 1 /\ m \in Nat /\ n \in Int
    BY <1>1
  <2> HIDE DEF m
  <2>2. row \in 0 .. m - 1 /\ a \in 0 .. w - 1 /\ n = row * w + a
    BY <1>1, <2>1, Quotient, QuotientBelow
  <2> QED BY <2>2 DEF m
<1> HIDE DEF row, a
<1>6. b \in 0 .. h - 1 /\ c \in 0 .. d - 1 /\ row = b * d + c
  <2>1. row \in Int /\ row \in 0 .. h * d - 1
    BY <1>1, <1>5
  <2> QED BY <1>1, <2>1, Quotient, QuotientBelow
<1> HIDE DEF b, c, pos
<1>7. Offset(pos, 1) = a /\ Offset(pos, 2) = b /\ Offset(pos, 3) = c /\ pos \in Triples
  BY <1>1, <1>2, <1>5, <1>6 DEF Offset, Triples
<1> QED BY <1>3, <1>4, <1>5, <1>6, <1>7 DEF pos

-----------------------------------------------------------------------------
NotAir(section) == {c \in Cells : StateIn(section, c) # Air}

\* A section that may be written to: it counts its blocks, and its palette
\* holds air first and no state twice.
Consistent(section) ==
  /\ section \in SectionRecords
  /\ section.palette # <<>> /\ section.palette[1] = Air
  /\ \A i, j \in DOMAIN section.palette : section.palette[i] = section.palette[j] => i = j
  /\ section.indices \in [Cells -> DOMAIN section.palette]
  /\ section.nonAir = Cardinality(NotAir(section))

\* A section that is kept has a block.
Alive(section) == Consistent(section) /\ section.nonAir > 0

LEMMA NewConsistent ==
  ASSUME StoreAssumption
  PROVE  Consistent(NewSection) /\ \A c \in Cells : StateIn(NewSection, c) = Air
<1>1. /\ NewSection.palette = <<Air>> /\ NewSection.indices = [c \in Cells |-> 1]
      /\ NewSection.nonAir = 0
  BY DEF NewSection
<1>2. NewSection \in SectionRecords
  BY DEF StoreAssumption, NewSection, SectionRecords
<1>3. \A c \in Cells : StateIn(NewSection, c) = Air
  BY <1>1 DEF StateIn
<1>4. NotAir(NewSection) = {}
  BY <1>3 DEF NotAir
<1>5. DOMAIN NewSection.palette = 1 .. 1
  BY <1>1
<1> QED BY <1>1, <1>2, <1>3, <1>4, <1>5, FS_EmptySet DEF Consistent

\* A palette holds each state at most once: it has an index left for a state
\* that it does not hold.
LEMMA RoomInPalette ==
  ASSUME StoreAssumption, NEW section, Consistent(section), NEW state \in States
  PROVE  ~Overflows(section, state)
<1> DEFINE palette == section.palette
           n == Len(palette)
<1> SUFFICES ASSUME ~Contains(palette, state) PROVE n <= PaletteLimit
  <2>1. n \in Nat /\ PaletteLimit \in Nat
    BY DEF Consistent, SectionRecords, StoreAssumption
  <2> QED BY <2>1 DEF Overflows
<1>1. palette \in Seq(States) /\ n \in Nat /\ DOMAIN palette = 1 .. n
  BY DEF Consistent, SectionRecords
<1>2. \A i \in 1 .. n : palette[i] \in States \ {state}
  BY <1>1 DEF Contains
<1>3. palette \in Injection(1 .. n, States \ {state})
  BY <1>1, <1>2 DEF Injection, IsInjective, Consistent
<1>4. /\ IsFiniteSet(States \ {state})
      /\ Cardinality(States \ {state}) = Cardinality(States) - 1
      /\ Cardinality(States) \in Nat /\ Cardinality(States) <= PaletteLimit + 1
      /\ PaletteLimit \in Nat
  BY FS_RemoveElement, FS_CardinalityType DEF StoreAssumption
<1>5. Cardinality(1 .. n) = n
  BY <1>1, FS_Interval
<1>6. Cardinality(1 .. n) <= Cardinality(States \ {state})
  BY <1>3, <1>4, FS_Injection
<1> HIDE DEF n
<1> QED BY <1>1, <1>4, <1>5, <1>6

\* Writing a state that the cell does not hold changes the cell and no other,
\* and the count by what it was and what it is.
LEMMA WriteConsistent ==
  ASSUME StoreAssumption, NEW section, Consistent(section),
         NEW cell \in Cells, NEW state \in States, state # StateIn(section, cell)
  PROVE  LET new == WithState(section, cell, state)
         IN  /\ Consistent(new)
             /\ StateIn(new, cell) = state
             /\ \A c \in Cells \ {cell} : StateIn(new, c) = StateIn(section, c)
<1> DEFINE old == section.palette
           palette == InPalette(old, state)
           at == CHOOSE i \in DOMAIN palette : palette[i] = state
           new == WithState(section, cell, state)
           before == StateIn(section, cell)
           count == section.nonAir + (IF state # Air THEN 1 ELSE 0) - (IF before # Air THEN 1 ELSE 0)
<1>1. /\ old \in Seq(States) /\ old # <<>> /\ old[1] = Air
      /\ Len(old) \in Nat /\ DOMAIN old = 1 .. Len(old)
      /\ section.indices \in [Cells -> 1 .. Len(old)]
      /\ \A i, j \in 1 .. Len(old) : old[i] = old[j] => i = j
  BY DEF Consistent, SectionRecords
<1>2. /\ palette \in Seq(States) /\ palette # <<>>
      /\ \A i \in 1 .. Len(old) : i \in DOMAIN palette /\ palette[i] = old[i]
      /\ \A i, j \in DOMAIN palette : palette[i] = palette[j] => i = j
      /\ \E i \in DOMAIN palette : palette[i] = state
  <2>1. CASE Contains(old, state)
    BY <1>1, <2>1 DEF InPalette, Contains
  <2>2. CASE ~Contains(old, state)
    <3>1. palette = Append(old, state)
      BY <2>2 DEF InPalette
    <3>2. /\ palette \in Seq(States) /\ Len(palette) = Len(old) + 1
          /\ DOMAIN palette = 1 .. Len(old) + 1
          /\ \A i \in 1 .. Len(old) : palette[i] = old[i]
          /\ palette[Len(old) + 1] = state
      BY <1>1, <3>1
    <3>3. \A i \in 1 .. Len(old) : old[i] # state
      BY <1>1, <2>2 DEF Contains
    <3>4. ASSUME NEW i \in DOMAIN palette, NEW j \in DOMAIN palette, palette[i] = palette[j]
          PROVE  i = j
      BY <1>1, <3>2, <3>3, <3>4
    <3>5. palette # <<>>
      BY <1>1, <3>2
    <3> QED BY <1>1, <3>2, <3>4, <3>5
  <2> QED BY <2>1, <2>2
<1>3. new = [palette |-> palette, indices |-> [section.indices EXCEPT ![cell] = at],
             nonAir |-> count]
  BY DEF WithState
<1> HIDE DEF palette
<1>4. at \in DOMAIN palette /\ palette[at] = state
  BY <1>2
<1>5. before = old[section.indices[cell]]
  BY DEF StateIn
<1> HIDE DEF at, before
<1>6. /\ new.palette = palette /\ new.nonAir = count
      /\ new.indices[cell] = at
      /\ \A c \in Cells \ {cell} : new.indices[c] = section.indices[c]
      /\ new.indices \in [Cells -> DOMAIN palette]
  BY <1>1, <1>2, <1>3, <1>4
<1> HIDE DEF new
<1>7. StateIn(new, cell) = state
  BY <1>4, <1>6 DEF StateIn
<1>8. ASSUME NEW c \in Cells \ {cell} PROVE StateIn(new, c) = StateIn(section, c)
  BY <1>1, <1>2, <1>6 DEF StateIn
<1>9. /\ NotAir(section) \in SUBSET Cells /\ IsFiniteSet(NotAir(section))
      /\ Cardinality(NotAir(section)) \in Nat
      /\ cell \in NotAir(section) <=> before # Air
  BY FS_Subset, FS_CardinalityType DEF NotAir, StoreAssumption, before
<1>10. NotAir(new) = IF state # Air THEN NotAir(section) \cup {cell} ELSE NotAir(section) \ {cell}
  BY <1>7, <1>8 DEF NotAir
<1>11. section.nonAir = Cardinality(NotAir(section))
  BY DEF Consistent
<1>12. state # before
  BY DEF before
<1>13. new.nonAir = Cardinality(NotAir(new)) /\ new.nonAir \in Nat
  <2>1. CASE state # Air
    <3>1. Cardinality(NotAir(new)) = IF before # Air THEN Cardinality(NotAir(section))
                                                     ELSE Cardinality(NotAir(section)) + 1
      BY <1>9, <1>10, <2>1, FS_AddElement
    <3> QED BY <1>6, <1>9, <1>11, <2>1, <3>1
  <2>2. CASE state = Air
    <3>0. cell \in NotAir(section) /\ NotAir(new) = NotAir(section) \ {cell}
      BY <1>9, <1>10, <1>12, <2>2
    <3>f. IsFiniteSet(NotAir(section))
      BY <1>9
    <3>r. Cardinality(NotAir(section) \ {cell})
            = IF cell \in NotAir(section) THEN Cardinality(NotAir(section)) - 1
                                          ELSE Cardinality(NotAir(section))
      BY <3>f, FS_RemoveElement
    <3>1. Cardinality(NotAir(new)) = Cardinality(NotAir(section)) - 1
      BY <3>0, <3>r
    <3>2. IsFiniteSet(NotAir(new)) /\ Cardinality(NotAir(new)) \in Nat
      BY <1>9, <1>10, <2>2, FS_RemoveElement, FS_CardinalityType
    <3> QED BY <1>6, <1>9, <1>11, <1>12, <2>2, <3>1, <3>2
  <2> QED BY <2>1, <2>2
<1>14. new \in SectionRecords
  <2>1. DOMAIN palette \subseteq Nat
    BY <1>2
  <2>2. new.indices \in [Cells -> Nat]
    BY <1>6, <2>1
  <2>3. new = [palette |-> new.palette, indices |-> new.indices, nonAir |-> new.nonAir]
    BY <1>3, <1>6
  <2> QED BY <1>2, <1>6, <1>13, <2>2, <2>3 DEF SectionRecords
<1>15. palette[1] = Air
  BY <1>1, <1>2
<1>16. Consistent(new)
  BY <1>2, <1>6, <1>13, <1>14, <1>15 DEF Consistent
<1> QED BY <1>7, <1>8, <1>16 DEF new

-----------------------------------------------------------------------------
\* Sections are kept as long as they have a block; in the array they are found
\* by their index; a section of the map lies outside the box of the array.
StoreInv ==
  /\ DOMAIN sparse \subseteq Sections
  /\ sparse = [p \in DOMAIN sparse |-> sparse[p]]
  /\ \A p \in DOMAIN sparse : Alive(sparse[p])
  /\ box = None => DOMAIN dense = {}
  /\ dense = [n \in DOMAIN dense |-> dense[n]]
  /\ box # None =>
       /\ box \in Boxes /\ DOMAIN dense = 0 .. Slots - 1
       /\ \A n \in DOMAIN dense : dense[n] # None => Alive(dense[n]) /\ PositionOf(n) \in Sections
       /\ \A p \in DOMAIN sparse : ~InArray(p)

LEMMA SectionTriples ==
  StoreAssumption => Sections \subseteq Triples
BY DEF StoreAssumption, Triples

LEMMA AliveNotNone ==
  ASSUME StoreAssumption, NEW section, Alive(section)
  PROVE  section # None
BY DEF StoreAssumption, Alive, Consistent

\* What is known of the sections that are read.
LEMMA SectionsAlive ==
  ASSUME StoreAssumption, StoreInv, NEW pos \in Sections
  PROVE  /\ SectionAt(pos) = None \/ Alive(SectionAt(pos))
         /\ InArray(pos) => Index(pos) \in DOMAIN dense
<1>1. CASE InArray(pos)
  <2>1. box # None /\ pos \in Triples
    BY <1>1, SectionTriples DEF InArray
  <2>2. Index(pos) \in DOMAIN dense
    BY <1>1, <2>1, IndexInverse DEF StoreInv
  <2> QED BY <1>1, <2>1, <2>2 DEF StoreInv, SectionAt
<1>2. CASE ~InArray(pos)
  BY <1>2 DEF StoreInv, SectionAt
<1> QED BY <1>1, <1>2

\* Storing a section, or nothing, at a position changes what is found there.
LEMMA StoreEffect ==
  ASSUME StoreAssumption, StoreInv, NEW pos \in Sections,
         NEW section, section = None \/ Alive(section),
         Store(pos, section), UNCHANGED box
  PROVE  /\ StoreInv'
         /\ \A p \in Sections : SectionAt(p)' = IF p = pos THEN section ELSE SectionAt(p)
<1>0. \A p : /\ InArray(p)' <=> InArray(p)
             /\ Index(p)' = Index(p)
             /\ PositionOf(p)' = PositionOf(p)
  BY DEF InArray, Index, PositionOf, Offset
<1>s. Slots' = Slots
  BY DEF Slots
<1>1. CASE InArray(pos)
  <2>1. box # None /\ box \in Boxes /\ pos \in Triples
    BY <1>1, SectionTriples DEF InArray, StoreInv
  <2>2. Index(pos) \in DOMAIN dense /\ PositionOf(Index(pos)) = pos
    BY <1>1, <2>1, IndexInverse DEF StoreInv
  <2>3. dense' = [dense EXCEPT ![Index(pos)] = section] /\ UNCHANGED sparse
    BY <1>1 DEF Store
  <2>4. /\ DOMAIN dense' = DOMAIN dense /\ dense'[Index(pos)] = section
        /\ \A n \in DOMAIN dense \ {Index(pos)} : dense'[n] = dense[n]
        /\ dense' = [n \in DOMAIN dense' |-> dense'[n]]
    BY <2>2, <2>3
  <2>5. ASSUME NEW p \in Sections
        PROVE  SectionAt(p)' = IF p = pos THEN section ELSE SectionAt(p)
    <3>1. CASE p = pos
      BY <1>0, <1>1, <2>4, <3>1 DEF SectionAt
    <3>2. CASE p # pos /\ InArray(p)
      <4>1. p \in Triples
        BY SectionTriples
      <4>2. Index(p) \in DOMAIN dense /\ PositionOf(Index(p)) = p
        BY <2>1, <3>2, <4>1, IndexInverse DEF StoreInv
      <4>3. Index(p) # Index(pos)
        BY <2>2, <3>2, <4>2
      <4> QED BY <1>0, <2>4, <3>2, <4>2, <4>3 DEF SectionAt
    <3>3. CASE p # pos /\ ~InArray(p)
      BY <1>0, <2>3, <3>3 DEF SectionAt
    <3> QED BY <3>1, <3>2, <3>3
  <2>6. ASSUME NEW n \in DOMAIN dense', dense'[n] # None
        PROVE  Alive(dense'[n]) /\ PositionOf(n)' \in Sections
    BY <1>0, <2>1, <2>2, <2>4, <2>6 DEF StoreInv
  <2>7. StoreInv'
    BY <1>0, <1>s, <2>1, <2>3, <2>4, <2>6 DEF StoreInv
  <2> QED BY <2>5, <2>7
<1>2. CASE ~InArray(pos)
  <2>1. UNCHANGED dense
    BY <1>2 DEF Store
  <2>2. /\ DOMAIN sparse' = IF section = None THEN DOMAIN sparse \ {pos} ELSE DOMAIN sparse \cup {pos}
        /\ sparse' = [p \in DOMAIN sparse' |-> sparse'[p]]
        /\ section # None => sparse'[pos] = section
        /\ \A p \in DOMAIN sparse' \ {pos} : sparse'[p] = sparse[p]
    BY <1>2 DEF Store, Restrict
  <2>3. ASSUME NEW p \in Sections
        PROVE  SectionAt(p)' = IF p = pos THEN section ELSE SectionAt(p)
    BY <1>0, <1>2, <2>1, <2>2 DEF SectionAt
  <2>4. /\ DOMAIN sparse' \subseteq Sections
        /\ \A p \in DOMAIN sparse' : Alive(sparse'[p])
        /\ box # None => \A p \in DOMAIN sparse' : ~InArray(p)
    BY <1>2, <2>2 DEF StoreInv
  <2>5. \A n \in DOMAIN dense' : dense'[n] = dense[n] /\ PositionOf(n)' = PositionOf(n)
    BY <1>0, <2>1
  <2>6. StoreInv'
    BY <1>0, <1>s, <2>1, <2>2, <2>4, <2>5 DEF StoreInv
  <2> QED BY <2>3, <2>6
<1> QED BY <1>1, <1>2

\* set_block changes the block at the position, and no other.
LEMMA SetBlockEffect ==
  ASSUME StoreAssumption, StoreInv, NEW pos \in Sections, NEW cell \in Cells, NEW state \in States,
         SetState(pos, cell, state)
  PROVE  /\ StoreInv'
         /\ \A p \in Sections, c \in Cells :
              Get(p, c)' = IF p = pos /\ c = cell THEN state ELSE Get(p, c)
<1> DEFINE old == IF SectionAt(pos) = None THEN NewSection ELSE SectionAt(pos)
           new == WithState(old, cell, state)
           kept == Kept(pos, new)
<1>1. /\ Consistent(old)
      /\ \A c \in Cells : StateIn(old, c) = Get(pos, c)
  BY NewConsistent, SectionsAlive DEF Alive, Get
<1>2. state # StateIn(old, cell) /\ Store(pos, kept) /\ UNCHANGED box
  BY <1>1 DEF SetState
<1> HIDE DEF old
<1>3. /\ Consistent(new) /\ StateIn(new, cell) = state
      /\ \A c \in Cells \ {cell} : StateIn(new, c) = StateIn(old, c)
  BY <1>1, <1>2, WriteConsistent
<1> HIDE DEF new
<1>4. IsFiniteSet(NotAir(new)) /\ Cardinality(NotAir(new)) \in Nat
      /\ new.nonAir = Cardinality(NotAir(new))
  BY <1>3, FS_Subset, FS_CardinalityType DEF Consistent, NotAir, StoreAssumption
<1>5. /\ kept = None \/ Alive(kept)
      /\ kept # None => kept = new
      /\ kept = None => NotAir(new) = {}
  <2>1. CASE new.nonAir = 0
    BY <1>3, <1>4, <2>1, FS_EmptySet DEF Kept
  <2>2. CASE new.nonAir # 0
    <3>1. kept = new /\ Alive(new)
      BY <1>3, <1>4, <2>2 DEF Kept, Alive
    <3> QED BY <3>1, AliveNotNone
  <2> QED BY <2>1, <2>2
<1> HIDE DEF kept
<1>6. /\ StoreInv'
      /\ \A p \in Sections : SectionAt(p)' = IF p = pos THEN kept ELSE SectionAt(p)
  BY <1>2, <1>5, StoreEffect
<1>7. ASSUME NEW p \in Sections, NEW c \in Cells
      PROVE  Get(p, c)' = IF p = pos /\ c = cell THEN state ELSE Get(p, c)
  <2>1. CASE p # pos
    BY <1>6, <2>1 DEF Get, StateIn
  <2>2. CASE p = pos
    <3>1. Get(p, c)' = StateIn(new, c)
      <4>1. CASE kept = None
        <5>1. StateIn(new, c) = Air
          BY <1>5, <4>1 DEF NotAir
        <5> QED BY <1>6, <2>2, <4>1, <5>1 DEF Get
      <4>2. CASE kept # None
        BY <1>5, <1>6, <2>2, <4>2 DEF Get, StateIn
      <4> QED BY <4>1, <4>2
    <3> QED BY <1>1, <1>3, <2>2, <3>1
  <2> QED BY <2>1, <2>2
<1> QED BY <1>6, <1>7

-----------------------------------------------------------------------------
\* A coordinate of the sections of the map has a least and a greatest value.
LEMMA LeastNatural ==
  ASSUME NEW T \in SUBSET Nat, T # {}
  PROVE  \E x \in T : \A y \in T : x <= y
<1>1. PICK x \in T : \A y \in T : ~(<<y, x>> \in OpToRel(<, Nat))
  BY WFMin, NatLessThanWellFounded
<1>2. \A y \in T : ~(y < x)
  BY <1>1 DEF OpToRel
<1> QED BY <1>2

LEMMA Least ==
  ASSUME NEW T, NEW b \in Nat, T \subseteq -b .. b, T # {}
  PROVE  \E x \in T : \A y \in T : x <= y
<1> DEFINE shifted == {x + b : x \in T}
<1>0. \A x \in T : x \in -b .. b
  OBVIOUS
<1>1. shifted \subseteq Nat /\ shifted # {}
  <2>1. \A x \in -b .. b : x + b \in Nat
    OBVIOUS
  <2>2. \A n \in shifted : n \in Nat
    BY <1>0, <2>1
  <2> QED BY <2>2
<1> HIDE DEF shifted
<1>3. PICK n \in shifted : \A m \in shifted : n <= m
  BY <1>1, LeastNatural
<1>4. PICK x \in T : n = x + b
  BY DEF shifted
<1>5. ASSUME NEW y \in T PROVE x <= y
  <2>1. n <= y + b
    BY <1>3 DEF shifted
  <2> QED BY <1>4, <2>1
<1> QED BY <1>5

LEMMA Greatest ==
  ASSUME NEW T, NEW b \in Nat, T \subseteq -b .. b, T # {}
  PROVE  \E x \in T : \A y \in T : y <= x
<1> DEFINE mirrored == {-x : x \in T}
<1>1. mirrored \subseteq -b .. b /\ mirrored # {}
  <2>1. \A x \in T : x \in Int /\ -b <= x /\ x <= b
    OBVIOUS
  <2>2. \A x \in T : -x \in -b .. b
    BY <2>1
  <2> QED BY <2>2
<1> HIDE DEF mirrored
<1>2. PICK n \in mirrored : \A m \in mirrored : n <= m
  BY <1>1, Least
<1>3. PICK x \in T : n = -x
  BY DEF mirrored
<1>4. ASSUME NEW y \in T PROVE y <= x
  <2>1. n <= -y
    BY <1>2 DEF mirrored
  <2> QED BY <1>3, <2>1
<1> QED BY <1>4

LEMMA Bounds ==
  ASSUME StoreAssumption, StoreInv, DOMAIN sparse # {}, NEW i \in 1 .. 3
  PROVE  /\ Lowest(i) \in Int /\ Highest(i) \in Int /\ Lowest(i) <= Highest(i)
         /\ \A p \in DOMAIN sparse : p[i] \in Int /\ Lowest(i) <= p[i] /\ p[i] <= Highest(i)
<1> DEFINE T == {p[i] : p \in DOMAIN sparse}
<1>1. \A p \in DOMAIN sparse : p[i] \in -Reach .. Reach
  BY DEF StoreInv, StoreAssumption
<1>2. T \subseteq -Reach .. Reach /\ T # {} /\ Reach \in Nat
  BY <1>1 DEF StoreAssumption
<1> HIDE DEF T
<1>3. /\ \E v \in T : \A w \in T : v <= w
      /\ \E v \in T : \A w \in T : w <= v
  BY <1>2, Least, Greatest
<1> USE DEF T
<1>4. /\ \E v \in T : \A p \in DOMAIN sparse : v <= p[i]
      /\ \E v \in T : \A p \in DOMAIN sparse : p[i] <= v
  BY <1>3
<1>5. /\ Lowest(i) \in T /\ \A p \in DOMAIN sparse : Lowest(i) <= p[i]
      /\ Highest(i) \in T /\ \A p \in DOMAIN sparse : p[i] <= Highest(i)
  BY <1>4 DEF Lowest, Highest
<1>6. PICK p \in DOMAIN sparse : TRUE
  OBVIOUS
<1>7. Lowest(i) \in Int /\ Highest(i) \in Int /\ \A q \in DOMAIN sparse : q[i] \in Int
  BY <1>1, <1>2, <1>5
<1> HIDE DEF T
<1> QED BY <1>5, <1>6, <1>7

\* optimize_section_access moves every section into the array and changes what
\* is found nowhere.
LEMMA OptimizeEffect ==
  ASSUME StoreAssumption, StoreInv, Optimize
  PROVE  /\ StoreInv'
         /\ \A p \in Sections : SectionAt(p)' = SectionAt(p)
<1> DEFINE min == <<Lowest(1), Lowest(2), Lowest(3)>>
           size == [i \in 1 .. 3 |-> Highest(i) - Lowest(i) + 1]
<1>1. /\ box = None /\ DOMAIN sparse # {}
      /\ box' = [min |-> min, size |-> size]
      /\ dense' = [n \in 0 .. size[1] * size[2] * size[3] - 1 |->
                     IF \E p \in DOMAIN sparse : Index(p)' = n
                     THEN sparse[CHOOSE p \in DOMAIN sparse : Index(p)' = n] ELSE None]
      /\ sparse' = [p \in {} |-> None]
  BY DEF Optimize
<1>2. \A i \in 1 .. 3 : /\ Lowest(i) \in Int /\ Highest(i) \in Int /\ Lowest(i) <= Highest(i)
                        /\ \A p \in DOMAIN sparse : /\ p[i] \in Int
                                                    /\ Lowest(i) <= p[i] /\ p[i] <= Highest(i)
  BY <1>1, Bounds
<1>3. /\ min \in Triples /\ size \in [1 .. 3 -> Nat \ {0}]
      /\ \A i \in 1 .. 3 : min[i] = Lowest(i) /\ size[i] = Highest(i) - Lowest(i) + 1
  BY <1>2 DEF Triples
<1> HIDE DEF min, size
<1>4. box' \in Boxes /\ (box # None)' /\ box'.min = min /\ box'.size = size
  BY <1>1, <1>3 DEF Boxes, Triples, StoreAssumption
<1>5. ASSUME NEW p \in DOMAIN sparse PROVE InArray(p)'
  <2>1. \A i \in 1 .. 3 : p[i] - min[i] \in 0 .. size[i] - 1
    BY <1>2, <1>3
  <2> QED BY <1>4, <2>1 DEF InArray, Offset
<1>6. DOMAIN sparse \subseteq Sections /\ Sections \subseteq Triples
  BY SectionTriples DEF StoreInv
<1>7. \A pos \in Triples : InArray(pos)' =>
        /\ Index(pos)' \in (0 .. Slots - 1)'
        /\ \A n : n = Index(pos)' => PositionOf(n)' = pos
  <2>1. (box \in Boxes => \A pos \in Triples :
           InArray(pos) => Index(pos) \in 0 .. Slots - 1 /\ PositionOf(Index(pos)) = pos)'
    BY IndexInverse, PTL
  <2> QED BY <1>4, <2>1
<1>8. DOMAIN dense' = (0 .. Slots - 1)'
  BY <1>1, <1>4 DEF Slots
<1>9. ASSUME NEW pos \in Sections, InArray(pos)'
      PROVE  SectionAt(pos)' = SectionAt(pos)
  <2>1. Index(pos)' \in DOMAIN dense' /\ pos \in Triples
    BY <1>6, <1>7, <1>8, <1>9
  <2>2. \A p \in DOMAIN sparse : Index(p)' = Index(pos)' => p = pos
    BY <1>5, <1>6, <1>7, <1>9, <2>1
  <2>3. SectionAt(pos)' = dense'[Index(pos)']
    BY <1>9 DEF SectionAt
  <2>4. SectionAt(pos) = IF pos \in DOMAIN sparse THEN sparse[pos] ELSE None
    BY <1>1 DEF SectionAt, InArray
  <2>5. dense'[Index(pos)'] = IF pos \in DOMAIN sparse THEN sparse[pos] ELSE None
    BY <1>1, <2>1, <2>2
  <2> QED BY <2>3, <2>4, <2>5
<1>10. ASSUME NEW pos \in Sections, ~InArray(pos)'
       PROVE  SectionAt(pos)' = SectionAt(pos)
  BY <1>1, <1>5, <1>10 DEF SectionAt, InArray
<1>11. ASSUME NEW n \in DOMAIN dense', dense'[n] # None
       PROVE  Alive(dense'[n]) /\ PositionOf(n)' \in Sections
  <2>1. PICK p \in DOMAIN sparse : Index(p)' = n /\ dense'[n] = sparse[p]
    BY <1>1, <1>11
  <2>2. PositionOf(n)' = p
    BY <1>5, <1>6, <1>7, <2>1
  <2> QED BY <1>6, <2>1, <2>2 DEF StoreInv
<1>12. StoreInv'
  <2>1. DOMAIN sparse' = {} /\ sparse' = [p \in DOMAIN sparse' |-> sparse'[p]]
    BY <1>1
  <2>2. dense' = [n \in DOMAIN dense' |-> dense'[n]]
    BY <1>1
  <2> QED BY <1>4, <1>8, <1>11, <2>1, <2>2 DEF StoreInv
<1> QED BY <1>9, <1>10, <1>12

LEMMA StoreInitInv == StoreAssumption /\ StoreInit => StoreInv /\ \A p \in Sections : SectionAt(p) = None
BY DEF StoreInit, StoreInv, SectionAt, InArray

LEMMA StoreNextInv == StoreAssumption /\ StoreInv /\ [StoreNext]_storeVars => StoreInv'
<1> SUFFICES ASSUME StoreAssumption, StoreInv, [StoreNext]_storeVars PROVE StoreInv'
  OBVIOUS
<1>1. CASE \E pos \in Sections, cell \in Cells, state \in States : SetState(pos, cell, state)
  BY <1>1, SetBlockEffect
<1>2. CASE Optimize
  BY <1>2, OptimizeEffect
<1>3. CASE UNCHANGED storeVars
  <2>1. \A p : InArray(p)' = InArray(p) /\ PositionOf(p)' = PositionOf(p)
    BY <1>3 DEF storeVars, InArray, PositionOf, Offset
  <2> QED BY <1>3, <2>1 DEF storeVars, StoreInv, Slots
<1> QED BY <1>1, <1>2, <1>3 DEF StoreNext

LEMMA StoreInductive == StoreAssumption => (StoreSpec => []StoreInv)
<1> SUFFICES ASSUME StoreAssumption PROVE StoreSpec => []StoreInv
  OBVIOUS
<1>1. StoreInit => StoreInv
  BY StoreInitInv
<1>2. StoreInv /\ [StoreNext]_storeVars => StoreInv'
  BY StoreNextInv
<1> QED BY <1>1, <1>2, PTL DEF StoreSpec

-----------------------------------------------------------------------------
\* The blocks as BlockMap sees them.
blocks == [pos \in Sections \X Cells |-> Get(pos[1], pos[2])]

LEMMA MapInit == StoreAssumption /\ StoreInit => Map!Init
<1> SUFFICES ASSUME StoreAssumption, StoreInit PROVE Map!Init
  OBVIOUS
<1>1. \A p \in Sections, c \in Cells : Get(p, c) = Air
  BY StoreInitInv DEF Get
<1> QED BY <1>1 DEF Map!Init, Map!Everywhere

\* Setting a block sets one block of the map.
LEMMA MapStep == StoreAssumption /\ StoreInv /\ [StoreNext]_storeVars => [Map!Next]_blocks
<1> SUFFICES ASSUME StoreAssumption, StoreInv, [StoreNext]_storeVars PROVE [Map!Next]_blocks
  OBVIOUS
<1>1. CASE \E pos \in Sections, cell \in Cells, state \in States : SetState(pos, cell, state)
  <2>1. PICK pos \in Sections, cell \in Cells, state \in States : SetState(pos, cell, state)
    BY <1>1
  <2>2. \A p \in Sections, c \in Cells :
          Get(p, c)' = IF p = pos /\ c = cell THEN state ELSE Get(p, c)
    BY <2>1, SetBlockEffect
  <2>3. /\ blocks'[<<pos, cell>>] = state
        /\ \A other \in Sections \X Cells : other = <<pos, cell>> \/ blocks'[other] = blocks[other]
    BY <2>2 DEF blocks
  <2>4. blocks'[<<pos, cell>>] # blocks[<<pos, cell>>]
    BY <2>1, <2>3 DEF SetState, blocks
  <2>5. Map!Next
    BY <2>3, <2>4 DEF Map!Next, Map!SetBlock, Map!Everywhere, blocks
  <2> QED BY <2>5
<1>2. CASE Optimize
  <2>1. \A p \in Sections, c \in Cells : Get(p, c)' = Get(p, c)
    BY <1>2, OptimizeEffect DEF Get, StateIn
  <2>2. blocks' = blocks
    BY <2>1 DEF blocks
  <2> QED BY <2>2
<1>3. CASE UNCHANGED storeVars
  BY <1>3 DEF storeVars, blocks, Get, SectionAt, InArray, Index, Offset, StateIn
<1> QED BY <1>1, <1>2, <1>3 DEF StoreNext

\* For any sections, cells and states: the sections are a map of blocks; only
\* set_block changes a block, the one it is given, and building the array of
\* sections changes none (world.rs, set_block and optimize_section_access).
THEOREM ImplementsBlockMap == StoreAssumption => (StoreSpec => RefinesBlockMap)
<1> SUFFICES ASSUME StoreAssumption PROVE StoreSpec => Map!Spec
  BY DEF RefinesBlockMap
<1>1. StoreInit => Map!Init
  BY MapInit
<1>2. StoreInv /\ [StoreNext]_storeVars => [Map!Next]_blocks
  BY MapStep
<1> QED BY <1>1, <1>2, StoreInductive, PTL DEF StoreSpec, Map!Spec, blocks

-----------------------------------------------------------------------------
LEMMA CountedMeans == StoreAssumption /\ StoreInv => Counted
<1> SUFFICES ASSUME StoreAssumption, StoreInv, NEW pos \in AllocatedSections
             PROVE  LET s == SectionAt(pos)
                        count == Cardinality({c \in Cells : Get(pos, c) # Air})
                    IN /\ s.nonAir = count /\ count > 0
                       /\ s.palette[1] = Air /\ s.indices \in [Cells -> DOMAIN s.palette]
                       /\ ~\E state \in States : Overflows(s, state)
  BY DEF Counted
<1> DEFINE s == SectionAt(pos)
<1>1. s # None /\ Alive(s)
  BY SectionsAlive DEF AllocatedSections
<1>2. {c \in Cells : Get(pos, c) # Air} = NotAir(s)
  BY <1>1 DEF Get, NotAir
<1> HIDE DEF s
<1>3. \A state \in States : ~Overflows(s, state)
  BY <1>1, RoomInPalette DEF Alive
<1> QED BY <1>1, <1>2, <1>3 DEF Alive, Consistent, s

\* Each section of the array is listed at its own position, in the box; each
\* section of the map lies outside.
LEMMA ListedMeans == StoreAssumption /\ StoreInv => ListedOnce
<1> SUFFICES ASSUME StoreAssumption, StoreInv PROVE ListedOnce
  OBVIOUS
<1> DEFINE listed == {n \in DOMAIN dense : dense[n] # None}
           places == {PositionOf(n) : n \in listed}
<1>1. ASSUME NEW n \in listed
      PROVE  /\ PositionOf(n) \in Sections /\ InArray(PositionOf(n)) /\ Index(PositionOf(n)) = n
             /\ SectionAt(PositionOf(n)) = dense[n]
  <2>1. box # None
    BY DEF StoreInv
  <2>2. box \in Boxes /\ n \in 0 .. Slots - 1 /\ PositionOf(n) \in Sections
    BY <2>1 DEF StoreInv
  <2>3. InArray(PositionOf(n)) /\ Index(PositionOf(n)) = n
    BY <2>2, PositionInverse DEF StoreAssumption
  <2> QED BY <2>2, <2>3 DEF SectionAt
<1>2. ASSUME NEW p \in Sections, InArray(p), SectionAt(p) # None
      PROVE  p \in places
  <2>1. box # None /\ p \in Triples
    BY <1>2, SectionTriples DEF InArray
  <2>2. Index(p) \in DOMAIN dense /\ PositionOf(Index(p)) = p
    BY <1>2, <2>1, IndexInverse DEF StoreInv
  <2>3. dense[Index(p)] # None
    BY <1>2 DEF SectionAt
  <2> QED BY <2>2, <2>3
<1>3. ASSUME NEW p \in DOMAIN sparse
      PROVE  p \in Sections /\ ~InArray(p) /\ SectionAt(p) # None
  <2>1. p \in Sections /\ ~InArray(p)
    BY DEF StoreInv, InArray
  <2>2. sparse[p] # None
    BY AliveNotNone DEF StoreInv
  <2> QED BY <2>1, <2>2 DEF SectionAt
<1>4. places \cup DOMAIN sparse = AllocatedSections
  <2>1. places \subseteq AllocatedSections
    BY <1>1 DEF AllocatedSections
  <2>2. DOMAIN sparse \subseteq AllocatedSections
    BY <1>3 DEF AllocatedSections
  <2>3. ASSUME NEW p \in AllocatedSections PROVE p \in places \cup DOMAIN sparse
    <3>1. CASE InArray(p)
      BY <1>2, <3>1 DEF AllocatedSections
    <3>2. CASE ~InArray(p)
      BY <3>2 DEF AllocatedSections, SectionAt
    <3> QED BY <3>1, <3>2
  <2> QED BY <2>1, <2>2, <2>3
<1>5. places \cap DOMAIN sparse = {}
  BY <1>1, <1>3
<1>6. IsFiniteSet(Sections)
  <2> DEFINE A == -Reach .. Reach
             pairs == A \X (A \X A)
             f == [x \in pairs |-> <<x[1], x[2][1], x[2][2]>>]
  <2>1. IsFiniteSet(A)
    BY FS_Interval DEF StoreAssumption
  <2> HIDE DEF A
  <2>2. IsFiniteSet(pairs)
    BY <2>1, FS_Product
  <2>3. f \in Surjection(pairs, A \X A \X A)
    <3>1. f \in [pairs -> A \X A \X A]
      OBVIOUS
    <3>2. ASSUME NEW t \in A \X A \X A PROVE \E x \in pairs : f[x] = t
      <4>1. <<t[1], <<t[2], t[3]>>>> \in pairs /\ f[<<t[1], <<t[2], t[3]>>>>] = t
        OBVIOUS
      <4> QED BY <4>1
    <3> HIDE DEF f, pairs
    <3> QED BY <3>1, <3>2 DEF Surjection
  <2>4. IsFiniteSet(A \X A \X A)
    <3> HIDE DEF f, pairs
    <3> QED BY <2>2, <2>3, FS_Surjection
  <2>5. Sections \subseteq A \X A \X A
    BY DEF StoreAssumption, A
  <2> QED BY <2>4, <2>5, FS_Subset
<1>7. IsFiniteSet(listed) /\ ExistsBijection(listed, places)
  <2>1. IsFiniteSet(listed)
    <3>1. CASE box = None
      BY <3>1, FS_EmptySet DEF StoreInv
    <3>2. CASE box # None
      <4>1. DOMAIN dense = 0 .. Slots - 1 /\ Slots \in Nat
        BY <3>2, BoxTypes DEF StoreInv
      <4>2. IsFiniteSet(0 .. Slots - 1)
        BY <4>1, FS_Interval
      <4> QED BY <4>1, <4>2, FS_Subset
    <3> QED BY <3>1, <3>2
  <2> DEFINE f == [n \in listed |-> PositionOf(n)]
  <2>2. f \in [listed -> places] /\ \A n \in listed : f[n] = PositionOf(n)
    OBVIOUS
  <2>3. \A p \in places : \E n \in listed : f[n] = p
    OBVIOUS
  <2>4. \A m, n \in listed : f[m] = f[n] => m = n
    BY <1>1
  <2> HIDE DEF f, listed, places
  <2>5. f \in Bijection(listed, places)
    BY <2>2, <2>3, <2>4 DEF Bijection, Injection, Surjection, IsInjective
  <2> QED BY <2>1, <2>5 DEF ExistsBijection
<1>8. Cardinality(listed) + Cardinality(DOMAIN sparse) = Cardinality(AllocatedSections)
  <2>1. IsFiniteSet(places) /\ Cardinality(places) = Cardinality(listed)
    BY <1>7, FS_Bijection
  <2>2. IsFiniteSet(DOMAIN sparse)
    BY <1>6, FS_Subset DEF StoreInv
  <2> HIDE DEF listed, places
  <2>3. Cardinality(places \cap DOMAIN sparse) = 0
    BY <1>5, FS_EmptySet
  <2>4. Cardinality(places \cup DOMAIN sparse)
          = Cardinality(places) + Cardinality(DOMAIN sparse) - Cardinality(places \cap DOMAIN sparse)
    BY <2>1, <2>2, FS_Union
  <2>5. Cardinality(places) \in Nat /\ Cardinality(DOMAIN sparse) \in Nat
    BY <2>1, <2>2, FS_CardinalityType
  <2>6. Cardinality(AllocatedSections) = Cardinality(places \cup DOMAIN sparse)
    BY ONLY <1>4
  <2> QED BY ONLY <2>1, <2>3, <2>4, <2>5, <2>6
<1> QED BY <1>1, <1>4, <1>8 DEF ListedOnce

\* For any sections, cells and states, in the map and in the array: a section
\* is there exactly as long as it has a block that is not air, which it counts,
\* its palette has room for every state, and every section is listed once, at
\* the position where its blocks are read (world.rs, BlockSection and
\* DenseSections).
THEOREM SectionsWellFormed == StoreAssumption => (StoreSpec => []WellFormed)
<1> SUFFICES ASSUME StoreAssumption PROVE StoreSpec => []WellFormed
  OBVIOUS
<1>1. StoreInv => WellFormed
  BY CountedMeans, ListedMeans DEF WellFormed
<1> QED BY <1>1, StoreInductive, PTL
================================================================================
