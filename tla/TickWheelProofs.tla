--------------------------- MODULE TickWheelProofs ---------------------------
(***************************************************************************)
(* Proofs about TickWheel, for any number of keys, priorities, slots,      *)
(* ticks and any per-tick limit.                                           *)
(*                                                                         *)
(* InsertEffect and StartEffect say what the two queue operations do to    *)
(* the queues of every tick, wherever they are kept; IInv is preserved     *)
(* because the operations only append at the back and pop at the front.    *)
(***************************************************************************)
EXTENDS TickWheel, SequenceTheorems, FiniteSetTheorems, TLAPS

\* A trigger tick has a slot.
LEMMA IndexInSlots == \A T \in GameTicks : WheelIndex(T) \in Slots
  BY WheelAssumption DEF GameTicks, WheelIndex, Slots

\* NoTick, the slot's None, is no game tick.
LEMMA NoTickIsNone == NoTick \notin GameTicks
  BY DEF NoTick, GameTicks

LEMMA EmptyQueuesType == EmptyQueues \in TickQueues
  BY DEF EmptyQueues, TickQueues

\* Every tick has a queue per priority, present or not.
LEMMA QueuesType ==
  ASSUME QueueTypeOK, NEW T \in GameTicks
  PROVE  Queues(T) \in TickQueues
  BY IndexInSlots, EmptyQueuesType DEF QueueTypeOK, Queues

\* Queues that are all empty are the queues of a fresh slot.
LEMMA AllEmptyIsEmpty ==
  ASSUME NEW queues \in TickQueues, AllEmpty(queues)
  PROVE  queues = EmptyQueues
  BY DEF TickQueues, AllEmpty, EmptyQueues

\* insert_ordered of an order above all those queued is push_back.
LEMMA InsertOrderedAppends ==
  ASSUME NEW queue \in Seq(ScheduledTick), NEW t \in ScheduledTick,
         \A j \in DOMAIN queue : queue[j].order < t.order
  PROVE  InsertOrdered(queue, t) = Append(queue, t)
<1>1. CASE queue = <<>>
  BY <1>1 DEF InsertOrdered
<1>2. CASE queue # <<>>
  <2>1. Len(queue) \in DOMAIN queue
    BY <1>2
  <2>2. queue[Len(queue)].order < t.order /\ queue[Len(queue)] \in ScheduledTick
    BY <2>1
  <2>3. queue[Len(queue)].order <= t.order
    BY <2>2, WheelAssumption DEF ScheduledTick
  <2> QED BY <2>3 DEF InsertOrdered
<1> QED BY <1>1, <1>2

\* What the inserted tick's queues look like afterwards.
Pushed(T, t) ==
  IF T = t.trigger THEN [Queues(T) EXCEPT ![t.priority] = Append(@, t)] ELSE Queues(T)

\* ScheduledTickQueue::insert appends the tick to its queue, wherever that
\* queue is kept, and disturbs no other.
LEMMA InsertEffect ==
  ASSUME QueueTypeOK, OneHome, SlotInv, NEW t \in ScheduledTick, Insert(t),
         \A j \in DOMAIN Queues(t.trigger)[t.priority] :
           Queues(t.trigger)[t.priority][j].order < t.order
  PROVE  /\ QueueTypeOK' /\ OneHome' /\ SlotInv'
         /\ \A T \in GameTicks : Queues(T)' = Pushed(T, t)
<1> DEFINE i == WheelIndex(t.trigger)
           queue == Queues(t.trigger)[t.priority]
<1>1. /\ t.trigger \in GameTicks /\ t.priority \in Priorities /\ t.key \in Keys
      /\ i \in Slots
  BY IndexInSlots DEF ScheduledTick
<1>2. queue \in Seq(ScheduledTick)
  BY <1>1, QueuesType DEF TickQueues
<1>3. InsertOrdered(queue, t) = Append(queue, t)
  BY <1>2, InsertOrderedAppends
<1>4. Append(queue, t) \in Seq(ScheduledTick) /\ Append(queue, t) # <<>>
  BY <1>2, AppendProperties
<1>5. keys' \subseteq Keys /\ len' \in Int
  BY <1>1 DEF Insert, QueueTypeOK
<1>6. CASE InsertInOverflow(t)
  <2>1. /\ t.trigger \in DOMAIN overflow /\ ~InWheel(t.trigger)
        /\ wheel' = wheel
        /\ Queues(t.trigger) = overflow[t.trigger]
        /\ overflow' = [overflow EXCEPT ![t.trigger][t.priority] = Append(queue, t)]
    BY <1>3, <1>6 DEF InsertInOverflow, Queues, OneHome
  <2>2. QueueTypeOK'
    BY <1>1, <1>4, <1>5, <2>1 DEF QueueTypeOK, TickQueues
  <2>3. OneHome'
    BY <2>1 DEF OneHome, InWheel
  <2>4. SlotInv'
    BY <1>1, <1>4, <2>1 DEF SlotInv, AllEmpty, QueueTypeOK, TickQueues
  <2>5. \A T \in GameTicks : Queues(T)' = Pushed(T, t)
    BY <2>1 DEF Queues, InWheel, Pushed
  <2> QED BY <2>2, <2>3, <2>4, <2>5
<1>7. CASE InsertInWheel(t)
  <2>1. /\ t.trigger \notin DOMAIN overflow
        /\ wheel[i].tick \in {NoTick, t.trigger}
        /\ overflow' = overflow
    BY <1>7 DEF InsertInWheel
  <2>2. wheel[i].queues = Queues(t.trigger)
    <3>1. CASE wheel[i].tick = t.trigger
      BY <3>1 DEF Queues, InWheel
    <3>2. CASE wheel[i].tick = NoTick
      BY <1>1, <2>1, <3>2, AllEmptyIsEmpty, NoTickIsNone
         DEF Queues, InWheel, SlotInv, QueueTypeOK
    <3> QED BY <2>1, <3>1, <3>2
  <2>3. wheel' = [wheel EXCEPT ![i] =
          [tick |-> t.trigger, queues |-> [Queues(t.trigger) EXCEPT ![t.priority] = Append(queue, t)]]]
    BY <1>3, <1>7, <2>2 DEF InsertInWheel
  <2>4. QueueTypeOK'
    BY <1>1, <1>4, <1>5, <2>1, <2>3, QueuesType DEF QueueTypeOK, TickQueues
  <2>5. OneHome'
    BY <1>1, <2>1, <2>3, IndexInSlots DEF OneHome, InWheel, QueueTypeOK
  <2>6. SlotInv'
    BY <1>1, <1>4, <2>1, <2>3, NoTickIsNone, QueuesType
       DEF SlotInv, AllEmpty, QueueTypeOK, TickQueues
  <2>7. \A T \in GameTicks : Queues(T)' = Pushed(T, t)
    <3> SUFFICES ASSUME NEW T \in GameTicks PROVE Queues(T)' = Pushed(T, t)
      OBVIOUS
    <3>1. CASE T = t.trigger
      BY <1>1, <2>3, <3>1 DEF Queues, InWheel, Pushed, QueueTypeOK
    <3>2. CASE T # t.trigger
      BY <1>1, <2>1, <2>3, <3>2, IndexInSlots, NoTickIsNone
         DEF Queues, InWheel, Pushed, QueueTypeOK
    <3> QED BY <3>1, <3>2
  <2> QED BY <2>4, <2>5, <2>6, <2>7
<1>8. CASE InsertColliding(t)
  <2>1. /\ t.trigger \notin DOMAIN overflow
        /\ wheel[i].tick \notin {NoTick, t.trigger}
        /\ wheel' = wheel
        /\ overflow' = [T \in DOMAIN overflow \cup {t.trigger} |->
                          IF T = t.trigger THEN [EmptyQueues EXCEPT ![t.priority] = <<t>>]
                          ELSE overflow[T]]
    BY <1>8 DEF InsertColliding
  <2>2. Queues(t.trigger) = EmptyQueues /\ queue = <<>>
    BY <1>1, <2>1 DEF Queues, InWheel, EmptyQueues
  <2>3. [EmptyQueues EXCEPT ![t.priority] = <<t>>] = [Queues(t.trigger) EXCEPT ![t.priority] = Append(@, t)]
    BY <2>2, <1>1
  <2>4. QueueTypeOK'
    BY <1>1, <1>5, <2>1, EmptyQueuesType DEF QueueTypeOK, TickQueues
  <2>5. OneHome'
    BY <2>1 DEF OneHome, InWheel
  <2>6. SlotInv'
    BY <1>1, <2>1 DEF SlotInv, AllEmpty, EmptyQueues
  <2>7. \A T \in GameTicks : Queues(T)' = Pushed(T, t)
    BY <2>1, <2>3 DEF Queues, InWheel, Pushed
  <2> QED BY <2>4, <2>5, <2>6, <2>7
<1> QED BY <1>6, <1>7, <1>8 DEF Insert

\* What is left of the queues of the executed tick.
Popped(U, T, p) ==
  IF U = T THEN [Queues(U) EXCEPT ![p] = Tail(@)] ELSE Queues(U)

\* ScheduledTickQueue::start_execution pops the head of one queue, and
\* releases the slot or the map entry exactly when that empties it.
LEMMA StartEffect ==
  ASSUME QueueTypeOK, OneHome, SlotInv,
         NEW T \in GameTicks, NEW p \in Priorities, Queues(T)[p] # <<>>,
         NEW t, t.trigger = T, t.priority = p, t.key \in Keys, StartExecution(t)
  PROVE  /\ QueueTypeOK' /\ OneHome' /\ SlotInv'
         /\ \A U \in GameTicks : Queues(U)' = Popped(U, T, p)
<1> DEFINE i == WheelIndex(T)
           rest == [Queues(T) EXCEPT ![p] = Tail(@)]
<1>1. i \in Slots
  BY IndexInSlots
<1>2. Queues(T) \in TickQueues /\ rest \in TickQueues
  <2>1. Queues(T) \in TickQueues
    BY QueuesType
  <2>2. Tail(Queues(T)[p]) \in Seq(ScheduledTick)
    BY <2>1, HeadTailProperties DEF TickQueues
  <2> QED BY <2>1, <2>2 DEF TickQueues
<1>3. AllEmpty(rest) => rest = EmptyQueues
  BY <1>2, AllEmptyIsEmpty
<1>4. keys' \subseteq Keys /\ len' \in Int
  BY DEF StartExecution, QueueTypeOK
<1>5. CASE InWheel(T)
  <2>1. /\ wheel' = [wheel EXCEPT ![i] =
             [tick |-> IF AllEmpty(rest) THEN NoTick ELSE T, queues |-> rest]]
        /\ overflow' = overflow
        /\ T \notin DOMAIN overflow
    BY <1>5 DEF StartExecution, PopQueue, OneHome
  <2>2. QueueTypeOK'
    BY <1>1, <1>2, <1>4, <2>1 DEF QueueTypeOK
  <2>3. OneHome'
    BY <1>1, <2>1, IndexInSlots, NoTickIsNone DEF OneHome, InWheel, QueueTypeOK
  <2>4. SlotInv'
    BY <1>1, <2>1, NoTickIsNone DEF SlotInv, QueueTypeOK, AllEmpty
  <2>5. ASSUME NEW U \in GameTicks PROVE Queues(U)' = Popped(U, T, p)
    <3>1. CASE U = T
      BY <1>1, <1>3, <2>1, <3>1, NoTickIsNone DEF Queues, InWheel, Popped, QueueTypeOK
    <3>2. CASE U # T
      BY <1>1, <1>5, <2>1, <3>2, IndexInSlots, NoTickIsNone
         DEF Queues, InWheel, Popped, QueueTypeOK
    <3> QED BY <3>1, <3>2
  <2> QED BY <2>2, <2>3, <2>4, <2>5
<1>6. CASE ~InWheel(T)
  <2>1. T \in DOMAIN overflow
    BY <1>6 DEF Queues, EmptyQueues
  <2>2. /\ wheel' = wheel
        /\ overflow' = IF AllEmpty(rest)
                       THEN [U \in DOMAIN overflow \ {T} |-> overflow[U]]
                       ELSE [overflow EXCEPT ![T] = rest]
    BY <1>6 DEF StartExecution, PopQueue
  <2>3. QueueTypeOK'
    BY <1>2, <1>4, <2>1, <2>2 DEF QueueTypeOK
  <2>4. OneHome'
    BY <2>2 DEF OneHome, InWheel
  <2>5. SlotInv'
    BY <2>1, <2>2 DEF SlotInv, AllEmpty
  <2>6. ASSUME NEW U \in GameTicks PROVE Queues(U)' = Popped(U, T, p)
    <3>1. CASE U = T
      BY <1>3, <1>6, <2>1, <2>2, <3>1 DEF Queues, InWheel, Popped
    <3>2. CASE U # T
      BY <2>2, <3>2 DEF Queues, InWheel, Popped
    <3> QED BY <3>1, <3>2
  <2> QED BY <2>3, <2>4, <2>5, <2>6
<1> QED BY <1>5, <1>6

-----------------------------------------------------------------------------
\* The inductive invariant.
IInv == TypeOK /\ OneHome /\ SlotInv /\ FiledInOrder /\ BatchIsFront

LEMMA InitIInv == Init => IInv
<1> SUFFICES ASSUME Init PROVE IInv
  OBVIOUS
<1>1. TypeOK
  BY WheelAssumption, EmptyQueuesType
     DEF Init, TypeOK, QueueTypeOK, NoTick, GameTicks
<1>2. OneHome /\ SlotInv
  BY DEF Init, OneHome, SlotInv, AllEmpty, EmptyQueues
<1>3. FiledInOrder /\ BatchIsFront
  BY IndexInSlots, NoTickIsNone
     DEF Init, FiledInOrder, BatchIsFront, Queues, InWheel, EmptyQueues
<1> QED BY <1>1, <1>2, <1>3 DEF IInv

\* A prefix stays one when entries are appended behind it ...
LEMMA PrefixAppend ==
  ASSUME NEW a \in Seq(ScheduledTick), NEW b \in Seq(ScheduledTick),
         NEW t \in ScheduledTick, IsPrefixOf(a, b)
  PROVE  IsPrefixOf(a, Append(b, t))
  BY AppendProperties DEF IsPrefixOf

\* ... and when both lose their common head.
LEMMA PrefixTail ==
  ASSUME NEW a \in Seq(ScheduledTick), NEW b \in Seq(ScheduledTick),
         a # <<>>, IsPrefixOf(a, b)
  PROVE  b # <<>> /\ Head(b) = Head(a) /\ IsPrefixOf(Tail(a), Tail(b))
<1>1. b # <<>>
  BY DEF IsPrefixOf
<1>2. Head(b) = Head(a)
  BY <1>1 DEF IsPrefixOf
<1>3. IsPrefixOf(Tail(a), Tail(b))
  BY <1>1, HeadTailProperties DEF IsPrefixOf
<1> QED BY <1>1, <1>2, <1>3

LEMMA TriggerType == ASSUME now \in GameTicks, NEW d \in Nat PROVE Trigger(d) \in GameTicks
  BY WheelAssumption DEF Trigger, GameTicks

\* Appending the newest order keeps a queue filed in order.
LEMMA ScheduleIInv ==
  ASSUME IInv, NEW k \in Keys, NEW d \in 0 .. MaxDelay, NEW p \in Priorities,
         Schedule(k, d, p)
  PROVE  IInv'
<1> DEFINE t == [key |-> k, trigger |-> Trigger(d), priority |-> p, order |-> nextOrder]
<1>1. /\ TypeOK /\ QueueTypeOK /\ OneHome /\ SlotInv /\ FiledInOrder /\ BatchIsFront
      /\ now \in GameTicks /\ nextOrder \in 0 .. MaxOrder - 1
  BY WheelAssumption DEF IInv, TypeOK, Schedule
<1>2. t \in ScheduledTick /\ t.trigger = Trigger(d) /\ t.priority = p /\ t.order = nextOrder
  BY <1>1, TriggerType, WheelAssumption DEF ScheduledTick
<1>3. Insert(t) /\ nextOrder' = nextOrder + 1 /\ UNCHANGED <<now, phase, batch, budget, lost>>
  BY DEF Schedule
<1>4. \A j \in DOMAIN Queues(t.trigger)[t.priority] :
         Queues(t.trigger)[t.priority][j].order < t.order
  BY <1>1, <1>2 DEF FiledInOrder, ScheduledTick
<1>5. /\ QueueTypeOK' /\ OneHome' /\ SlotInv'
      /\ \A T \in GameTicks : Queues(T)' = Pushed(T, t)
  BY <1>1, <1>2, <1>3, <1>4, InsertEffect
<1>6. TypeOK'
  BY <1>1, <1>3, <1>5, WheelAssumption DEF TypeOK
<1>7. ASSUME NEW T \in GameTicks, NEW q \in Priorities
      PROVE  \/ Queues(T)'[q] = Queues(T)[q]
             \/ /\ T = t.trigger /\ q = t.priority
                /\ Queues(T)'[q] = Append(Queues(T)[q], t)
  BY <1>1, <1>2, <1>5, <1>7, QueuesType DEF Pushed, TickQueues
<1>8. FiledInOrder'
  <2> SUFFICES ASSUME NEW T \in GameTicks, NEW q \in Priorities
               PROVE  LET queue == Queues(T)'[q] IN
                        /\ \A j \in DOMAIN queue :
                             /\ queue[j].trigger = T
                             /\ queue[j].priority = q
                             /\ queue[j].order < nextOrder'
                        /\ \A i, j \in DOMAIN queue : i < j => queue[i].order < queue[j].order
    BY DEF FiledInOrder
  <2>1. Queues(T)[q] \in Seq(ScheduledTick)
    BY <1>1, QueuesType DEF TickQueues
  <2>2. \A j \in DOMAIN Queues(T)[q] :
          /\ Queues(T)[q][j] \in ScheduledTick
          /\ Queues(T)[q][j].trigger = T
          /\ Queues(T)[q][j].priority = q
          /\ Queues(T)[q][j].order \in Int
          /\ Queues(T)[q][j].order < nextOrder
    <3>1. \A j \in DOMAIN Queues(T)[q] : Queues(T)[q][j] \in ScheduledTick
      BY <2>1
    <3>2. \A s \in ScheduledTick : s.order \in Int
      BY WheelAssumption DEF ScheduledTick
    <3> QED BY <1>1, <3>1, <3>2 DEF FiledInOrder
  <2>3. \A i, j \in DOMAIN Queues(T)[q] :
          i < j => Queues(T)[q][i].order < Queues(T)[q][j].order
    BY <1>1 DEF FiledInOrder
  <2>4. CASE Queues(T)'[q] = Queues(T)[q]
    BY <1>1, <1>3, <2>2, <2>3, <2>4
  <2>5. CASE T = t.trigger /\ q = t.priority /\ Queues(T)'[q] = Append(Queues(T)[q], t)
    <3> DEFINE old == Queues(T)[q]
               new == Append(old, t)
    <3>1. /\ Len(new) = Len(old) + 1 /\ Len(old) \in Nat
          /\ DOMAIN new = 1 .. Len(new) /\ DOMAIN old = 1 .. Len(old)
          /\ new[Len(old) + 1] = t
          /\ \A j \in 1 .. Len(old) : new[j] = old[j]
      BY <1>2, <2>1, AppendProperties
    <3>2. \A j \in DOMAIN new :
            /\ new[j].trigger = T /\ new[j].priority = q
            /\ new[j].order \in Int /\ new[j].order < nextOrder + 1
            /\ j \in 1 .. Len(old) \/ j = Len(old) + 1
      <4> SUFFICES ASSUME NEW j \in DOMAIN new
                   PROVE  /\ new[j].trigger = T /\ new[j].priority = q
                          /\ new[j].order \in Int /\ new[j].order < nextOrder + 1
                          /\ j \in 1 .. Len(old) \/ j = Len(old) + 1
        OBVIOUS
      <4>1. CASE j \in 1 .. Len(old)
        BY <1>1, <2>2, <3>1, <4>1
      <4>2. CASE j = Len(old) + 1
        BY <1>1, <1>2, <2>5, <3>1, <4>2
      <4> QED BY <3>1, <4>1, <4>2
    <3>3. \A i, j \in DOMAIN new : i < j => new[i].order < new[j].order
      <4> SUFFICES ASSUME NEW i \in DOMAIN new, NEW j \in DOMAIN new, i < j
                   PROVE  new[i].order < new[j].order
        OBVIOUS
      <4>1. i \in 1 .. Len(old)
        BY <3>1
      <4>2. CASE j \in 1 .. Len(old)
        BY <2>3, <3>1, <4>1, <4>2
      <4>3. CASE j = Len(old) + 1
        BY <1>2, <2>2, <3>1, <4>1, <4>3
      <4> QED BY <3>1, <4>2, <4>3
    <3>4. Queues(T)'[q] = new /\ nextOrder' = nextOrder + 1
      BY <1>3, <2>5
    <3> HIDE DEF new
    <3> QED BY <3>2, <3>3, <3>4
  <2> QED BY <1>7, <2>4, <2>5
<1>9. BatchIsFront'
  <2> SUFFICES ASSUME NEW T \in DOMAIN batch, NEW q \in Priorities
               PROVE  IsPrefixOf(batch[T][q], Queues(T)'[q])
    BY <1>3 DEF BatchIsFront
  <2>1. /\ T \in GameTicks /\ batch[T][q] \in Seq(ScheduledTick)
        /\ Queues(T)[q] \in Seq(ScheduledTick)
        /\ IsPrefixOf(batch[T][q], Queues(T)[q])
    BY <1>1, QueuesType DEF TypeOK, TickQueues, BatchIsFront
  <2> QED BY <1>2, <1>7, <2>1, PrefixAppend
<1> QED BY <1>5, <1>6, <1>8, <1>9 DEF IInv

\* What the head of the batch is in the live queues.
LEMMA BatchHead ==
  ASSUME IInv, NEW T \in DOMAIN batch, NEW p \in Priorities, batch[T][p] # <<>>
  PROVE  /\ T \in GameTicks
         /\ batch[T][p] \in Seq(ScheduledTick) /\ Queues(T)[p] \in Seq(ScheduledTick)
         /\ Queues(T)[p] # <<>> /\ Head(Queues(T)[p]) = Head(batch[T][p])
         /\ IsPrefixOf(Tail(batch[T][p]), Tail(Queues(T)[p]))
         /\ Head(batch[T][p]) \in ScheduledTick
         /\ Head(batch[T][p]).trigger = T /\ Head(batch[T][p]).priority = p
<1>1. /\ T \in GameTicks /\ batch[T][p] \in Seq(ScheduledTick)
      /\ Queues(T)[p] \in Seq(ScheduledTick) /\ IsPrefixOf(batch[T][p], Queues(T)[p])
  BY QueuesType DEF IInv, TypeOK, TickQueues, BatchIsFront
<1>2. /\ Queues(T)[p] # <<>> /\ Head(Queues(T)[p]) = Head(batch[T][p])
      /\ IsPrefixOf(Tail(batch[T][p]), Tail(Queues(T)[p]))
  BY <1>1, PrefixTail
<1>3. Head(Queues(T)[p]) = Queues(T)[p][1] /\ 1 \in DOMAIN Queues(T)[p]
  BY <1>1, <1>2
<1>4. Queues(T)[p][1].trigger = T /\ Queues(T)[p][1].priority = p
  BY <1>1, <1>3 DEF IInv, FiledInOrder
<1> QED BY <1>1, <1>2, <1>3, <1>4, HeadTailProperties

LEMMA ExecuteIInv ==
  ASSUME IInv, NEW T \in DOMAIN batch, NEW p \in Priorities, Execute(T, p)
  PROVE  IInv'
<1> DEFINE t == Head(batch[T][p])
<1>1. /\ TypeOK /\ QueueTypeOK /\ OneHome /\ SlotInv /\ FiledInOrder /\ BatchIsFront
  BY DEF IInv, TypeOK
<1>2. /\ batch[T][p] # <<>> /\ StartExecution(t)
      /\ batch' = [batch EXCEPT ![T][p] = Tail(@)]
      /\ budget' = budget - 1 /\ budget > 0 /\ UNCHANGED <<now, nextOrder, phase, lost>>
  BY DEF Execute, IsNext
<1>3. /\ T \in GameTicks /\ Queues(T)[p] # <<>>
      /\ batch[T][p] \in Seq(ScheduledTick) /\ Queues(T)[p] \in Seq(ScheduledTick)
      /\ IsPrefixOf(Tail(batch[T][p]), Tail(Queues(T)[p]))
      /\ t.trigger = T /\ t.priority = p /\ t.key \in Keys
  BY <1>2, BatchHead DEF ScheduledTick
<1>4. /\ QueueTypeOK' /\ OneHome' /\ SlotInv'
      /\ \A U \in GameTicks : Queues(U)' = Popped(U, T, p)
  BY <1>1, <1>2, <1>3, StartEffect
<1>5. TypeOK'
  <2>1. Tail(batch[T][p]) \in Seq(ScheduledTick)
    BY <1>2, <1>3, HeadTailProperties
  <2>2. DOMAIN batch' \subseteq GameTicks /\ batch' \in [DOMAIN batch' -> TickQueues]
    BY <1>1, <1>2, <2>1 DEF TypeOK, TickQueues
  <2> QED BY <1>1, <1>2, <1>4, <2>2 DEF TypeOK
<1>6. ASSUME NEW U \in GameTicks, NEW q \in Priorities
      PROVE  Queues(U)'[q] = IF U = T /\ q = p THEN Tail(Queues(U)[q]) ELSE Queues(U)[q]
  BY <1>1, <1>4, QueuesType DEF Popped, TickQueues
<1>7. FiledInOrder'
  <2> SUFFICES ASSUME NEW U \in GameTicks, NEW q \in Priorities
               PROVE  LET queue == Queues(U)'[q] IN
                        /\ \A j \in DOMAIN queue :
                             /\ queue[j].trigger = U
                             /\ queue[j].priority = q
                             /\ queue[j].order < nextOrder'
                        /\ \A i, j \in DOMAIN queue : i < j => queue[i].order < queue[j].order
    BY DEF FiledInOrder
  <2>1. CASE U = T /\ q = p
    <3>1. /\ Queues(U)'[q] = Tail(Queues(U)[q])
          /\ DOMAIN Tail(Queues(U)[q]) = 1 .. Len(Queues(U)[q]) - 1
          /\ \A j \in 1 .. Len(Queues(U)[q]) - 1 : Tail(Queues(U)[q])[j] = Queues(U)[q][j + 1]
      BY <1>3, <1>6, <2>1, HeadTailProperties
    <3>2. DOMAIN Queues(U)[q] = 1 .. Len(Queues(U)[q]) /\ Len(Queues(U)[q]) \in Nat
      BY <1>3, <2>1
    <3> QED BY <1>1, <1>2, <3>1, <3>2 DEF FiledInOrder
  <2>2. CASE ~(U = T /\ q = p)
    BY <1>1, <1>2, <1>6, <2>2 DEF FiledInOrder
  <2> QED BY <2>1, <2>2
<1>8. BatchIsFront'
  <2> SUFFICES ASSUME NEW U \in DOMAIN batch, NEW q \in Priorities
               PROVE  IsPrefixOf(batch'[U][q], Queues(U)'[q])
    BY <1>2 DEF BatchIsFront
  <2>1. U \in GameTicks /\ batch[U] \in TickQueues
    BY <1>1 DEF TypeOK
  <2>2. batch'[U][q] = IF U = T /\ q = p THEN Tail(batch[U][q]) ELSE batch[U][q]
    BY <1>2, <2>1 DEF TickQueues
  <2> QED BY <1>1, <1>3, <1>6, <2>1, <2>2 DEF BatchIsFront
<1> QED BY <1>4, <1>5, <1>7, <1>8 DEF IInv

\* The remaining actions leave the queues alone.
LEMMA QueuesUnchanged ==
  ASSUME UNCHANGED queueVars
  PROVE  /\ QueueTypeOK => QueueTypeOK'
         /\ OneHome => OneHome'
         /\ SlotInv => SlotInv'
         /\ \A T \in GameTicks : Queues(T)' = Queues(T)
  BY DEF queueVars, QueueTypeOK, OneHome, SlotInv, AllEmpty, Queues, InWheel

LEMMA OtherIInv ==
  ASSUME IInv,
         UNCHANGED queueVars, nextOrder' = nextOrder,
         now' \in GameTicks, phase' \in {"rest", "pre", "run"}, budget' \in Nat, lost' \in Nat,
         DOMAIN batch' \subseteq GameTicks,
         \A T \in DOMAIN batch' :
           /\ batch'[T] \in TickQueues
           /\ \A p \in Priorities : IsPrefixOf(batch'[T][p], Queues(T)[p]),
         batch' \in [DOMAIN batch' -> TickQueues]
  PROVE  IInv'
<1>1. TypeOK'
  BY QueuesUnchanged DEF IInv, TypeOK
<1>2. OneHome' /\ SlotInv'
  BY QueuesUnchanged DEF IInv
<1>3. FiledInOrder'
  BY QueuesUnchanged DEF IInv, FiledInOrder
<1>4. BatchIsFront'
  BY QueuesUnchanged DEF BatchIsFront
<1> QED BY <1>1, <1>2, <1>3, <1>4 DEF IInv

LEMMA NextIInv == IInv /\ [Next]_vars => IInv'
<1> SUFFICES ASSUME IInv, [Next]_vars PROVE IInv'
  OBVIOUS
<1> USE DEF LeaveBatch
<1>1. /\ TypeOK /\ DOMAIN batch \subseteq GameTicks /\ batch \in [DOMAIN batch -> TickQueues]
      /\ now \in GameTicks /\ budget \in Nat /\ lost \in Nat /\ phase \in {"rest", "pre", "run"}
      /\ BatchIsFront /\ QueueTypeOK
  BY DEF IInv, TypeOK
<1>2. ASSUME NEW k \in Keys, NEW d \in 0 .. MaxDelay, NEW p \in Priorities, Schedule(k, d, p)
      PROVE  IInv'
  BY <1>2, ScheduleIInv
<1>3. CASE BeginTick
  <2>1. now' \in GameTicks
    BY <1>1, <1>3, WheelAssumption DEF BeginTick, GameTicks
  <2> QED BY <1>1, <1>3, <2>1, OtherIInv DEF BeginTick, BatchIsFront
<1>4. CASE TakeBatch
  <2>1. /\ DueTicks \subseteq GameTicks
        /\ batch' = [T \in DueTicks |-> Queues(T)]
        /\ \A T \in DueTicks : Queues(T) \in TickQueues
    BY <1>1, <1>4, QueuesType DEF TakeBatch, DueTicks
  <2>2. \A T \in DueTicks, p \in Priorities : IsPrefixOf(Queues(T)[p], Queues(T)[p])
    BY <2>1 DEF IsPrefixOf, TickQueues
  <2>3. budget' \in Nat /\ now' \in GameTicks /\ phase' = "run" /\ UNCHANGED <<queueVars, nextOrder, lost>>
    BY <1>1, <1>4, WheelAssumption DEF TakeBatch
  <2> QED BY <1>1, <2>1, <2>2, <2>3, OtherIInv
<1>5. ASSUME NEW T \in DOMAIN batch, NEW p \in Priorities, Execute(T, p)
      PROVE  IInv'
  BY <1>5, ExecuteIInv
<1>6. CASE EndTick \/ FailTick
  <2>1. /\ DOMAIN batch' = {} /\ batch' \in [DOMAIN batch' -> TickQueues]
        /\ UNCHANGED <<queueVars, nextOrder, now>> /\ phase' = "rest" /\ budget' = 0
    BY <1>6 DEF EndTick, FailTick
  <2>2. lost' = lost \/ lost' = lost + 1
    BY <1>6 DEF EndTick, FailTick
  <2>3. lost' \in Nat
    BY <1>1, <2>2
  <2> QED BY <1>1, <2>1, <2>3, OtherIInv
<1>7. CASE UNCHANGED vars
  BY <1>1, <1>7, OtherIInv DEF vars, queueVars, BatchIsFront
<1> QED BY <1>2, <1>3, <1>4, <1>5, <1>6, <1>7 DEF Next

-----------------------------------------------------------------------------
(* The entries as a set, and the keys that stand for them.                 *)

\* Where an entry can be kept.
LEMMA EntriesAre ==
  \A t : t \in Entries <=>
          \/ \E i \in Slots, p \in Priorities : t \in Range(wheel[i].queues[p])
          \/ \E T \in DOMAIN overflow, p \in Priorities : t \in Range(overflow[T][p])
<1>1. \A t, queues : t \in Filed(queues) <=> \E p \in Priorities : t \in Range(queues[p])
  BY DEF Filed
<1>2. \A t : t \in Entries <=> \/ \E i \in Slots : t \in Filed(wheel[i].queues)
                             \/ \E T \in DOMAIN overflow : t \in Filed(overflow[T])
  <2> SUFFICES ASSUME NEW t
               PROVE  t \in Entries <=> \/ \E i \in Slots : t \in Filed(wheel[i].queues)
                                        \/ \E T \in DOMAIN overflow : t \in Filed(overflow[T])
    OBVIOUS
  <2> DEFINE A == UNION {Filed(wheel[i].queues) : i \in Slots}
             B == UNION {Filed(overflow[T]) : T \in DOMAIN overflow}
  <2>1. t \in A <=> \E i \in Slots : t \in Filed(wheel[i].queues)
    OBVIOUS
  <2>2. t \in B <=> \E T \in DOMAIN overflow : t \in Filed(overflow[T])
    OBVIOUS
  <2>3. Entries = A \cup B
    BY DEF Entries
  <2> HIDE DEF A, B
  <2> QED BY <2>1, <2>2, <2>3
<1> QED BY <1>1, <1>2

Queued(t) == \E T \in GameTicks, p \in Priorities : t \in Range(Queues(T)[p])

\* The slots and the overflow map together hold what the queues of all ticks do.
LEMMA EntriesByQueue ==
  QueueTypeOK /\ OneHome /\ SlotInv => \A t : t \in Entries <=> Queued(t)
<1> SUFFICES ASSUME QueueTypeOK, OneHome, SlotInv
             PROVE  \A t : t \in Entries <=> Queued(t)
  OBVIOUS
<1>1. ASSUME NEW T \in GameTicks, NEW p \in Priorities, NEW t \in Range(Queues(T)[p])
      PROVE  t \in Entries
  <2>1. CASE InWheel(T)
    BY <1>1, <2>1, IndexInSlots, EntriesAre DEF Queues
  <2>2. CASE ~InWheel(T) /\ T \in DOMAIN overflow
    BY <1>1, <2>2, EntriesAre DEF Queues
  <2>3. CASE ~InWheel(T) /\ T \notin DOMAIN overflow
    BY <1>1, <2>3 DEF Queues, EmptyQueues, Range
  <2> QED BY <2>1, <2>2, <2>3
<1>2. ASSUME NEW i \in Slots, NEW p \in Priorities, NEW t \in Range(wheel[i].queues[p])
      PROVE  Queued(t)
  <2>1. wheel[i].queues[p] # <<>>
    BY <1>2 DEF Range
  <2>2. wheel[i].tick \in GameTicks /\ WheelIndex(wheel[i].tick) = i
    BY <2>1 DEF SlotInv, AllEmpty, QueueTypeOK
  <2>3. Queues(wheel[i].tick) = wheel[i].queues
    BY <2>2 DEF Queues, InWheel
  <2> QED BY <1>2, <2>2, <2>3 DEF Queued
<1>3. ASSUME NEW T \in DOMAIN overflow, NEW p \in Priorities, NEW t \in Range(overflow[T][p])
      PROVE  Queued(t)
  <2>1. T \in GameTicks /\ Queues(T) = overflow[T]
    BY DEF QueueTypeOK, OneHome, Queues
  <2> QED BY <1>3, <2>1 DEF Queued
<1>4. \A t : Queued(t) => t \in Entries
  BY <1>1 DEF Queued
<1>5. \A t : t \in Entries => Queued(t)
  BY <1>2, <1>3, EntriesAre
<1> QED BY <1>4, <1>5

LEMMA EntriesByQueueAfter ==
  QueueTypeOK' /\ OneHome' /\ SlotInv' => (\A t : t \in Entries <=> Queued(t))'
BY EntriesByQueue, PTL

LEMMA RangeOfAppend ==
  ASSUME NEW queue \in Seq(ScheduledTick), NEW t \in ScheduledTick
  PROVE  Range(Append(queue, t)) = Range(queue) \cup {t}
<1> DEFINE new == Append(queue, t)
<1>1. /\ DOMAIN new = 1 .. Len(queue) + 1 /\ Len(queue) \in Nat /\ DOMAIN queue = 1 .. Len(queue)
      /\ new[Len(queue) + 1] = t /\ \A j \in 1 .. Len(queue) : new[j] = queue[j]
  BY AppendProperties
<1>2. 1 .. Len(queue) + 1 = 1 .. Len(queue) \cup {Len(queue) + 1}
  BY <1>1
<1> HIDE DEF new
<1>3. \A x : x \in Range(new) <=> x \in Range(queue) \cup {t}
  BY <1>1, <1>2 DEF Range
<1> QED BY <1>3 DEF new

\* The head of a queue in order is nowhere else in it.
LEMMA RangeOfTail ==
  ASSUME NEW queue \in Seq(ScheduledTick), queue # <<>>,
         \A i, j \in DOMAIN queue : i < j => queue[i].order < queue[j].order
  PROVE  Range(Tail(queue)) = Range(queue) \ {Head(queue)}
<1> DEFINE rest == Tail(queue)
           n == Len(queue)
<1>1. /\ n \in Nat /\ n >= 1 /\ DOMAIN queue = 1 .. n /\ DOMAIN rest = 1 .. n - 1
      /\ \A j \in 1 .. n - 1 : rest[j] = queue[j + 1]
      /\ Head(queue) = queue[1]
  BY HeadTailProperties
<1>2. \A j \in 1 .. n : queue[j].order \in Int
  <2>1. \A j \in 1 .. n : queue[j] \in ScheduledTick
    BY <1>1
  <2>2. \A t \in ScheduledTick : t.order \in Int
    BY WheelAssumption DEF ScheduledTick
  <2> QED BY <2>1, <2>2
<1>3. \A j \in 2 .. n : queue[j] # queue[1]
  BY <1>1, <1>2
<1>4. \A j \in 2 .. n : j - 1 \in 1 .. n - 1 /\ rest[j - 1] = queue[j]
  BY <1>1
<1> HIDE DEF rest, n
<1>5. ASSUME NEW x \in Range(rest) PROVE x \in Range(queue) \ {Head(queue)}
  <2>1. PICK j \in 1 .. n - 1 : x = rest[j]
    BY <1>1 DEF Range
  <2>2. j + 1 \in 2 .. n /\ x = queue[j + 1]
    BY <1>1, <2>1
  <2>3. j + 1 \in DOMAIN queue /\ x # queue[1]
    BY <1>1, <1>3, <2>2
  <2> QED BY <1>1, <2>2, <2>3 DEF Range
<1>6. ASSUME NEW x \in Range(queue) \ {Head(queue)} PROVE x \in Range(rest)
  <2>1. PICK j \in 1 .. n : x = queue[j]
    BY <1>1 DEF Range
  <2>2. j \in 2 .. n
    BY <1>1, <1>6, <2>1
  <2> QED BY <1>1, <1>4, <2>1, <2>2 DEF Range
<1> QED BY <1>5, <1>6 DEF rest

\* An entry is where its tick and its priority say.
LEMMA EntryPlace ==
  ASSUME IInv, NEW t
  PROVE  /\ t \in Entries => /\ t \in ScheduledTick
                             /\ t \in Range(Queues(t.trigger)[t.priority])
                             /\ t.order < nextOrder
         /\ \A T \in GameTicks, p \in Priorities :
              t \in Range(Queues(T)[p]) => t \in Entries /\ t.trigger = T /\ t.priority = p
<1>1. QueueTypeOK /\ OneHome /\ SlotInv /\ FiledInOrder
  BY DEF IInv, TypeOK
<1>2. ASSUME NEW T \in GameTicks, NEW p \in Priorities, t \in Range(Queues(T)[p])
      PROVE  /\ t \in ScheduledTick /\ t.trigger = T /\ t.priority = p
             /\ t.order < nextOrder /\ t \in Entries
  <2>1. PICK j \in DOMAIN Queues(T)[p] : t = Queues(T)[p][j]
    BY <1>2 DEF Range
  <2>2. Queues(T)[p] \in Seq(ScheduledTick)
    BY <1>1, QueuesType DEF TickQueues
  <2>3. t \in ScheduledTick
    BY <2>1, <2>2
  <2>4. t \in Entries
    BY <1>1, <1>2, EntriesByQueue DEF Queued
  <2> QED BY <1>1, <2>1, <2>3, <2>4 DEF FiledInOrder
<1>3. t \in Entries => \E T \in GameTicks, p \in Priorities : t \in Range(Queues(T)[p])
  BY <1>1, EntriesByQueue DEF Queued
<1> QED BY <1>2, <1>3

\* Scheduling adds one entry, newer than all others.
LEMMA ScheduleEntries ==
  ASSUME IInv, NEW k \in Keys, NEW d \in 0 .. MaxDelay, NEW p \in Priorities,
         Schedule(k, d, p)
  PROVE  LET t == [key |-> k, trigger |-> Trigger(d), priority |-> p, order |-> nextOrder]
         IN  /\ t \in ScheduledTick /\ Insert(t)
             /\ Entries' = Entries \cup {t}
             /\ \A s \in Entries : s.order < t.order
<1> DEFINE t == [key |-> k, trigger |-> Trigger(d), priority |-> p, order |-> nextOrder]
<1>1. /\ QueueTypeOK /\ OneHome /\ SlotInv /\ FiledInOrder
      /\ now \in GameTicks /\ nextOrder \in 0 .. MaxOrder - 1
  BY WheelAssumption DEF IInv, TypeOK, Schedule
<1>2. t \in ScheduledTick /\ t.trigger \in GameTicks /\ t.priority \in Priorities
  BY <1>1, TriggerType, WheelAssumption DEF ScheduledTick
<1>3. Insert(t) /\ t.order = nextOrder
  BY DEF Schedule
<1> HIDE DEF t
<1>4. \A j \in DOMAIN Queues(t.trigger)[t.priority] :
        Queues(t.trigger)[t.priority][j].order < t.order
  BY <1>1, <1>2, <1>3 DEF FiledInOrder
<1>5. /\ QueueTypeOK' /\ OneHome' /\ SlotInv'
      /\ \A T \in GameTicks : Queues(T)' = Pushed(T, t)
  BY <1>1, <1>2, <1>3, <1>4, InsertEffect
<1>6. \A s : s \in Entries' <=> \E T \in GameTicks, q \in Priorities : s \in Range(Queues(T)'[q])
  BY <1>5, EntriesByQueueAfter DEF Queued
<1>7. ASSUME NEW T \in GameTicks, NEW q \in Priorities
      PROVE  Range(Queues(T)'[q]) = IF T = t.trigger /\ q = t.priority
                                    THEN Range(Queues(T)[q]) \cup {t} ELSE Range(Queues(T)[q])
  <2>1. Queues(T)[q] \in Seq(ScheduledTick) /\ Queues(T) \in TickQueues
    BY <1>1, QueuesType DEF TickQueues
  <2> QED BY <1>2, <1>5, <2>1, RangeOfAppend DEF Pushed, TickQueues
<1>8. \A s : s \in Entries <=> \E T \in GameTicks, q \in Priorities : s \in Range(Queues(T)[q])
  BY <1>1, EntriesByQueue DEF Queued
<1>9. ASSUME NEW s PROVE s \in Entries' <=> s \in Entries \cup {t}
  <2>1. ASSUME NEW T \in GameTicks, NEW q \in Priorities
        PROVE  s \in Range(Queues(T)'[q]) <=>
                 \/ s \in Range(Queues(T)[q])
                 \/ T = t.trigger /\ q = t.priority /\ s = t
    BY <1>7
  <2>2. (\E T \in GameTicks, q \in Priorities : s \in Range(Queues(T)'[q])) <=>
          \/ \E T \in GameTicks, q \in Priorities : s \in Range(Queues(T)[q])
          \/ s = t
    BY <1>2, <2>1
  <2> QED BY <1>6, <1>8, <2>2
<1>10. \A s \in Entries : s.order < t.order
  BY <1>3, EntryPlace
<1> QED BY <1>2, <1>3, <1>9, <1>10 DEF t

\* Executing removes the entry at the head of the batch.
LEMMA ExecuteEntries ==
  ASSUME IInv, NEW T \in DOMAIN batch, NEW p \in Priorities, Execute(T, p)
  PROVE  LET t == Head(batch[T][p])
         IN  /\ t \in Entries /\ StartExecution(t)
             /\ Entries' = Entries \ {t}
<1> DEFINE t == Head(batch[T][p])
<1>1. /\ QueueTypeOK /\ OneHome /\ SlotInv /\ FiledInOrder
  BY DEF IInv, TypeOK
<1>2. batch[T][p] # <<>> /\ StartExecution(t)
  BY DEF Execute, IsNext
<1>3. /\ T \in GameTicks /\ Queues(T)[p] # <<>> /\ Queues(T)[p] \in Seq(ScheduledTick)
      /\ t = Head(Queues(T)[p]) /\ t.trigger = T /\ t.priority = p /\ t.key \in Keys
  BY <1>2, BatchHead DEF ScheduledTick
<1> HIDE DEF t
<1>4. /\ QueueTypeOK' /\ OneHome' /\ SlotInv'
      /\ \A U \in GameTicks : Queues(U)' = Popped(U, T, p)
  BY <1>1, <1>2, <1>3, StartEffect
<1>5. \A s : s \in Entries' <=> \E U \in GameTicks, q \in Priorities : s \in Range(Queues(U)'[q])
  BY <1>4, EntriesByQueueAfter DEF Queued
<1>6. Range(Tail(Queues(T)[p])) = Range(Queues(T)[p]) \ {t}
  BY <1>1, <1>3, RangeOfTail DEF FiledInOrder
<1>7. ASSUME NEW U \in GameTicks, NEW q \in Priorities
      PROVE  Range(Queues(U)'[q]) = IF U = T /\ q = p THEN Range(Queues(U)[q]) \ {t}
                                    ELSE Range(Queues(U)[q])
  <2>1. Queues(U) \in TickQueues
    BY <1>1, QueuesType
  <2> QED BY <1>3, <1>4, <1>6, <2>1 DEF Popped, TickQueues
<1>8. \A s : s \in Entries <=> \E U \in GameTicks, q \in Priorities : s \in Range(Queues(U)[q])
  BY <1>1, EntriesByQueue DEF Queued
<1>9. t \in Range(Queues(T)[p])
  BY <1>3 DEF Range
<1>10. \A U \in GameTicks, q \in Priorities : t \in Range(Queues(U)[q]) => U = T /\ q = p
  BY <1>3, EntryPlace
<1>11. ASSUME NEW s PROVE s \in Entries' <=> s \in Entries \ {t}
  <2>1. \A U \in GameTicks, q \in Priorities :
          s \in Range(Queues(U)'[q]) <=> s \in Range(Queues(U)[q]) /\ ~(U = T /\ q = p /\ s = t)
    BY <1>7
  <2> QED BY <1>3, <1>5, <1>8, <1>10, <2>1
<1> QED BY <1>2, <1>3, <1>8, <1>9, <1>11 DEF t

\* The other actions leave the entries alone.
LEMMA EntriesUnchanged ==
  ASSUME UNCHANGED queueVars
  PROVE  Entries' = Entries /\ keys' = keys /\ len' = len
BY DEF queueVars, Entries, Filed

\* Every key stands for one entry: one that is inserted was not there, and the
\* entry that leaves was the only one of its key.
LEMMA KeysInv == IInv /\ KeysAgree /\ [Next]_vars => KeysAgree'
<1> SUFFICES ASSUME IInv, KeysAgree, [Next]_vars PROVE KeysAgree'
  OBVIOUS
<1>1. /\ keys = {t.key : t \in Entries} /\ len = Cardinality(keys)
      /\ \A s, t \in Entries : s.key = t.key => s = t
  BY DEF KeysAgree
<1>2. IsFiniteSet(keys) /\ Cardinality(keys) \in Nat
  BY WheelAssumption, FS_Subset, FS_CardinalityType DEF IInv, TypeOK, QueueTypeOK
<1>3. ASSUME NEW k \in Keys, NEW d \in 0 .. MaxDelay, NEW p \in Priorities, Schedule(k, d, p)
      PROVE  KeysAgree'
  <2> DEFINE t == [key |-> k, trigger |-> Trigger(d), priority |-> p, order |-> nextOrder]
  <2>1. Insert(t) /\ Entries' = Entries \cup {t}
    BY <1>3, ScheduleEntries
  <2> HIDE DEF t
  <2>2. t.key \notin keys /\ keys' = keys \cup {t.key} /\ len' = len + 1
    BY <2>1 DEF Insert
  <2>3. Cardinality(keys') = Cardinality(keys) + 1
    BY <1>2, <2>2, FS_AddElement
  <2>4. \A s \in Entries : s.key # t.key
    BY <1>1, <2>2
  <2>5. keys' = {s.key : s \in Entries'}
    BY <1>1, <2>1, <2>2
  <2>6. \A r, s \in Entries' : r.key = s.key => r = s
    BY <1>1, <2>1, <2>4
  <2> QED BY <1>1, <2>2, <2>3, <2>5, <2>6 DEF KeysAgree
<1>4. ASSUME NEW T \in DOMAIN batch, NEW p \in Priorities, Execute(T, p)
      PROVE  KeysAgree'
  <2> DEFINE t == Head(batch[T][p])
  <2>1. t \in Entries /\ StartExecution(t) /\ Entries' = Entries \ {t}
    BY <1>4, ExecuteEntries
  <2> HIDE DEF t
  <2>2. keys' = keys \ {t.key} /\ len' = len - 1
    BY <2>1 DEF StartExecution
  <2>3. t.key \in keys
    BY <1>1, <2>1
  <2>4. Cardinality(keys') = Cardinality(keys) - 1
    BY <1>2, <2>2, <2>3, FS_RemoveElement
  <2>5. keys' = {s.key : s \in Entries'}
    BY <1>1, <2>1, <2>2
  <2>6. \A r, s \in Entries' : r.key = s.key => r = s
    BY <1>1, <2>1
  <2> QED BY <1>1, <2>2, <2>4, <2>5, <2>6 DEF KeysAgree
<1>5. CASE UNCHANGED queueVars
  BY <1>1, <1>5, EntriesUnchanged DEF KeysAgree
<1>6. BeginTick \/ TakeBatch \/ EndTick \/ FailTick \/ UNCHANGED vars => UNCHANGED queueVars
  BY DEF BeginTick, TakeBatch, EndTick, FailTick, LeaveBatch, vars, queueVars
<1> QED BY <1>3, <1>4, <1>5, <1>6 DEF Next

LEMMA KeysInit == Init => KeysAgree
<1> SUFFICES ASSUME Init PROVE KeysAgree
  OBVIOUS
<1>1. Entries = {}
  BY DEF Init, Entries, Filed, EmptyQueues, Range
<1> QED BY <1>1, FS_EmptySet DEF Init, KeysAgree

-----------------------------------------------------------------------------
(* The wheel implements the abstract queue, step by step.                  *)

LEMMA BatchEntriesAre ==
  \A t : t \in BatchEntries <=> \E T \in DOMAIN batch, p \in Priorities : t \in Range(batch[T][p])
BY DEF BatchEntries, Filed

LEMMA BatchEntriesAreAfter ==
  (\A t : t \in BatchEntries <=> \E T \in DOMAIN batch, p \in Priorities : t \in Range(batch[T][p]))'
BY BatchEntriesAre, PTL

\* A queue of the batch holds entries of its tick and priority, in order.
LEMMA BatchQueue ==
  ASSUME IInv, NEW T \in DOMAIN batch, NEW p \in Priorities
  PROVE  /\ T \in GameTicks /\ batch[T][p] \in Seq(ScheduledTick)
         /\ \A t \in Range(batch[T][p]) : t \in Entries /\ t.trigger = T /\ t.priority = p
         /\ \A i, j \in DOMAIN batch[T][p] : i < j => batch[T][p][i].order < batch[T][p][j].order
<1>1. /\ T \in GameTicks /\ batch[T][p] \in Seq(ScheduledTick)
      /\ Queues(T)[p] \in Seq(ScheduledTick) /\ IsPrefixOf(batch[T][p], Queues(T)[p])
  BY QueuesType DEF IInv, TypeOK, TickQueues, BatchIsFront
<1>2. /\ \A j \in DOMAIN batch[T][p] : j \in DOMAIN Queues(T)[p] /\ batch[T][p][j] = Queues(T)[p][j]
  BY <1>1 DEF IsPrefixOf
<1>3. \A t \in Range(batch[T][p]) : t \in Range(Queues(T)[p])
  BY <1>2 DEF Range
<1>4. \A i, j \in DOMAIN Queues(T)[p] : i < j => Queues(T)[p][i].order < Queues(T)[p][j].order
  BY <1>1 DEF IInv, FiledInOrder
<1> QED BY <1>1, <1>2, <1>3, <1>4, EntryPlace

\* Execute takes the first entry of the batch in the abstract order.
LEMMA ExecuteImplements ==
  ASSUME IInv, NEW T \in DOMAIN batch, NEW p \in Priorities, Execute(T, p)
  PROVE  Abstract!Execute
<1> DEFINE t == Head(batch[T][p])
<1>1. t \in Entries /\ Entries' = Entries \ {t}
  BY ExecuteEntries
<1>2. /\ phase = "run" /\ budget > 0 /\ batch[T][p] # <<>>
      /\ batch' = [batch EXCEPT ![T][p] = Tail(@)]
      /\ budget' = budget - 1 /\ UNCHANGED <<now, nextOrder, phase>>
      /\ T \in Remaining /\ \A U \in Remaining : T <= U
      /\ \A q \in Priorities : batch[T][q] # <<>> => p <= q
  BY DEF Execute, IsNext
<1>3. /\ T \in GameTicks /\ batch[T][p] \in Seq(ScheduledTick)
      /\ \A i, j \in DOMAIN batch[T][p] : i < j => batch[T][p][i].order < batch[T][p][j].order
  BY BatchQueue
<1>4. Range(Tail(batch[T][p])) = Range(batch[T][p]) \ {t}
  BY <1>2, <1>3, RangeOfTail
<1>5. t = batch[T][p][1] /\ 1 \in DOMAIN batch[T][p] /\ t \in Range(batch[T][p])
  BY <1>2, <1>3 DEF Range
<1> HIDE DEF t
<1>6. t \in BatchEntries
  BY <1>5, BatchEntriesAre
<1>7. t.trigger = T /\ t.priority = p
  BY <1>5, BatchQueue
<1>8. ASSUME NEW s PROVE s \in BatchEntries' <=> s \in BatchEntries \ {t}
  <2>1. DOMAIN batch' = DOMAIN batch
    BY <1>2
  <2>2. ASSUME NEW U \in DOMAIN batch, NEW q \in Priorities
        PROVE  s \in Range(batch'[U][q]) <=> s \in Range(batch[U][q]) /\ s # t
    <3>1. batch[U] \in TickQueues
      BY DEF IInv, TypeOK
    <3>2. CASE U = T /\ q = p
      BY <1>2, <1>4, <3>1, <3>2 DEF TickQueues
    <3>3. CASE ~(U = T /\ q = p)
      <4>1. batch'[U][q] = batch[U][q]
        BY <1>2, <3>1, <3>3 DEF TickQueues
      <4>2. t \notin Range(batch[U][q])
        BY <1>7, <3>3, BatchQueue
      <4> QED BY <4>1, <4>2
    <3> QED BY <3>2, <3>3
  <2> QED BY <2>1, <2>2, BatchEntriesAre, BatchEntriesAreAfter
<1>9. ASSUME NEW s \in BatchEntries \ {t} PROVE Abstract!Precedes(t, s)
  <2>1. PICK U \in DOMAIN batch, q \in Priorities : s \in Range(batch[U][q])
    BY BatchEntriesAre
  <2>2. U \in GameTicks /\ s.trigger = U /\ s.priority = q
    BY <2>1, BatchQueue
  <2>3. batch[U][q] # <<>> /\ U \in Remaining
    BY <2>1 DEF Range, Remaining, AllEmpty
  <2>4. T <= U /\ (U = T => p <= q)
    BY <1>2, <2>3
  <2>5. U = T /\ q = p => t.order < s.order
    <3> SUFFICES ASSUME U = T, q = p PROVE t.order < s.order
      OBVIOUS
    <3>1. PICK j \in DOMAIN batch[T][p] : s = batch[T][p][j]
      BY <2>1 DEF Range
    <3>2. j # 1 /\ j \in Nat \ {0}
      BY <1>3, <1>5, <3>1
    <3> QED BY <1>3, <1>5, <3>1, <3>2
  <2>6. T \in Int /\ U \in Int /\ p \in Int /\ q \in Int
    BY <1>3, <2>2, WheelAssumption DEF GameTicks
  <2> QED BY <1>7, <2>2, <2>4, <2>5, <2>6 DEF Abstract!Precedes
<1> QED BY <1>1, <1>2, <1>6, <1>8, <1>9 DEF Abstract!Execute

\* due_batch holds all that is due, wherever it is kept.
LEMMA TakeBatchImplements ==
  ASSUME IInv, TakeBatch
  PROVE  Abstract!TakeBatch
<1>1. /\ phase = "pre" /\ phase' = "run" /\ budget' = Limit
      /\ batch' = [T \in DueTicks |-> Queues(T)]
      /\ UNCHANGED <<queueVars, now, nextOrder>>
  BY DEF TakeBatch
<1>2. Entries' = Entries
  BY <1>1, EntriesUnchanged
<1>3. DueTicks \subseteq GameTicks /\ DOMAIN batch' = DueTicks
      /\ \A T \in DueTicks : T <= now /\ batch'[T] = Queues(T)
  BY <1>1 DEF DueTicks
<1>4. ASSUME NEW t PROVE t \in BatchEntries' <=> t \in Entries /\ t.trigger <= now
  <2>1. t \in BatchEntries' => t \in Entries /\ t.trigger <= now
    <3> SUFFICES ASSUME t \in BatchEntries' PROVE t \in Entries /\ t.trigger <= now
      OBVIOUS
    <3>1. PICK T \in DueTicks, p \in Priorities : t \in Range(Queues(T)[p])
      BY <1>3, BatchEntriesAreAfter
    <3> QED BY <1>3, <3>1, EntryPlace
  <2>2. t \in Entries /\ t.trigger <= now => t \in BatchEntries'
    <3> SUFFICES ASSUME t \in Entries, t.trigger <= now PROVE t \in BatchEntries'
      OBVIOUS
    <3>1. /\ t.trigger \in GameTicks /\ t.priority \in Priorities
          /\ t \in Range(Queues(t.trigger)[t.priority])
      BY EntryPlace DEF ScheduledTick
    <3>2. Present(t.trigger)
      BY <3>1 DEF Present, Queues, EmptyQueues, Range
    <3>3. t.trigger \in DueTicks
      BY <3>1, <3>2 DEF DueTicks
    <3> QED BY <1>3, <3>1, <3>3, BatchEntriesAreAfter
  <2> QED BY <2>1, <2>2
<1> QED BY <1>1, <1>2, <1>4 DEF Abstract!TakeBatch

\* The dedup set refuses a key exactly when the abstract queue has it.
LEMMA ScheduleImplements ==
  ASSUME IInv, KeysAgree,
         NEW k \in Keys, NEW d \in 0 .. MaxDelay, NEW p \in Priorities, Schedule(k, d, p)
  PROVE  Abstract!Schedule(k, d, p)
<1> DEFINE t == [key |-> k, trigger |-> Trigger(d), priority |-> p, order |-> nextOrder]
<1>1. Insert(t) /\ Entries' = Entries \cup {t}
  BY ScheduleEntries
<1>2. \A s \in Entries : s.key # k
  BY <1>1 DEF KeysAgree, Insert
<1>3. Abstract!Trigger(d) = Trigger(d)
  BY DEF Abstract!Trigger, Trigger
<1>4. BatchEntries' = BatchEntries
  BY DEF Schedule, BatchEntries, Filed
<1> QED BY <1>1, <1>2, <1>3, <1>4 DEF Schedule, Abstract!Schedule

LEMMA StepImplements == IInv /\ KeysAgree /\ [Next]_vars => [Abstract!Next]_Abstract!vars
<1> SUFFICES ASSUME IInv, KeysAgree, [Next]_vars PROVE Abstract!Next \/ UNCHANGED Abstract!vars
  OBVIOUS
<1>1. ASSUME NEW k \in Keys, NEW d \in 0 .. MaxDelay, NEW p \in Priorities, Schedule(k, d, p)
      PROVE  Abstract!Next
  BY <1>1, ScheduleImplements DEF Abstract!Next
<1>2. CASE BeginTick
  <2>1. UNCHANGED queueVars /\ BatchEntries' = BatchEntries
    BY <1>2 DEF BeginTick, BatchEntries, Filed
  <2> QED BY <1>2, <2>1, EntriesUnchanged DEF BeginTick, Abstract!BeginTick, Abstract!Next
<1>3. CASE TakeBatch
  BY <1>3, TakeBatchImplements DEF Abstract!Next
<1>4. ASSUME NEW T \in DOMAIN batch, NEW p \in Priorities, Execute(T, p)
      PROVE  Abstract!Next
  BY <1>4, ExecuteImplements DEF Abstract!Next
<1>5. CASE EndTick \/ FailTick
  <2>1. phase # "rest" /\ LeaveBatch
    BY <1>5 DEF EndTick, FailTick
  <2>2. BatchEntries' = {}
    BY <2>1, BatchEntriesAreAfter DEF LeaveBatch
  <2>3. Entries' = Entries
    BY <2>1, EntriesUnchanged DEF LeaveBatch
  <2> QED BY <2>1, <2>2, <2>3 DEF LeaveBatch, Abstract!EndTick, Abstract!Next
<1>6. CASE UNCHANGED vars
  <2>1. Entries' = Entries /\ BatchEntries' = BatchEntries
    BY <1>6, EntriesUnchanged DEF vars, queueVars, BatchEntries, Filed
  <2> QED BY <1>6, <2>1 DEF vars, Abstract!vars
<1> QED BY <1>1, <1>2, <1>3, <1>4, <1>5, <1>6 DEF Next

LEMMA InitImplements == Init => Abstract!Init
<1> SUFFICES ASSUME Init PROVE Abstract!Init
  OBVIOUS
<1>1. Entries = {}
  BY DEF Init, Entries, Filed, EmptyQueues, Range
<1>2. BatchEntries = {}
  BY DEF Init, BatchEntries
<1> QED BY <1>1, <1>2 DEF Init, Abstract!Init

-----------------------------------------------------------------------------
(* How long an entry waits. Every game tick that ends in order has executed *)
(* Limit entries or all that were due, so an entry that is still pending    *)
(* has Limit fewer before it for every game tick it is late; and nothing    *)
(* that is scheduled later gets before it, once its trigger tick is over.   *)

\* The entry and those that are executed before it.
Ahead(t) == {s \in Entries : s = t \/ Abstract!Precedes(s, t)}

\* The game tick that ended last, and what was executed since.
Ended == IF phase = "rest" THEN now ELSE now - 1
Spent == IF phase = "run" THEN Limit - budget ELSE 0

InTurn(t) ==
  t.trigger <= Ended =>
    Limit * (Ended - t.trigger - lost) + Cardinality(Ahead(t)) + Spent <= Cardinality(Keys)

\* A batch holds every entry of an earlier game tick until it is executed.
NoneSkipped == phase = "run" => \A t \in Entries : t.trigger < now => t \in BatchEntries

LateInv == budget <= Limit /\ NoneSkipped /\ \A t \in Entries : InTurn(t)

LEMMA OneMoreTick ==
  ASSUME NEW a \in Int
  PROVE  /\ Limit * a \in Int
         /\ Limit * (a + 1) = Limit * a + Limit
         /\ Limit * (a - 1) = Limit * a - Limit
BY WheelAssumption

LEMMA EntriesFinite ==
  ASSUME IInv, KeysAgree
  PROVE  /\ IsFiniteSet(Entries) /\ Cardinality(Entries) <= Cardinality(Keys)
         /\ Cardinality(Entries) \in Nat /\ Cardinality(Keys) \in Nat
<1>1. IsFiniteSet(keys) /\ Cardinality(keys) <= Cardinality(Keys)
  BY WheelAssumption, FS_Subset DEF IInv, TypeOK, QueueTypeOK
<1>2. DEFINE f == [t \in Entries |-> t.key]
<1>3. f \in Injection(Entries, keys)
  BY DEF KeysAgree, Injection, IsInjective
<1>4. IsFiniteSet(Entries) /\ Cardinality(Entries) <= Cardinality(keys)
  BY <1>1, <1>3, FS_Injection
<1> QED BY <1>1, <1>4, WheelAssumption, FS_CardinalityType

\* An entry has itself and at most all others before it.
LEMMA AheadFinite ==
  ASSUME IInv, KeysAgree, NEW t \in Entries
  PROVE  /\ IsFiniteSet(Ahead(t)) /\ Cardinality(Ahead(t)) \in Nat
         /\ Cardinality(Ahead(t)) >= 1 /\ Cardinality(Ahead(t)) <= Cardinality(Keys)
<1>1. Ahead(t) \in SUBSET Entries /\ t \in Ahead(t)
  BY DEF Ahead
<1>2. IsFiniteSet(Ahead(t)) /\ Cardinality(Ahead(t)) <= Cardinality(Entries)
  BY <1>1, EntriesFinite, FS_Subset
<1>3. Cardinality(Ahead(t)) \in Nat /\ Cardinality(Ahead(t)) # 0
  BY <1>1, <1>2, FS_CardinalityType, FS_EmptySet
<1> QED BY <1>2, <1>3, EntriesFinite

\* While its trigger tick is not over, an entry is in turn.
LEMMA NotYetLate ==
  ASSUME IInv, KeysAgree, NEW t \in Entries, phase = "rest", t.trigger >= now
  PROVE  InTurn(t)
<1>1. t.trigger \in Int /\ now \in Int /\ lost \in Nat
  BY EntryPlace DEF IInv, TypeOK, ScheduledTick, GameTicks
<1>2. CASE t.trigger > now
  BY <1>1, <1>2 DEF InTurn, Ended
<1>3. CASE t.trigger = now
  <2>1. Limit * (Ended - t.trigger - lost) = Limit * (0 - lost)
    BY <1>1, <1>3 DEF Ended
  <2>2. Limit * (0 - lost) <= 0
    BY <1>1, WheelAssumption
  <2>3. Spent = 0
    BY DEF Spent
  <2> DEFINE m == Limit * (0 - lost)
  <2>4. m \in Int
    BY <1>1, OneMoreTick
  <2>5. Cardinality(Ahead(t)) \in Nat /\ Cardinality(Keys) \in Nat
        /\ Cardinality(Ahead(t)) <= Cardinality(Keys)
    BY AheadFinite, EntriesFinite
  <2> HIDE DEF m
  <2>6. m <= 0
    BY <2>2 DEF m
  <2>7. m + Cardinality(Ahead(t)) + 0 <= Cardinality(Keys)
    BY <2>4, <2>5, <2>6
  <2> QED BY <2>1, <2>3, <2>7 DEF InTurn, m
<1> QED BY <1>1, <1>2, <1>3

LEMMA AfterIInv == IInv' /\ KeysAgree' =>
  (\A t \in Entries : phase = "rest" /\ t.trigger >= now => InTurn(t))'
<1>1. IInv /\ KeysAgree => \A t \in Entries : phase = "rest" /\ t.trigger >= now => InTurn(t)
  BY NotYetLate
<1> QED BY <1>1, PTL

\* A new entry gets before no entry whose trigger tick is over.
LEMMA ScheduleInTurn ==
  ASSUME IInv, KeysAgree, LateInv, IInv', KeysAgree',
         NEW k \in Keys, NEW d \in 0 .. MaxDelay, NEW p \in Priorities, Schedule(k, d, p)
  PROVE  LateInv'
<1> DEFINE t == [key |-> k, trigger |-> Trigger(d), priority |-> p, order |-> nextOrder]
<1>1. t \in ScheduledTick /\ Entries' = Entries \cup {t}
  BY ScheduleEntries
<1>2. UNCHANGED <<now, phase, batch, budget, lost>>
  BY DEF Schedule
<1>3. t.trigger >= now /\ now \in Int /\ t.trigger \in Int
  BY WheelAssumption DEF Trigger, IInv, TypeOK, GameTicks
<1>4. \A s \in Entries : s.trigger \in Int
  BY EntryPlace DEF ScheduledTick, GameTicks
<1> HIDE DEF t
<1>5. BatchEntries' = BatchEntries /\ Ended' = Ended /\ Spent' = Spent
  BY <1>2 DEF BatchEntries, Filed, Ended, Spent
<1>6. NoneSkipped'
  BY <1>1, <1>2, <1>3, <1>5 DEF LateInv, NoneSkipped
<1>7. ASSUME NEW s \in Entries' PROVE InTurn(s)'
  <2>1. CASE phase = "rest" /\ s.trigger >= now
    BY <1>2, <2>1, AfterIInv
  <2>2. CASE s.trigger > Ended
    BY <1>5, <2>2, <1>1, <1>3, <1>4 DEF InTurn, Ended
  <2>3. CASE s.trigger < now
    <3>1. s \in Entries
      BY <1>1, <1>3, <2>3
    <3>2. ~Abstract!Precedes(t, s) /\ t # s
      BY <1>3, <1>4, <2>3, <3>1 DEF Abstract!Precedes
    <3>3. Ahead(s)' = Ahead(s)
      BY <1>1, <3>2 DEF Ahead, Abstract!Precedes
    <3> QED BY <1>2, <1>5, <3>1, <3>3 DEF LateInv, InTurn
  <2> QED BY <1>1, <1>3, <1>4, <2>1, <2>2, <2>3 DEF Ended, IInv, TypeOK
<1> QED BY <1>2, <1>6, <1>7 DEF LateInv

\* The executed entry was before all that are late.
LEMMA ExecuteInTurn ==
  ASSUME IInv, KeysAgree, LateInv, IInv', KeysAgree',
         NEW T \in DOMAIN batch, NEW p \in Priorities, Execute(T, p)
  PROVE  LateInv'
<1>1. Abstract!Execute
  BY ExecuteImplements
<1>2. PICK t \in BatchEntries : /\ \A s \in BatchEntries \ {t} : Abstract!Precedes(t, s)
                                /\ Entries' = Entries \ {t}
                                /\ BatchEntries' = BatchEntries \ {t}
  BY <1>1 DEF Abstract!Execute
<1>3. /\ phase = "run" /\ budget \in Nat /\ budget' = budget - 1
      /\ UNCHANGED <<now, phase, lost>> /\ now \in Int /\ lost \in Int
  BY DEF Execute, IInv, TypeOK, GameTicks
<1>4. t \in Entries
  BY <1>2, BatchEntriesAre, BatchQueue
<1>5. NoneSkipped'
  BY <1>2, <1>3 DEF LateInv, NoneSkipped
<1>6. ASSUME NEW s \in Entries' PROVE InTurn(s)'
  <2>1. s \in Entries /\ s # t /\ s.trigger \in Int
    BY <1>2, EntryPlace DEF ScheduledTick, GameTicks
  <2>2. Ended' = Ended /\ Spent' = Spent + 1 /\ Ended = now - 1
    BY <1>3, WheelAssumption DEF Ended, Spent
  <2>3. CASE s.trigger < now
    <3>1. s \in BatchEntries
      BY <1>3, <2>1, <2>3 DEF LateInv, NoneSkipped
    <3>2. t \in Ahead(s)
      BY <1>2, <1>4, <2>1, <3>1 DEF Ahead
    <3>3. Ahead(s)' = Ahead(s) \ {t}
      BY <1>2 DEF Ahead, Abstract!Precedes
    <3>4. Cardinality(Ahead(s)') = Cardinality(Ahead(s)) - 1
      BY <2>1, <3>2, <3>3, AheadFinite, FS_RemoveElement
    <3>5. Limit * (Ended - s.trigger - lost) \in Int /\ Spent \in Int
      BY <1>3, <2>1, <2>2, OneMoreTick, WheelAssumption DEF Spent
    <3>6. Cardinality(Ahead(s)) \in Int /\ Cardinality(Keys) \in Int
      BY <2>1, AheadFinite, EntriesFinite
    <3>7. InTurn(s)
      BY <2>1 DEF LateInv
    <3> QED BY <1>3, <2>2, <3>4, <3>5, <3>6, <3>7 DEF InTurn
  <2>4. CASE s.trigger >= now
    BY <1>3, <2>1, <2>2, <2>4 DEF InTurn
  <2> QED BY <1>3, <2>1, <2>3, <2>4
<1>7. budget' <= Limit
  BY <1>3, WheelAssumption DEF LateInv
<1> QED BY <1>5, <1>6, <1>7 DEF LateInv

\* A game tick that ends has executed Limit entries, or every late one, or is
\* given up and counted as lost.
LEMMA LeaveInTurn ==
  ASSUME IInv, KeysAgree, LateInv, IInv', KeysAgree', EndTick \/ FailTick
  PROVE  LateInv'
<1>1. /\ phase \in {"pre", "run"} /\ phase' = "rest" /\ UNCHANGED <<queueVars, now>>
      /\ \/ phase = "run" /\ (budget = 0 \/ Remaining = {}) /\ lost' = lost
         \/ lost' = lost + 1
  BY DEF EndTick, FailTick, LeaveBatch
<1>2. Entries' = Entries
  BY <1>1, EntriesUnchanged
<1>3. now \in Int /\ lost \in Int /\ Ended = now - 1 /\ Ended' = now /\ Spent' = 0
      /\ Spent \in Int /\ (budget <= Limit => Spent >= 0)
  BY <1>1, WheelAssumption DEF IInv, TypeOK, GameTicks, Ended, Spent
<1>4. ASSUME NEW t \in Entries' PROVE InTurn(t)'
  <2>1. t \in Entries /\ t.trigger \in Int
    BY <1>2, EntryPlace DEF ScheduledTick, GameTicks
  <2>2. CASE t.trigger >= now
    BY <1>1, <2>2, AfterIInv
  <2>3. CASE t.trigger < now
    <3> DEFINE a == Ended - t.trigger - lost
               n == Cardinality(Ahead(t))
    <3>1. a \in Int /\ Limit * a \in Int /\ n \in Int /\ Cardinality(Keys) \in Int
      BY <1>3, <2>1, AheadFinite, EntriesFinite, OneMoreTick
    <3>2. Limit * a + n + Spent <= Cardinality(Keys)
      BY <1>3, <2>1, <2>3 DEF LateInv, InTurn
    <3>3. Ahead(t)' = Ahead(t)
      BY <1>2 DEF Ahead, Abstract!Precedes
    <3>4. CASE lost' = lost + 1
      <4>1. Ended' - t.trigger - lost' = a
        BY <1>3, <2>1, <3>4
      <4>2. Spent >= 0
        BY <1>3 DEF LateInv
      <4> HIDE DEF a, n
      <4> QED BY <1>3, <3>1, <3>2, <3>3, <4>1, <4>2 DEF InTurn, n
    <3>5. CASE phase = "run" /\ budget = 0 /\ lost' = lost
      <4>1. Ended' - t.trigger - lost' = a + 1
        BY <1>3, <2>1, <3>5
      <4>2. Spent = Limit /\ Limit \in Int
        BY <3>5, WheelAssumption DEF Spent
      <4>3. Limit * (a + 1) = Limit * a + Limit
        BY <3>1, OneMoreTick
      <4> HIDE DEF a, n
      <4>4. Limit * (a + 1) + n + 0 <= Cardinality(Keys)
        BY <3>1, <3>2, <4>2, <4>3
      <4> QED BY <1>3, <3>3, <4>1, <4>4 DEF InTurn, n
    <3>6. CASE phase = "run" /\ Remaining = {}
      <4>1. t \in BatchEntries
        BY <2>1, <2>3, <3>6 DEF LateInv, NoneSkipped
      <4> QED BY <3>6, <4>1, BatchEntriesAre DEF Remaining, AllEmpty, Range
    <3> QED BY <1>1, <3>4, <3>5, <3>6
  <2> QED BY <1>3, <2>1, <2>2, <2>3
<1>5. budget' <= Limit
  BY WheelAssumption DEF EndTick, FailTick, LeaveBatch
<1> QED BY <1>1, <1>4, <1>5 DEF LateInv, NoneSkipped

LEMMA LateNext == IInv /\ KeysAgree /\ LateInv /\ [Next]_vars => LateInv'
<1> SUFFICES ASSUME IInv, KeysAgree, LateInv, [Next]_vars PROVE LateInv'
  OBVIOUS
<1>1. IInv' /\ KeysAgree'
  BY NextIInv, KeysInv
<1>2. ASSUME NEW k \in Keys, NEW d \in 0 .. MaxDelay, NEW p \in Priorities, Schedule(k, d, p)
      PROVE  LateInv'
  BY <1>1, <1>2, ScheduleInTurn
<1>3. ASSUME NEW T \in DOMAIN batch, NEW p \in Priorities, Execute(T, p)
      PROVE  LateInv'
  BY <1>1, <1>3, ExecuteInTurn
<1>4. CASE EndTick \/ FailTick
  BY <1>1, <1>4, LeaveInTurn
<1>5. CASE BeginTick \/ TakeBatch \/ UNCHANGED vars
  <2>1. Entries' = Entries /\ UNCHANGED lost
    BY <1>5, EntriesUnchanged DEF BeginTick, TakeBatch, vars, queueVars
  <2>2. Ended' = Ended /\ Spent' = Spent
    BY <1>5, WheelAssumption DEF BeginTick, TakeBatch, vars, Ended, Spent, IInv, TypeOK, GameTicks
  <2>3. \A t \in Entries' : InTurn(t)'
    <3> SUFFICES ASSUME NEW t \in Entries PROVE InTurn(t)'
      BY <2>1
    <3>1. Ahead(t)' = Ahead(t)
      BY <2>1 DEF Ahead, Abstract!Precedes
    <3> QED BY <2>1, <2>2, <3>1 DEF LateInv, InTurn
  <2>4. NoneSkipped'
    <3>1. CASE BeginTick
      BY <3>1 DEF BeginTick, NoneSkipped
    <3>2. CASE TakeBatch
      <4>1. /\ BatchEntries' = {t \in Entries : t.trigger <= now} /\ now' = now /\ now \in Int
        BY <3>2, TakeBatchImplements DEF Abstract!TakeBatch, IInv, TypeOK, GameTicks
      <4>2. \A t \in Entries : t.trigger \in Int
        BY EntryPlace DEF ScheduledTick, GameTicks
      <4> QED BY <2>1, <4>1, <4>2 DEF NoneSkipped
    <3>3. CASE UNCHANGED vars
      <4>1. BatchEntries' = BatchEntries
        BY <3>3 DEF vars, BatchEntries, Filed
      <4> QED BY <2>1, <3>3, <4>1 DEF vars, NoneSkipped, LateInv
    <3> QED BY <1>5, <3>1, <3>2, <3>3
  <2>5. budget' <= Limit
    BY <1>5, WheelAssumption DEF BeginTick, TakeBatch, vars, LateInv
  <2> QED BY <2>3, <2>4, <2>5 DEF LateInv
<1> QED BY <1>2, <1>3, <1>4, <1>5 DEF Next

LEMMA LateInit == Init => LateInv
<1> SUFFICES ASSUME Init PROVE LateInv
  OBVIOUS
<1>1. Entries = {}
  BY DEF Init, Entries, Filed, EmptyQueues, Range
<1> QED BY <1>1, WheelAssumption DEF Init, LateInv, NoneSkipped

LEMMA AtMostQuotient ==
  ASSUME NEW x \in Int, NEW y \in Nat, Limit # 0, Limit * x <= y
  PROVE  x <= y \div Limit
<1> DEFINE q == y \div Limit
<1>1. q \in Int /\ y < Limit * q + Limit
  BY WheelAssumption
<1>2. Limit * (q + 1) = Limit * q + Limit
  BY <1>1, OneMoreTick
<1> HIDE DEF q
<1>3. CASE x >= q + 1
  <2>1. Limit * x >= Limit * (q + 1)
    BY <1>1, <1>3, WheelAssumption
  <2> QED BY <1>1, <1>2, <2>1, OneMoreTick, WheelAssumption
<1> QED BY <1>1, <1>3 DEF q

LEMMA LateMeans ==
  ASSUME Limit # 0, IInv, KeysAgree, LateInv
  PROVE  BoundedLateness
<1> SUFFICES ASSUME phase = "rest", NEW t \in Entries
             PROVE  now - t.trigger <= (Cardinality(Keys) - 1) \div Limit + lost
  BY DEF BoundedLateness
<1> DEFINE x == now - t.trigger - lost
           K == Cardinality(Keys)
           n == Cardinality(Ahead(t))
<1>1. /\ now \in Int /\ t.trigger \in Int /\ lost \in Nat /\ Limit \in Nat
  BY EntryPlace, WheelAssumption DEF IInv, TypeOK, ScheduledTick, GameTicks
<1>2. K \in Nat /\ n \in Nat /\ n >= 1 /\ n <= K
  BY AheadFinite, EntriesFinite
<1>3. (K - 1) \div Limit \in Nat
  BY <1>1, <1>2
<1>4. CASE t.trigger <= now
  <2>1. Limit * x + n <= K /\ Limit * x \in Int
    BY <1>1, <1>2, <1>4, OneMoreTick DEF LateInv, InTurn, Ended, Spent
  <2>2. Limit * x <= K - 1 /\ K - 1 \in Nat /\ x \in Int
    BY <1>1, <1>2, <2>1
  <2> HIDE DEF x, K
  <2>3. x <= (K - 1) \div Limit
    BY <2>2, AtMostQuotient
  <2> QED BY <1>1, <1>3, <2>2, <2>3 DEF x, K
<1>5. CASE t.trigger > now
  <2> DEFINE q == (K - 1) \div Limit
  <2>1. q \in Nat
    BY <1>3
  <2> HIDE DEF q
  <2>2. now - t.trigger <= q + lost
    BY <1>1, <1>5, <2>1
  <2> QED BY <2>2 DEF q
<1> QED BY <1>1, <1>4, <1>5

-----------------------------------------------------------------------------
LEMMA SpecIInv == Spec => []IInv
  BY InitIInv, NextIInv, PTL DEF Spec

\* The variables of the queue and of the engine keep their types.
THEOREM TypeCorrect == Spec => []TypeOK
  BY SpecIInv, PTL DEF IInv

\* No trigger tick ever has queues both in its slot and in the overflow map.
THEOREM SingleHome == Spec => []OneHome
  BY SpecIInv, PTL DEF IInv

\* A slot is bound to a tick of its residue exactly while it holds entries.
THEOREM SlotsReleased == Spec => []SlotInv
  BY SpecIInv, PTL DEF IInv

\* The queues of a tick hold its entries, by priority and in insertion order.
THEOREM QueuesFiled == Spec => []FiledInOrder
<1>1. IInv => FiledInOrder
  BY DEF IInv
<1> QED BY <1>1, SpecIInv, PTL

\* The wheel and the overflow map hold every entry once, where it belongs, and
\* the queues of a tick in insertion order.
THEOREM ConsistencyKept == Spec => []WheelConsistent
  BY SingleHome, SlotsReleased, QueuesFiled, PTL DEF WheelConsistent

\* The expectations of start_execution hold at every execution of every batch:
\* whatever has been scheduled while the batch runs, the entry it executes next
\* is the head of its live queue.
THEOREM ExecutionOrderStable == Spec => []ExecutionStable
<1>1. IInv => ExecutionStable
  <2> SUFFICES ASSUME IInv, NEW T \in DOMAIN batch, NEW p \in Priorities, IsNext(T, p)
               PROVE  /\ Present(T) /\ Queues(T)[p] # <<>>
                      /\ Head(Queues(T)[p]) = Head(batch[T][p])
    BY DEF ExecutionStable
  <2>1. Queues(T)[p] # <<>> /\ Head(Queues(T)[p]) = Head(batch[T][p])
    BY BatchHead DEF IsNext
  <2>2. Present(T)
    BY <2>1 DEF Present, Queues, EmptyQueues
  <2> QED BY <2>1, <2>2
<1> QED BY <1>1, SpecIInv, PTL

\* The deduplication set and the counter describe exactly the pending entries,
\* however often the same key is scheduled, executed and scheduled again.
THEOREM KeysExact == Spec => []KeysAgree
  BY InitIInv, NextIInv, KeysInit, KeysInv, PTL DEF Spec

\* The wheel, its overflow map and its dedup set are the queue of
\* ScheduledTicks: a tick is executed when it is due, once, in the order of
\* trigger tick, priority and insertion, and refused only while one of its key
\* is pending (scheduler.rs insert, due_batch and start_execution).
THEOREM ImplementsScheduledTicks == Spec => RefinesScheduledTicks
<1>1. Spec => [](IInv /\ KeysAgree)
  BY SpecIInv, KeysExact, PTL
<1> QED BY <1>1, InitImplements, StepImplements, PTL DEF Spec, RefinesScheduledTicks, Abstract!Spec

\* However the queues are filled meanwhile, an entry is executed at most
\* (|Keys| - 1) \div Limit game ticks after its trigger tick, and one more for
\* every game tick given up; with a limit of zero nothing is ever executed.
THEOREM LatenessBounded == Limit # 0 => (Spec => []BoundedLateness)
<1> SUFFICES ASSUME Limit # 0 PROVE Spec => []BoundedLateness
  OBVIOUS
<1>1. IInv /\ KeysAgree /\ LateInv => BoundedLateness
  BY LateMeans
<1> QED BY <1>1, SpecIInv, KeysExact, LateInit, LateNext, PTL DEF Spec
=============================================================================
