------------------------------ MODULE StepProofs -----------------------------
(***************************************************************************)
(* Proofs about StepEngine and UpdateChain, for any block events, clocks,  *)
(* numbers of changes, directions and tasks.                               *)
(*                                                                         *)
(* EventsFirst is not inductive: it says nothing of the entries an event   *)
(* will be inserted between. Split says that event_index separates what    *)
(* was recorded before the running event from the changes it made.         *)
(*                                                                         *)
(* For the refinement, what is on the task stack is put after one another  *)
(* (FlattenSeq): the lemmas say what that gives when something is pushed   *)
(* (AgendaPushed) and when the top task advances (AdvancedLeaves).         *)
(***************************************************************************)
EXTENDS StepEngine, UpdateChain, SequenceTheorems, WellFoundedInduction, TLAPS

Split ==
  running # None =>
    /\ open
    /\ start <= made
    /\ \A i \in DOMAIN changes :
         IF i <= index THEN Rank(changes[i]) <= 2 * start + 1
         ELSE changes[i].kind = "block" /\ changes[i].after > start

\* What is recorded has been made.
Bounded == \A i \in DOMAIN changes : changes[i].after <= made

IInv == TypeOK /\ QueueAgrees /\ EventsFirst /\ ClocksTogether /\ Split /\ Bounded

LEMMA EntryType ==
  ASSUME NEW x \in Entries
  PROVE  x.after \in Nat /\ x.kind \in {"block", "event"} /\ Rank(x) \in Nat
<1>1. x.after \in 0 .. MaxMade /\ x.kind \in {"block", "event"} /\ MaxMade \in Nat
  BY EngineAssumption DEF Entries
<1>2. x.after \in Nat
  BY <1>1
<1> QED BY <1>1, <1>2 DEF Rank

\* Vec::insert of the event's entry.
LEMMA InsertEffect ==
  ASSUME NEW s \in Seq(Entries), NEW k \in 0 .. Len(s), NEW e \in Entries
  PROVE  /\ InsertAt(s, k + 1, e) \in Seq(Entries)
         /\ Len(InsertAt(s, k + 1, e)) = Len(s) + 1
         /\ \A i \in 1 .. Len(s) + 1 :
              InsertAt(s, k + 1, e)[i] =
                IF i <= k THEN s[i] ELSE IF i = k + 1 THEN e ELSE s[i - 1]
<1> DEFINE a == SubSeq(s, 1, k)
           c == SubSeq(s, k + 1, Len(s))
           b == a \o <<e>>
           r == InsertAt(s, k + 1, e)
<1>1. a \in Seq(Entries) /\ Len(a) = k /\ \A i \in 1 .. k : a[i] = s[i]
  OBVIOUS
<1>2. /\ c \in Seq(Entries) /\ Len(c) = Len(s) - k
      /\ \A i \in 1 .. Len(s) - k : c[i] = s[k + i]
  OBVIOUS
<1>3. <<e>> \in Seq(Entries) /\ Len(<<e>>) = 1 /\ <<e>>[1] = e
  OBVIOUS
<1>r. r = b \o c
  <2>1. (k + 1) - 1 = k
    OBVIOUS
  <2>2. r = SubSeq(s, 1, (k + 1) - 1) \o <<e>> \o SubSeq(s, k + 1, Len(s))
    BY DEF InsertAt
  <2> QED BY <2>1, <2>2
<1> HIDE DEF a, c, r
<1>4. /\ b \in Seq(Entries) /\ Len(b) = k + 1
      /\ \A i \in 1 .. k : b[i] = s[i]
      /\ b[k + 1] = e
  BY <1>1, <1>3, ConcatProperties
<1> HIDE DEF b
<1>5. /\ r \in Seq(Entries) /\ Len(r) = Len(b) + Len(c)
      /\ \A i \in 1 .. Len(b) + Len(c) : r[i] = IF i <= Len(b) THEN b[i] ELSE c[i - Len(b)]
  BY <1>2, <1>4, <1>r, ConcatProperties
<1>6. Len(r) = Len(s) + 1
  BY <1>2, <1>4, <1>5
<1>7. ASSUME NEW i \in 1 .. Len(s) + 1
      PROVE  r[i] = IF i <= k THEN s[i] ELSE IF i = k + 1 THEN e ELSE s[i - 1]
  <2>1. CASE i <= k
    <3>1. i \in 1 .. k /\ i \in 1 .. Len(b) + Len(c) /\ i <= Len(b)
      BY <1>2, <1>4, <2>1
    <3>2. r[i] = b[i] /\ b[i] = s[i]
      BY <1>4, <1>5, <3>1
    <3> QED BY <2>1, <3>2
  <2>2. CASE i = k + 1
    BY <1>2, <1>4, <1>5, <2>2
  <2>3. CASE i > k + 1
    <3>1. r[i] = c[i - (k + 1)] /\ i - (k + 1) \in 1 .. Len(s) - k /\ k + (i - (k + 1)) = i - 1
      BY <1>2, <1>4, <1>5, <2>3
    <3> QED BY <1>2, <2>3, <3>1
  <2> QED BY <2>1, <2>2, <2>3
<1> QED BY <1>5, <1>6, <1>7 DEF r

LEMMA InitIInv == Init => IInv
<1> SUFFICES ASSUME Init PROVE IInv
  OBVIOUS
<1>1. TypeOK
  <2>1. changes \in Seq(Entries) /\ queue \in Seq(Events) /\ index \in 0 .. Len(changes)
    BY DEF Init
  <2>2. tick \in 0 .. MaxClock /\ gameTime \in 0 .. MaxClock /\ overworldTime \in 0 .. MaxClock
    BY EngineAssumption DEF Init
  <2>3. start \in 0 .. MaxMade /\ made \in 0 .. MaxMade
    BY EngineAssumption DEF Init
  <2> QED BY <2>1, <2>2, <2>3 DEF Init, TypeOK
<1>2. QueueAgrees /\ EventsFirst /\ Split /\ Bounded
  BY DEF Init, QueueAgrees, EventsFirst, Split, Bounded
<1>3. ClocksTogether
  BY EngineAssumption DEF Init, ClocksTogether
<1> QED BY <1>1, <1>2, <1>3 DEF IInv

\* Queueing an event, and taking the next one, keep queue and keys in step.
LEMMA QueueEventIInv ==
  ASSUME IInv, NEW e \in Events, QueueEvent(e)
  PROVE  IInv'
<1>1. /\ queue \in Seq(Events) /\ keys \subseteq Events /\ e \notin keys
      /\ queue' = Append(queue, e) /\ keys' = keys \cup {e}
  BY DEF QueueEvent, IInv, TypeOK
<1>2. UNCHANGED <<clocks, phase, open, running, record>>
  BY DEF QueueEvent
<1>3. TypeOK'
  BY <1>1, <1>2 DEF IInv, TypeOK, clocks, record
<1>4. QueueAgrees'
  BY <1>1 DEF IInv, QueueAgrees
<1>5. EventsFirst' /\ ClocksTogether' /\ Split' /\ Bounded'
  BY <1>2 DEF IInv, EventsFirst, ClocksTogether, Split, Bounded, clocks, record
<1> QED BY <1>3, <1>4, <1>5 DEF IInv

LEMMA StartEventIInv ==
  ASSUME IInv, StartEvent
  PROVE  IInv'
<1>1. /\ queue \in Seq(Events) /\ queue # <<>> /\ keys \subseteq Events
      /\ running' = Head(queue) /\ queue' = Tail(queue) /\ keys' = keys \ {running'}
      /\ open' = TRUE /\ index' = Len(changes) /\ start' = made
      /\ UNCHANGED <<clocks, phase, made, changes>>
  BY DEF StartEvent, IInv, TypeOK
<1>2. /\ Head(queue) \in Events /\ Head(queue) = queue[1] /\ Tail(queue) \in Seq(Events)
      /\ Len(Tail(queue)) = Len(queue) - 1
      /\ \A i \in 1 .. Len(queue) - 1 : Tail(queue)[i] = queue[i + 1]
  BY <1>1, HeadTailProperties
<1>3. changes \in Seq(Entries) /\ made \in 0 .. MaxMade
  BY DEF IInv, TypeOK
<1>4. TypeOK'
  BY <1>1, <1>2, <1>3 DEF IInv, TypeOK, clocks
<1>5. QueueAgrees'
  <2>1. \A i, j \in 1 .. Len(queue) : queue[i] = queue[j] => i = j
    BY <1>1 DEF IInv, QueueAgrees
  <2>2. \A i, j \in 1 .. Len(queue') : queue'[i] = queue'[j] => i = j
    BY <1>1, <1>2, <2>1
  <2>3. keys' \subseteq {queue'[i] : i \in 1 .. Len(queue')}
    <3> SUFFICES ASSUME NEW x \in keys, x # queue[1]
                 PROVE  \E i \in 1 .. Len(queue') : x = queue'[i]
      BY <1>1, <1>2
    <3>1. PICK i \in 1 .. Len(queue) : x = queue[i]
      BY <1>1 DEF IInv, QueueAgrees
    <3>2. i - 1 \in 1 .. Len(queue') /\ queue'[i - 1] = x
      BY <1>1, <1>2, <3>1
    <3> QED BY <3>2
  <2>4. \A i \in 1 .. Len(queue') : queue'[i] \in keys'
    <3> SUFFICES ASSUME NEW i \in 1 .. Len(queue')
                 PROVE  queue'[i] \in keys'
      OBVIOUS
    <3>1. i + 1 \in 1 .. Len(queue) /\ queue'[i] = queue[i + 1]
      BY <1>1, <1>2
    <3>2. queue[i + 1] \in keys
      BY <1>1, <3>1 DEF IInv, QueueAgrees
    <3>3. queue[i + 1] # queue[1]
      BY <1>1, <2>1, <3>1
    <3> QED BY <1>1, <1>2, <3>1, <3>2, <3>3
  <2>5. DOMAIN queue' = 1 .. Len(queue')
    BY <1>1, <1>2
  <2>6. keys' = {queue'[i] : i \in 1 .. Len(queue')}
    BY <2>3, <2>4
  <2> QED BY <2>2, <2>5, <2>6 DEF QueueAgrees
<1>6. EventsFirst' /\ ClocksTogether' /\ Bounded'
  BY <1>1 DEF IInv, EventsFirst, ClocksTogether, Bounded, clocks
<1>7. Split'
  <2>1. ASSUME NEW i \in DOMAIN changes
        PROVE  i <= Len(changes) /\ Rank(changes[i]) <= 2 * made + 1
    <3>1. changes[i] \in Entries /\ changes[i].after <= made
      BY <1>3 DEF IInv, Bounded
    <3> QED BY <1>3, <3>1 DEF Rank, Entries
  <2> QED BY <1>1, <1>3, <2>1 DEF Split
<1> QED BY <1>4, <1>5, <1>6, <1>7 DEF IInv

\* A change is recorded behind everything made before it.
LEMMA ChangeBlockIInv ==
  ASSUME IInv, ChangeBlock
  PROVE  IInv'
<1>1. /\ made' = made + 1 /\ made < MaxMade /\ made \in 0 .. MaxMade /\ MaxMade \in Nat
      /\ changes \in Seq(Entries) /\ index \in 0 .. Len(changes) /\ start \in 0 .. MaxMade
      /\ UNCHANGED <<clocks, phase, open, running, index, start, pending>>
  BY EngineAssumption DEF ChangeBlock, IInv, TypeOK
<1>2. UNCHANGED <<tick, gameTime, overworldTime, queue, keys>>
  BY <1>1 DEF clocks, pending
<1>3. made' \in 0 .. MaxMade
  BY <1>1
<1> DEFINE e == [kind |-> "block", after |-> made + 1]
<1>4. e \in Entries /\ Rank(e) = 2 * made + 2
  BY <1>1 DEF Entries, Rank
<1>5. \A i \in DOMAIN changes :
        changes[i] \in Entries /\ changes[i].after <= made /\ Rank(changes[i]) <= 2 * made + 1
  <2> SUFFICES ASSUME NEW i \in DOMAIN changes
               PROVE  changes[i] \in Entries /\ changes[i].after <= made /\ Rank(changes[i]) <= 2 * made + 1
    OBVIOUS
  <2>1. changes[i] \in Entries /\ changes[i].after <= made
    BY <1>1 DEF IInv, Bounded
  <2> QED BY <1>1, <2>1 DEF Rank, Entries
<1>6. QueueAgrees' /\ ClocksTogether'
  BY <1>2 DEF IInv, QueueAgrees, ClocksTogether
<1>7. CASE ~RecordEvents
  <2>1. changes' = changes
    BY <1>7 DEF ChangeBlock
  <2>2. TypeOK'
    BY <1>1, <1>2, <1>3, <2>1 DEF IInv, TypeOK
  <2>3. EventsFirst'
    BY <2>1 DEF IInv, EventsFirst
  <2>4. Split'
    BY <1>1, <2>1 DEF IInv, Split
  <2>5. Bounded'
    BY <1>1, <1>5, <2>1 DEF Bounded, Entries
  <2> QED BY <1>6, <2>2, <2>3, <2>4, <2>5 DEF IInv
<1>8. CASE RecordEvents
  <2>1. changes' = Append(changes, e)
    BY <1>1, <1>8 DEF ChangeBlock
  <2>2. /\ changes' \in Seq(Entries) /\ Len(changes') = Len(changes) + 1
        /\ changes'[Len(changes) + 1] = e
        /\ \A i \in 1 .. Len(changes) : changes'[i] = changes[i]
    BY <1>1, <1>4, <2>1, AppendProperties
  <2> HIDE DEF e
  <2>3. TypeOK'
    <3>1. index' \in 0 .. Len(changes')
      BY <1>1, <2>2
    <3> QED BY <1>1, <1>2, <1>3, <2>2, <3>1 DEF IInv, TypeOK
  <2>4. EventsFirst'
    <3> SUFFICES ASSUME NEW i \in 1 .. Len(changes) + 1, NEW j \in 1 .. Len(changes) + 1, i < j
                 PROVE  /\ Rank(changes'[i]) <= Rank(changes'[j])
                        /\ changes'[i].kind = "block" /\ changes'[j].kind = "block" =>
                             changes'[i].after < changes'[j].after
      BY <2>2 DEF EventsFirst, Rank
    <3>1. CASE j <= Len(changes)
      BY <1>1, <2>2, <3>1 DEF IInv, EventsFirst
    <3>2. CASE j = Len(changes) + 1
      <4>1. i \in DOMAIN changes /\ changes'[i] = changes[i] /\ changes'[j] = e /\ e.after = made + 1
        BY <1>1, <2>2, <3>2 DEF e
      <4>2. Rank(changes[i]) <= 2 * made + 1 /\ changes[i].after <= made /\ changes[i] \in Entries
        BY <1>5, <4>1
      <4>3. Rank(changes[i]) \in Nat /\ changes[i].after \in Nat
        BY <4>2, EntryType
      <4> QED BY <1>1, <1>4, <4>1, <4>2, <4>3
    <3> QED BY <1>1, <3>1, <3>2
  <2>5. Split'
    <3> SUFFICES ASSUME running # None, NEW i \in 1 .. Len(changes) + 1
                 PROVE  IF i <= index THEN Rank(changes'[i]) <= 2 * start + 1
                        ELSE changes'[i].kind = "block" /\ changes'[i].after > start
      BY <1>1, <2>2 DEF IInv, Split, Rank
    <3>1. CASE i <= Len(changes)
      BY <1>1, <2>2, <3>1 DEF IInv, Split
    <3>2. CASE i = Len(changes) + 1
      BY <1>1, <2>2, <3>2 DEF IInv, Split, e
    <3> QED BY <1>1, <3>1, <3>2
  <2>6. Bounded'
    <3> SUFFICES ASSUME NEW i \in 1 .. Len(changes) + 1
                 PROVE  changes'[i].after <= made + 1
      BY <1>1, <2>2 DEF Bounded
    <3>1. CASE i <= Len(changes)
      <4>1. changes'[i] = changes[i] /\ changes[i].after <= made /\ changes[i].after \in Nat
        BY <1>1, <1>5, <2>2, <3>1, EntryType
      <4> QED BY <1>1, <4>1
    <3>2. CASE i = Len(changes) + 1
      BY <1>1, <2>2, <3>2 DEF e
    <3> QED BY <1>1, <3>1, <3>2
  <2> QED BY <1>6, <2>3, <2>4, <2>5, <2>6 DEF IInv
<1> QED BY <1>7, <1>8

\* The entry of an executed event goes where event_index says: behind what was
\* recorded before the event, in front of what the event changed.
LEMMA EndEventIInv ==
  ASSUME IInv, EndEvent
  PROVE  IInv'
<1>1. /\ running # None /\ running' = None /\ open' = FALSE
      /\ changes \in Seq(Entries) /\ index \in 0 .. Len(changes)
      /\ start \in Nat /\ made \in Nat /\ start <= made /\ start \in 0 .. MaxMade
      /\ UNCHANGED <<clocks, phase, index, start, made, pending>>
  BY EngineAssumption DEF EndEvent, IInv, TypeOK, Split
<1>2. UNCHANGED <<tick, gameTime, overworldTime, queue, keys>>
  BY <1>1 DEF clocks, pending
<1>3. QueueAgrees' /\ ClocksTogether' /\ Split'
  BY <1>1, <1>2 DEF IInv, QueueAgrees, ClocksTogether, Split
<1>4. CASE changes' = changes
  <2>1. TypeOK'
    BY <1>1, <1>2, <1>4 DEF IInv, TypeOK
  <2>2. EventsFirst' /\ Bounded'
    BY <1>1, <1>4 DEF IInv, EventsFirst, Bounded
  <2> QED BY <1>3, <2>1, <2>2 DEF IInv
<1>5. CASE changes' = InsertAt(changes, index + 1, EventEntry)
  <2> DEFINE e == EventEntry
  <2>1. e \in Entries /\ e.kind = "event" /\ e.after = start /\ Rank(e) = 2 * start + 1
    BY <1>1 DEF EventEntry, Entries, Rank
  <2> HIDE DEF e
  <2>2. /\ changes' \in Seq(Entries) /\ Len(changes') = Len(changes) + 1
        /\ \A i \in 1 .. Len(changes) + 1 :
             changes'[i] = IF i <= index THEN changes[i]
                           ELSE IF i = index + 1 THEN e ELSE changes[i - 1]
    <3> DEFINE r == InsertAt(changes, index + 1, e)
    <3>1. /\ r \in Seq(Entries) /\ Len(r) = Len(changes) + 1
          /\ \A i \in 1 .. Len(changes) + 1 :
               r[i] = IF i <= index THEN changes[i]
                      ELSE IF i = index + 1 THEN e ELSE changes[i - 1]
      BY <1>1, <2>1, InsertEffect
    <3>2. changes' = r
      BY <1>5 DEF e
    <3> HIDE DEF r
    <3> QED BY <3>1, <3>2
  <2>3. \A i \in 1 .. Len(changes) :
          /\ changes[i] \in Entries /\ Rank(changes[i]) \in Nat /\ changes[i].after \in Nat
          /\ changes[i].after <= made
          /\ i <= index => Rank(changes[i]) <= 2 * start + 1
          /\ i > index => changes[i].kind = "block" /\ Rank(changes[i]) >= 2 * start + 2
    <3> SUFFICES ASSUME NEW i \in 1 .. Len(changes)
                 PROVE  /\ changes[i] \in Entries /\ Rank(changes[i]) \in Nat
                        /\ changes[i].after \in Nat /\ changes[i].after <= made
                        /\ i <= index => Rank(changes[i]) <= 2 * start + 1
                        /\ i > index => changes[i].kind = "block" /\ Rank(changes[i]) >= 2 * start + 2
      OBVIOUS
    <3>1. /\ changes[i] \in Entries /\ Rank(changes[i]) \in Nat
          /\ changes[i].after \in Nat /\ changes[i].after <= made
      BY <1>1, EntryType DEF IInv, Bounded
    <3>2. i <= index => Rank(changes[i]) <= 2 * start + 1
      BY <1>1 DEF IInv, Split
    <3>3. i > index => changes[i].kind = "block" /\ changes[i].after > start
      BY <1>1 DEF IInv, Split
    <3>4. i > index => Rank(changes[i]) >= 2 * start + 2
      BY <1>1, <3>1, <3>3 DEF Rank
    <3> QED BY <3>1, <3>2, <3>3, <3>4
  <2>4. TypeOK'
    <3>1. index' \in 0 .. Len(changes')
      BY <1>1, <2>2
    <3> QED BY <1>1, <1>2, <2>2, <3>1 DEF IInv, TypeOK
  <2>5. Bounded'
    <3> SUFFICES ASSUME NEW i \in 1 .. Len(changes) + 1
                 PROVE  changes'[i].after <= made
      BY <1>1, <2>2 DEF Bounded
    <3>1. CASE i <= index
      BY <1>1, <2>2, <2>3, <3>1
    <3>2. CASE i = index + 1
      BY <1>1, <2>1, <2>2, <3>2
    <3>3. CASE i > index + 1
      <4>1. i - 1 \in 1 .. Len(changes) /\ changes'[i] = changes[i - 1]
        BY <1>1, <2>2, <3>3
      <4> QED BY <2>3, <4>1
    <3> QED BY <1>1, <3>1, <3>2, <3>3
  <2>6. EventsFirst'
    <3> DEFINE Old(i) == IF i <= index THEN i ELSE i - 1
    <3>1. ASSUME NEW i \in 1 .. Len(changes) + 1, i # index + 1
          PROVE  Old(i) \in 1 .. Len(changes) /\ changes'[i] = changes[Old(i)]
      BY <1>1, <2>2, <3>1
    <3>2. changes'[index + 1] = e
      BY <1>1, <2>2
    <3> SUFFICES ASSUME NEW i \in 1 .. Len(changes) + 1, NEW j \in 1 .. Len(changes) + 1, i < j
                 PROVE  /\ Rank(changes'[i]) <= Rank(changes'[j])
                        /\ changes'[i].kind = "block" /\ changes'[j].kind = "block" =>
                             changes'[i].after < changes'[j].after
      BY <2>2 DEF EventsFirst, Rank
    <3>3. CASE i # index + 1 /\ j # index + 1
      <4>1. Old(i) \in DOMAIN changes /\ Old(j) \in DOMAIN changes /\ Old(i) < Old(j)
        BY <1>1, <3>1, <3>3
      <4> QED BY <3>1, <3>3, <4>1 DEF IInv, EventsFirst
    <3>4. CASE i = index + 1
      <4>1. j - 1 \in 1 .. Len(changes) /\ j - 1 > index /\ changes'[j] = changes[j - 1]
        BY <1>1, <2>2, <3>4
      <4>2. Rank(changes[j - 1]) >= 2 * start + 2 /\ Rank(changes[j - 1]) \in Nat
        BY <2>3, <4>1
      <4> QED BY <1>1, <2>1, <3>2, <3>4, <4>1, <4>2
    <3>5. CASE j = index + 1
      <4>1. i \in 1 .. Len(changes) /\ i <= index /\ changes'[i] = changes[i]
        BY <1>1, <2>2, <3>5
      <4>2. Rank(changes[i]) <= 2 * start + 1
        BY <2>3, <4>1
      <4> QED BY <2>1, <3>2, <3>5, <4>1, <4>2
    <3> QED BY <3>3, <3>4, <3>5
  <2> QED BY <1>3, <2>4, <2>5, <2>6 DEF IInv
<1> QED BY <1>4, <1>5 DEF EndEvent

\* All clocks advance, by one each.
LEMMA BeginStepIInv ==
  ASSUME IInv, BeginStep
  PROVE  IInv'
<1>1. /\ tick < MaxClock /\ gameTime < MaxClock /\ (AdvanceTime => overworldTime < MaxClock)
      /\ tick' = tick + 1 /\ gameTime' = gameTime + 1
      /\ overworldTime' = IF AdvanceTime THEN overworldTime + 1 ELSE overworldTime
  BY DEF BeginStep, AdvanceClocks, ClocksCanAdvance
<1>2. /\ phase' = "pre" /\ UNCHANGED <<open, running, index, start, made, changes, queue, keys>>
  BY DEF BeginStep, record, pending
<1>3. /\ tick \in 0 .. MaxClock /\ gameTime \in 0 .. MaxClock /\ overworldTime \in 0 .. MaxClock
      /\ MaxClock \in Nat /\ StartGame \in 0 .. MaxClock /\ StartOver \in 0 .. MaxClock
      /\ gameTime - tick = StartGame
      /\ overworldTime - (IF AdvanceTime THEN tick ELSE 0) = StartOver
  BY EngineAssumption DEF IInv, TypeOK, ClocksTogether
<1>4. tick' \in 0 .. MaxClock /\ gameTime' \in 0 .. MaxClock /\ overworldTime' \in 0 .. MaxClock
  BY <1>1, <1>3
<1>5. TypeOK'
  BY <1>2, <1>4 DEF IInv, TypeOK
<1>6. ClocksTogether'
  BY <1>1, <1>3 DEF ClocksTogether
<1>7. QueueAgrees' /\ EventsFirst' /\ Split' /\ Bounded'
  BY <1>2 DEF IInv, QueueAgrees, EventsFirst, Split, Bounded
<1> QED BY <1>5, <1>6, <1>7 DEF IInv

\* An end or an error clears the record.
LEMMA ClearIInv ==
  ASSUME IInv, UNCHANGED <<clocks, pending>>, phase' = "rest", open' \in BOOLEAN,
         running' = None \/ (running' = running /\ running = None),
         index' = 0, start' = 0, made' = 0, changes' = <<>>
  PROVE  IInv'
<1>1. UNCHANGED <<tick, gameTime, overworldTime, queue, keys>> /\ MaxMade \in Nat
  BY EngineAssumption DEF clocks, pending
<1>2. changes' \in Seq(Entries) /\ index' \in 0 .. Len(changes') /\ 0 \in 0 .. MaxMade
  BY <1>1
<1>3. TypeOK'
  BY <1>1, <1>2 DEF IInv, TypeOK
<1>4. QueueAgrees' /\ ClocksTogether'
  BY <1>1 DEF IInv, QueueAgrees, ClocksTogether
<1>5. EventsFirst' /\ Split' /\ Bounded'
  BY DEF EventsFirst, Split, Bounded
<1> QED BY <1>3, <1>4, <1>5 DEF IInv

\* What only moves between phases and callbacks.
LEMMA QuietIInv ==
  ASSUME IInv, UNCHANGED <<clocks, running, record, pending>>,
         phase' \in {"rest", "apply", "silent", "pre", "events", "post"}, open' \in BOOLEAN,
         running = None \/ open'
  PROVE  IInv'
<1>1. UNCHANGED <<tick, gameTime, overworldTime, queue, keys, index, start, made, changes>>
  BY DEF clocks, pending, record
<1>2. TypeOK'
  BY <1>1 DEF IInv, TypeOK
<1>3. QueueAgrees' /\ ClocksTogether' /\ EventsFirst' /\ Bounded'
  BY <1>1 DEF IInv, QueueAgrees, ClocksTogether, EventsFirst, Bounded
<1>4. Split'
  BY <1>1 DEF IInv, Split
<1> QED BY <1>2, <1>3, <1>4 DEF IInv

LEMMA NextIInv ==
  ASSUME IInv, [Next]_vars
  PROVE  IInv'
<1>t. /\ phase \in {"rest", "apply", "silent", "pre", "events", "post"} /\ open \in BOOLEAN
      /\ running # None => open
  BY DEF IInv, TypeOK, Split
<1>1. ASSUME NEW e \in Events, QueueEvent(e)
      PROVE  IInv'
  BY <1>1, QueueEventIInv
<1>2. CASE ChangeBlock
  BY <1>2, ChangeBlockIInv
<1>3. CASE EnterCallback
  BY <1>3, <1>t, QuietIInv DEF EnterCallback
<1>4. CASE ReturnFromCallback
  BY <1>4, <1>t, QuietIInv DEF ReturnFromCallback
<1>5. CASE Fail
  BY <1>5, <1>t, ClearIInv DEF Fail
<1>6. CASE BeginStep
  BY <1>6, BeginStepIInv
<1>7. CASE BeginAction
  BY <1>7, <1>t, QuietIInv DEF BeginAction
<1>8. CASE BeginEvents
  BY <1>8, <1>t, QuietIInv DEF BeginEvents
<1>9. CASE StartEvent
  BY <1>9, StartEventIInv
<1>10. CASE EndEvent
  BY <1>10, EndEventIInv
<1>11. CASE EndEvents
  BY <1>11, <1>t, QuietIInv DEF EndEvents
<1>12. CASE End
  BY <1>12, <1>t, ClearIInv DEF End
<1>13. CASE UNCHANGED vars
  BY <1>13, <1>t, QuietIInv DEF vars
<1> QED
  BY <1>1, <1>2, <1>3, <1>4, <1>5, <1>6, <1>7, <1>8, <1>9, <1>10, <1>11, <1>12, <1>13 DEF Next

LEMMA SpecIInv == Spec => []IInv
  BY InitIInv, NextIInv, PTL DEF Spec

-----------------------------------------------------------------------------
\* The variables keep their types.
THEOREM TypeCorrect == Spec => []TypeOK
<1>1. IInv => TypeOK
  BY DEF IInv
<1> QED BY <1>1, SpecIInv, PTL

\* block_events and block_event_keys agree in every phase.
THEOREM KeysMatchQueue == Spec => []QueueAgrees
<1>1. IInv => QueueAgrees
  BY DEF IInv
<1> QED BY <1>1, SpecIInv, PTL

\* run_block_events puts every executed event in front of its changes.
THEOREM DeltaOrdered == Spec => []EventsFirst
<1>1. IInv => EventsFirst
  BY DEF IInv
<1> QED BY <1>1, SpecIInv, PTL

\* The clocks of step_with_pastes_and_actions keep their distance.
THEOREM ClocksInStep == Spec => []ClocksTogether
<1>1. IInv => ClocksTogether
  BY DEF IInv
<1> QED BY <1>1, SpecIInv, PTL
-----------------------------------------------------------------------------
(* Sequences put after one another.                                        *)

LEMMA LeastNatural ==
  ASSUME NEW T \in SUBSET Nat, T # {}
  PROVE  \E x \in T : \A y \in T : x <= y
<1>1. PICK x \in T : \A y \in T : ~(<<y, x>> \in OpToRel(<, Nat))
  BY WFMin, NatLessThanWellFounded
<1>2. \A y \in T : ~(y < x)
  BY <1>1 DEF OpToRel
<1> QED BY <1>2

IsFlat(u, s, n) == u = [i \in 1 .. n |-> IF i = 1 THEN s[i] ELSE u[i - 1] \o s[i]]

Runs(u, s, n) ==
  /\ n # 0 => u[1] = s[1]
  /\ \A i \in 2 .. n : u[i] = u[i - 1] \o s[i]

LEMMA FlatAt ==
  ASSUME NEW u, NEW s, NEW n \in Nat, IsFlat(u, s, n)
  PROVE  Runs(u, s, n)
<1>1. \A i \in 1 .. n : u[i] = IF i = 1 THEN s[i] ELSE u[i - 1] \o s[i]
  BY DEF IsFlat
<1>2. n # 0 => 1 \in 1 .. n
  OBVIOUS
<1>3. \A i \in 2 .. n : i \in 1 .. n /\ i # 1
  OBVIOUS
<1> QED BY <1>1, <1>2, <1>3 DEF Runs

LEMMA FlatExtends ==
  ASSUME NEW s, NEW n \in Nat, n # 0, NEW g, IsFlat(g, s, n - 1)
  PROVE  \E u : IsFlat(u, s, n)
<1> DEFINE u == [i \in 1 .. n |-> IF i = n THEN IF n = 1 THEN s[n] ELSE g[n - 1] \o s[n] ELSE g[i]]
<1>1. \A i \in 1 .. n - 1 : g[i] = IF i = 1 THEN s[i] ELSE g[i - 1] \o s[i]
  BY DEF IsFlat
<1>2. ASSUME NEW i \in 1 .. n
      PROVE  u[i] = IF i = 1 THEN s[i] ELSE u[i - 1] \o s[i]
  <2>1. CASE i = n /\ n = 1
    BY <2>1
  <2>2. CASE i = n /\ n # 1
    <3>1. i - 1 \in 1 .. n /\ i - 1 # n /\ i - 1 = n - 1
      BY <2>2
    <3>2. u[i - 1] = g[i - 1]
      BY <3>1
    <3>3. u[i] = g[n - 1] \o s[n]
      BY <2>2
    <3> QED BY <2>2, <3>1, <3>2, <3>3
  <2>3. CASE i # n /\ i # 1
    <3>1. u[i] = g[i] /\ u[i - 1] = g[i - 1] /\ i \in 1 .. n - 1
      BY <2>3
    <3> QED BY <1>1, <2>3, <3>1
  <2>4. CASE i # n /\ i = 1
    <3>1. u[i] = g[i] /\ i \in 1 .. n - 1
      BY <2>4
    <3> QED BY <1>1, <2>4, <3>1
  <2> QED BY <2>1, <2>2, <2>3, <2>4
<1>3. u = [i \in 1 .. n |-> u[i]]
  OBVIOUS
<1> HIDE DEF u
<1>4. u = [i \in 1 .. n |-> IF i = 1 THEN s[i] ELSE u[i - 1] \o s[i]]
  BY <1>2, <1>3
<1> QED BY <1>4 DEF IsFlat

LEMMA FlatExists ==
  ASSUME NEW s, NEW m \in Nat
  PROVE  \E u : IsFlat(u, s, m)
<1> DEFINE T == {n \in Nat : ~\E u : IsFlat(u, s, n)}
<1>1. ASSUME T # {} PROVE FALSE
  <2>1. PICK n \in T : \A k \in T : n <= k
    <3>1. T \in SUBSET Nat
      OBVIOUS
    <3> HIDE DEF T
    <3> QED BY <1>1, <3>1, LeastNatural
  <2>2. CASE n = 0
    <3> DEFINE u == [i \in 1 .. 0 |-> s[i]]
    <3>1. u = [i \in 1 .. 0 |-> IF i = 1 THEN s[i] ELSE u[i - 1] \o s[i]]
      OBVIOUS
    <3> HIDE DEF u
    <3>2. IsFlat(u, s, 0)
      BY <3>1 DEF IsFlat
    <3> QED BY <2>2, <3>2
  <2>3. CASE n # 0
    <3>1. n \in Nat /\ n - 1 \in Nat /\ ~(n <= n - 1)
      BY <2>3
    <3>2. n - 1 \notin T
      BY <2>1, <3>1
    <3>3. PICK g : IsFlat(g, s, n - 1)
      BY <3>1, <3>2
    <3>4. \E u : IsFlat(u, s, n)
      BY <2>3, <3>1, <3>3, FlatExtends
    <3> QED BY <3>4
  <2> QED BY <2>2, <2>3
<1> QED BY <1>1

LEMMA FlatRun ==
  ASSUME NEW s, Len(s) \in Nat \ {0}
  PROVE  \E u : IsFlat(u, s, Len(s)) /\ FlattenSeq(s) = u[Len(s)]
<1> DEFINE u == CHOOSE u : IsFlat(u, s, Len(s))
<1>1. IsFlat(u, s, Len(s))
  BY FlatExists
<1>2. FlattenSeq(s) = u[Len(s)]
  BY DEF FlattenSeq, IsFlat
<1> HIDE DEF u
<1> QED BY <1>1, <1>2

Agree(s, t, n) == \A i \in 1 .. n : s[i] = t[i]

LEMMA FlatsAgree ==
  ASSUME NEW s, NEW t, NEW n \in Nat, NEW m \in Nat, n # 0, n <= m, Agree(s, t, n),
         NEW u, NEW v, IsFlat(u, s, n), IsFlat(v, t, m)
  PROVE  u[n] = v[n]
<1>a. n # 0 /\ m # 0
  OBVIOUS
<1>d. Runs(u, s, n) /\ Runs(v, t, m)
  BY FlatAt, Zenon
<1>b. u[1] = s[1] /\ \A i \in 2 .. n : u[i] = u[i - 1] \o s[i]
  BY <1>a, <1>d DEF Runs
<1>c. v[1] = t[1] /\ \A i \in 2 .. m : v[i] = v[i - 1] \o t[i]
  BY <1>a, <1>d DEF Runs
<1> DEFINE T == {i \in 1 .. n : u[i] # v[i]}
<1>1. ASSUME T # {} PROVE FALSE
  <2>1. PICK i \in T : \A k \in T : i <= k
    <3>1. T \in SUBSET Nat
      OBVIOUS
    <3> HIDE DEF T
    <3> QED BY <1>1, <3>1, LeastNatural
  <2>2. u[i] # v[i] /\ i \in 1 .. n
    BY <2>1
  <2>3. i # 1
    <3>1. 1 \in 1 .. n
      OBVIOUS
    <3>2. s[1] = t[1]
      BY <3>1 DEF Agree
    <3> QED BY <1>b, <1>c, <2>2, <3>2
  <2>4. i - 1 \in 1 .. n /\ ~(i <= i - 1) /\ i \in 2 .. n /\ i \in 2 .. m
    BY <2>2, <2>3
  <2>5. u[i - 1] = v[i - 1]
    BY <2>1, <2>4
  <2>6. u[i] = u[i - 1] \o s[i] /\ v[i] = v[i - 1] \o t[i]
    BY <1>b, <1>c, <2>4
  <2>7. s[i] = t[i]
    BY <2>2 DEF Agree
  <2> QED BY <2>2, <2>5, <2>6, <2>7
<1>2. n \in 1 .. n
  OBVIOUS
<1> QED BY <1>1, <1>2

LEMMA FlatEmpty == FlattenSeq(<<>>) = <<>>
  BY DEF FlattenSeq

LEMMA FlatAppend ==
  ASSUME NEW S, NEW s \in Seq(Seq(S)), NEW x \in Seq(S)
  PROVE  FlattenSeq(Append(s, x)) = FlattenSeq(s) \o x
<1> DEFINE t == Append(s, x)
           n == Len(s)
<1>1. n \in Nat /\ Len(t) = n + 1 /\ Len(t) \in Nat \ {0} /\ t[n + 1] = x
      /\ \A i \in 1 .. n : s[i] = t[i]
  OBVIOUS
<1>2. PICK v : IsFlat(v, t, Len(t)) /\ FlattenSeq(t) = v[Len(t)]
  BY <1>1, FlatRun
<1> HIDE DEF t
<1>3. CASE n = 0
  <2>1. s = <<>>
    BY <1>3
  <2>2. v[1] = t[1]
    BY <1>1, <1>2, FlatAt DEF Runs
  <2>3. FlattenSeq(t) = x
    BY <1>1, <1>2, <1>3, <2>2
  <2>4. FlattenSeq(s) \o x = x
    BY <2>1, FlatEmpty
  <2> QED BY <2>3, <2>4 DEF t
<1>4. CASE n # 0
  <2>1. PICK u : IsFlat(u, s, n) /\ FlattenSeq(s) = u[n]
    BY <1>1, <1>4, FlatRun
  <2> HIDE DEF n
  <2> DEFINE m == n + 1
  <2>a. n \in Nat /\ m \in Nat /\ n <= m
    BY <1>1
  <2>b. IsFlat(u, s, n) /\ IsFlat(v, t, m)
    BY <1>1, <1>2, <2>1
  <2>c. Agree(s, t, n)
    BY <1>1 DEF Agree
  <2> HIDE DEF m
  <2>2. u[n] = v[n]
    BY <1>4, <2>a, <2>b, <2>c, FlatsAgree
  <2>3. n + 1 \in 2 .. n + 1 /\ (n + 1) - 1 = n
    BY <1>1, <1>4
  <2>4. \A i \in 2 .. n + 1 : v[i] = v[i - 1] \o t[i]
    BY <2>a, <2>b, FlatAt DEF m, Runs
  <2>5. v[n + 1] = v[n] \o t[n + 1]
    BY <2>3, <2>4
  <2> QED BY <1>1, <1>2, <2>1, <2>2, <2>5 DEF t
<1> QED BY <1>3, <1>4

\* A sequence is its front and its last element.
LEMMA LastOf ==
  ASSUME NEW S, NEW s \in Seq(S), Len(s) # 0
  PROVE  /\ Front(s) \in Seq(S) /\ s[Len(s)] \in S /\ s = Append(Front(s), s[Len(s)])
         /\ Len(Front(s)) = Len(s) - 1 /\ Len(s) - 1 \in Nat
<1> DEFINE n == Len(s)
<1>1. n \in Nat /\ n - 1 \in Nat /\ s[n] \in S
  OBVIOUS
<1> DEFINE m == n - 1
<1>2. m \in Int /\ 1 \in Int /\ \A i \in 1 .. m : s[i] \in S
  OBVIOUS
<1>3. Front(s) = SubSeq(s, 1, m)
  BY DEF Front
<1> HIDE DEF n
<1>a. m \in Nat /\ (1 <= m => m - 1 + 1 = m) /\ (~(1 <= m) => m = 0)
  BY <1>1
<1> HIDE DEF m
<1>b. /\ SubSeq(s, 1, m) \in Seq(S)
      /\ Len(SubSeq(s, 1, m)) = IF 1 <= m THEN m - 1 + 1 ELSE 0
      /\ \A i \in 1 .. m - 1 + 1 : SubSeq(s, 1, m)[i] = s[1 + i - 1]
  BY <1>2, SubSeqProperties
<1>4. Front(s) \in Seq(S) /\ Len(Front(s)) = n - 1
  BY <1>3, <1>a, <1>b DEF m
<1>5. \A i \in 1 .. n - 1 : Front(s)[i] = s[i]
  <2> TAKE i \in 1 .. n - 1
  <2>1. i \in 1 .. m - 1 + 1 /\ 1 + i - 1 = i
    BY <1>1 DEF m
  <2> QED BY <1>3, <1>b, <2>1
<1> DEFINE f == Front(s)
           r == Append(f, s[n])
<1> HIDE DEF f
<1>6. r \in Seq(S) /\ Len(r) = n /\ r[n] = s[n] /\ \A i \in 1 .. n - 1 : r[i] = f[i]
  BY <1>1, <1>4 DEF f
<1> HIDE DEF r
<1>7. \A i \in 1 .. n : s[i] = r[i]
  <2> TAKE i \in 1 .. n
  <2>1. i = n \/ i \in 1 .. n - 1
    BY <1>1
  <2> QED BY <1>5, <1>6, <2>1 DEF f
<1>8. s = r
  BY <1>6, <1>7, SeqEqual DEF n
<1> QED BY <1>1, <1>4, <1>8 DEF f, r

LEMMA FlatType ==
  ASSUME NEW S, NEW s \in Seq(Seq(S))
  PROVE  FlattenSeq(s) \in Seq(S)
<1> DEFINE T == {n \in Nat : \E t \in Seq(Seq(S)) : Len(t) = n /\ FlattenSeq(t) \notin Seq(S)}
<1>1. ASSUME T # {} PROVE FALSE
  <2>1. PICK n \in T : \A k \in T : n <= k
    <3>1. T \in SUBSET Nat
      OBVIOUS
    <3> HIDE DEF T
    <3> QED BY <1>1, <3>1, LeastNatural
  <2>2. PICK t \in Seq(Seq(S)) : Len(t) = n /\ FlattenSeq(t) \notin Seq(S)
    BY <2>1
  <2>3. n # 0
    <3>1. <<>> \in Seq(S) /\ (Len(t) = 0 => t = <<>>)
      OBVIOUS
    <3> QED BY <2>2, <3>1, FlatEmpty
  <2>4. /\ Front(t) \in Seq(Seq(S)) /\ t[Len(t)] \in Seq(S) /\ t = Append(Front(t), t[Len(t)])
        /\ Len(Front(t)) = Len(t) - 1 /\ Len(t) - 1 \in Nat
    BY <2>2, <2>3, LastOf
  <2>5. n - 1 \notin T /\ n - 1 \in Nat
    BY <2>1, <2>2, <2>4
  <2>6. FlattenSeq(Front(t)) \in Seq(S)
    BY <2>2, <2>4, <2>5
  <2> DEFINE f == Front(t)
             x == t[Len(t)]
  <2> HIDE DEF f, x
  <2>7. FlattenSeq(Append(f, x)) = FlattenSeq(f) \o x
    BY <2>4, FlatAppend DEF f, x
  <2>8. FlattenSeq(f) \o x \in Seq(S)
    BY <2>4, <2>6 DEF f, x
  <2> QED BY <2>2, <2>4, <2>7, <2>8 DEF f, x
<1>2. Len(s) \in Nat
  OBVIOUS
<1> QED BY <1>1, <1>2

LEMMA ConcatAppend ==
  ASSUME NEW S, NEW s \in Seq(S), NEW f \in Seq(S), NEW x \in S
  PROVE  s \o Append(f, x) = Append(s \o f, x) /\ s \o f \in Seq(S)
<1>1. <<x>> \in Seq(S) /\ s \o f \in Seq(S)
  OBVIOUS
<1>2. Append(f, x) = f \o <<x>> /\ Append(s \o f, x) = (s \o f) \o <<x>>
  BY <1>1, AppendIsConcat
<1>3. (s \o f) \o <<x>> = s \o (f \o <<x>>)
  BY <1>1, ConcatAssociative
<1> QED BY <1>1, <1>2, <1>3

Associative(a, b, c) == (a \o b) \o c = a \o (b \o c)

LEMMA Associativity ==
  ASSUME NEW S, NEW a \in Seq(S), NEW b \in Seq(S), NEW c \in Seq(S)
  PROVE  Associative(a, b, c)
  BY ConcatAssociative DEF Associative

LEMMA FlatConcat ==
  ASSUME NEW S, NEW s \in Seq(Seq(S)), NEW r \in Seq(Seq(S))
  PROVE  FlattenSeq(s \o r) = FlattenSeq(s) \o FlattenSeq(r)
<1> DEFINE T == {n \in Nat : \E t \in Seq(Seq(S)) :
                     Len(t) = n /\ FlattenSeq(s \o t) # FlattenSeq(s) \o FlattenSeq(t)}
<1>1. ASSUME T # {} PROVE FALSE
  <2>1. PICK n \in T : \A k \in T : n <= k
    <3>1. T \in SUBSET Nat
      OBVIOUS
    <3> HIDE DEF T
    <3> QED BY <1>1, <3>1, LeastNatural
  <2>2. PICK t \in Seq(Seq(S)) : Len(t) = n /\ FlattenSeq(s \o t) # FlattenSeq(s) \o FlattenSeq(t)
    BY <2>1
  <2>3. n # 0
    <3>1. (Len(t) = 0 => t = <<>>) /\ s \o <<>> = s
      OBVIOUS
    <3>2. FlattenSeq(s) \in Seq(S)
      BY FlatType
    <3>3. FlattenSeq(s) \o <<>> = FlattenSeq(s)
      BY <3>2
    <3> QED BY <2>2, <3>1, <3>3, FlatEmpty
  <2>4. /\ Front(t) \in Seq(Seq(S)) /\ t[Len(t)] \in Seq(S) /\ t = Append(Front(t), t[Len(t)])
        /\ Len(Front(t)) = Len(t) - 1 /\ Len(t) - 1 \in Nat
    BY <2>2, <2>3, LastOf
  <2>5. n - 1 \notin T /\ n - 1 \in Nat
    BY <2>1, <2>2, <2>4
  <2>6. FlattenSeq(s \o Front(t)) = FlattenSeq(s) \o FlattenSeq(Front(t))
    BY <2>2, <2>4, <2>5
  <2> DEFINE f == Front(t)
             x == t[Len(t)]
  <2> HIDE DEF f, x
  <2>7. f \in Seq(Seq(S)) /\ x \in Seq(S) /\ t = Append(f, x)
    BY <2>4 DEF f, x
  <2>8. s \o Append(f, x) = Append(s \o f, x) /\ s \o f \in Seq(Seq(S))
    BY <2>7, ConcatAppend
  <2>9. FlattenSeq(Append(f, x)) = FlattenSeq(f) \o x
    BY <2>7, FlatAppend
  <2>10. FlattenSeq(Append(s \o f, x)) = FlattenSeq(s \o f) \o x
    BY <2>7, <2>8, FlatAppend
  <2>11. FlattenSeq(s) \in Seq(S) /\ FlattenSeq(f) \in Seq(S)
    BY <2>7, FlatType
  <2>12. (FlattenSeq(s) \o FlattenSeq(f)) \o x = FlattenSeq(s) \o (FlattenSeq(f) \o x)
    <3> DEFINE a == FlattenSeq(s)
               b == FlattenSeq(f)
    <3>1. a \in Seq(S) /\ b \in Seq(S) /\ x \in Seq(S)
      BY <2>7, <2>11
    <3> HIDE DEF a, b
    <3>2. Associative(a, b, x)
      BY <3>1, Associativity, Zenon
    <3> QED BY <3>2 DEF a, b, Associative
  <2> QED BY <2>2, <2>6, <2>7, <2>8, <2>9, <2>10, <2>12 DEF f
<1>2. Len(r) \in Nat
  OBVIOUS
<1> QED BY <1>1, <1>2

-----------------------------------------------------------------------------
(* What is left of a task, and of a stack.                                 *)

Items == [id : Seq(Nat), kind : {"single"} \cup Deferred]

LEMMA DirsType ==
  ASSUME NumDirs \in Nat \ {0}, NEW first \in 1 .. NumDirs, NEW skip \in 0 .. NumDirs
  PROVE  Directions(first, skip) \in Seq(Dirs)
<1>1. CASE skip < first
  <2> DEFINE n == NumDirs - first + 1
             e == [i \in 1 .. n |-> first + i - 1]
  <2>1. n \in Nat /\ \A i \in 1 .. n : first + i - 1 \in Dirs
    BY DEF Dirs
  <2>2. Directions(first, skip) = e
    BY <1>1 DEF Directions
  <2> HIDE DEF n
  <2>3. e \in Seq(Dirs)
    BY <2>1
  <2> QED BY <2>2, <2>3
<1>2. CASE ~(skip < first)
  <2> DEFINE n == NumDirs - first
             d(i) == IF first + i - 1 < skip THEN first + i - 1 ELSE first + i
             e == [i \in 1 .. n |-> d(i)]
  <2>1. n \in Nat /\ \A i \in 1 .. n : d(i) \in Dirs
    BY DEF Dirs
  <2>2. Directions(first, skip) = e
    BY <1>2 DEF Directions
  <2> HIDE DEF n, d
  <2>3. e \in Seq(Dirs)
    BY <2>1
  <2> QED BY <2>2, <2>3
<1> QED BY <1>1, <1>2

LEMMA RemainingType ==
  ASSUME NumDirs \in Nat \ {0}, NEW t \in StackTasks
  PROVE  Remaining(t) \in Seq(Items)
<1>1. /\ t.id \in Seq(Nat) /\ t.skip \in 0 .. NumDirs /\ t.next \in 1 .. NumDirs
      /\ t.kind \in {"single", "multi"} \cup Deferred
  BY DEF StackTasks
<1>2. CASE t.kind = "multi"
  <2> DEFINE dirs == Directions(t.next, t.skip)
             x(i) == [id |-> Append(t.id, dirs[i]), kind |-> "single"]
  <2>1. dirs \in Seq(Dirs)
    BY <1>1, DirsType
  <2>2. \A i \in DOMAIN dirs : dirs[i] \in Nat
    BY <2>1 DEF Dirs
  <2>3. Len(dirs) \in Nat /\ DOMAIN dirs = 1 .. Len(dirs)
    BY <2>1
  <2>4. Remaining(t) = [i \in DOMAIN dirs |-> x(i)]
    BY <1>2 DEF Remaining
  <2> HIDE DEF dirs
  <2>5. \A i \in DOMAIN dirs : x(i) \in Items
    BY <1>1, <2>2 DEF Items
  <2> HIDE DEF x
  <2> QED BY <2>3, <2>4, <2>5
<1>3. CASE t.kind # "multi"
  <2>1. [id |-> t.id, kind |-> t.kind] \in Items
    BY <1>1, <1>3 DEF Items
  <2> QED BY <1>3, <2>1 DEF Remaining
<1> QED BY <1>2, <1>3

\* What the top task notifies or runs now, and what is left of it then.
Now(t) == [id |-> Place(t), kind |-> IF t.kind = "multi" THEN "single" ELSE t.kind]
Later(t) ==
  IF t.kind = "multi" /\ NextDir(t) < NumDirs THEN Remaining([t EXCEPT !.next = NextDir(t) + 1])
  ELSE <<>>

\* A broadcast that is exhausted has no direction left.
LEMMA NoneLeft ==
  ASSUME NumDirs \in Nat \ {0}, NEW t \in StackTasks, Exhausted(t)
  PROVE  Remaining(t) = <<>>
<1>1. t.kind = "multi" /\ t.skip \in 0 .. NumDirs /\ t.next \in 1 .. NumDirs
  BY DEF StackTasks, Exhausted
<1>2. t.next = NumDirs /\ t.skip = NumDirs
  BY <1>1 DEF Exhausted, NextDir
<1> DEFINE dirs == Directions(t.next, t.skip)
<1>3. dirs \in Seq(Dirs)
  BY <1>1, DirsType
<1>4. DOMAIN dirs = 1 .. 0
  BY <1>1, <1>2 DEF Directions
<1>5. Remaining(t) = [i \in DOMAIN dirs |-> [id |-> Append(t.id, dirs[i]), kind |-> "single"]]
  BY <1>1 DEF Remaining
<1>6. DOMAIN Remaining(t) = {} /\ Remaining(t) \in Seq(Items)
  BY <1>4, <1>5, RemainingType
<1> QED BY <1>6

\* The directions of a broadcast are the next one and those of the broadcast
\* advanced past it.
NextThenRest(first, skip, n) ==
  /\ Len(Directions(first, skip)) # 0
  /\ Directions(first, skip)[1] = n
  /\ n < NumDirs => /\ Len(Directions(first, skip)) = Len(Directions(n + 1, skip)) + 1
                    /\ \A i \in 1 .. Len(Directions(n + 1, skip)) :
                         Directions(first, skip)[i + 1] = Directions(n + 1, skip)[i]
  /\ n = NumDirs => Len(Directions(first, skip)) = 1

LEMMA OneDirection ==
  ASSUME NumDirs \in Nat \ {0}, NEW first \in 1 .. NumDirs, NEW skip \in 0 .. NumDirs,
         NEW n \in 1 .. NumDirs, n = IF first = skip THEN first + 1 ELSE first
  PROVE  NextThenRest(first, skip, n)
<1>1. CASE skip < first
  <2>1. n = first
    BY <1>1
  <2>2. Directions(first, skip) = [i \in 1 .. NumDirs - first + 1 |-> first + i - 1]
    BY <1>1 DEF Directions
  <2>3. Directions(n + 1, skip) = [i \in 1 .. NumDirs - (n + 1) + 1 |-> (n + 1) + i - 1]
    BY <1>1, <2>1 DEF Directions
  <2> QED BY <2>1, <2>2, <2>3 DEF NextThenRest
<1>2. CASE skip = first
  <2>1. n = first + 1
    BY <1>2
  <2>2. Directions(first, skip) =
          [i \in 1 .. NumDirs - first |-> IF first + i - 1 < skip THEN first + i - 1 ELSE first + i]
    BY <1>2 DEF Directions
  <2>3. Directions(n + 1, skip) = [i \in 1 .. NumDirs - (n + 1) + 1 |-> (n + 1) + i - 1]
    BY <1>2, <2>1 DEF Directions
  <2> QED BY <1>2, <2>1, <2>2, <2>3 DEF NextThenRest
<1>3. CASE skip > first
  <2>1. n = first /\ n < NumDirs
    BY <1>3
  <2>2. Directions(first, skip) =
          [i \in 1 .. NumDirs - first |-> IF first + i - 1 < skip THEN first + i - 1 ELSE first + i]
    BY <1>3 DEF Directions
  <2>3. Directions(n + 1, skip) =
          [i \in 1 .. NumDirs - (n + 1) |->
             IF (n + 1) + i - 1 < skip THEN (n + 1) + i - 1 ELSE (n + 1) + i]
    BY <1>3, <2>1 DEF Directions
  <2> DEFINE k == NumDirs - first
             l == NumDirs - (n + 1)
             d == Directions(first, skip)
             e == Directions(n + 1, skip)
  <2>4. k \in Nat \ {0} /\ l \in Nat /\ k = l + 1
    BY <2>1
  <2> HIDE DEF k, l, d, e
  <2>5. Len(d) = k /\ Len(e) = l
    BY <2>2, <2>3, <2>4 DEF k, l, d, e
  <2>6. d[1] = n
    BY <1>3, <2>1, <2>2, <2>4 DEF k, d
  <2>7. \A i \in 1 .. l : d[i + 1] = e[i]
    <3> TAKE i \in 1 .. l
    <3>1. i + 1 \in 1 .. k
      BY <2>4
    <3>2. d[i + 1] = IF first + (i + 1) - 1 < skip THEN first + (i + 1) - 1 ELSE first + (i + 1)
      BY <2>2, <3>1 DEF d, k
    <3>3. e[i] = IF (n + 1) + i - 1 < skip THEN (n + 1) + i - 1 ELSE (n + 1) + i
      BY <2>3 DEF e, l
    <3> QED BY <2>1, <2>4, <3>2, <3>3
  <2> QED BY <2>1, <2>4, <2>5, <2>6, <2>7 DEF d, e, NextThenRest
<1> QED BY <1>1, <1>2, <1>3

LEMMA SingletonAppend ==
  ASSUME NEW S, NEW x \in S, NEW s \in Seq(S)
  PROVE  /\ <<x>> \o s \in Seq(S) /\ Len(<<x>> \o s) = Len(s) + 1
         /\ (<<x>> \o s)[1] = x /\ \A i \in 1 .. Len(s) : (<<x>> \o s)[i + 1] = s[i]
  OBVIOUS

LEMMA NowAndLater ==
  ASSUME NumDirs \in Nat \ {0}, NEW t \in StackTasks, ~Exhausted(t)
  PROVE  /\ Now(t) \in Items /\ Later(t) \in Seq(Items)
         /\ Remaining(t) = <<Now(t)>> \o Later(t)
<1>1. /\ t.id \in Seq(Nat) /\ t.skip \in 0 .. NumDirs /\ t.next \in 1 .. NumDirs
      /\ t.kind \in {"single", "multi"} \cup Deferred
      /\ t = [id |-> t.id, kind |-> t.kind, skip |-> t.skip, next |-> t.next]
  BY DEF StackTasks
<1>2. CASE t.kind # "multi"
  <2>1. Now(t) = [id |-> t.id, kind |-> t.kind] /\ Later(t) = <<>>
    BY <1>2 DEF Now, Later, Place
  <2>2. Now(t) \in Items
    BY <1>1, <1>2, <2>1 DEF Items
  <2>3. Remaining(t) = <<Now(t)>>
    BY <1>2, <2>1 DEF Remaining
  <2>4. <<Now(t)>> \in Seq(Items) /\ <<>> \in Seq(Items)
    BY <2>2
  <2>5. <<Now(t)>> \o <<>> = <<Now(t)>>
    BY <2>4, ConcatEmptySeq
  <2> QED BY <2>1, <2>2, <2>3, <2>4, <2>5
<1>3. CASE t.kind = "multi"
  <2> DEFINE n == NextDir(t)
             d == Directions(t.next, t.skip)
             e == Directions(n + 1, t.skip)
             r == [t EXCEPT !.next = n + 1]
             x(id, k) == [id |-> Append(id, k), kind |-> "single"]
  <2>1. n \in 1 .. NumDirs /\ n = IF t.next = t.skip THEN t.next + 1 ELSE t.next
    BY <1>1, <1>3 DEF Exhausted, NextDir
  <2>2. /\ Len(d) # 0 /\ d[1] = n
        /\ n < NumDirs => Len(d) = Len(e) + 1 /\ \A i \in 1 .. Len(e) : d[i + 1] = e[i]
        /\ n = NumDirs => Len(d) = 1
    <3>1. NextThenRest(t.next, t.skip, n)
      <4> HIDE DEF n
      <4> QED BY <1>1, <2>1, OneDirection
    <3> QED BY <3>1 DEF NextThenRest
  <2>3. d \in Seq(Dirs)
    BY <1>1, DirsType
  <2>4. Remaining(t) = [i \in DOMAIN d |-> x(t.id, d[i])]
    BY <1>3 DEF Remaining
  <2>5. Now(t) = x(t.id, n)
    BY <1>3 DEF Now, Place
  <2>6. x(t.id, n) \in Items
    BY <1>1, <2>1 DEF Items
  <2>7. Remaining(t) \in Seq(Items)
    BY RemainingType
  <2>8. Len(Remaining(t)) = Len(d) /\ \A i \in 1 .. Len(d) : Remaining(t)[i] = x(t.id, d[i])
    <3> HIDE DEF d, x
    <3>1. DOMAIN d = 1 .. Len(d) /\ Len(d) \in Nat
      BY <2>3
    <3> QED BY <2>4, <3>1
  <2>9. CASE n < NumDirs
    <3>1. /\ r \in StackTasks /\ r.id = t.id /\ r.kind = "multi" /\ r.skip = t.skip
          /\ r.next = n + 1 /\ n + 1 \in 1 .. NumDirs
      BY <1>1, <1>3, <2>1, <2>9 DEF StackTasks
    <3>2. Later(t) = Remaining(r)
      BY <1>3, <2>9 DEF Later
    <3> HIDE DEF n, r, x, d
    <3>3. Later(t) \in Seq(Items) /\ e \in Seq(Dirs)
      BY <1>1, <3>1, <3>2, RemainingType, DirsType
    <3>4. Remaining(r) = [i \in DOMAIN e |-> x(t.id, e[i])]
      BY <3>1 DEF Remaining, x
    <3> HIDE DEF e
    <3>5. DOMAIN e = 1 .. Len(e) /\ Len(e) \in Nat
      BY <3>3
    <3>6. Len(Later(t)) = Len(e) /\ \A i \in 1 .. Len(e) : Later(t)[i] = x(t.id, e[i])
      BY <3>2, <3>4, <3>5
    <3> DEFINE later == Later(t)
               both == <<Now(t)>> \o later
    <3>7. /\ both \in Seq(Items) /\ Len(both) = Len(later) + 1
          /\ both[1] = Now(t) /\ \A i \in 1 .. Len(later) : both[i + 1] = later[i]
      BY <2>5, <2>6, <3>3, SingletonAppend
    <3> HIDE DEF both
    <3>8. ASSUME NEW i \in 1 .. Len(d) PROVE Remaining(t)[i] = both[i]
      <4>1. CASE i = 1
        BY <2>2, <2>5, <2>8, <3>7, <4>1
      <4>2. CASE i # 1
        <5> DEFINE j == i - 1
        <5>1. j \in 1 .. Len(e) /\ i = j + 1
          BY <2>2, <2>9, <3>5, <4>2
        <5> HIDE DEF j
        <5>2. d[i] = e[j]
          BY <2>2, <2>9, <5>1
        <5>3. both[i] = later[j] /\ later[j] = x(t.id, e[j])
          BY <3>6, <3>7, <5>1
        <5> QED BY <2>8, <5>2, <5>3
      <4> QED BY <4>1, <4>2
    <3>9. Remaining(t) = both
      BY <2>2, <2>7, <2>8, <2>9, <3>6, <3>7, <3>8, SeqEqual
    <3> QED BY <2>5, <2>6, <3>3, <3>9 DEF both
  <2>10. CASE n = NumDirs
    <3>1. Later(t) = <<>>
      BY <1>1, <1>3, <2>10 DEF Later
    <3> HIDE DEF n, x, d
    <3>2. <<Now(t)>> \in Seq(Items) /\ <<>> \in Seq(Items)
      BY <2>5, <2>6
    <3>3. <<Now(t)>> \o <<>> = <<Now(t)>>
      BY <3>2, ConcatEmptySeq
    <3>4. Len(Remaining(t)) = 1 /\ Remaining(t)[1] = Now(t)
      BY <2>2, <2>5, <2>8, <2>10
    <3>5. Remaining(t) = <<Now(t)>>
      BY <2>7, <3>2, <3>4, SeqEqual
    <3> QED BY <2>5, <2>6, <3>1, <3>2, <3>3, <3>5
  <2> QED
    <3> HIDE DEF n
    <3>1. n < NumDirs \/ n = NumDirs
      BY <2>1
    <3> QED BY <2>9, <2>10, <3>1
<1> QED BY <1>2, <1>3

Left(s) == [i \in DOMAIN s |-> Remaining(Reverse(s)[i])]
Each(q) == [i \in DOMAIN q |-> Remaining(q[i])]

Joined(s, a, b) ==
  /\ Len(s) = Len(a) + Len(b)
  /\ \A i \in 1 .. Len(a) + Len(b) : s[i] = IF i <= Len(a) THEN a[i] ELSE b[i - Len(a)]
IsReverse(r, q) == Len(r) = Len(q) /\ \A i \in 1 .. Len(q) : r[i] = q[Len(q) - i + 1]
IsEach(e, q) == Len(e) = Len(q) /\ \A i \in 1 .. Len(q) : e[i] = Remaining(q[i])
IsLeft(l, s) == Len(l) = Len(s) /\ \A i \in 1 .. Len(s) : l[i] = Remaining(s[Len(s) - i + 1])

LEMMA Concatenated ==
  ASSUME NEW S, NEW a \in Seq(S), NEW b \in Seq(S)
  PROVE  a \o b \in Seq(S) /\ Joined(a \o b, a, b)
  BY ConcatProperties DEF Joined

LEMMA Reversed ==
  ASSUME NEW S, NEW q \in Seq(S)
  PROVE  Reverse(q) \in Seq(S) /\ IsReverse(Reverse(q), q)
<1> DEFINE n == Len(q)
<1>1. n \in Nat /\ \A i \in 1 .. n : n - i + 1 \in 1 .. n
  OBVIOUS
<1>2. \A i \in 1 .. n : q[n - i + 1] \in S
  BY <1>1
<1>3. Reverse(q) = [i \in 1 .. n |-> q[n - i + 1]]
  BY DEF Reverse
<1> HIDE DEF n
<1>4. Reverse(q) \in Seq(S) /\ Len(Reverse(q)) = n
  BY <1>1, <1>2, <1>3
<1> QED BY <1>3, <1>4 DEF n, IsReverse

LEMMA EachType ==
  ASSUME NumDirs \in Nat \ {0}, NEW q \in Seq(StackTasks)
  PROVE  Each(q) \in Seq(Seq(Items)) /\ IsEach(Each(q), q)
<1>1. DOMAIN q = 1 .. Len(q) /\ Len(q) \in Nat
  OBVIOUS
<1>2. \A i \in DOMAIN q : Remaining(q[i]) \in Seq(Items)
  <2> TAKE i \in DOMAIN q
  <2>1. q[i] \in StackTasks
    OBVIOUS
  <2> QED BY <2>1, RemainingType
<1> DEFINE x(i) == Remaining(q[i])
<1> HIDE DEF x
<1>3. Each(q) = [i \in 1 .. Len(q) |-> x(i)]
  BY <1>1 DEF Each, x
<1>4. \A i \in 1 .. Len(q) : x(i) \in Seq(Items)
  BY <1>1, <1>2 DEF x
<1>5. Each(q) \in Seq(Seq(Items)) /\ Len(Each(q)) = Len(q) /\ \A i \in 1 .. Len(q) : Each(q)[i] = x(i)
  BY <1>1, <1>3, <1>4
<1> QED BY <1>5 DEF x, IsEach

LEMMA LeftType ==
  ASSUME NumDirs \in Nat \ {0}, NEW s \in Seq(StackTasks)
  PROVE  Left(s) \in Seq(Seq(Items)) /\ IsLeft(Left(s), s)
<1> DEFINE r == Reverse(s)
<1>0. r \in Seq(StackTasks) /\ IsReverse(r, s)
  BY Reversed
<1>1. r \in Seq(StackTasks) /\ Len(r) = Len(s) /\ \A i \in 1 .. Len(s) : r[i] = s[Len(s) - i + 1]
  BY <1>0 DEF IsReverse
<1>2. DOMAIN r = DOMAIN s
  <2> HIDE DEF r
  <2> QED BY <1>1
<1>3. Left(s) = Each(r)
  BY <1>2 DEF Left, Each
<1> HIDE DEF r
<1>4. Each(r) \in Seq(Seq(Items)) /\ IsEach(Each(r), r)
  BY <1>1, EachType
<1>5. \A i \in 1 .. Len(s) : Each(r)[i] = Remaining(s[Len(s) - i + 1])
  BY <1>1, <1>4 DEF IsEach
<1> QED BY <1>1, <1>3, <1>4, <1>5 DEF IsLeft, IsEach

\* What is pushed comes first, in the order it was emitted.
LEMMA AgendaPushed ==
  ASSUME NumDirs \in Nat \ {0}, NEW base \in Seq(StackTasks), NEW q \in Seq(StackTasks)
  PROVE  /\ base \o Reverse(q) \in Seq(StackTasks)
         /\ AgendaOf(base \o Reverse(q)) = FlattenSeq(Each(q)) \o AgendaOf(base)
         /\ FlattenSeq(Each(q)) \in Seq(Items) /\ AgendaOf(base) \in Seq(Items)
<1> DEFINE r == Reverse(q)
           s == base \o r
           n == Len(q)
           m == Len(base)
<1>a. r \in Seq(StackTasks) /\ IsReverse(r, q)
  BY Reversed
<1>1. r \in Seq(StackTasks) /\ Len(r) = n /\ \A i \in 1 .. n : r[i] = q[n - i + 1]
  BY <1>a DEF IsReverse
<1> HIDE DEF r
<1>b. s \in Seq(StackTasks) /\ Joined(s, base, r)
  BY <1>1, Concatenated
<1>2. /\ s \in Seq(StackTasks) /\ Len(s) = m + n
      /\ \A i \in 1 .. m + n : s[i] = IF i <= m THEN base[i] ELSE r[i - m]
  BY <1>1, <1>b DEF Joined
<1>3. m \in Nat /\ n \in Nat
  OBVIOUS
<1> HIDE DEF s
<1>4. Left(s) \in Seq(Seq(Items)) /\ Len(Left(s)) = m + n
      /\ \A i \in 1 .. m + n : Left(s)[i] = Remaining(s[m + n - i + 1])
  <2>1. Left(s) \in Seq(Seq(Items)) /\ IsLeft(Left(s), s)
    BY <1>2, LeftType
  <2> QED BY <1>2, <2>1 DEF IsLeft
<1>5. Left(base) \in Seq(Seq(Items)) /\ Len(Left(base)) = m
      /\ \A i \in 1 .. m : Left(base)[i] = Remaining(base[m - i + 1])
  <2>1. Left(base) \in Seq(Seq(Items)) /\ IsLeft(Left(base), base)
    BY LeftType
  <2> QED BY <2>1 DEF IsLeft
<1>6. Each(q) \in Seq(Seq(Items)) /\ Len(Each(q)) = n /\ \A i \in 1 .. n : Each(q)[i] = Remaining(q[i])
  <2>1. Each(q) \in Seq(Seq(Items)) /\ IsEach(Each(q), q)
    BY EachType
  <2> QED BY <2>1 DEF IsEach
<1> DEFINE a == Each(q)
           b == Left(base)
           c == a \o b
           l == Left(s)
<1> HIDE DEF m, n, a, b, l
<1>7. c \in Seq(Seq(Items)) /\ Len(c) = n + m
      /\ \A i \in 1 .. n + m : c[i] = IF i <= n THEN a[i] ELSE b[i - n]
  <2>1. a \in Seq(Seq(Items)) /\ b \in Seq(Seq(Items)) /\ Len(a) = n /\ Len(b) = m
    BY <1>5, <1>6 DEF a, b
  <2>2. c \in Seq(Seq(Items)) /\ Joined(c, a, b)
    BY <2>1, Concatenated
  <2> QED BY <2>1, <2>2 DEF Joined
<1> HIDE DEF c
<1>8. ASSUME NEW i \in 1 .. m + n PROVE l[i] = c[i]
  <2> DEFINE j == m + n - i + 1
  <2>1. j \in 1 .. m + n
    BY <1>3
  <2>2. l[i] = Remaining(s[j])
    BY <1>4 DEF l
  <2>3. CASE i <= n
    <3>1. ~(j <= m) /\ j - m \in 1 .. n /\ n - (j - m) + 1 = i /\ i \in 1 .. n
      BY <1>3, <2>3
    <3> HIDE DEF j
    <3>2. s[j] = r[j - m] /\ r[j - m] = q[i]
      BY <1>1, <1>2, <2>1, <3>1 DEF n
    <3>3. c[i] = a[i] /\ a[i] = Remaining(q[i])
      BY <1>3, <1>6, <1>7, <2>3, <3>1 DEF a
    <3> QED BY <2>2, <3>2, <3>3
  <2>4. CASE ~(i <= n)
    <3>1. j <= m /\ i - n \in 1 .. m /\ m - (i - n) + 1 = j
      BY <1>3, <2>4
    <3> HIDE DEF j
    <3>2. s[j] = base[j]
      BY <1>2, <2>1, <3>1
    <3>3. b[i - n] = Remaining(base[j])
      BY <1>5, <3>1 DEF b
    <3>4. c[i] = b[i - n]
      BY <1>3, <1>7, <2>4
    <3> QED BY <2>2, <3>2, <3>3, <3>4
  <2> QED BY <2>3, <2>4
<1>9. l = c
  <2>1. Len(l) = Len(c) /\ l \in Seq(Seq(Items)) /\ Len(l) = m + n
    BY <1>3, <1>4, <1>7 DEF l
  <2> QED BY <1>7, <1>8, <2>1, SeqEqual
<1>10. FlattenSeq(c) = FlattenSeq(a) \o FlattenSeq(b)
  BY <1>5, <1>6, FlatConcat DEF a, b, c
<1>11. FlattenSeq(a) \in Seq(Items) /\ FlattenSeq(b) \in Seq(Items)
  BY <1>5, <1>6, FlatType DEF a, b
<1>12. AgendaOf(s) = FlattenSeq(l) /\ AgendaOf(base) = FlattenSeq(b)
  BY DEF AgendaOf, Left, l, b
<1> QED BY <1>2, <1>9, <1>10, <1>11, <1>12 DEF a, s, r

LEMMA AgendaTop ==
  ASSUME NumDirs \in Nat \ {0}, NEW base \in Seq(StackTasks), NEW t \in StackTasks
  PROVE  AgendaOf(Append(base, t)) = Remaining(t) \o AgendaOf(base)
<1> DEFINE q == <<t>>
<1>1. q \in Seq(StackTasks) /\ Len(q) = 1 /\ q[1] = t /\ DOMAIN q = 1 .. 1
  OBVIOUS
<1>2. Reverse(q) = q
  <2> HIDE DEF q
  <2>1. Reverse(q) \in Seq(StackTasks) /\ IsReverse(Reverse(q), q)
    BY <1>1, Reversed
  <2>2. Reverse(q)[1] = q[1] /\ Len(Reverse(q)) = 1
    BY <1>1, <2>1 DEF IsReverse
  <2> QED BY <1>1, <2>1, <2>2, SeqEqual
<1>3. base \o q = Append(base, t)
  BY AppendIsConcat
<1>4. Remaining(t) \in Seq(Items)
  BY RemainingType
<1>5. FlattenSeq(Each(q)) = Remaining(t)
  <2>1. Each(q) = Append(<<>>, Remaining(t))
    BY <1>1 DEF Each
  <2> DEFINE none == <<>>
             x == Remaining(t)
  <2>2. none \in Seq(Seq(Items)) /\ x \in Seq(Items) /\ <<>> \o x = x
    BY <1>4
  <2>3. FlattenSeq(none) = <<>>
    BY FlatEmpty
  <2> HIDE DEF none, x
  <2>4. FlattenSeq(Append(none, x)) = FlattenSeq(none) \o x
    BY <2>2, FlatAppend
  <2> QED BY <2>1, <2>2, <2>3, <2>4 DEF none, x
<1> HIDE DEF q
<1>6. AgendaOf(base \o Reverse(q)) = FlattenSeq(Each(q)) \o AgendaOf(base)
  BY <1>1, AgendaPushed
<1> QED BY <1>2, <1>3, <1>5, <1>6

-----------------------------------------------------------------------------
(* What a callback emits.                                                  *)

LEMMA SameOperators ==
  /\ \A s : Abstract!FlattenSeq(s) = FlattenSeq(s)
  /\ \A parent, tasks : Abstract!Placed(parent, tasks) = Placed(parent, tasks)
  /\ \A first, skip : Abstract!Directions(first, skip) = Directions(first, skip)
<1>1. \A s : Abstract!FlattenSeq(s) = FlattenSeq(s)
  BY DEF FlattenSeq, Abstract!FlattenSeq
<1>2. \A parent, tasks : Abstract!Placed(parent, tasks) = Placed(parent, tasks)
  BY DEF Placed, Abstract!Placed
<1>3. \A first, skip : Abstract!Directions(first, skip) = Directions(first, skip)
  BY DEF Directions, Abstract!Directions
<1> QED BY <1>1, <1>2, <1>3

LEMMA SameEmissions ==
  /\ \A kind : Abstract!Emissions(kind) = Emissions(kind)
  /\ Abstract!Bursts(Abstract!Tasks, Burst) = Bursts(Tasks, Burst)
<1>1. \A kind : Abstract!Emissions(kind) = Emissions(kind)
  BY DEF Emissions, Abstract!Emissions, Bursts, Abstract!Bursts, Tasks, Abstract!Tasks,
         Broadcasts, Abstract!Broadcasts, Single, Abstract!Single, Deferred, Abstract!Deferred
<1>2. Abstract!Bursts(Abstract!Tasks, Burst) = Bursts(Tasks, Burst)
  BY DEF Bursts, Abstract!Bursts, Tasks, Abstract!Tasks,
         Broadcasts, Abstract!Broadcasts, Single, Abstract!Single, Deferred, Abstract!Deferred
<1> QED BY <1>1, <1>2

LEMMA BurstType ==
  ASSUME NEW S, NEW n \in Nat, NEW q \in Bursts(S, n)
  PROVE  q \in Seq(S) /\ Len(q) \in 0 .. n
<1>1. PICK k \in 0 .. n : q \in [1 .. k -> S]
  BY DEF Bursts
<1> QED BY <1>1

LEMMA EmissionsType ==
  ASSUME Burst \in Nat \ {0}, NEW kind, NEW tasks \in Emissions(kind)
  PROVE  tasks \in Seq(Tasks)
<1>1. CASE tasks = <<>>
  BY <1>1
<1>2. CASE tasks \in Bursts(Tasks, Burst)
  <2>1. Burst \in Nat
    OBVIOUS
  <2> QED BY <1>2, <2>1, BurstType
<1>3. CASE \E b \in Bursts(Tasks, Burst - 1) : tasks = <<[kind |-> "multi", skip |-> 0]>> \o b
  <2>1. PICK b \in Bursts(Tasks, Burst - 1) : tasks = <<[kind |-> "multi", skip |-> 0]>> \o b
    BY <1>3
  <2> DEFINE m == [kind |-> "multi", skip |-> 0]
             n == Burst - 1
  <2>2. n \in Nat
    OBVIOUS
  <2> HIDE DEF n
  <2>3. b \in Seq(Tasks)
    BY <2>2, BurstType DEF n
  <2>4. m \in Tasks
    <3>1. 0 \in 0 .. NumDirs
      BY ChainAssumption
    <3> QED BY <3>1 DEF Tasks, Broadcasts
  <2> HIDE DEF m
  <2>5. <<m>> \o b \in Seq(Tasks)
    BY <2>3, <2>4
  <2> QED BY <2>1, <2>5 DEF m
<1>4. \/ tasks = <<>> \/ tasks \in Bursts(Tasks, Burst)
      \/ \E b \in Bursts(Tasks, Burst - 1) : tasks = <<[kind |-> "multi", skip |-> 0]>> \o b
  <2>1. CASE kind = "schedule"
    BY <2>1 DEF Emissions
  <2>2. CASE kind = "set"
    BY <2>2 DEF Emissions
  <2>3. CASE kind # "schedule" /\ kind # "set"
    BY <2>3 DEF Emissions
  <2> QED BY <2>1, <2>2, <2>3
<1> QED BY <1>1, <1>2, <1>3, <1>4

OnStack(parent, tasks) == [k \in DOMAIN tasks |-> StackTask(Placed(parent, tasks)[k])]

\* What is pushed is the agenda of what was emitted.
LEMMA PushedExpanded ==
  ASSUME NumDirs \in Nat \ {0}, NEW parent \in Seq(Nat), NEW tasks \in Seq(Tasks)
  PROVE  /\ OnStack(parent, tasks) \in Seq(StackTasks)
         /\ Abstract!ExpandAll(Placed(parent, tasks)) = FlattenSeq(Each(OnStack(parent, tasks)))
<1> DEFINE q == OnStack(parent, tasks)
           p == Placed(parent, tasks)
           n == Len(tasks)
           x(k) == [id |-> Append(parent, k), kind |-> tasks[k].kind, skip |-> tasks[k].skip]
           y(k) == [id |-> Append(parent, k), kind |-> tasks[k].kind, skip |-> tasks[k].skip, next |-> 1]
<1>1. DOMAIN tasks = 1 .. n /\ n \in Nat
  OBVIOUS
<1>2. ASSUME NEW k \in 1 .. n PROVE y(k) \in StackTasks
  <2>1. tasks[k] \in Tasks
    OBVIOUS
  <2>2. tasks[k].kind \in {"single", "multi"} \cup Deferred /\ tasks[k].skip \in 0 .. NumDirs
    BY <2>1 DEF Tasks, Broadcasts, Single, Deferred
  <2>3. Append(parent, k) \in Seq(Nat) /\ 1 \in 1 .. NumDirs
    BY <1>1
  <2> QED BY <2>2, <2>3 DEF StackTasks
<1>3. p = [k \in 1 .. n |-> x(k)]
  BY <1>1 DEF Placed
<1> HIDE DEF n
<1>4. ASSUME NEW k \in 1 .. n PROVE p[k] = x(k) /\ StackTask(p[k]) = y(k)
  <2>1. p[k] = x(k)
    <3> HIDE DEF p, x
    <3> QED BY <1>3
  <2>2. StackTask(x(k)) = y(k)
    BY DEF StackTask
  <2> HIDE DEF p, x, y
  <2> QED BY <2>1, <2>2
<1>5. q = [k \in 1 .. n |-> y(k)]
  <2> HIDE DEF p
  <2>1. q = [k \in 1 .. n |-> StackTask(p[k])]
    BY <1>1 DEF OnStack, p
  <2> HIDE DEF q, y
  <2> QED BY <1>4, <2>1
<1>6. q \in Seq(StackTasks)
  <2> HIDE DEF q, y
  <2> QED BY <1>1, <1>2, <1>5
<1>7. DOMAIN p = 1 .. n /\ DOMAIN q = 1 .. n
  <2> HIDE DEF p, q, x, y
  <2> QED BY <1>3, <1>5
<1>8. ASSUME NEW k \in 1 .. n PROVE Abstract!Expand(p[k]) = Remaining(q[k])
  <2>1. q[k] = y(k)
    <3> HIDE DEF q, y
    <3> QED BY <1>5
  <2>2. p[k] = x(k)
    BY <1>4
  <2> HIDE DEF p, q
  <2>3. /\ p[k].id = q[k].id /\ p[k].kind = q[k].kind /\ p[k].skip = q[k].skip
        /\ q[k].next = 1
    BY <2>1, <2>2
  <2> QED BY <2>3, SameOperators DEF Remaining, Abstract!Expand
<1>9. [i \in DOMAIN p |-> Abstract!Expand(p[i])] = Each(q)
  <2> HIDE DEF p, q
  <2> QED BY <1>7, <1>8 DEF Each
<1> QED BY <1>6, <1>9, SameOperators DEF Abstract!ExpandAll

\* The callback of the task at this place, as a step of the agenda.
LEMMA AgendaEmitted ==
  ASSUME NumDirs \in Nat \ {0}, NEW base \in Seq(StackTasks), NEW id \in Seq(Nat), NEW tasks \in Seq(Tasks)
  PROVE  /\ Pushed(base, id, tasks) \in Seq(StackTasks)
         /\ AgendaOf(Pushed(base, id, tasks)) = Abstract!ExpandAll(Placed(id, tasks)) \o AgendaOf(base)
<1> DEFINE q == OnStack(id, tasks)
<1>1. q \in Seq(StackTasks) /\ Abstract!ExpandAll(Placed(id, tasks)) = FlattenSeq(Each(q))
  BY PushedExpanded
<1>2. Pushed(base, id, tasks) = base \o Reverse(q)
  BY DEF Pushed, OnStack
<1> HIDE DEF q
<1>3. /\ base \o Reverse(q) \in Seq(StackTasks)
      /\ AgendaOf(base \o Reverse(q)) = FlattenSeq(Each(q)) \o AgendaOf(base)
  BY <1>1, AgendaPushed
<1> QED BY <1>1, <1>2, <1>3

-----------------------------------------------------------------------------
(* The steps of the stack.                                                 *)

LEMMA ChainInitType == ChainInit => ChainTypeOK
<1> SUFFICES ASSUME ChainInit PROVE ChainTypeOK
  OBVIOUS
<1>1. PICK tasks \in Bursts(Tasks, Burst) : stack = Pushed(<<>>, <<>>, tasks) /\ born = Len(tasks)
  BY DEF ChainInit
<1>2. NumDirs \in Nat \ {0} /\ Burst \in Nat /\ Burst <= MaxBorn /\ MaxBorn \in Nat /\ Limit \in Nat
  BY ChainAssumption
<1>3. tasks \in Seq(Tasks) /\ Len(tasks) \in 0 .. Burst
  BY <1>2, BurstType
<1>4. Pushed(<<>>, <<>>, tasks) \in Seq(StackTasks)
  <2> DEFINE base == <<>>
  <2>1. base \in Seq(StackTasks) /\ base \in Seq(Nat)
    OBVIOUS
  <2> HIDE DEF base
  <2>2. Pushed(base, base, tasks) \in Seq(StackTasks)
    BY <1>2, <1>3, <2>1, AgendaEmitted
  <2> QED BY <2>2 DEF base
<1>5. born \in 0 .. MaxBorn /\ count \in 0 .. Limit + 1 /\ count <= Limit /\ status = "run"
  BY <1>1, <1>2, <1>3 DEF ChainInit
<1> QED BY <1>1, <1>4, <1>5 DEF ChainTypeOK

\* What the top of a stack is, and what is left below it.
LEMMA TopOf ==
  ASSUME NumDirs \in Nat \ {0}, stack \in Seq(StackTasks), stack # <<>>
  PROVE  /\ Top \in StackTasks /\ Front(stack) \in Seq(StackTasks)
         /\ Agenda = Remaining(Top) \o AgendaOf(Front(stack))
         /\ AgendaOf(Front(stack)) \in Seq(Items)
<1>1. Len(stack) # 0
  BY EmptySeq
<1>2. Front(stack) \in Seq(StackTasks) /\ Top \in StackTasks /\ stack = Append(Front(stack), Top)
  BY <1>1, LastOf DEF Top
<1> DEFINE f == Front(stack)
           t == Top
<1> HIDE DEF f, t
<1>3. f \in Seq(StackTasks) /\ t \in StackTasks
  BY <1>2 DEF f, t
<1>4. AgendaOf(Append(f, t)) = Remaining(t) \o AgendaOf(f)
  BY <1>3, AgendaTop
<1>5. AgendaOf(f) \in Seq(Items)
  <2>1. <<>> \in Seq(StackTasks)
    OBVIOUS
  <2> DEFINE q == <<>>
  <2> HIDE DEF q
  <2>2. AgendaOf(f) \in Seq(Items)
    BY <1>3, <2>1, AgendaPushed
  <2> QED BY <2>2
<1> QED BY <1>2, <1>3, <1>4, <1>5 DEF f, t, Agenda

\* The advance in place leaves what comes after the direction notified now.
LEMMA AdvancedLeaves ==
  ASSUME NumDirs \in Nat \ {0}, stack \in Seq(StackTasks), stack # <<>>, ~Exhausted(Top)
  PROVE  /\ Advanced(Top) \in Seq(StackTasks)
         /\ Agenda = <<Now(Top)>> \o AgendaOf(Advanced(Top))
         /\ AgendaOf(Advanced(Top)) \in Seq(Items) /\ Now(Top) \in Items
<1> DEFINE f == Front(stack)
           t == Top
<1>1. f \in Seq(StackTasks) /\ t \in StackTasks /\ Agenda = Remaining(t) \o AgendaOf(f)
      /\ AgendaOf(f) \in Seq(Items) /\ ~Exhausted(t)
  BY TopOf
<1>2. Advanced(t) = IF t.kind = "multi" /\ NextDir(t) < NumDirs
                    THEN Append(f, [t EXCEPT !.next = NextDir(t) + 1]) ELSE f
  BY DEF Advanced
<1> HIDE DEF f, t
<1>3. Now(t) \in Items /\ Later(t) \in Seq(Items) /\ Remaining(t) = <<Now(t)>> \o Later(t)
  BY <1>1, NowAndLater
<1>4. Advanced(t) \in Seq(StackTasks) /\ AgendaOf(Advanced(t)) = Later(t) \o AgendaOf(f)
  <2>1. CASE t.kind = "multi" /\ NextDir(t) < NumDirs
    <3> DEFINE n == NextDir(t) + 1
               r == [t EXCEPT !.next = n]
    <3>1. n \in 1 .. NumDirs
      <4>1. t.next \in 1 .. NumDirs
        BY <1>1 DEF StackTasks
      <4>2. NextDir(t) \in Nat
        BY <4>1 DEF NextDir
      <4> QED BY <2>1, <4>2
    <3> HIDE DEF n
    <3>2. r \in StackTasks
      BY <1>1, <3>1 DEF StackTasks
    <3>3. Advanced(t) = Append(f, r) /\ Later(t) = Remaining(r)
      BY <1>2, <2>1 DEF Later, n
    <3> HIDE DEF r
    <3>4. AgendaOf(Append(f, r)) = Remaining(r) \o AgendaOf(f)
      BY <1>1, <3>2, AgendaTop
    <3>5. Append(f, r) \in Seq(StackTasks)
      BY <1>1, <3>2
    <3> QED BY <3>3, <3>4, <3>5
  <2>2. CASE ~(t.kind = "multi" /\ NextDir(t) < NumDirs)
    <3>1. Later(t) = <<>> /\ Advanced(t) = f
      BY <1>2, <2>2 DEF Later
    <3>2. <<>> \o AgendaOf(f) = AgendaOf(f)
      BY <1>1, ConcatEmptySeq
    <3> QED BY <1>1, <3>1, <3>2
  <2> QED BY <2>1, <2>2
<1>5. Agenda = <<Now(t)>> \o AgendaOf(Advanced(t)) /\ AgendaOf(Advanced(t)) \in Seq(Items)
  <2> DEFINE a == <<Now(t)>>
             b == Later(t)
             c == AgendaOf(f)
  <2>1. a \in Seq(Items) /\ b \in Seq(Items) /\ c \in Seq(Items)
    BY <1>1, <1>3
  <2>2. Agenda = (a \o b) \o c /\ AgendaOf(Advanced(t)) = b \o c
    BY <1>1, <1>3, <1>4
  <2> HIDE DEF a, b, c
  <2>3. Associative(a, b, c)
    BY <2>1, Associativity, Zenon
  <2>4. b \o c \in Seq(Items)
    BY <2>1
  <2> QED BY <2>2, <2>3, <2>4 DEF Associative, a
<1> QED BY <1>3, <1>4, <1>5 DEF t

LEMMA HeadOfAgenda ==
  ASSUME NumDirs \in Nat \ {0}, stack \in Seq(StackTasks), stack # <<>>, ~Exhausted(Top)
  PROVE  Agenda # <<>> /\ Head(Agenda) = Now(Top) /\ Tail(Agenda) = AgendaOf(Advanced(Top))
<1> DEFINE x == Now(Top)
           s == AgendaOf(Advanced(Top))
<1>1. Agenda = <<x>> \o s /\ s \in Seq(Items) /\ x \in Items
  BY AdvancedLeaves
<1> HIDE DEF x, s
<1>2. <<x>> \o s # <<>> /\ Head(<<x>> \o s) = x /\ Tail(<<x>> \o s) = s
  BY <1>1
<1> QED BY <1>1, <1>2 DEF x, s

\* Its place is one in the tree.
LEMMA PlaceType ==
  ASSUME NumDirs \in Nat \ {0}, NEW t \in StackTasks, ~Exhausted(t)
  PROVE  Place(t) \in Seq(Nat) /\ Now(t).id = Place(t)
         /\ (IsUpdate(t) => Now(t).kind = "single")
         /\ (~IsUpdate(t) => Now(t).kind = t.kind /\ t.kind \in Deferred /\ Place(t) = t.id)
         /\ (t.kind \in Deferred => ~IsUpdate(t))
<1>1. /\ t.id \in Seq(Nat) /\ t.next \in 1 .. NumDirs
      /\ t.kind \in {"single", "multi"} \cup Deferred
  BY DEF StackTasks
<1>2. t.next \in Nat /\ NextDir(t) \in Nat
  BY <1>1 DEF NextDir
<1>3. Place(t) \in Seq(Nat)
  BY <1>1, <1>2 DEF Place
<1>4. "single" \notin Deferred /\ "multi" \notin Deferred
  BY DEF Deferred
<1> QED BY <1>1, <1>3, <1>4 DEF Now, IsUpdate, Place

LEMMA ChainNextType == ChainTypeOK /\ [ChainNext]_chainVars => ChainTypeOK'
<1> SUFFICES ASSUME ChainTypeOK, [ChainNext]_chainVars PROVE ChainTypeOK'
  OBVIOUS
<1>1. /\ stack \in Seq(StackTasks) /\ count \in 0 .. Limit + 1 /\ born \in 0 .. MaxBorn
      /\ status = "run" => count <= Limit
      /\ status \in {"run", "done", "limit", "error"}
  BY DEF ChainTypeOK
<1>2. NumDirs \in Nat \ {0} /\ Burst \in Nat \ {0} /\ Limit \in Nat /\ MaxBorn \in Nat
  BY ChainAssumption
<1>3. ASSUME NEW base \in Seq(StackTasks), NEW id \in Seq(Nat), NEW kind, Callback(base, id, kind)
      PROVE  stack' \in Seq(StackTasks) /\ born' \in 0 .. MaxBorn /\ status' = status
  <2>1. PICK tasks \in Emissions(kind) :
          born + Len(tasks) <= MaxBorn /\ born' = born + Len(tasks) /\ stack' = Pushed(base, id, tasks)
    BY <1>3 DEF Callback
  <2>2. tasks \in Seq(Tasks)
    BY <1>2, EmissionsType
  <2>3. Pushed(base, id, tasks) \in Seq(StackTasks)
    BY <1>2, <2>2, AgendaEmitted
  <2>4. born + Len(tasks) \in 0 .. MaxBorn
    BY <1>1, <1>2, <2>1, <2>2
  <2> QED BY <1>3, <2>1, <2>3, <2>4 DEF Callback
<1>4. CASE DropExhausted
  <2>1. Front(stack) \in Seq(StackTasks)
    BY <1>1, <1>2, <1>4, TopOf DEF DropExhausted
  <2> QED BY <1>1, <1>4, <2>1 DEF DropExhausted, ChainTypeOK
<1>5. CASE NotifyNeighbor
  <2>1. status = "run" /\ stack # <<>> /\ ~Exhausted(Top) /\ count < Limit /\ count' = count + 1
        /\ Callback(Advanced(Top), Place(Top), "single")
    BY <1>5 DEF NotifyNeighbor, IsUpdate
  <2>2. Advanced(Top) \in Seq(StackTasks) /\ Top \in StackTasks
    BY <1>1, <1>2, <2>1, AdvancedLeaves, TopOf
  <2>3. Place(Top) \in Seq(Nat)
    BY <1>2, <2>1, <2>2, PlaceType
  <2>4. stack' \in Seq(StackTasks) /\ born' \in 0 .. MaxBorn /\ status' = status
    BY <1>3, <2>1, <2>2, <2>3
  <2>5. count' \in 0 .. Limit + 1 /\ count' <= Limit
    BY <1>1, <1>2, <2>1
  <2> QED BY <1>1, <2>4, <2>5 DEF ChainTypeOK
<1>6. CASE RunDeferred
  <2>1. status = "run" /\ stack # <<>> /\ Callback(Front(stack), Top.id, Top.kind) /\ count' = count
    BY <1>6 DEF RunDeferred
  <2>2. Front(stack) \in Seq(StackTasks) /\ Top \in StackTasks
    BY <1>1, <1>2, <2>1, TopOf
  <2>3. Top.id \in Seq(Nat)
    BY <2>2 DEF StackTasks
  <2>4. stack' \in Seq(StackTasks) /\ born' \in 0 .. MaxBorn /\ status' = status
    BY <1>3, <2>1, <2>2, <2>3
  <2> QED BY <1>1, <2>1, <2>4 DEF ChainTypeOK
<1>7. CASE BreakOff \/ ChainFails
  <2>1. <<>> \in Seq(StackTasks)
    OBVIOUS
  <2>2. /\ status = "run" /\ status' \in {"limit", "error"} /\ stack' = <<>> /\ born' = born
        /\ count' = count \/ count' = count + 1
    BY <1>7 DEF BreakOff, ChainFails
  <2>3. count' \in 0 .. Limit + 1
    BY <1>1, <1>2, <2>2
  <2> QED BY <1>1, <2>1, <2>2, <2>3 DEF ChainTypeOK
<1>8. CASE Finish
  BY <1>1, <1>8 DEF Finish, ChainTypeOK
<1>9. CASE UNCHANGED chainVars
  BY <1>1, <1>9 DEF chainVars, ChainTypeOK
<1> QED BY <1>4, <1>5, <1>6, <1>7, <1>8, <1>9 DEF ChainNext

\* The initial stack is the initial agenda.
LEMMA ChainInitAgenda == ChainInit => Abstract!Init
<1> SUFFICES ASSUME ChainInit PROVE Abstract!Init
  OBVIOUS
<1>1. PICK tasks \in Bursts(Tasks, Burst) : stack = Pushed(<<>>, <<>>, tasks) /\ born = Len(tasks)
  BY DEF ChainInit
<1>2. NumDirs \in Nat \ {0} /\ Burst \in Nat
  BY ChainAssumption
<1>3. tasks \in Seq(Tasks)
  BY <1>2, BurstType
<1> DEFINE base == <<>>
           all == Abstract!ExpandAll(Placed(base, tasks))
<1>4. base \in Seq(StackTasks) /\ base \in Seq(Nat)
  OBVIOUS
<1>5. AgendaOf(base) = <<>>
  <2>1. [i \in DOMAIN base |-> Remaining(Reverse(base)[i])] = <<>>
    OBVIOUS
  <2> QED BY <2>1, FlatEmpty DEF AgendaOf
<1>6. Agenda = all \o AgendaOf(base)
  <2> HIDE DEF base
  <2>1. AgendaOf(Pushed(base, base, tasks)) = all \o AgendaOf(base)
    BY <1>2, <1>3, <1>4, AgendaEmitted
  <2> QED BY <1>1, <2>1 DEF Agenda, base
<1>7. all \in Seq(Items)
  <2> HIDE DEF base
  <2>1. OnStack(base, tasks) \in Seq(StackTasks) /\ all = FlattenSeq(Each(OnStack(base, tasks)))
    BY <1>2, <1>3, <1>4, PushedExpanded
  <2>2. FlattenSeq(Each(OnStack(base, tasks))) \in Seq(Items)
    BY <1>2, <1>4, <2>1, AgendaPushed
  <2> QED BY <2>1, <2>2
<1>8. Agenda = all
  <2> HIDE DEF all, base
  <2> QED BY <1>5, <1>6, <1>7, ConcatEmptySeq
<1>9. tasks \in Abstract!Bursts(Abstract!Tasks, Burst)
  BY SameEmissions
<1>10. Abstract!Placed(base, tasks) = Placed(base, tasks)
  BY SameOperators
<1> QED BY <1>1, <1>8, <1>9, <1>10 DEF ChainInit, Abstract!Init

\* Every step of the stack is a step of the agenda, or leaves it.
LEMMA ChainStep == ChainTypeOK /\ [ChainNext]_chainVars => [Abstract!Next]_<<Agenda, count, born, status>>
<1> SUFFICES ASSUME ChainTypeOK, [ChainNext]_chainVars
             PROVE  [Abstract!Next]_<<Agenda, count, born, status>>
  OBVIOUS
<1>1. /\ stack \in Seq(StackTasks) /\ count \in 0 .. Limit + 1
      /\ status = "run" => count <= Limit
  BY DEF ChainTypeOK
<1>2. NumDirs \in Nat \ {0} /\ Burst \in Nat \ {0} /\ Limit \in Nat /\ MaxBorn \in Nat
  BY ChainAssumption
<1>3. stack' = <<>> => Agenda' = <<>>
  <2>1. [i \in DOMAIN <<>> |-> Remaining(Reverse(<<>>)[i])] = <<>>
    OBVIOUS
  <2> QED BY <2>1, FlatEmpty DEF Agenda, AgendaOf
<1>4. stack = <<>> => Agenda = <<>>
  <2>1. [i \in DOMAIN <<>> |-> Remaining(Reverse(<<>>)[i])] = <<>>
    OBVIOUS
  <2> QED BY <2>1, FlatEmpty DEF Agenda, AgendaOf
<1>5. ASSUME status = "run", stack # <<>>, ~Exhausted(Top),
             NEW kind, kind = Head(Agenda).kind, Callback(Advanced(Top), Place(Top), kind),
             count' = Abstract!Counted, count' <= Limit
      PROVE  Abstract!Next
  <2>1. PICK tasks \in Emissions(kind) :
          /\ born + Len(tasks) <= MaxBorn /\ born' = born + Len(tasks)
          /\ stack' = Pushed(Advanced(Top), Place(Top), tasks)
    BY <1>5 DEF Callback
  <2>2. tasks \in Seq(Tasks)
    BY <1>2, EmissionsType
  <2>3. Agenda # <<>> /\ Head(Agenda) = Now(Top) /\ Tail(Agenda) = AgendaOf(Advanced(Top))
    BY <1>1, <1>2, <1>5, HeadOfAgenda
  <2>4. Advanced(Top) \in Seq(StackTasks) /\ Top \in StackTasks
    BY <1>1, <1>2, <1>5, AdvancedLeaves, TopOf
  <2>5. Place(Top) \in Seq(Nat) /\ Now(Top).id = Place(Top)
    BY <1>2, <1>5, <2>4, PlaceType
  <2> DEFINE base == Advanced(Top)
             id == Place(Top)
  <2>6. AgendaOf(Pushed(base, id, tasks)) = Abstract!ExpandAll(Placed(id, tasks)) \o AgendaOf(base)
    <3>1. base \in Seq(StackTasks) /\ id \in Seq(Nat)
      BY <2>4, <2>5
    <3> HIDE DEF base, id
    <3> QED BY <1>2, <2>2, <3>1, AgendaEmitted
  <2>7. Agenda' = Abstract!ExpandAll(Abstract!Placed(Head(Agenda).id, tasks)) \o Tail(Agenda)
    <3>1. Agenda' = AgendaOf(stack')
      BY DEF Agenda
    <3>2. Abstract!Placed(id, tasks) = Placed(id, tasks)
      BY SameOperators
    <3> QED BY <2>1, <2>3, <2>5, <2>6, <3>1, <3>2
  <2>8. tasks \in Abstract!Emissions(Head(Agenda).kind)
    BY <1>5, <2>1, SameEmissions
  <2>9. status' = status
    BY <1>5 DEF Callback
  <2> QED BY <1>5, <2>1, <2>3, <2>7, <2>8, <2>9 DEF Abstract!Next, Abstract!Take
<1>6. CASE DropExhausted
  <2>1. stack # <<>> /\ Exhausted(Top) /\ stack' = Front(stack) /\ UNCHANGED <<count, born, status>>
    BY <1>6 DEF DropExhausted
  <2>2. Top \in StackTasks /\ Agenda = Remaining(Top) \o AgendaOf(Front(stack))
        /\ AgendaOf(Front(stack)) \in Seq(Items)
    BY <1>1, <1>2, <2>1, TopOf
  <2>3. Remaining(Top) = <<>>
    BY <1>2, <2>1, <2>2, NoneLeft
  <2>4. Agenda = AgendaOf(Front(stack))
    BY <2>2, <2>3, ConcatEmptySeq
  <2>5. Agenda' = AgendaOf(stack')
    BY DEF Agenda
  <2> QED BY <2>1, <2>4, <2>5
<1>7. CASE NotifyNeighbor
  <2>1. status = "run" /\ stack # <<>> /\ ~Exhausted(Top) /\ IsUpdate(Top) /\ count < Limit
        /\ count' = count + 1 /\ Callback(Advanced(Top), Place(Top), "single")
    BY <1>7 DEF NotifyNeighbor, IsUpdate
  <2>2. Top \in StackTasks /\ Head(Agenda) = Now(Top)
    BY <1>1, <1>2, <2>1, TopOf, HeadOfAgenda
  <2>3. Head(Agenda).kind = "single"
    BY <1>2, <2>1, <2>2, PlaceType
  <2>4. count' = Abstract!Counted /\ count' <= Limit
    BY <1>1, <1>2, <2>1, <2>3 DEF Abstract!Counted
  <2> QED BY <1>5, <2>1, <2>3, <2>4
<1>8. CASE RunDeferred
  <2>1. status = "run" /\ stack # <<>> /\ Top.kind \in Deferred
        /\ Callback(Front(stack), Top.id, Top.kind) /\ count' = count
    BY <1>8 DEF RunDeferred
  <2>2. Top.kind # "multi" /\ Top.kind # "single"
    BY <2>1 DEF Deferred
  <2>3. ~Exhausted(Top) /\ Advanced(Top) = Front(stack)
    BY <2>2 DEF Exhausted, Advanced
  <2>4. Top \in StackTasks /\ Head(Agenda) = Now(Top)
    BY <1>1, <1>2, <2>1, <2>3, TopOf, HeadOfAgenda
  <2>5. ~IsUpdate(Top)
    BY <2>2 DEF IsUpdate
  <2>6. Head(Agenda).kind = Top.kind /\ Place(Top) = Top.id
    BY <1>2, <2>3, <2>4, <2>5, PlaceType
  <2>7. count' = Abstract!Counted /\ count' <= Limit
    BY <1>1, <2>1, <2>2, <2>6 DEF Abstract!Counted
  <2> QED BY <1>5, <2>1, <2>3, <2>6, <2>7
<1>9. CASE BreakOff
  <2>1. status = "run" /\ stack # <<>> /\ ~Exhausted(Top) /\ IsUpdate(Top) /\ count = Limit
        /\ count' = count + 1 /\ status' = "limit" /\ stack' = <<>> /\ born' = born
    BY <1>9 DEF BreakOff, IsUpdate
  <2>2. Top \in StackTasks /\ Head(Agenda) = Now(Top) /\ Agenda # <<>>
    BY <1>1, <1>2, <2>1, TopOf, HeadOfAgenda
  <2>3. Head(Agenda).kind = "single"
    BY <1>2, <2>1, <2>2, PlaceType
  <2>4. count' = Abstract!Counted /\ count' > Limit
    BY <1>1, <1>2, <2>1, <2>3 DEF Abstract!Counted
  <2> QED BY <1>3, <2>1, <2>2, <2>4 DEF Abstract!Next, Abstract!GiveUp
<1>10. CASE ChainFails
  <2>1. /\ status = "run" /\ stack # <<>> /\ ~Exhausted(Top) /\ (IsUpdate(Top) => count < Limit)
        /\ count' = IF IsUpdate(Top) THEN count + 1 ELSE count
        /\ status' = "error" /\ stack' = <<>> /\ born' = born
    BY <1>10 DEF ChainFails
  <2>2. Top \in StackTasks /\ Head(Agenda) = Now(Top) /\ Agenda # <<>>
    BY <1>1, <1>2, <2>1, TopOf, HeadOfAgenda
  <2>3. IsUpdate(Top) <=> Head(Agenda).kind = "single"
    <3>1. "single" \notin Deferred
      BY DEF Deferred
    <3> QED BY <1>2, <2>1, <2>2, <3>1, PlaceType
  <2>4. count' = Abstract!Counted /\ ~(count' > Limit)
    BY <1>1, <1>2, <2>1, <2>3 DEF Abstract!Counted
  <2> QED BY <1>3, <2>1, <2>2, <2>4 DEF Abstract!Next, Abstract!GiveUp
<1>11. CASE Finish
  <2>1. Agenda' = Agenda
    BY <1>11 DEF Finish, Agenda
  <2> QED BY <1>4, <1>11, <2>1 DEF Finish, Abstract!Next, Abstract!Finish
<1>12. CASE UNCHANGED chainVars
  BY <1>12 DEF chainVars, Agenda
<1> QED BY <1>6, <1>7, <1>8, <1>9, <1>10, <1>11, <1>12 DEF ChainNext

\* The chain keeps its types.
THEOREM ChainTypeCorrect == ChainSpec => []ChainTypeOK
<1>1. ChainInit => ChainTypeOK
  BY ChainInitType
<1>2. ChainTypeOK /\ [ChainNext]_chainVars => ChainTypeOK'
  BY ChainNextType
<1> QED BY <1>1, <1>2, PTL DEF ChainSpec

\* The task stack implements the agenda.
THEOREM ImplementsAgenda == ChainSpec => RefinesAgenda
<1>1. ChainInit => Abstract!Init
  BY ChainInitAgenda
<1>2. ChainTypeOK /\ [ChainNext]_chainVars => [Abstract!Next]_Abstract!avars
  BY ChainStep DEF Abstract!avars
<1>3. ChainSpec => []ChainTypeOK
  BY ChainTypeCorrect
<1> QED BY <1>1, <1>2, <1>3, PTL DEF ChainSpec, RefinesAgenda, Abstract!Spec
=============================================================================
