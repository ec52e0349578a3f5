----------------------------- MODULE UpdateChain -----------------------------
(***************************************************************************)
(* redstone-core/src/simulation.rs, process_neighbor_tasks_with_changes:   *)
(* the explicit task stack of one neighbour-update chain. Broadcasts stay  *)
(* on top of the stack and advance in place; what a callback emits is      *)
(* pushed in reverse. The rules are external: their callbacks emit any     *)
(* tasks and may fail.                                                     *)
(***************************************************************************)
EXTENDS UpdateTasks, FiniteSets

CONSTANTS
  Limit,  \* max_chained_neighbor_updates
  MaxBorn \* bound on the tasks of a chain

ASSUME ChainAssumption ==
  /\ NumDirs \in Nat \ {0}
  /\ Limit \in Nat /\ MaxBorn \in Nat
  /\ Burst \in Nat \ {0} /\ Burst <= MaxBorn

VARIABLES
  stack,  \* tasks, the last one next; a broadcast with its next_index
  count,  \* neighbour updates made in this chain
  born,   \* tasks emitted (bounds the model)
  status  \* "run", "done", "limit" (broke off) or "error"

chainVars == <<stack, count, born, status>>

Top == stack[Len(stack)]

StackTask(t) == [id |-> t.id, kind |-> t.kind, skip |-> t.skip, next |-> 1]

\* Emitted tasks are pushed so that the first one is on top.
Pushed(base, parent, tasks) ==
  base \o Reverse([k \in DOMAIN tasks |-> StackTask(Placed(parent, tasks)[k])])

ChainInit ==
  /\ \E tasks \in Bursts(Tasks, Burst) :
       stack = Pushed(<<>>, <<>>, tasks) /\ born = Len(tasks)
  /\ count = 0
  /\ status = "run"

\* Mutant of NextDir: no direction is skipped.
NextDirUnskipped(t) == t.next

\* The direction a broadcast notifies next
NextDir(t) == IF t.next = t.skip THEN t.next + 1 ELSE t.next

Exhausted(t) == t.kind = "multi" /\ NextDir(t) > NumDirs

\* The stack without what the top task does now
Advanced(t) ==
  IF t.kind = "multi" /\ NextDir(t) < NumDirs
  THEN Append(Front(stack), [t EXCEPT !.next = NextDir(t) + 1])
  ELSE Front(stack)

DropExhausted ==
  /\ status = "run" /\ stack # <<>>
  /\ Exhausted(Top)
  /\ stack' = Front(stack)
  /\ UNCHANGED <<count, born, status>>

\* The callback of the task at this place returns, with what it emitted.
Callback(base, id, kind) ==
  /\ \E tasks \in Emissions(kind) :
       /\ born + Len(tasks) <= MaxBorn
       /\ born' = born + Len(tasks)
       /\ stack' = Pushed(base, id, tasks)
  /\ UNCHANGED status

IsUpdate(t) == t.kind \in {"single", "multi"} /\ ~Exhausted(t)

Place(t) == IF t.kind = "multi" THEN Append(t.id, NextDir(t)) ELSE t.id

NotifyNeighbor ==
  /\ status = "run" /\ stack # <<>>
  /\ IsUpdate(Top)
  /\ count < Limit
  /\ count' = count + 1
  /\ Callback(Advanced(Top), Place(Top), "single")

RunDeferred ==
  /\ status = "run" /\ stack # <<>>
  /\ Top.kind \in Deferred
  /\ Callback(Front(stack), Top.id, Top.kind)
  /\ UNCHANGED count

\* The limit breaks the chain off; the rest of the stack is dropped.
BreakOff ==
  /\ status = "run" /\ stack # <<>>
  /\ IsUpdate(Top)
  /\ count = Limit
  /\ count' = count + 1
  /\ status' = "limit"
  /\ stack' = <<>>
  /\ UNCHANGED born

\* A callback's error leaves the chain and the step; scheduling cannot fail.
ChainFails ==
  /\ status = "run" /\ stack # <<>>
  /\ ~Exhausted(Top) /\ Top.kind # "schedule"
  /\ IsUpdate(Top) => count < Limit
  /\ count' = IF IsUpdate(Top) THEN count + 1 ELSE count
  /\ status' = "error"
  /\ stack' = <<>>
  /\ UNCHANGED born

Finish ==
  /\ status = "run" /\ stack = <<>>
  /\ status' = "done"
  /\ UNCHANGED <<stack, count, born>>

ChainNext == DropExhausted \/ NotifyNeighbor \/ RunDeferred \/ BreakOff \/ ChainFails \/ Finish

ChainSpec == ChainInit /\ [][ChainNext]_chainVars

-----------------------------------------------------------------------------
StackTasks ==
  [id : Seq(Nat), kind : {"single", "multi"} \cup Deferred,
   skip : 0 .. NumDirs, next : 1 .. NumDirs]

ChainTypeOK ==
  /\ stack \in Seq(StackTasks)
  /\ count \in 0 .. Limit + 1
  /\ status = "run" => count <= Limit
  /\ born \in 0 .. MaxBorn
  /\ status \in {"run", "done", "limit", "error"}

\* What a task on the stack has still to notify or run: no notification of a
\* broadcast may be lost, repeated or reordered by the in-place advance, by the
\* skipped direction or by what is pushed above it.
Remaining(t) ==
  IF t.kind = "multi"
  THEN LET dirs == Directions(t.next, t.skip)
       IN  [i \in DOMAIN dirs |-> [id |-> Append(t.id, dirs[i]), kind |-> "single"]]
  ELSE <<[id |-> t.id, kind |-> t.kind]>>

AgendaOf(s) == FlattenSeq([i \in DOMAIN s |-> Remaining(Reverse(s)[i])])

Agenda == AgendaOf(stack)

Abstract == INSTANCE UpdateAgenda WITH agenda <- Agenda, updates <- count

\* The task stack implements the agenda: notifications and deferred tasks come
\* in the order they were emitted in, depth first, and the limit counts the
\* notifications.
RefinesAgenda == Abstract!Spec
=============================================================================
