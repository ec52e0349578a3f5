---------------------------- MODULE UpdateAgenda ----------------------------
(***************************************************************************)
(* What a neighbour-update chain promises: an agenda of notifications and  *)
(* deferred tasks, taken from the front; whatever the callback of one      *)
(* emits comes before everything else, in emission order, a broadcast as   *)
(* one notification per direction that is not skipped. At most Limit       *)
(* notifications are made. UpdateChain is the task stack implementing it.  *)
(***************************************************************************)
EXTENDS UpdateTasks

CONSTANTS
  Limit,  \* max_chained_neighbor_updates
  MaxBorn \* bound on the tasks of a chain

VARIABLES
  agenda,  \* notifications and deferred tasks to come, first to last
  updates, \* notifications made
  born,    \* tasks emitted
  status   \* "run", "done", "limit" or "error"

avars == <<agenda, updates, born, status>>

Expand(task) ==
  IF task.kind = "multi"
  THEN LET dirs == Directions(1, task.skip)
       IN  [i \in DOMAIN dirs |-> [id |-> Append(task.id, dirs[i]), kind |-> "single"]]
  ELSE <<[id |-> task.id, kind |-> task.kind]>>

ExpandAll(tasks) == FlattenSeq([i \in DOMAIN tasks |-> Expand(tasks[i])])

Init ==
  /\ \E tasks \in Bursts(Tasks, Burst) :
       agenda = ExpandAll(Placed(<<>>, tasks)) /\ born = Len(tasks)
  /\ updates = 0
  /\ status = "run"

\* Only notifications are counted.
Counted == IF Head(agenda).kind = "single" THEN updates + 1 ELSE updates

Take ==
  /\ status = "run" /\ agenda # <<>>
  /\ updates' = Counted
  /\ updates' <= Limit
  /\ \E tasks \in Emissions(Head(agenda).kind) :
       /\ born + Len(tasks) <= MaxBorn
       /\ born' = born + Len(tasks)
       /\ agenda' = ExpandAll(Placed(Head(agenda).id, tasks)) \o Tail(agenda)
  /\ UNCHANGED status

\* The chain ends: nothing is left, the limit is passed or a callback failed.
Finish ==
  /\ status = "run" /\ agenda = <<>>
  /\ status' = "done"
  /\ UNCHANGED <<agenda, updates, born>>

GiveUp ==
  /\ status = "run" /\ agenda # <<>>
  /\ updates' = Counted
  /\ status' = IF updates' > Limit THEN "limit" ELSE "error"
  /\ agenda' = <<>>
  /\ UNCHANGED born

Next == Take \/ Finish \/ GiveUp

Spec == Init /\ [][Next]_avars
=============================================================================
