----------------------------- MODULE UpdateTasks -----------------------------
(***************************************************************************)
(* The tasks of a neighbour-update chain (redstone-core/src/event.rs,      *)
(* NeighborTask) and what their callbacks may emit. A task is named by its *)
(* place in the tree of tasks: the k-th task emitted by task p is p \o <<k>>*)
(* and the notification of direction d of a broadcast b is b \o <<d>>.     *)
(***************************************************************************)
EXTENDS Integers, Sequences, SequencesExt

CONSTANTS
  NumDirs, \* length of Direction::UPDATE_ORDER, 6 in the code
  Burst    \* bound on the tasks one callback emits

Dirs == 1 .. NumDirs

\* skip is the skipped direction of a broadcast, 0 for none
Broadcasts == [kind : {"multi"}, skip : 0 .. NumDirs]
Single == [kind |-> "single", skip |-> 0]
Deferred == {"schedule", "set", "apply", "rule"}

Tasks == Broadcasts \cup {Single} \cup [kind : Deferred, skip : {0}]

Bursts(S, n) == UNION {[1 .. k -> S] : k \in 0 .. n}

\* The tasks a callback of a task of this kind may emit, in emission order:
\* scheduling a tick emits none; a deferred block change none when the block
\* already has the state, else its broadcast and then what the executor's
\* synchronisation with the change emits.
Emissions(kind) ==
  CASE kind = "schedule" -> {<<>>}
    [] kind = "set" -> {<<>>} \cup {<<[kind |-> "multi", skip |-> 0]>> \o b : b \in Bursts(Tasks, Burst - 1)}
    [] OTHER -> Bursts(Tasks, Burst)

\* The directions a broadcast has to notify, from the first one on.
Directions(first, skip) ==
  IF skip < first THEN [i \in 1 .. NumDirs - first + 1 |-> first + i - 1]
  ELSE [i \in 1 .. NumDirs - first |-> IF first + i - 1 < skip THEN first + i - 1 ELSE first + i]

\* The emitted tasks with their places in the tree.
Placed(parent, tasks) ==
  [k \in DOMAIN tasks |->
     [id |-> Append(parent, k), kind |-> tasks[k].kind, skip |-> tasks[k].skip]]
=============================================================================
