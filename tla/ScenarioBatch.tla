---------------------------- MODULE ScenarioBatch ----------------------------
(***************************************************************************)
(* A batch of scenario tests: redstone-cli/src/main.rs (test_path,         *)
(* execute_test_scenario, compare_with_oracle, compare_oracle_samples_v2). *)
(* Scenarios run as tasks with as many permits as there are processors;    *)
(* each may be compared with the original game's trace, over temporary     *)
(* files; the results are joined in order and reported.                    *)
(***************************************************************************)
EXTENDS Integers, Sequences, FiniteSets

CONSTANTS
  Count,     \* scenarios in the directory, in the order of their names
  Permits,   \* available_parallelism
  TaskTraces \* traces of a run: sequences of <<kind, value>>

Batch == 1 .. Count
Kinds == {"neighbor", "queued", "executed", "event_queued", "event_executed", "changed"}

VARIABLES
  spawned,   \* scenarios that have a task
  permits,   \* free permits
  task,      \* how far each task is
  oracle,    \* scenarios that are compared: --oracle and no skip_oracle
  rust, java, \* the traces written
  files,     \* temporary trace files that exist
  result,    \* what each task returned
  joined,    \* tasks joined so far, in order
  report     \* the exit of the command

batchVars == <<spawned, permits, task, oracle, rust, java, files, result, joined, report>>

-----------------------------------------------------------------------------
\* compare_oracle_samples_v2. Probes are compared on their own, all other
\* samples as one sequence, then again kind by kind.
OfKind(trace, kinds) == SelectSeq(trace, LAMBDA e : e[1] \in kinds)

SamplesAgree(r, j) ==
  /\ OfKind(r, {"probe"}) = OfKind(j, {"probe"})
  /\ OfKind(r, Kinds) = OfKind(j, Kinds)
  /\ \A k \in Kinds : OfKind(r, {k}) = OfKind(j, {k})

-----------------------------------------------------------------------------
NoTrace == <<>>

BatchInit ==
  /\ spawned = 0 /\ permits = Permits
  /\ task = [s \in Batch |-> "none"] /\ oracle \in SUBSET Batch
  /\ rust = [s \in Batch |-> NoTrace] /\ java = [s \in Batch |-> NoTrace]
  /\ files = {} /\ result = [s \in Batch |-> "none"] /\ joined = 0 /\ report = "none"

\* A permit is taken before the task is spawned.
Spawn ==
  /\ report = "none" /\ spawned < Count /\ permits > 0
  /\ spawned' = spawned + 1 /\ permits' = permits - 1
  /\ task' = [task EXCEPT ![spawned + 1] = "running"]
  /\ UNCHANGED <<oracle, rust, java, files, result, joined, report>>

\* execute_scenario in the task: it writes its trace if it is to be compared,
\* fails, or panics.
Execute(s) ==
  /\ task[s] = "running"
  /\ \/ \E t \in TaskTraces :
          /\ rust' = [rust EXCEPT ![s] = t]
          /\ files' = IF s \in oracle THEN files \cup {<<"rust", s>>} ELSE files
          /\ task' = [task EXCEPT ![s] = IF s \in oracle THEN "comparing" ELSE "ok"]
     \/ /\ \E made \in {{}} \cup {{<<"rust", s>>} : o \in oracle \cap {s}} : files' = files \cup made
        /\ task' = [task EXCEPT ![s] = "failed"] /\ UNCHANGED rust
     \/ task' = [task EXCEPT ![s] = "panicked"] /\ UNCHANGED <<rust, files>>
  /\ UNCHANGED <<spawned, permits, oracle, java, result, joined, report>>

\* compare_with_oracle: the game writes a trace, or fails.
Compare(s) ==
  /\ task[s] = "comparing"
  /\ \/ \E t \in TaskTraces :
          /\ java' = [java EXCEPT ![s] = t]
          /\ task' = [task EXCEPT ![s] = IF SamplesAgree(rust[s], t) THEN "ok" ELSE "differs"]
     \/ task' = [task EXCEPT ![s] = "differs"] /\ UNCHANGED java
  /\ files' = files \ {<<"java", s>>}
  /\ UNCHANGED <<spawned, permits, oracle, rust, result, joined, report>>

\* execute_test_scenario: "comparison?; result"
Outcome(state) == IF state \in {"failed", "differs"} THEN "error" ELSE "pass"

\* Mutant of Released: a failing task keeps its permit.
ReleasedIfWell(s) == IF task[s] = "ok" THEN permits + 1 ELSE permits

\* The permit is dropped with the task, whatever became of it.
Released(s) == permits + 1

End(s) ==
  /\ task[s] \in {"ok", "failed", "differs", "panicked"}
  /\ task' = [task EXCEPT ![s] = IF task[s] = "panicked" THEN "dead" ELSE "ended"]
  /\ result' = [result EXCEPT ![s] = IF task[s] = "panicked" THEN @ ELSE Outcome(task[s])]
  /\ files' = IF task[s] = "panicked" THEN files ELSE files \ {<<"rust", s>>}
  /\ permits' = Released(s)
  /\ UNCHANGED <<spawned, oracle, rust, java, joined, report>>

\* The tasks are awaited one by one, when all are spawned; a dead one ends the
\* command at once ("task.await?").
Join ==
  /\ report = "none" /\ spawned = Count /\ joined < Count
  /\ \/ task[joined + 1] = "ended" /\ joined' = joined + 1 /\ UNCHANGED report
     \/ task[joined + 1] = "dead" /\ report' = "aborted" /\ UNCHANGED joined
  /\ UNCHANGED <<spawned, permits, task, oracle, rust, java, files, result>>

Report ==
  /\ report = "none" /\ joined = Count
  /\ report' = IF \A s \in Batch : result[s] = "pass" THEN "success" ELSE "failures"
  /\ UNCHANGED <<spawned, permits, task, oracle, rust, java, files, result, joined>>

BatchNext ==
  \/ Spawn \/ Join \/ Report
  \/ \E s \in Batch : Execute(s) \/ Compare(s) \/ End(s)

Fairness ==
  /\ WF_batchVars(Spawn) /\ WF_batchVars(Join) /\ WF_batchVars(Report)
  /\ \A s \in Batch : WF_batchVars(Execute(s) \/ Compare(s) \/ End(s))

BatchSpec == BatchInit /\ [][BatchNext]_batchVars /\ Fairness

-----------------------------------------------------------------------------
\* docs/impl.md:305-307: the command succeeds only if every scenario ran and
\* each that is compared did what the game did, event by event in one order
\* across kinds; it fails only if one did not; the permits bound the tasks, and
\* unless one panicked no temporary trace is left.
BatchRight ==
  /\ Cardinality({s \in Batch : task[s] \notin {"none", "ended", "dead"}}) <= Permits
  /\ report = "success" =>
       \A s \in Batch : /\ task[s] = "ended"
                        /\ s \in oracle => OfKind(rust[s], Kinds) = OfKind(java[s], Kinds)
  /\ report = "failures" => \E s \in Batch : result[s] = "error"
  /\ report \in {"success", "failures"} => files = {} /\ joined = Count

\* Every batch comes to an end: no scenario waits for a permit for good.
BatchEnds == <>(report # "none")
=============================================================================
