--------------------------- MODULE CompiledExecutor ---------------------------
(***************************************************************************)
(* When the compiled graph runs and when the interpreter does:             *)
(* CompiledExecutor of redstone-java-26/src/compiled/mod.rs (configure,    *)
(* prepare, synchronize, propagate_ordered, the recompilation window and   *)
(* the permanent fallback), driven by Simulation of redstone-core/src/     *)
(* simulation.rs (load, prepare_execution, set_trace_enabled, the steps    *)
(* and the synchronisation at the end of every callback).                  *)
(*                                                                         *)
(* The graph itself is abstracted to whether it agrees with the world; a   *)
(* compilation or synchronisation succeeds or fails as it likes.           *)
(***************************************************************************)
EXTENDS Integers, Sequences, FiniteSets

CONSTANTS
  Window,            \* AUTO_RECOMPILE_WINDOW_TICKS, 200 in the code
  Limit,             \* AUTO_RECOMPILE_LIMIT, 11 in the code
  MaxTick,           \* bound on the ticks
  MaxRecompilations  \* bound on the recompilations

ASSUME ExecutorAssumption ==
  /\ Window \in Nat \ {0} /\ Limit \in Nat \ {0}
  /\ MaxTick \in Nat /\ MaxRecompilations \in Nat

VARIABLES
  mode,         \* config.execution_mode: "auto", "interpreted" or "compiled"
  experimental, \* whether config.mode is the experimental redstone
  trace,        \* config.trace
  prepared,     \* execution_prepared
  tick,
  exec,         \* CompiledExecutor: the trace flag it is configured with, the
                \* backend of its report, why it fell back for good or "no",
                \* its runtime ("none", or a graph that is "fresh" or "stale"),
                \* and recent_recompilations
  phase,        \* "rest", "step" (a step, or an action between steps) or
                \* "silent" (initialize, paste_world, update_region)
  open,         \* whether a callback runs
  changed,      \* what it changed: "no", "state" or "topology"
  failed,       \* whether it has failed
  recompiled,   \* the ticks of every recompilation in auto mode (history)
  cut,          \* how many of them precede the last configuration (history)
  fellBack      \* whether a running graph was given up (history)

request == <<mode, experimental>>
callback == <<open, changed, failed>>
history == <<recompiled, cut, fellBack>>
vars == <<request, trace, prepared, tick, exec, phase, callback, history>>

Diagnostic(on) == experimental \/ on

-----------------------------------------------------------------------------
\* CompiledExecutor: each operation returns the executor and whether it is Ok.
Ok(ex) == [ex |-> ex, ok |-> TRUE]
Err(ex) == [ex |-> ex, ok |-> FALSE]

Configured(ex, on) ==
  [ex EXCEPT !.on = on, !.runtime = "none", !.recent = <<>>,
             !.backend = IF mode = "interpreted" \/ Diagnostic(on) \/ ex.permanent # "no"
                         THEN "interpreted" ELSE "compiled"]

Configure(ex, on) ==
  IF mode = "compiled" /\ (Diagnostic(on) \/ ex.permanent # "no") THEN Err(ex)
  ELSE IF ex.on = on THEN Ok(ex)
  ELSE Ok(Configured(ex, on))

Prepare(ex, compiles) ==
  IF ex.permanent # "no" THEN [ex |-> ex, ok |-> mode # "compiled"]
  ELSE IF ex.runtime # "none" \/ ex.backend = "interpreted" THEN Ok(ex)
  ELSE IF compiles THEN Ok([ex EXCEPT !.runtime = "fresh"])
  ELSE IF mode = "auto" THEN Ok([ex EXCEPT !.permanent = "compile", !.backend = "interpreted"])
  ELSE Err(ex)

\* Mutant of FailRuntime: the fallback is not remembered.
FailRuntimeForgets(ex, reason) ==
  [ex |-> [ex EXCEPT !.runtime = "none",
                     !.backend = IF mode = "auto" THEN "interpreted" ELSE @],
   ok |-> mode = "auto"]

FailRuntime(ex, reason) ==
  [ex |-> [ex EXCEPT !.runtime = "none", !.permanent = reason,
                     !.backend = IF mode = "auto" THEN "interpreted" ELSE @],
   ok |-> mode = "auto"]

\* Mutant of InWindow: one tick less.
InWindowShort(t) == tick - t < Window - 1

InWindow(t) == tick - t < Window

TooOften(recent) == Len(recent) >= Limit

\* Recompilations leave at the front until one is in the window.
Pruned(recent) ==
  LET popped == {i \in DOMAIN recent : \A j \in 1 .. i : ~InWindow(recent[j])}
  IN SubSeq(recent, Cardinality(popped) + 1, Len(recent))

\* auto_recompile_fallback_reason
Recompiled(ex) ==
  LET recent == Append(Pruned(ex.recent), tick)
      counted == [ex EXCEPT !.recent = recent]
  IN IF mode # "auto" THEN Ok(ex)
     ELSE IF TooOften(recent) THEN FailRuntime(counted, "frequent")
     ELSE Ok(counted)

\* Mutant of Synchronize: a permanent failure is forgotten with the runtime.
SynchronizeNoRuntime(ex, outcome) ==
  IF ex.runtime = "none" THEN Ok(ex)
  ELSE IF outcome = "error" THEN FailRuntime(ex, "synchronization")
  ELSE IF outcome = "recompiled" THEN Recompiled([ex EXCEPT !.runtime = "fresh"])
  ELSE Ok([ex EXCEPT !.runtime = "fresh"])

Synchronize(ex, outcome) ==
  IF ex.permanent # "no" /\ mode = "compiled" THEN Err(ex)
  ELSE IF ex.runtime = "none" THEN Ok(ex)
  ELSE IF outcome = "error" THEN FailRuntime(ex, "synchronization")
  ELSE IF outcome = "recompiled" THEN Recompiled([ex EXCEPT !.runtime = "fresh"])
  ELSE Ok([ex EXCEPT !.runtime = "fresh"])

-----------------------------------------------------------------------------
\* Simulation::prepare_execution, with validate_execution_report
PrepareExecution(ex, done, compiles) ==
  LET first == Prepare(ex, compiles)
  IN IF done THEN Ok(ex)
     ELSE [first EXCEPT !.ok = /\ @
                               /\ mode # "auto" => first.ex.backend = mode]

\* A simulation that has been loaded.
Init ==
  /\ mode \in {"auto", "interpreted", "compiled"}
  /\ experimental \in BOOLEAN /\ trace \in BOOLEAN
  /\ mode = "compiled" => ~Diagnostic(trace)
  /\ prepared = FALSE /\ tick = 0
  /\ exec = [on |-> trace, permanent |-> "no", runtime |-> "none", recent |-> <<>>,
             backend |-> IF mode = "interpreted" \/ Diagnostic(trace)
                         THEN "interpreted" ELSE "compiled"]
  /\ phase = "rest" /\ open = FALSE /\ changed = "no" /\ failed = FALSE
  /\ recompiled = <<>> /\ cut = 0 /\ fellBack = FALSE

\* set_trace_enabled: the executor is configured anew and, if it had been
\* prepared, prepared; an error puts the old configuration back.
SetTrace ==
  /\ phase = "rest"
  /\ \E on \in BOOLEAN \ {trace}, compiles \in BOOLEAN :
       LET configured == Configure(exec, on)
           new == IF configured.ok /\ prepared
                  THEN PrepareExecution(configured.ex, FALSE, compiles) ELSE configured
           rolledBack == Configure(new.ex, trace)
           old == IF rolledBack.ok /\ prepared
                  THEN PrepareExecution(rolledBack.ex, FALSE, compiles) ELSE rolledBack
       IN /\ trace' = IF new.ok THEN on ELSE trace
          /\ exec' = IF new.ok THEN new.ex ELSE old.ex
          /\ prepared' = (prepared /\ (new.ok \/ old.ok))
  /\ cut' = IF exec'.on # exec.on THEN Len(recompiled) ELSE cut
  /\ UNCHANGED <<request, tick, phase, callback, recompiled, fellBack>>

\* A step advances the tick, apply does not.
Begin ==
  /\ phase = "rest"
  /\ \E compiles \in BOOLEAN, step \in {0, 1} :
       LET result == PrepareExecution(exec, prepared, compiles)
       IN /\ tick + step <= MaxTick
          /\ exec' = result.ex
          /\ prepared' = result.ok
          /\ phase' = IF result.ok THEN "step" ELSE "rest"
          /\ tick' = IF result.ok THEN tick + step ELSE tick
  /\ UNCHANGED <<request, trace, callback, history>>

BeginSilent ==
  /\ phase = "rest"
  /\ phase' = "silent"
  /\ UNCHANGED <<request, trace, prepared, tick, exec, callback, history>>

EnterCallback ==
  /\ phase # "rest" /\ ~open
  /\ open' = TRUE
  /\ UNCHANGED <<request, trace, prepared, tick, exec, phase, changed, failed, history>>

\* The rules change blocks; a running graph no longer agrees with the world.
Change ==
  /\ open /\ ~failed
  /\ changed' \in {"state", "topology"}
  /\ changed = "topology" => changed' = "topology"
  /\ exec' = IF exec.runtime = "none" THEN exec ELSE [exec EXCEPT !.runtime = "stale"]
  /\ UNCHANGED <<request, trace, prepared, tick, phase, open, failed, history>>

\* propagate_ordered, or the application of its events, fails; auto mode goes
\* on with the interpreter in the same callback.
PropagationFails ==
  /\ open /\ ~failed
  /\ exec.runtime # "none" \/ (mode = "compiled" /\ exec.permanent # "no")
  /\ LET result == IF exec.runtime = "none" THEN Err(exec) ELSE FailRuntime(exec, "propagation")
     IN exec' = result.ex /\ failed' = ~result.ok
  /\ fellBack' = TRUE
  /\ UNCHANGED <<request, trace, prepared, tick, phase, open, changed, recompiled, cut>>

RulesFail ==
  /\ open /\ ~failed
  /\ failed' = TRUE
  /\ UNCHANGED <<request, trace, prepared, tick, exec, phase, open, changed, history>>

Outcomes ==
  CASE changed = "no" -> {"unchanged"}
    [] changed = "state" -> {"updated", "error"}
    [] OTHER -> {"updated", "error"} \cup
                (IF Len(recompiled) < MaxRecompilations THEN {"recompiled"} ELSE {})

\* Mutant of AtReturn: a failed callback is not synchronised.
AtReturnIfOk(outcome) ==
  IF outcome = "unchanged" \/ failed THEN Ok(exec) ELSE Synchronize(exec, outcome)

AtReturn(outcome) ==
  IF outcome = "unchanged" THEN Ok(exec) ELSE Synchronize(exec, outcome)

\* The changes are synchronised, also those of a callback that failed; an
\* error of either ends the step.
Return ==
  /\ open
  /\ \E outcome \in Outcomes :
       LET result == AtReturn(outcome)
           counts == outcome = "recompiled" /\ exec.runtime # "none" /\ mode = "auto"
       IN /\ exec' = result.ex
          /\ phase' = IF failed \/ ~result.ok THEN "rest" ELSE phase
          /\ recompiled' = IF counts THEN Append(recompiled, tick) ELSE recompiled
  /\ fellBack' = (fellBack \/ (exec.runtime # "none" /\ exec'.runtime = "none"))
  /\ open' = FALSE /\ changed' = "no" /\ failed' = FALSE
  /\ UNCHANGED <<request, trace, prepared, tick, cut>>

End ==
  /\ phase # "rest" /\ ~open
  /\ phase' = "rest"
  /\ UNCHANGED <<request, trace, prepared, tick, exec, callback, history>>

Next ==
  \/ SetTrace \/ Begin \/ BeginSilent \/ EnterCallback
  \/ Change \/ PropagationFails \/ RulesFail \/ Return \/ End

Spec == Init /\ [][Next]_vars

-----------------------------------------------------------------------------
Reasons == {"no", "compile", "synchronization", "propagation", "frequent"}

TypeOK ==
  /\ mode \in {"auto", "interpreted", "compiled"}
  /\ experimental \in BOOLEAN /\ trace \in BOOLEAN /\ prepared \in BOOLEAN
  /\ tick \in 0 .. MaxTick
  /\ exec \in [on : BOOLEAN, backend : {"interpreted", "compiled"}, permanent : Reasons,
               runtime : {"none", "fresh", "stale"}, recent : Seq(0 .. MaxTick)]
  /\ exec.on = trace
  /\ Len(exec.recent) <= Limit
  /\ phase \in {"rest", "step", "silent"}
  /\ open \in BOOLEAN /\ failed \in BOOLEAN /\ fellBack \in BOOLEAN
  /\ changed \in {"no", "state", "topology"}
  /\ recompiled \in Seq(0 .. MaxTick) /\ cut \in 0 .. Len(recompiled)

\* docs/impl.md:75: when a callback begins, and at rest, a running graph
\* agrees with the world, whatever callbacks failed and however.
GraphFresh == ~open => exec.runtime # "stale"

\* docs/impl.md:65 and :75: a graph given up after a failure, or after too
\* many recompilations, never runs again, whatever is configured later.
FallbackIsFinal == fellBack => exec.runtime = "none"

\* docs/impl.md:68: no graph runs under a trace or experimental redstone, or
\* in interpreted mode, also when the trace is switched on between steps.
DiagnosticsInterpreted ==
  mode = "interpreted" \/ experimental \/ trace => exec.runtime = "none"

\* Whatever failed, and whatever is configured when, the graph runs only where
\* the configuration and the executor's past allow it.
GraphOnlyWhereAllowed == FallbackIsFinal /\ DiagnosticsInterpreted

\* The report of a prepared simulation in auto mode names the backend that
\* runs.
ReportTruthful ==
  prepared /\ mode = "auto" => (exec.backend = "compiled" <=> exec.runtime # "none")

TooMany(from) ==
  \E i, j \in from + 1 .. Len(recompiled) :
    j - i = Limit - 1 /\ recompiled[j] - recompiled[i] < Window

\* README.md:88: auto mode gives up the graph exactly when it is the Limit-th
\* recompilation within Window ticks since the executor was configured.
WindowExact ==
  /\ TooMany(cut) => exec.permanent # "no"
  /\ exec.permanent = "frequent" => TooMany(0)

\* docs/impl.md:67: in compiled mode a callback of a step that changed a block
\* and succeeded did so with a graph; there is no silent interpretation.
CompiledOrError ==
  [][mode = "compiled" /\ phase = "step" /\ changed # "no" /\ ~open' /\ phase' = "step"
       => exec'.runtime = "fresh"]_vars
=============================================================================
