----------------------------- MODULE ScenarioRun -----------------------------
(***************************************************************************)
(* The driver of one scenario: redstone-cli/src/main.rs (execute_scenario, *)
(* StabilityTracker). It pastes structures, feeds each step its pastes and *)
(* actions, records the delta, samples the probe, watches for stability    *)
(* and judges the expectations at the end.                                 *)
(*                                                                         *)
(* The simulation is what a step may show of it: the probe's value,        *)
(* whether the world changed, and whether ticks are pending.               *)
(***************************************************************************)
EXTENDS Integers, Sequences, FiniteSets

CONSTANTS
  Scenarios, \* scenarios: actions and pastes as sequences of <<tick, name>>,
             \* skip, max, the expectations <<tick, value>>, and replay
  Names,     \* names of actions and pastes
  Values,    \* values of the probe
  Confirm,   \* STABILITY_CONFIRMATION_TICKS, 20 in the code
  AtStart,   \* the tick of a paste that gives none
  Never      \* no tick

ASSUME ScenarioAssumption ==
  /\ AtStart \notin Nat /\ Never \notin Nat
  /\ Confirm \in Nat \ {0}
  /\ Scenarios \subseteq [actions : Seq(Nat \X Names), pastes : Seq((Nat \cup {AtStart}) \X Names),
                          skip : Nat, max : Nat, expects : SUBSET (Nat \X Values), replay : BOOLEAN]

VARIABLES
  sc,        \* the scenario
  phase,     \* how far execute_scenario is
  now,       \* current_tick
  given,     \* action_index: actions given to the simulation
  applied,   \* what the simulation was given, with the tick
  probe,     \* the probe's value after each step
  quiet,     \* whether nothing happened and nothing was pending, for each step
  monitoring, \* monitoring_enabled
  samples,   \* the values kept, by tick
  tracker,   \* StabilityTracker
  recorded,  \* the ticks whose delta the recording has
  verdict    \* the outcome

driverVars ==
  <<sc, phase, now, given, applied, probe, quiet, monitoring, samples, tracker, recorded, verdict>>

-----------------------------------------------------------------------------
\* The sequences f[0] to f[n], one after the other.
Joined(f, n) ==
  LET upTo[t \in 0 .. n] == IF t = 0 THEN f[0] ELSE upTo[t - 1] \o f[t]
  IN  upTo[n]

At(list, t) ==
  Joined([n \in 0 .. Len(list) |-> IF n > 0 /\ list[n][1] = t THEN <<list[n]>> ELSE <<>>], Len(list))

Ticks(list) == {list[i][1] : i \in DOMAIN list} \ {AtStart}

\* actions.sort_by_key: by tick, those of one tick as declared.
Actions(s) == Joined([t \in 0 .. s.max + 1 |-> At(s.actions, t)], s.max + 1)

\* last_external_tick
LastExternal(s) ==
  CHOOSE t \in Ticks(s.actions) \cup Ticks(s.pastes) \cup {0} :
    \A u \in Ticks(s.actions) \cup Ticks(s.pastes) : u <= t

NoTracker == [since |-> Never, idle |-> 0, stable |-> Never]

\* Mutant of Observed: a busy tick keeps the candidate.
ObservedKeeping(t, last, tr, idle) ==
  IF t < last \/ ~idle THEN [tr EXCEPT !.idle = 0, !.stable = Never]
  ELSE LET since == IF tr.since = Never THEN t ELSE tr.since
       IN [since |-> since, idle |-> tr.idle + 1,
           stable |-> IF tr.idle + 1 >= Confirm THEN since ELSE tr.stable]

\* StabilityTracker::observe
Observed(t, last, tr, idle) ==
  IF t < last \/ ~idle THEN NoTracker
  ELSE LET since == IF tr.since = Never THEN t ELSE tr.since
       IN [since |-> since, idle |-> tr.idle + 1,
           stable |-> IF tr.idle + 1 >= Confirm THEN since ELSE tr.stable]

\* The expectations of ticks that are monitored.
Monitored(s) == {e \in s.expects : e[1] > s.skip}

-----------------------------------------------------------------------------
DriverInit ==
  /\ sc \in Scenarios
  /\ phase = "load" /\ now = 0 /\ given = 0 /\ applied = <<>> /\ probe = <<>> /\ quiet = <<>>
  /\ monitoring = (sc.skip = 0)
  /\ samples = [t \in {} |-> Never] /\ tracker = NoTracker /\ recorded = <<>> /\ verdict = "none"

\* The structures are loaded and those without a tick are pasted, in order; a
\* paste outside the run is refused.
Load ==
  /\ phase = "load"
  /\ IF \A t \in Ticks(sc.pastes) : t \in 1 .. sc.max
     THEN phase' = "run" /\ applied' = At(sc.pastes, AtStart) /\ UNCHANGED verdict
     ELSE phase' = "over" /\ verdict' = "refused" /\ UNCHANGED applied
  /\ UNCHANGED <<sc, now, given, probe, quiet, monitoring, samples, tracker, recorded>>

\* How many of the actions from the index on are due: the first that is not
\* stops the loop.
DueFrom(actions, i, t) ==
  CHOOSE n \in 0 .. Len(actions) - i :
    /\ \A k \in 1 .. n : actions[i + k][1] = t
    /\ n < Len(actions) - i => actions[i + n + 1][1] # t

\* set_monitoring_enabled before the first monitored step
Sampling(t) == monitoring \/ t > sc.skip

\* One round of the loop. Events reach the delta only when a recording asks
\* for them (record_events).
Step ==
  /\ phase = "run" /\ now < sc.max
  /\ now' = now + 1
  /\ LET due == DueFrom(Actions(sc), given, now + 1)
     IN /\ given' = given + due
        /\ applied' = applied \o At(sc.pastes, now + 1) \o SubSeq(Actions(sc), given + 1, given + due)
  /\ monitoring' = Sampling(now + 1)
  /\ \E value \in Values, changed, pending \in BOOLEAN :
       /\ probe' = Append(probe, value)
       /\ quiet' = Append(quiet, ~changed /\ ~pending)
       /\ tracker' = Observed(now + 1, LastExternal(sc), tracker, ~(sc.replay /\ changed) /\ ~pending)
       /\ samples' = IF monitoring'
                     THEN [t \in DOMAIN samples \cup {now + 1} |-> IF t = now + 1 THEN value ELSE samples[t]]
                     ELSE samples
  /\ recorded' = IF sc.replay THEN Append(recorded, now + 1) ELSE recorded
  /\ UNCHANGED <<sc, phase, verdict>>

\* Loading, a step, the recording or a file written at the end fails: the run
\* ends without a verdict on the expectations.
Break ==
  /\ phase \in {"load", "run"}
  /\ phase' = "over" /\ verdict' = "error"
  /\ UNCHANGED <<sc, now, given, applied, probe, quiet, monitoring, samples, tracker, recorded>>

\* After the last step the expectations are compared with the samples.
Judge ==
  /\ phase = "run" /\ now = sc.max
  /\ verdict' = IF \A e \in Monitored(sc) : e[1] \in DOMAIN samples /\ samples[e[1]] = e[2]
                THEN "passed" ELSE "failed"
  /\ phase' = "over"
  /\ UNCHANGED <<sc, now, given, applied, probe, quiet, monitoring, samples, tracker, recorded>>

DriverNext == Load \/ Step \/ Break \/ Judge

DriverSpec == DriverInit /\ [][DriverNext]_driverVars

-----------------------------------------------------------------------------
\* docs/scenario-guide.md:57, :259: at every tick up to now the step got the
\* pastes of that tick and then its actions, each in the order declared, and a
\* recording its delta; none is late, skipped or given twice, if all actions
\* begin at tick 1 as :53 asks.
InputsOnTime ==
  (now > 0 /\ \A t \in Ticks(sc.actions) : t > 0) =>
    /\ applied = Joined([t \in 0 .. now |-> IF t = 0 THEN At(sc.pastes, AtStart)
                                           ELSE At(sc.pastes, t) \o At(sc.actions, t)], now)
    /\ sc.replay => recorded = [t \in 1 .. now |-> t]

\* scenario-guide.md:89, :477: a run that ends well met every expectation after
\* the skipped ticks, at its own tick, and fails for nothing else.
VerdictRight ==
  verdict \in {"passed", "failed"} =>
    (verdict = "passed" <=> \A e \in Monitored(sc) : e[1] \in 1 .. sc.max /\ probe[e[1]] = e[2])

\* The ticks from the last external one on that were quiet until now.
QuietSince == {t \in 1 .. now : t >= LastExternal(sc) /\ \A u \in t .. now : quiet[u]}

\* main.rs:645, for runs whose deltas hold events: the stable tick is the first
\* of the quiet ticks that last until now, once there are enough of them.
StableExact ==
  sc.replay =>
    tracker.stable = IF Cardinality(QuietSince) >= Confirm
                     THEN CHOOSE t \in QuietSince : \A u \in QuietSince : t <= u ELSE Never

\* Each step of a scenario gets its pastes and actions on time, the stable tick
\* is the first quiet one, and the scenario passes exactly if it met its
\* expectations (execute_scenario, StabilityTracker).
ScenarioRight == InputsOnTime /\ VerdictRight /\ StableExact

\* docs/impl.md:303: the stable tick separates the activity from the idle tail
\* ("把活动传播和稳定后的空闲尾部分开"): nothing happens from it on
\* (StabilityTracker).
IdleAfterStable ==
  tracker.stable # Never => \A t \in tracker.stable .. now : quiet[t]
=============================================================================
