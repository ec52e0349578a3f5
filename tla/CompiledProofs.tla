---------------------------- MODULE CompiledProofs ----------------------------
(***************************************************************************)
(* Proofs about compiled execution, in two parts.                          *)
(*                                                                         *)
(* About CompiledExecutor, for any window and limit, any number of ticks   *)
(* and recompilations, and all modes: the properties about the runtime are *)
(* not inductive. Sound ties the backend of the report to the mode and the *)
(* diagnostics, the runtime to the backend, and says what a permanent      *)
(* fallback leaves behind; every operation of the executor preserves it.   *)
(* Ready is what a preparation reaches and every callback keeps; Phases    *)
(* says which callbacks can be running.                                    *)
(*                                                                         *)
(* About PlanGraph, for any finite worlds, blocks and limits, and batches  *)
(* of any length: a graph that is updated is the one a compilation gives.  *)
(* Whole says what holds a graph together while nodes come and go. The two *)
(* passes over the positions are followed one position at a time, the      *)
(* first with nodes that are not indexed yet. What a node depends on lies  *)
(* around it (SameCompiled), hence a node outside the affected positions   *)
(* is already the one a compilation would give; GraphInv carries the world *)
(* the graph was last compiled from along with the changes since.          *)
(***************************************************************************)
EXTENDS CompiledExecutor, PlanGraph, FiniteSetTheorems, FunctionTheorems, SequenceTheorems,
        WellFoundedInduction, TLAPS

-----------------------------------------------------------------------------
(* The executor.                                                           *)

Executors ==
  [on : BOOLEAN, backend : {"interpreted", "compiled"}, permanent : Reasons,
   runtime : {"none", "fresh", "stale"}, recent : Seq(0 .. MaxTick)]

Sound(ex) ==
  /\ ex \in Executors /\ Len(ex.recent) <= Limit
  /\ ex.backend = "compiled" => mode # "interpreted" /\ ~Diagnostic(ex.on)
  /\ mode = "compiled" => ex.backend = "compiled"
  /\ ex.runtime # "none" => ex.backend = "compiled"
  /\ ex.permanent # "no" => ex.runtime = "none"
  /\ ex.permanent # "no" /\ mode = "auto" => ex.backend = "interpreted"
  /\ ex.permanent = "no" => Len(ex.recent) < Limit

Ready(ex) ==
  /\ mode = "auto" => (ex.backend = "compiled" <=> ex.runtime # "none")
  /\ mode = "compiled" => ex.runtime # "none" \/ ex.permanent # "no"

Phases ==
  /\ ~open => changed = "no" /\ ~failed
  /\ changed = "no" => exec.runtime # "stale"
  /\ phase = "rest" => ~open
  /\ phase = "step" => prepared

Request == mode \in {"auto", "interpreted", "compiled"} /\ experimental \in BOOLEAN

IInv ==
  /\ TypeOK
  /\ Sound(exec)
  /\ prepared => Ready(exec)
  /\ fellBack => exec.permanent # "no"
  /\ Phases

-----------------------------------------------------------------------------
\* pop_front never lengthens the queue of recompilations.
LEMMA PrunedType ==
  ASSUME NEW s \in Seq(0 .. MaxTick)
  PROVE  Pruned(s) \in Seq(0 .. MaxTick) /\ Len(Pruned(s)) <= Len(s)
<1> DEFINE popped == {i \in DOMAIN s : \A j \in 1 .. i : ~InWindow(s[j])}
           first == Cardinality(popped) + 1
<1>1. Len(s) \in Nat /\ DOMAIN s = 1 .. Len(s)
  BY LenProperties
<1>2. IsFiniteSet(1 .. Len(s)) /\ Cardinality(1 .. Len(s)) = Len(s)
  BY <1>1, FS_Interval
<1>3. popped \subseteq 1 .. Len(s)
  BY <1>1
<1> HIDE DEF popped
<1>4. Cardinality(popped) \in Nat
  BY <1>2, <1>3, FS_Subset, FS_CardinalityType
<1>5. first \in Int /\ first >= 1
  BY <1>4
<1>6. Pruned(s) = SubSeq(s, first, Len(s))
  BY DEF Pruned, popped
<1> HIDE DEF first
<1>7. \A i \in first .. Len(s) : s[i] \in 0 .. MaxTick
  <2> TAKE i \in first .. Len(s)
  <2>1. i \in 1 .. Len(s)
    BY <1>1, <1>5
  <2> QED BY <2>1, ElementOfSeq
<1>8. /\ SubSeq(s, first, Len(s)) \in Seq(0 .. MaxTick)
      /\ Len(SubSeq(s, first, Len(s))) = IF first <= Len(s) THEN Len(s) - first + 1 ELSE 0
  BY <1>1, <1>5, <1>7, SubSeqProperties
<1> QED BY <1>1, <1>5, <1>6, <1>8

LEMMA ConfigureSound ==
  ASSUME Request, NEW ex, Sound(ex), NEW on \in BOOLEAN
  PROVE  LET result == Configure(ex, on)
         IN /\ Sound(result.ex) /\ result.ok \in BOOLEAN
            /\ result.ex.permanent = ex.permanent
            /\ result.ex.runtime \in {ex.runtime, "none"}
            /\ IF result.ok THEN result.ex.on = on ELSE result.ex = ex
            /\ mode # "compiled" => result.ok
<1>1. CASE mode = "compiled" /\ (Diagnostic(on) \/ ex.permanent # "no")
  BY <1>1 DEF Configure, Err
<1>2. CASE ~(mode = "compiled" /\ (Diagnostic(on) \/ ex.permanent # "no")) /\ ex.on = on
  BY <1>2 DEF Configure, Ok
<1>3. CASE ~(mode = "compiled" /\ (Diagnostic(on) \/ ex.permanent # "no")) /\ ex.on # on
  <2> DEFINE new == Configured(ex, on)
  <2>1. Configure(ex, on) = Ok(new)
    BY <1>3 DEF Configure
  <2>2. << >> \in Seq(0 .. MaxTick) /\ Len(<< >>) = 0 /\ 0 < Limit
    BY ExecutorAssumption
  <2>3. /\ new \in Executors
        /\ new.on = on /\ new.runtime = "none" /\ new.recent = << >>
        /\ new.permanent = ex.permanent
        /\ new.backend = IF mode = "interpreted" \/ Diagnostic(on) \/ ex.permanent # "no"
                         THEN "interpreted" ELSE "compiled"
    BY <2>2 DEF Configured, Sound, Executors
  <2> HIDE DEF new
  <2>4. Len(new.recent) = 0
    BY <2>2, <2>3
  <2>a. new.backend = "compiled" =>
          mode # "interpreted" /\ ~Diagnostic(new.on) /\ new.permanent = "no"
    BY <2>3
  <2>b. mode = "compiled" => new.backend = "compiled"
    BY <1>3, <2>3
  <2>c. new.permanent # "no" => new.backend = "interpreted"
    BY <2>3
  <2>d. Len(new.recent) <= Limit /\ Len(new.recent) < Limit
    BY <2>2, <2>4, ExecutorAssumption
  <2>5. Sound(new)
    BY <2>3, <2>a, <2>b, <2>c, <2>d DEF Sound
  <2>6. Configure(ex, on).ex = new /\ Configure(ex, on).ok = TRUE
    BY <2>1 DEF Ok
  <2> QED BY <2>3, <2>5, <2>6
<1> QED BY <1>1, <1>2, <1>3

LEMMA PrepareSound ==
  ASSUME Request, NEW ex, Sound(ex), NEW compiles \in BOOLEAN
  PROVE  LET result == PrepareExecution(ex, FALSE, compiles)
         IN /\ Sound(result.ex) /\ result.ok \in BOOLEAN
            /\ result.ex.on = ex.on
            /\ ex.permanent # "no" => result.ex.permanent # "no"
            /\ ex.runtime # "stale" => result.ex.runtime # "stale"
            /\ result.ok => Ready(result.ex)
            /\ mode # "compiled" => result.ok
<1> DEFINE result == PrepareExecution(ex, FALSE, compiles)
           first == Prepare(ex, compiles)
<1>1. result.ex = first.ex
      /\ result.ok = (first.ok /\ (mode # "auto" => first.ex.backend = mode))
  BY DEF PrepareExecution, Prepare, Ok, Err
<1>2. CASE ex.permanent # "no"
  BY <1>1, <1>2 DEF Prepare, Sound, Ready, Request, Executors
<1>3. CASE ex.permanent = "no" /\ (ex.runtime # "none" \/ ex.backend = "interpreted")
  BY <1>1, <1>3 DEF Prepare, Ok, Sound, Ready, Request, Executors
<1>4. CASE ex.permanent = "no" /\ ex.runtime = "none" /\ ex.backend # "interpreted" /\ compiles
  <2> DEFINE new == [ex EXCEPT !.runtime = "fresh"]
  <2>1. /\ new \in Executors /\ new.runtime = "fresh" /\ new.on = ex.on
        /\ new.backend = ex.backend /\ new.permanent = ex.permanent /\ new.recent = ex.recent
    BY DEF Sound, Executors
  <2>2. first.ex = new /\ first.ok = TRUE
    BY <1>4 DEF Prepare, Ok
  <2> HIDE DEF new, first
  <2>3. ex.backend = "compiled"
    BY <1>4 DEF Sound, Executors
  <2>4. Sound(new)
    BY <1>4, <2>1, <2>3 DEF Sound
  <2>5. Ready(new)
    BY <1>4, <2>1, <2>3 DEF Ready
  <2>6. result.ex = new /\ result.ok \in BOOLEAN /\ (mode # "compiled" => result.ok)
    BY <1>1, <2>1, <2>2, <2>3, <2>4 DEF Request, Sound
  <2> QED BY <1>4, <2>1, <2>4, <2>5, <2>6
<1>5. CASE ex.permanent = "no" /\ ex.runtime = "none" /\ ex.backend # "interpreted"
           /\ ~compiles /\ mode = "auto"
  <2> DEFINE new == [ex EXCEPT !.permanent = "compile", !.backend = "interpreted"]
  <2>1. /\ new \in Executors /\ new.runtime = "none" /\ new.on = ex.on
        /\ new.backend = "interpreted" /\ new.permanent = "compile" /\ new.recent = ex.recent
    BY <1>5 DEF Sound, Executors, Reasons
  <2>2. first.ex = new /\ first.ok = TRUE
    BY <1>5 DEF Prepare, Ok
  <2> HIDE DEF new, first
  <2>3. Sound(new)
    BY <1>5, <2>1 DEF Sound
  <2>4. Ready(new)
    BY <1>5, <2>1 DEF Ready
  <2>5. result.ex = new /\ result.ok = TRUE
    BY <1>1, <1>5, <2>2
  <2> QED BY <1>5, <2>1, <2>3, <2>4, <2>5
<1>6. CASE ex.permanent = "no" /\ ex.runtime = "none" /\ ex.backend # "interpreted"
           /\ ~compiles /\ mode # "auto"
  BY <1>1, <1>6 DEF Prepare, Err, Sound, Request, Executors
<1> QED BY <1>2, <1>3, <1>4, <1>5, <1>6

-----------------------------------------------------------------------------
\* A graph that is given up leaves a sound executor, also when the window is
\* full, which Sound does not allow while the graph runs.
LEMMA FailRuntimeSound ==
  ASSUME Request, NEW ex \in Executors, Len(ex.recent) <= Limit,
         ex.backend = "compiled" => mode # "interpreted" /\ ~Diagnostic(ex.on),
         mode = "compiled" => ex.backend = "compiled",
         NEW reason \in Reasons \ {"no"}
  PROVE  LET result == FailRuntime(ex, reason)
         IN /\ Sound(result.ex) /\ Ready(result.ex)
            /\ result.ok \in BOOLEAN /\ (result.ok <=> mode = "auto")
            /\ result.ex.on = ex.on /\ result.ex.runtime = "none"
            /\ result.ex.permanent # "no"
<1> DEFINE result == FailRuntime(ex, reason)
           new == result.ex
<1>1. /\ new \in Executors /\ new.runtime = "none" /\ new.permanent = reason
      /\ new.on = ex.on /\ new.recent = ex.recent
      /\ new.backend = IF mode = "auto" THEN "interpreted" ELSE ex.backend
      /\ result.ok = (mode = "auto")
  BY DEF FailRuntime, Executors
<1> HIDE DEF result, new
<1>2. Sound(new)
  BY <1>1 DEF Sound
<1>3. Ready(new)
  BY <1>1 DEF Ready
<1>4. new = FailRuntime(ex, reason).ex /\ result = FailRuntime(ex, reason)
  BY DEF new, result
<1> QED BY <1>1, <1>2, <1>3, <1>4

Synchronized(ex, result) ==
  /\ Sound(result.ex) /\ result.ok \in BOOLEAN
  /\ result.ex.on = ex.on
  /\ result.ex.runtime # "stale"
  /\ ex.permanent # "no" => result.ex.permanent # "no"
  /\ ex.runtime # "none" /\ result.ex.runtime = "none" => result.ex.permanent # "no"
  /\ Ready(ex) => Ready(result.ex)
  /\ mode = "compiled" /\ Ready(ex) /\ result.ok => result.ex.runtime = "fresh"

LEMMA SynchronizeSound ==
  ASSUME Request, tick \in 0 .. MaxTick,
         NEW ex, Sound(ex), NEW outcome \in {"updated", "error", "recompiled"}
  PROVE  Synchronized(ex, Synchronize(ex, outcome))
<1>1. CASE ex.permanent # "no" /\ mode = "compiled"
  BY <1>1 DEF Synchronize, Err, Synchronized, Sound
<1>2. CASE ~(ex.permanent # "no" /\ mode = "compiled") /\ ex.runtime = "none"
  BY <1>2 DEF Synchronize, Ok, Synchronized, Ready
<1>3. CASE ex.runtime # "none" /\ outcome = "error"
  <2>1. Synchronize(ex, outcome) = FailRuntime(ex, "synchronization")
    BY <1>3 DEF Synchronize, Sound
  <2>2. ex \in Executors /\ "synchronization" \in Reasons \ {"no"}
    BY DEF Sound, Reasons
  <2> QED BY <1>3, <2>1, <2>2, FailRuntimeSound DEF Sound, Synchronized
<1>4. CASE ex.runtime # "none" /\ outcome # "error"
  <2> DEFINE fresh == [ex EXCEPT !.runtime = "fresh"]
  <2>1. /\ fresh \in Executors /\ fresh.runtime = "fresh" /\ fresh.on = ex.on
        /\ fresh.backend = ex.backend /\ fresh.permanent = ex.permanent
        /\ fresh.recent = ex.recent
    BY DEF Sound, Executors
  <2>2. Synchronize(ex, outcome) = IF outcome = "recompiled" THEN Recompiled(fresh) ELSE Ok(fresh)
    BY <1>4 DEF Synchronize, Sound
  <2> HIDE DEF fresh
  <2>3. ex.permanent = "no" /\ ex.backend = "compiled"
    BY <1>4 DEF Sound
  <2>4. Sound(fresh)
    BY <2>1, <2>3 DEF Sound
  <2>5. Synchronized(ex, Ok(fresh))
    BY <1>4, <2>1, <2>3, <2>4 DEF Synchronized, Ok, Ready
  <2>6. ASSUME mode = "auto" PROVE Synchronized(ex, Recompiled(fresh))
    <3> DEFINE recent == Append(Pruned(fresh.recent), tick)
               counted == [fresh EXCEPT !.recent = recent]
    <3>1. fresh.recent \in Seq(0 .. MaxTick) /\ Len(fresh.recent) \in Nat /\ Len(fresh.recent) < Limit
      BY <2>1, <2>3, <2>4 DEF Sound, Executors
    <3>2. Pruned(fresh.recent) \in Seq(0 .. MaxTick) /\ Len(Pruned(fresh.recent)) <= Len(fresh.recent)
      BY <3>1, PrunedType
    <3>3. recent \in Seq(0 .. MaxTick) /\ Len(recent) = Len(Pruned(fresh.recent)) + 1
      BY <3>2, AppendProperties
    <3>4. Len(recent) \in Nat /\ Len(recent) <= Limit
      BY <3>1, <3>2, <3>3, LenProperties, ExecutorAssumption
    <3>5. Recompiled(fresh) = IF Len(recent) >= Limit THEN FailRuntime(counted, "frequent") ELSE Ok(counted)
      BY <2>6 DEF Recompiled, TooOften
    <3> HIDE DEF recent
    <3>6. /\ counted \in Executors /\ counted.recent = recent /\ counted.runtime = "fresh"
          /\ counted.on = ex.on /\ counted.backend = ex.backend /\ counted.permanent = "no"
      BY <2>1, <2>3, <3>3 DEF Executors
    <3> HIDE DEF counted
    <3>7. CASE Len(recent) >= Limit
      <4>1. "frequent" \in Reasons \ {"no"}
        BY DEF Reasons
      <4>2. /\ Len(counted.recent) <= Limit
            /\ counted.backend = "compiled" => mode # "interpreted" /\ ~Diagnostic(counted.on)
            /\ mode = "compiled" => counted.backend = "compiled"
        BY <2>3, <3>4, <3>6 DEF Sound
      <4> QED BY <2>6, <3>5, <3>6, <3>7, <4>1, <4>2, FailRuntimeSound DEF Synchronized
    <3>8. CASE ~(Len(recent) >= Limit)
      <4>1. Len(counted.recent) < Limit /\ Len(counted.recent) <= Limit
        BY <3>4, <3>6, <3>8, ExecutorAssumption
      <4>2. Sound(counted)
        BY <2>3, <3>6, <4>1 DEF Sound
      <4>3. Recompiled(fresh).ex = counted /\ Recompiled(fresh).ok = TRUE
        BY <3>5, <3>8 DEF Ok
      <4>4. Ready(counted)
        BY <2>3, <3>6, <2>6 DEF Ready
      <4> QED BY <1>4, <2>3, <2>6, <3>6, <4>2, <4>3, <4>4 DEF Synchronized
    <3> QED BY <3>7, <3>8
  <2>7. mode # "auto" => Recompiled(fresh) = Ok(fresh)
    BY DEF Recompiled
  <2> QED BY <2>2, <2>5, <2>6, <2>7
<1> QED BY <1>1, <1>2, <1>3, <1>4

-----------------------------------------------------------------------------
LEMMA InitIInv == Init => IInv
<1> SUFFICES ASSUME Init PROVE IInv
  OBVIOUS
<1> USE DEF Init
<1>1. exec \in Executors /\ Len(exec.recent) = 0 /\ exec.on = trace /\ 0 < Limit /\ 0 <= Limit
  BY ExecutorAssumption DEF Executors, Reasons
<1>2. exec.backend = "compiled" => mode # "interpreted" /\ ~Diagnostic(exec.on)
  OBVIOUS
<1>3. mode = "compiled" => exec.backend = "compiled"
  OBVIOUS
<1>4. Sound(exec)
  BY <1>1, <1>2, <1>3 DEF Sound
<1>5. recompiled \in Seq(0 .. MaxTick) /\ Len(recompiled) = 0
  OBVIOUS
<1>6. /\ mode \in {"auto", "interpreted", "compiled"} /\ experimental \in BOOLEAN /\ trace \in BOOLEAN
      /\ prepared = FALSE /\ tick = 0 /\ phase = "rest" /\ open = FALSE /\ changed = "no"
      /\ failed = FALSE /\ fellBack = FALSE /\ cut = 0 /\ exec.runtime = "none"
  OBVIOUS
<1>7. tick \in 0 .. MaxTick /\ cut \in 0 .. Len(recompiled)
  BY <1>5, <1>6, ExecutorAssumption
<1>8. Phases
  BY <1>6 DEF Phases
<1> HIDE DEF Init
<1>9. TypeOK
  BY <1>1, <1>5, <1>6, <1>7 DEF TypeOK, Executors
<1> QED BY <1>4, <1>6, <1>8, <1>9 DEF IInv

\* What an action that keeps the request has to show.
LEMMA Step ==
  ASSUME IInv, UNCHANGED request,
         Sound(exec'), trace' \in BOOLEAN, exec'.on = trace',
         prepared' \in BOOLEAN, prepared' => Ready(exec'),
         fellBack' \in BOOLEAN, fellBack' => exec'.permanent # "no",
         tick' \in 0 .. MaxTick,
         phase' \in {"rest", "step", "silent"},
         open' \in BOOLEAN, failed' \in BOOLEAN, changed' \in {"no", "state", "topology"},
         recompiled' \in Seq(0 .. MaxTick), cut' \in 0 .. Len(recompiled'),
         Phases'
  PROVE  IInv'
<1>1. mode' = mode /\ experimental' = experimental
  BY DEF request
<1>2. Sound(exec)'
  BY <1>1 DEF Sound, Diagnostic
<1>3. (prepared => Ready(exec))'
  BY <1>1 DEF Ready
<1>4. TypeOK'
  BY <1>1 DEF IInv, TypeOK, Sound, Executors
<1> QED BY <1>2, <1>3, <1>4 DEF IInv

LEMMA Known ==
  ASSUME IInv
  PROVE  /\ Request /\ Sound(exec) /\ Phases /\ exec.on = trace
         /\ trace \in BOOLEAN /\ prepared \in BOOLEAN /\ tick \in 0 .. MaxTick
         /\ fellBack \in BOOLEAN /\ phase \in {"rest", "step", "silent"}
         /\ open \in BOOLEAN /\ failed \in BOOLEAN /\ changed \in {"no", "state", "topology"}
         /\ recompiled \in Seq(0 .. MaxTick) /\ cut \in 0 .. Len(recompiled)
         /\ prepared => Ready(exec)
         /\ fellBack => exec.permanent # "no"
BY DEF IInv, TypeOK, Request

LEMMA SetTraceIInv ==
  ASSUME IInv, SetTrace
  PROVE  IInv'
<1>k. Request /\ Sound(exec) /\ Phases /\ exec.on = trace /\ trace \in BOOLEAN /\ prepared \in BOOLEAN
  BY Known
<1>u. /\ phase = "rest" /\ UNCHANGED <<request, tick, phase, callback, recompiled, fellBack>>
      /\ cut' \in {Len(recompiled), cut}
  BY DEF SetTrace
<1>3. exec.runtime # "stale" /\ ~open /\ changed = "no" /\ ~failed
  BY <1>k, <1>u DEF Phases
\* The other facts Step asks for.
<1>s. ASSUME Sound(exec'), trace' \in BOOLEAN, exec'.on = trace', prepared' \in BOOLEAN,
             prepared' => Ready(exec'), exec.permanent # "no" => exec'.permanent # "no",
             exec'.runtime # "stale"
      PROVE  IInv'
  <2>1. /\ UNCHANGED <<tick, phase, open, changed, failed, recompiled, fellBack>>
        /\ UNCHANGED request
    BY <1>u DEF callback
  <2>2. cut' \in 0 .. Len(recompiled')
    BY <1>u, <2>1, Known, LenProperties
  <2>3. Phases'
    BY <1>s, <1>3, <1>u, <2>1 DEF Phases
  <2> QED BY <1>s, <2>1, <2>2, <2>3, Known, Step
<1>1. PICK on \in BOOLEAN \ {trace}, compiles \in BOOLEAN :
        LET configured == Configure(exec, on)
            new == IF configured.ok /\ prepared
                   THEN PrepareExecution(configured.ex, FALSE, compiles) ELSE configured
            rolledBack == Configure(new.ex, trace)
            old == IF rolledBack.ok /\ prepared
                   THEN PrepareExecution(rolledBack.ex, FALSE, compiles) ELSE rolledBack
        IN /\ trace' = IF new.ok THEN on ELSE trace
           /\ exec' = IF new.ok THEN new.ex ELSE old.ex
           /\ prepared' = (prepared /\ (new.ok \/ old.ok))
  BY DEF SetTrace
<1> DEFINE configured == Configure(exec, on)
           new == IF configured.ok /\ prepared
                  THEN PrepareExecution(configured.ex, FALSE, compiles) ELSE configured
           rolledBack == Configure(new.ex, trace)
           old == IF rolledBack.ok /\ prepared
                  THEN PrepareExecution(rolledBack.ex, FALSE, compiles) ELSE rolledBack
<1>2. /\ trace' = IF new.ok THEN on ELSE trace
      /\ exec' = IF new.ok THEN new.ex ELSE old.ex
      /\ prepared' = (prepared /\ (new.ok \/ old.ok))
  BY <1>1
\* In compiled mode the trace is off and cannot be switched on.
<1>4. CASE mode = "compiled"
  <2>1. Diagnostic(on)
    BY <1>k, <1>4 DEF Sound, Diagnostic
  <2>2. configured.ok = FALSE /\ configured.ex = exec
    BY <1>4, <2>1 DEF Configure, Err
  <2> HIDE DEF configured
  <2>3. new.ok = FALSE /\ new.ex = exec
    BY <2>2
  <2>4. rolledBack.ex = exec /\ rolledBack.ok \in BOOLEAN
    BY <1>k, <2>3 DEF Configure, Ok, Err
  <2> HIDE DEF rolledBack, new
  <2>5. /\ Sound(old.ex) /\ old.ok \in BOOLEAN /\ old.ex.on = trace
        /\ exec.permanent # "no" => old.ex.permanent # "no"
        /\ old.ex.runtime # "stale"
        /\ old.ok /\ prepared => Ready(old.ex)
    <3>1. CASE rolledBack.ok /\ prepared
      BY <1>k, <1>3, <2>4, <3>1, PrepareSound
    <3>2. CASE ~(rolledBack.ok /\ prepared)
      BY <1>k, <1>3, <2>4, <3>2
    <3> QED BY <3>1, <3>2
  <2> HIDE DEF old
  <2>6. exec' = old.ex /\ trace' = trace /\ prepared' = (prepared /\ old.ok)
    BY <1>2, <2>3
  <2> QED BY <1>k, <1>s, <2>5, <2>6
<1>5. CASE mode # "compiled"
  <2>1. /\ Sound(configured.ex) /\ configured.ok = TRUE
        /\ exec.permanent # "no" => configured.ex.permanent # "no"
        /\ configured.ex.runtime # "stale"
        /\ configured.ex.on = on
    BY <1>k, <1>3, <1>5, ConfigureSound
  <2> HIDE DEF configured
  <2>2. /\ Sound(new.ex) /\ new.ok = TRUE
        /\ exec.permanent # "no" => new.ex.permanent # "no"
        /\ new.ex.runtime # "stale"
        /\ new.ex.on = on
        /\ prepared => Ready(new.ex)
    <3>1. CASE prepared
      BY <1>k, <1>5, <2>1, <3>1, PrepareSound
    <3>2. CASE ~prepared
      BY <2>1, <3>2
    <3> QED BY <3>1, <3>2
  <2> HIDE DEF new
  <2>3. exec' = new.ex /\ trace' = on /\ prepared' = prepared
    BY <1>k, <1>2, <2>2
  <2> QED BY <1>k, <1>3, <1>s, <2>2, <2>3
<1> QED BY <1>4, <1>5

LEMMA BeginIInv ==
  ASSUME IInv, Begin
  PROVE  IInv'
<1>k. Request /\ Sound(exec) /\ Phases /\ exec.on = trace /\ prepared \in BOOLEAN /\ tick \in 0 .. MaxTick
      /\ (prepared => Ready(exec))
  BY Known
<1>1. PICK compiles \in BOOLEAN, step \in {0, 1} :
        LET result == PrepareExecution(exec, prepared, compiles)
        IN /\ tick + step <= MaxTick
           /\ exec' = result.ex
           /\ prepared' = result.ok
           /\ phase' = IF result.ok THEN "step" ELSE "rest"
           /\ tick' = IF result.ok THEN tick + step ELSE tick
  BY DEF Begin
<1>u. /\ phase = "rest" /\ UNCHANGED <<request, trace, callback, history>>
  BY DEF Begin
<1> DEFINE result == PrepareExecution(exec, prepared, compiles)
<1>2. /\ tick + step <= MaxTick /\ exec' = result.ex /\ prepared' = result.ok
      /\ phase' = IF result.ok THEN "step" ELSE "rest"
      /\ tick' = IF result.ok THEN tick + step ELSE tick
  BY <1>1
<1>3. ~open /\ changed = "no" /\ ~failed /\ exec.runtime # "stale"
  BY <1>k, <1>u DEF Phases
<1>4. /\ Sound(result.ex) /\ result.ok \in BOOLEAN /\ result.ex.on = exec.on
      /\ exec.permanent # "no" => result.ex.permanent # "no"
      /\ result.ex.runtime # "stale"
      /\ result.ok => Ready(result.ex)
  <2>1. CASE prepared
    <3>1. result.ex = exec /\ result.ok = TRUE
      BY <2>1 DEF PrepareExecution, Ok
    <3> QED BY <1>k, <1>3, <2>1, <3>1
  <2>2. CASE ~prepared
    <3>1. result = PrepareExecution(exec, FALSE, compiles)
      BY <1>k, <2>2
    <3> HIDE DEF result
    <3> QED BY <1>k, <1>3, <3>1, PrepareSound
  <2> QED BY <2>1, <2>2
<1> HIDE DEF result
<1>5. tick' \in 0 .. MaxTick /\ phase' \in {"rest", "step", "silent"}
  BY <1>k, <1>2, ExecutorAssumption
<1>6. UNCHANGED <<request, trace, open, changed, failed, recompiled, cut, fellBack>>
  BY <1>u DEF callback, history
<1>7. Phases'
  BY <1>2, <1>3, <1>4, <1>6 DEF Phases
<1> QED BY <1>2, <1>4, <1>5, <1>6, <1>7, Known, Step

LEMMA ChangeIInv ==
  ASSUME IInv, Change
  PROVE  IInv'
<1>k. Request /\ Sound(exec) /\ Phases /\ exec.on = trace /\ (prepared => Ready(exec))
  BY Known
<1>u. /\ open /\ ~failed /\ changed' \in {"state", "topology"}
      /\ exec' = IF exec.runtime = "none" THEN exec ELSE [exec EXCEPT !.runtime = "stale"]
      /\ UNCHANGED <<request, trace, prepared, tick, phase, open, failed, recompiled, cut, fellBack>>
  BY DEF Change, history
<1>1. /\ exec' \in Executors /\ exec'.on = exec.on /\ exec'.backend = exec.backend
      /\ exec'.permanent = exec.permanent /\ exec'.recent = exec.recent
      /\ exec'.runtime = "none" <=> exec.runtime = "none"
  BY <1>k, <1>u DEF Sound, Executors
<1>2. Sound(exec') /\ (prepared => Ready(exec'))
  BY <1>k, <1>1 DEF Sound, Ready
<1>3. Phases'
  BY <1>k, <1>u DEF Phases
<1> QED BY <1>u, <1>1, <1>2, <1>3, Known, Step

LEMMA PropagationFailsIInv ==
  ASSUME IInv, PropagationFails
  PROVE  IInv'
<1>k. Request /\ Sound(exec) /\ Phases /\ exec.on = trace /\ (prepared => Ready(exec))
  BY Known
<1>u. /\ open /\ ~failed /\ fellBack' = TRUE
      /\ exec.runtime # "none" \/ (mode = "compiled" /\ exec.permanent # "no")
      /\ exec' = IF exec.runtime = "none" THEN exec ELSE FailRuntime(exec, "propagation").ex
      /\ failed' = IF exec.runtime = "none" THEN TRUE ELSE ~FailRuntime(exec, "propagation").ok
      /\ UNCHANGED <<request, trace, prepared, tick, phase, open, changed, recompiled, cut>>
  BY DEF PropagationFails, Err
<1>1. "propagation" \in Reasons \ {"no"}
  BY DEF Reasons
<1>2. LET result == FailRuntime(exec, "propagation")
      IN /\ Sound(result.ex) /\ Ready(result.ex) /\ result.ok \in BOOLEAN
         /\ result.ex.on = exec.on /\ result.ex.runtime = "none" /\ result.ex.permanent # "no"
  BY <1>k, <1>1, FailRuntimeSound DEF Sound
<1>3. /\ Sound(exec') /\ (prepared => Ready(exec')) /\ exec'.on = exec.on
      /\ exec'.runtime = "none" /\ exec'.permanent # "no" /\ failed' \in BOOLEAN
  BY <1>k, <1>u, <1>2
<1>4. Phases'
  BY <1>k, <1>u, <1>3 DEF Phases
<1> QED BY <1>k, <1>u, <1>3, <1>4, Known, Step

LEMMA ReturnIInv ==
  ASSUME IInv, Return
  PROVE  /\ IInv'
         /\ mode = "compiled" /\ phase = "step" /\ changed # "no" /\ phase' = "step"
              => exec'.runtime = "fresh"
<1>k. Request /\ Sound(exec) /\ Phases /\ exec.on = trace /\ (prepared => Ready(exec)) /\ fellBack \in BOOLEAN
      /\ tick \in 0 .. MaxTick /\ (fellBack => exec.permanent # "no") /\ changed \in {"no", "state", "topology"}
      /\ phase \in {"rest", "step", "silent"} /\ recompiled \in Seq(0 .. MaxTick) /\ cut \in 0 .. Len(recompiled)
  BY Known
<1>1. PICK outcome \in Outcomes :
        /\ exec' = AtReturn(outcome).ex
        /\ phase' = IF failed \/ ~AtReturn(outcome).ok THEN "rest" ELSE phase
        /\ recompiled' \in {Append(recompiled, tick), recompiled}
  BY DEF Return
<1>u. /\ open /\ open' = FALSE /\ changed' = "no" /\ failed' = FALSE
      /\ fellBack' = (fellBack \/ (exec.runtime # "none" /\ exec'.runtime = "none"))
      /\ UNCHANGED <<request, trace, prepared, tick, cut>>
  BY DEF Return
<1>2. /\ outcome \in {"unchanged", "updated", "error", "recompiled"}
      /\ outcome = "unchanged" <=> changed = "no"
  BY <1>k DEF Outcomes
<1> DEFINE result == AtReturn(outcome)
<1>3. /\ Sound(result.ex) /\ result.ok \in BOOLEAN /\ result.ex.on = exec.on
      /\ result.ex.runtime # "stale"
      /\ exec.permanent # "no" => result.ex.permanent # "no"
      /\ exec.runtime # "none" /\ result.ex.runtime = "none" => result.ex.permanent # "no"
      /\ Ready(exec) => Ready(result.ex)
      /\ mode = "compiled" /\ Ready(exec) /\ result.ok /\ changed # "no" => result.ex.runtime = "fresh"
  <2>1. CASE outcome = "unchanged"
    <3>1. result.ex = exec /\ result.ok = TRUE
      BY <2>1 DEF AtReturn, Ok
    <3> QED BY <1>k, <1>2, <2>1, <3>1 DEF Phases
  <2>2. CASE outcome # "unchanged"
    <3>1. result = Synchronize(exec, outcome)
      BY <2>2 DEF AtReturn
    <3>2. Synchronized(exec, result)
      BY <1>k, <1>2, <2>2, <3>1, SynchronizeSound
    <3> QED BY <3>2 DEF Synchronized
  <2> QED BY <2>1, <2>2
<1> HIDE DEF result
<1>4. exec' = result.ex /\ phase' = IF failed \/ ~result.ok THEN "rest" ELSE phase
  BY <1>1 DEF result
<1>5. recompiled' \in Seq(0 .. MaxTick) /\ cut' \in 0 .. Len(recompiled')
  <2>1. Append(recompiled, tick) \in Seq(0 .. MaxTick) /\ Len(Append(recompiled, tick)) = Len(recompiled) + 1
    BY <1>k, AppendProperties
  <2>2. Len(recompiled) \in Nat /\ cut' = cut
    BY <1>k, <1>u, LenProperties
  <2>3. CASE recompiled' = Append(recompiled, tick)
    BY <1>k, <2>1, <2>2, <2>3
  <2>4. CASE recompiled' = recompiled
    BY <1>k, <2>2, <2>4
  <2> QED BY <1>1, <2>3, <2>4
<1>6. Phases'
  BY <1>k, <1>u, <1>3, <1>4 DEF Phases
<1>7. fellBack' \in BOOLEAN /\ (fellBack' => exec'.permanent # "no")
  BY <1>k, <1>u, <1>3, <1>4
<1>8. prepared' => Ready(exec')
  BY <1>k, <1>u, <1>3, <1>4
<1>9. phase' \in {"rest", "step", "silent"}
  BY <1>k, <1>4
<1>10. IInv'
  BY <1>k, <1>u, <1>3, <1>4, <1>5, <1>6, <1>7, <1>8, <1>9, Known, Step
<1>11. phase = "step" => Ready(exec)
  BY <1>k DEF Phases
<1> QED BY <1>3, <1>4, <1>10, <1>11

\* The actions that leave the executor alone.
LEMMA QuietIInv ==
  ASSUME IInv, UNCHANGED <<request, trace, prepared, tick, exec, changed, history>>,
         phase' \in {"rest", "step", "silent"}, open' \in BOOLEAN, failed' \in BOOLEAN,
         ~open' => changed = "no" /\ ~failed',
         phase' = "rest" => ~open',
         phase' = "step" => phase = "step"
  PROVE  IInv'
<1>1. Phases'
  BY Known DEF Phases
<1> QED BY <1>1, Known, Step DEF history

LEMMA NextIInv ==
  ASSUME IInv, [Next]_vars
  PROVE  IInv'
<1>k. Phases /\ phase \in {"rest", "step", "silent"} /\ open \in BOOLEAN /\ failed \in BOOLEAN
  BY Known
<1>1. CASE SetTrace
  BY <1>1, SetTraceIInv
<1>2. CASE Begin
  BY <1>2, BeginIInv
<1>3. CASE BeginSilent
  BY <1>3, <1>k, QuietIInv DEF BeginSilent, callback, Phases
<1>4. CASE EnterCallback
  BY <1>4, <1>k, QuietIInv DEF EnterCallback, Phases
<1>5. CASE Change
  BY <1>5, ChangeIInv
<1>6. CASE PropagationFails
  BY <1>6, PropagationFailsIInv
<1>7. CASE RulesFail
  BY <1>7, <1>k, QuietIInv DEF RulesFail, Phases
<1>8. CASE Return
  BY <1>8, ReturnIInv
<1>9. CASE End
  BY <1>9, <1>k, QuietIInv DEF End, callback, Phases
<1>10. CASE UNCHANGED vars
  BY <1>10, <1>k, QuietIInv DEF vars, callback, Phases
<1> QED
  BY <1>1, <1>2, <1>3, <1>4, <1>5, <1>6, <1>7, <1>8, <1>9, <1>10 DEF Next

-----------------------------------------------------------------------------
(* The window. recent_recompilations is the end of the history of           *)
(* recompilations, and what is pruned from its front is out of the window   *)
(* of the last of them.                                                     *)

Dropped == Len(recompiled) - Len(exec.recent)

Tracked ==
  /\ Dropped \in cut .. Len(recompiled)
  /\ \A i \in 1 .. Len(exec.recent) : exec.recent[i] = recompiled[Dropped + i]
  /\ \A i \in cut + 1 .. Dropped : recompiled[Len(recompiled)] - recompiled[i] >= Window

InTickOrder ==
  \A i, j \in 1 .. Len(recompiled) : i <= j => recompiled[i] <= recompiled[j] /\ recompiled[j] <= tick

WInv ==
  /\ mode # "auto" => recompiled = <<>>
  /\ Tracked
  /\ InTickOrder
  /\ exec.permanent = "no" => ~TooMany(cut)
  /\ exec.permanent = "frequent" => TooMany(0)

\* pop_front while the front is out of the window.
LEMMA PrunedEffect ==
  ASSUME NEW s \in Seq(0 .. MaxTick)
  PROVE  \E m \in 0 .. Len(s) :
           /\ Pruned(s) = SubSeq(s, m + 1, Len(s))
           /\ \A i \in 1 .. m : ~InWindow(s[i])
           /\ m < Len(s) => InWindow(s[m + 1])
<1> DEFINE popped == {i \in DOMAIN s : \A j \in 1 .. i : ~InWindow(s[j])}
           m == Cardinality(popped)
<1>1. Len(s) \in Nat /\ DOMAIN s = 1 .. Len(s)
  BY LenProperties
<1>2. \A i \in popped : i \in 1 .. Len(s) /\ 1 .. i \subseteq popped
  BY <1>1
<1>3. \A i \in 1 .. Len(s) : i \in popped <=> \A j \in 1 .. i : ~InWindow(s[j])
  BY <1>1
<1>4. Pruned(s) = SubSeq(s, m + 1, Len(s))
  BY DEF Pruned
<1> HIDE DEF popped
<1>5. popped \subseteq 1 .. Len(s)
  BY <1>2
<1>6. /\ IsFiniteSet(1 .. Len(s)) /\ Cardinality(1 .. Len(s)) = Len(s)
  BY <1>1, FS_Interval
<1>7. IsFiniteSet(popped) /\ m \in Nat /\ m <= Len(s)
  BY <1>5, <1>6, FS_Subset, FS_CardinalityType
<1>8. \A i \in popped : i <= m
  <2> TAKE i \in popped
  <2>1. i \in Nat \ {0} /\ 1 .. i \subseteq popped
    BY <1>1, <1>2
  <2>2. Cardinality(1 .. i) = i
    BY <2>1, FS_Interval
  <2> QED BY <1>7, <2>1, <2>2, FS_Subset
<1> HIDE DEF m
<1>9. popped \subseteq 1 .. m
  BY <1>1, <1>2, <1>7, <1>8
<1>10. IsFiniteSet(1 .. m) /\ Cardinality(1 .. m) = m
  BY <1>7, FS_Interval
<1>11. popped = 1 .. m
  BY <1>9, <1>10, FS_Subset DEF m
<1>12. \A i \in 1 .. m : ~InWindow(s[i])
  BY <1>1, <1>3, <1>7, <1>11
<1>13. m < Len(s) => InWindow(s[m + 1])
  <2> SUFFICES ASSUME m < Len(s), ~InWindow(s[m + 1]) PROVE FALSE
    OBVIOUS
  <2>1. m + 1 \in 1 .. Len(s) /\ m + 1 \notin popped
    BY <1>1, <1>7, <1>11
  <2>2. \A j \in 1 .. m + 1 : j \in 1 .. m \/ j = m + 1
    BY <1>7
  <2> QED BY <1>3, <1>12, <2>1, <2>2
<1> QED BY <1>1, <1>4, <1>7, <1>12, <1>13

\* Neither a preparation nor a failure counts recompilations.
LEMMA PrepareCounts ==
  ASSUME NEW ex \in Executors, NEW done \in BOOLEAN, NEW compiles \in BOOLEAN
  PROVE  LET new == PrepareExecution(ex, done, compiles).ex
         IN  /\ new.recent = ex.recent
             /\ new.permanent \in {ex.permanent, "compile"}
             /\ ex.permanent # "no" => new.permanent = ex.permanent
BY DEF PrepareExecution, Prepare, Ok, Err, Executors

LEMMA FailRuntimeCounts ==
  ASSUME NEW ex \in Executors, NEW reason
  PROVE  LET new == FailRuntime(ex, reason).ex
         IN  new.recent = ex.recent /\ new.permanent = reason
BY DEF FailRuntime, Executors

\* What an action that counts nothing has to show.
LEMMA NothingCounted ==
  ASSUME IInv, WInv, UNCHANGED <<mode, recompiled, cut>>,
         tick' \in Int, tick' >= tick, exec'.recent = exec.recent,
         \/ exec'.permanent = exec.permanent
         \/ exec'.permanent \in {"compile", "synchronization", "propagation"}
  PROVE  WInv'
<1>1. Tracked'
  BY DEF WInv, Tracked, Dropped
<1>2. InTickOrder'
  <2>1. recompiled \in Seq(0 .. MaxTick) /\ tick \in Int
    BY Known
  <2>2. \A i \in 1 .. Len(recompiled) : recompiled[i] \in Int
    <3> TAKE i \in 1 .. Len(recompiled)
    <3>1. recompiled[i] \in 0 .. MaxTick
      BY <2>1, ElementOfSeq
    <3> QED BY <3>1
  <2> QED BY <2>1, <2>2 DEF WInv, InTickOrder
<1> QED BY <1>1, <1>2 DEF WInv, TooMany

\* After a configuration the window is empty.
LEMMA StartsAnew ==
  ASSUME IInv, WInv, UNCHANGED <<mode, recompiled, tick>>,
         cut' = Len(recompiled), exec'.recent = <<>>,
         exec'.permanent \in {exec.permanent, "compile"}
  PROVE  WInv'
<1>1. recompiled \in Seq(0 .. MaxTick) /\ Len(recompiled) \in Nat /\ Len(<<>>) = 0
  BY Known, LenProperties
<1>2. Tracked'
  BY <1>1 DEF Tracked, Dropped
<1>3. InTickOrder'
  BY DEF WInv, InTickOrder
<1>4. ~TooMany(cut)'
  BY <1>1 DEF TooMany
<1> QED BY <1>2, <1>3, <1>4 DEF WInv, TooMany

LEMMA SetTraceCounts ==
  ASSUME IInv, WInv, SetTrace
  PROVE  WInv'
<1>k. Request /\ Sound(exec) /\ Phases /\ exec.on = trace /\ trace \in BOOLEAN /\ prepared \in BOOLEAN
      /\ exec \in Executors /\ recompiled \in Seq(0 .. MaxTick) /\ cut \in 0 .. Len(recompiled)
  BY Known DEF Sound
<1>u. /\ UNCHANGED <<mode, recompiled, tick>>
      /\ cut' = IF exec'.on # exec.on THEN Len(recompiled) ELSE cut
  BY DEF SetTrace, request
<1>1. PICK on \in BOOLEAN \ {trace}, compiles \in BOOLEAN :
        LET configured == Configure(exec, on)
            new == IF configured.ok /\ prepared
                   THEN PrepareExecution(configured.ex, FALSE, compiles) ELSE configured
            rolledBack == Configure(new.ex, trace)
            old == IF rolledBack.ok /\ prepared
                   THEN PrepareExecution(rolledBack.ex, FALSE, compiles) ELSE rolledBack
        IN exec' = IF new.ok THEN new.ex ELSE old.ex
  BY DEF SetTrace
<1> DEFINE configured == Configure(exec, on)
           new == IF configured.ok /\ prepared
                  THEN PrepareExecution(configured.ex, FALSE, compiles) ELSE configured
           rolledBack == Configure(new.ex, trace)
           old == IF rolledBack.ok /\ prepared
                  THEN PrepareExecution(rolledBack.ex, FALSE, compiles) ELSE rolledBack
<1>2. exec' = IF new.ok THEN new.ex ELSE old.ex
  BY <1>1
<1>3. CASE mode = "compiled"
  <2>1. Diagnostic(on)
    BY <1>k, <1>3 DEF Sound, Diagnostic
  <2>2. configured.ok = FALSE /\ configured.ex = exec
    BY <1>3, <2>1 DEF Configure, Err
  <2> HIDE DEF configured
  <2>3. new.ok = FALSE /\ new.ex = exec
    BY <2>2
  <2>4. rolledBack.ex = exec /\ rolledBack.ok \in BOOLEAN
    BY <1>k, <2>3 DEF Configure, Ok, Err
  <2> HIDE DEF rolledBack, new
  <2>5. /\ old.ex.recent = exec.recent /\ old.ex.permanent \in {exec.permanent, "compile"}
    BY <1>k, <2>4, PrepareCounts
  <2>6. recompiled = <<>> /\ Len(recompiled) = 0 /\ cut = 0
    BY <1>3, <1>k DEF WInv
  <2> HIDE DEF old
  <2>7. exec'.recent = exec.recent /\ exec'.permanent \in {exec.permanent, "compile"}
    BY <1>2, <2>3, <2>5
  <2>8. cut' = cut
    BY <1>u, <2>6
  <2> QED BY <1>u, <2>7, <2>8, Known, NothingCounted
<1>4. CASE mode # "compiled"
  <2>1. /\ configured.ok = TRUE /\ configured.ex = Configured(exec, on)
    BY <1>k, <1>4 DEF Configure, Ok
  <2>2. /\ configured.ex.recent = <<>> /\ configured.ex.on = on
        /\ configured.ex.permanent = exec.permanent
    BY <1>k, <2>1 DEF Configured, Executors
  <2>3. Sound(configured.ex) /\ configured.ex \in Executors
    BY <1>k, ConfigureSound DEF Sound
  <2> HIDE DEF configured
  <2>4. new.ok = TRUE /\ new.ex.recent = <<>> /\ new.ex.on = on
        /\ new.ex.permanent \in {exec.permanent, "compile"}
    <3>1. CASE prepared
      <4>1. new = PrepareExecution(configured.ex, FALSE, compiles)
        BY <2>1, <3>1
      <4> HIDE DEF new
      <4>2. new.ok /\ new.ok \in BOOLEAN /\ new.ex.on = on
        BY <1>k, <1>4, <2>2, <2>3, <4>1, PrepareSound
      <4>3. new.ex.recent = <<>> /\ new.ex.permanent \in {exec.permanent, "compile"}
        BY <2>2, <2>3, <4>1, PrepareCounts
      <4> QED BY <4>2, <4>3
    <3>2. CASE ~prepared
      BY <2>1, <2>2, <3>2
    <3> QED BY <3>1, <3>2
  <2> HIDE DEF new
  <2>5. exec'.recent = <<>> /\ exec'.permanent \in {exec.permanent, "compile"} /\ exec'.on = on
    BY <1>2, <2>4
  <2> QED BY <1>k, <1>u, <2>5, StartsAnew
<1> QED BY <1>3, <1>4

\* What the steps below need of arithmetic.
LEMMA NotEarlier == \A a, b, w \in Int : ~(a - b < w) => a - b >= w
  OBVIOUS

LEMMA PastTheEnd == \A n, k, m \in Int : (n - k) + m + (k - m + 1) = n + 1
  OBVIOUS

\* The same about sequences: r is the history, s its end without the first d,
\* q what is left of s when its first m are dropped, t the tick that is added.
IsEnd(s, r, d) == \A i \in 1 .. Len(s) : s[i] = r[d + i]

MovesOn(s, r, t, m, c, d) ==
  LET q == Append(SubSeq(s, m + 1, Len(s)), t)
      h == Append(r, t)
  IN  /\ Len(h) = Len(r) + 1 /\ h[Len(r) + 1] = t
      /\ \A i \in 1 .. Len(r) : h[i] = r[i] /\ h[i] \in Int
      /\ Len(q) = Len(s) - m + 1
      /\ Len(h) - Len(q) = d + m /\ d + m \in c .. Len(r)
      /\ IsEnd(q, h, d + m)

LEMMA EndOfHistory ==
  ASSUME NEW r \in Seq(0 .. MaxTick), NEW s \in Seq(0 .. MaxTick), NEW t \in 0 .. MaxTick,
         NEW c \in Nat, NEW m \in 0 .. Len(s), NEW d \in c .. Len(r), d = Len(r) - Len(s),
         IsEnd(s, r, d)
  PROVE  MovesOn(s, r, t, m, c, d)
<1> DEFINE p == SubSeq(s, m + 1, Len(s))
           q == Append(p, t)
           h == Append(r, t)
           n == Len(r)
           k == Len(s)
<1>1. n \in Nat /\ k \in Nat /\ m \in Int /\ d \in Int
  BY LenProperties
<1>2. Len(h) = n + 1 /\ h[n + 1] = t /\ \A i \in 1 .. n : h[i] = r[i] /\ r[i] \in 0 .. MaxTick
  <2>1. \A i \in 1 .. n : r[i] \in 0 .. MaxTick
    BY ElementOfSeq
  <2>2. Len(h) = n + 1 /\ h[n + 1] = t /\ \A i \in 1 .. n : h[i] = r[i]
    BY AppendProperties
  <2> QED BY <2>1, <2>2
<1>3. \A i \in m + 1 .. k : s[i] \in 0 .. MaxTick
  <2> TAKE i \in m + 1 .. k
  <2>1. i \in 1 .. k
    BY <1>1
  <2> QED BY <2>1, ElementOfSeq
<1>4. /\ p \in Seq(0 .. MaxTick)
      /\ Len(p) = IF m + 1 <= k THEN k - (m + 1) + 1 ELSE 0
      /\ \A i \in 1 .. k - (m + 1) + 1 : p[i] = s[(m + 1) + i - 1]
  BY <1>1, <1>3, SubSeqProperties
<1> HIDE DEF p, h, n, k
<1>5. m \in 0 .. k /\ d = n - k /\ d \in c .. n
  BY DEF n, k
<1>a. \A i \in 1 .. k : s[i] = r[d + i]
  BY DEF n, k, IsEnd
<1>6. Len(p) = k - m
  BY <1>1, <1>4, <1>5
<1>7. ASSUME NEW i \in 1 .. k - m PROVE p[i] = s[m + i]
  <2>1. i \in 1 .. k - (m + 1) + 1 /\ (m + 1) + i - 1 = m + i
    BY <1>1
  <2> QED BY <1>4, <2>1
<1>8. /\ Len(q) = k - m + 1 /\ q[k - m + 1] = t
      /\ \A i \in 1 .. k - m : q[i] = p[i]
  <2>1. Len(q) = Len(p) + 1 /\ q[Len(p) + 1] = t /\ \A i \in 1 .. Len(p) : q[i] = p[i]
    BY <1>4, AppendProperties
  <2> QED BY <1>6, <2>1
<1> HIDE DEF q
<1>9. ASSUME NEW i \in 1 .. Len(q) PROVE q[i] = h[d + m + i]
  <2>1. CASE i = k - m + 1
    <3>1. d + m + (k - m + 1) = n + 1
      <4>1. n \in Int
        BY <1>1
      <4>2. k \in Int
        BY <1>1
      <4>3. d = n - k
        BY <1>5
      <4> QED BY <1>1, <4>1, <4>2, <4>3, PastTheEnd
    <3> QED BY <1>2, <1>8, <2>1, <3>1
  <2>2. CASE i \in 1 .. k - m
    <3>1. m + i \in 1 .. k /\ d + (m + i) = d + m + i /\ d + m + i \in 1 .. n
      BY <1>1, <1>5, <2>2
    <3>2. q[i] = s[m + i]
      BY <1>7, <1>8, <2>2
    <3>3. s[m + i] = r[d + (m + i)]
      BY <1>a, <3>1
    <3>4. h[d + m + i] = r[d + m + i]
      BY <1>2, <3>1
    <3> QED BY <3>1, <3>2, <3>3, <3>4
  <2> QED BY <1>1, <1>8, <2>1, <2>2
<1>10. Len(h) - Len(q) = d + m /\ d + m \in c .. n
  <2>1. (n + 1) - (k - m + 1) = d + m
    BY <1>1, <1>5
  <2>2. d + m \in c .. n
    BY <1>1, <1>5
  <2> QED BY <1>2, <1>8, <2>1, <2>2
<1>11. \A i \in 1 .. n : h[i] = r[i] /\ h[i] \in Int
  BY <1>2
<1> QED BY <1>2, <1>8, <1>9, <1>10, <1>11 DEF h, q, p, n, k, MovesOn, IsEnd

\* A recompilation is counted at the end of the window, and those that fell
\* out of the window are dropped at its front.
LEMMA RecompilationCounts ==
  ASSUME IInv, WInv, mode = "auto", exec.permanent = "no",
         UNCHANGED <<mode, tick, cut>>,
         recompiled' = Append(recompiled, tick),
         exec'.recent = Append(Pruned(exec.recent), tick),
         IF Len(exec'.recent) >= Limit THEN exec'.permanent = "frequent"
                                       ELSE exec'.permanent = "no"
  PROVE  WInv'
<1> DEFINE s == exec.recent
           n == Len(recompiled)
           k == Len(s)
           d == Dropped
           h == recompiled'
<1>k. /\ recompiled \in Seq(0 .. MaxTick) /\ s \in Seq(0 .. MaxTick)
      /\ tick \in 0 .. MaxTick /\ cut \in 0 .. n /\ n \in Nat /\ k \in Nat
  BY Known, LenProperties DEF Sound, Executors
<1>1. PICK m \in 0 .. k :
        /\ Pruned(s) = SubSeq(s, m + 1, k)
        /\ \A i \in 1 .. m : ~InWindow(s[i])
        /\ m < k => InWindow(s[m + 1])
  BY <1>k, PrunedEffect
<1>2. /\ d \in cut .. n /\ d = n - k
      /\ \A i \in 1 .. k : s[i] = recompiled[d + i]
      /\ \A i \in cut + 1 .. d : recompiled[n] - recompiled[i] >= Window
  BY DEF WInv, Tracked, Dropped
<1> HIDE DEF d
<1>3. /\ Len(h) = n + 1 /\ h[n + 1] = tick
      /\ \A i \in 1 .. n : h[i] = recompiled[i] /\ h[i] \in Int
      /\ Len(exec'.recent) = k - m + 1
      /\ Len(h) - Len(exec'.recent) = d + m /\ d + m \in cut .. n
      /\ \A i \in 1 .. Len(exec'.recent) : exec'.recent[i] = h[d + m + i]
  <2>1. cut \in Nat
    BY <1>k
  <2>2. h = Append(recompiled, tick) /\ exec'.recent = Append(SubSeq(s, m + 1, k), tick)
    BY <1>1
  <2> HIDE DEF s, h
  <2>3. m \in 0 .. Len(s) /\ d \in cut .. Len(recompiled) /\ d = Len(recompiled) - Len(s)
    BY <1>2
  <2>4. IsEnd(s, recompiled, d)
    BY <1>2 DEF IsEnd
  <2>5. recompiled \in Seq(0 .. MaxTick) /\ s \in Seq(0 .. MaxTick) /\ tick \in 0 .. MaxTick
    BY <1>k
  <2>6. MovesOn(s, recompiled, tick, m, cut, d)
    BY <2>1, <2>3, <2>4, <2>5, EndOfHistory
  <2> QED BY <2>2, <2>6 DEF MovesOn, IsEnd
<1>o. Window \in Nat \ {0} /\ Limit \in Nat \ {0}
  BY ExecutorAssumption
<1>6. \A i, j \in 1 .. n : i <= j => h[i] <= h[j] /\ h[j] <= tick
  BY <1>3 DEF WInv, InTickOrder
<1>5. k < Limit /\ tick \in Int /\ m \in Int /\ d \in Int /\ cut \in Int
  <2>1. k < Limit
    BY Known DEF Sound
  <2> QED BY <1>k, <1>2, <2>1
<1>s. \A i \in 1 .. k : s[i] = h[d + i] /\ d + i \in 1 .. n
  <2> TAKE i \in 1 .. k
  <2>1. d + i \in 1 .. n
    BY <1>k, <1>2
  <2> QED BY <1>2, <1>3, <2>1
<1>c. /\ \A i \in cut + 1 .. d : h[n] - h[i] >= Window
      /\ ~TooMany(cut)
  <2>2. ~TooMany(cut)
    BY DEF WInv
  <2>3. ASSUME NEW i \in cut + 1 .. d PROVE h[n] - h[i] >= Window
    <3>1. i \in 1 .. n /\ n \in 1 .. n
      BY <1>k, <1>2
    <3>2. recompiled[n] - recompiled[i] >= Window
      BY <1>2
    <3> QED BY <1>3, <3>1, <3>2
  <2> QED BY <2>2, <2>3
<1>d. \A i, j \in cut + 1 .. n : j - i = Limit - 1 => h[j] - h[i] >= Window
  <2> SUFFICES ASSUME NEW i \in cut + 1 .. n, NEW j \in cut + 1 .. n, j - i = Limit - 1
               PROVE  h[j] - h[i] >= Window
    OBVIOUS
  <2>1. ~(recompiled[j] - recompiled[i] < Window)
    BY <1>c DEF TooMany
  <2>2. i \in 1 .. n /\ j \in 1 .. n
    BY <1>k
  <2> QED BY <1>3, <1>o, <2>1, <2>2
<1>e. UNCHANGED <<mode, tick, cut>> /\ Dropped' = d + m
  BY <1>3 DEF Dropped
<1>f. IF k - m + 1 >= Limit THEN exec'.permanent = "frequent" ELSE exec'.permanent = "no"
  BY <1>3
<1>g. m \in 0 .. k
  OBVIOUS
<1>10. \A i \in cut + 1 .. d + m : tick - h[i] >= Window
  <2> SUFFICES ASSUME NEW i \in cut + 1 .. d + m PROVE tick - h[i] >= Window
    OBVIOUS
  <2>1. i \in 1 .. n /\ h[i] \in Int /\ n \in 1 .. n /\ h[n] \in Int /\ h[n] <= tick
    BY <1>k, <1>3, <1>5, <1>6
  <2>2. CASE i \in cut + 1 .. d
    BY <1>5, <1>c, <1>o, <2>1, <2>2
  <2>3. CASE i \in d + 1 .. d + m
    <3>1. i - d \in 1 .. m /\ i - d \in 1 .. k /\ d + (i - d) = i
      BY <1>k, <1>5, <1>g, <2>3
    <3>2. ~InWindow(s[i - d]) /\ s[i - d] = h[i]
      BY <1>1, <1>s, <3>1
    <3>3. ~(tick - h[i] < Window)
      BY <3>2 DEF InWindow
    <3>4. tick \in Int
      BY <1>5
    <3>5. Window \in Int
      BY <1>o
    <3>6. h[i] \in Int
      BY <2>1
    <3> QED BY <3>3, <3>4, <3>5, <3>6, NotEarlier
  <2>4. i \in cut + 1 .. d \/ i \in d + 1 .. d + m
    <3>1. i \in Int /\ cut + 1 <= i /\ i <= d + m
      BY <1>5
    <3> QED BY <1>5, <3>1
  <2> QED BY <2>2, <2>3, <2>4
<1>w. 0 < k /\ m = 0 => InWindow(h[d + 1]) /\ d + 1 \in 1 .. n
  <2> SUFFICES ASSUME 0 < k, m = 0 PROVE InWindow(h[d + 1]) /\ d + 1 \in 1 .. n
    OBVIOUS
  <2>1. 1 \in 1 .. k /\ InWindow(s[1])
    BY <1>k, <1>1
  <2> QED BY <1>s, <2>1
<1>p. /\ mode = "auto" /\ WInv' = (Tracked' /\ InTickOrder'
           /\ (exec'.permanent = "no" => ~TooMany(cut)') /\ (exec'.permanent = "frequent" => TooMany(0)'))
  BY DEF WInv
<1>t. /\ Tracked' <=> /\ Dropped' \in cut .. Len(h)
                      /\ \A i \in 1 .. Len(exec'.recent) : exec'.recent[i] = h[Dropped' + i]
                      /\ \A i \in cut + 1 .. Dropped' : h[Len(h)] - h[i] >= Window
      /\ InTickOrder' <=> \A i, j \in 1 .. Len(h) : i <= j => h[i] <= h[j] /\ h[j] <= tick
      /\ TooMany(cut)' <=> \E i, j \in cut + 1 .. Len(h) : j - i = Limit - 1 /\ h[j] - h[i] < Window
      /\ TooMany(0)' <=> \E i, j \in 0 + 1 .. Len(h) : j - i = Limit - 1 /\ h[j] - h[i] < Window
  BY <1>e DEF Tracked, InTickOrder, TooMany
<1> HIDE DEF s, n, k, h
<1>11. Tracked'
  <2>1. d + m \in cut .. n + 1
    BY <1>k, <1>3
  <2> QED BY <1>3, <1>10, <1>e, <1>t, <2>1
<1>12. InTickOrder'
  <2> SUFFICES ASSUME NEW i \in 1 .. n + 1, NEW j \in 1 .. n + 1, i <= j
               PROVE  h[i] <= h[j] /\ h[j] <= tick
    BY <1>3, <1>t
  <2>1. CASE j = n + 1
    <3>1. CASE i = n + 1
      BY <1>3, <1>5, <2>1, <3>1
    <3>2. CASE i \in 1 .. n
      BY <1>3, <1>5, <1>6, <2>1, <3>2
    <3> QED BY <1>k, <3>1, <3>2
  <2>2. CASE j \in 1 .. n
    <3>1. i \in 1 .. n
      BY <1>k, <2>2
    <3> QED BY <1>6, <2>2, <3>1
  <2> QED BY <1>k, <2>1, <2>2
<1>13. exec'.permanent = "no" => ~TooMany(cut)'
  <2> SUFFICES ASSUME exec'.permanent = "no",
                      NEW i \in cut + 1 .. n + 1, NEW j \in cut + 1 .. n + 1, j - i = Limit - 1
               PROVE  ~(h[j] - h[i] < Window)
    BY <1>3, <1>t
  <2>1. k - m + 1 < Limit
    BY <1>f, <1>k, <1>5, <1>o
  <2>2. CASE j = n + 1
    <3>1. d = n - k
      BY <1>2
    <3>2. i \in cut + 1 .. d + m /\ i \in 1 .. n
      BY <1>k, <1>3, <1>5, <1>o, <2>1, <2>2, <3>1
    <3> QED BY <1>3, <1>5, <1>10, <1>o, <2>2, <3>2
  <2>3. CASE j \in cut + 1 .. n
    <3>1. i \in cut + 1 .. n /\ i \in 1 .. n /\ j \in 1 .. n
      BY <1>k, <1>o, <2>3
    <3>2. h[j] - h[i] >= Window
      BY <1>d, <2>3, <3>1
    <3>3. h[j] \in Int /\ h[i] \in Int
      BY <1>3, <3>1
    <3> QED BY <1>o, <3>2, <3>3
  <2> QED BY <1>k, <1>5, <2>2, <2>3
<1>14. exec'.permanent = "frequent" => TooMany(0)'
  <2> SUFFICES ASSUME k - m + 1 >= Limit PROVE TooMany(0)'
    BY <1>f
  <2>2. m = 0 /\ k = Limit - 1 /\ d = n - k
    BY <1>k, <1>2, <1>5, <1>g, <1>o
  <2> DEFINE i == n + 1 - (Limit - 1)
  <2>3. /\ i \in 0 + 1 .. n + 1 /\ n + 1 \in 0 + 1 .. n + 1 /\ (n + 1) - i = Limit - 1
        /\ i = d + 1
    BY <1>k, <1>5, <1>o, <1>2, <2>2
  <2> HIDE DEF i
  <2>4. h[n + 1] - h[i] < Window
    <3>1. CASE Limit = 1
      <4>1. i = n + 1
        BY <1>k, <2>2, <2>3, <3>1
      <4> QED BY <1>3, <1>5, <1>o, <4>1
    <3>2. CASE Limit # 1
      <4>1. 0 < k
        BY <1>o, <2>2, <3>2
      <4>2. InWindow(h[i])
        BY <1>w, <2>2, <2>3, <4>1
      <4> QED BY <1>3, <4>2 DEF InWindow
    <3> QED BY <3>1, <3>2
  <2> QED BY <1>3, <1>t, <2>3, <2>4
<1> QED BY <1>11, <1>12, <1>13, <1>14, <1>p

LEMMA ReturnCounts ==
  ASSUME IInv, WInv, Return
  PROVE  WInv'
<1>k. Request /\ Sound(exec) /\ exec \in Executors /\ tick \in 0 .. MaxTick
  BY Known DEF Sound
<1>1. PICK outcome \in Outcomes :
        /\ exec' = AtReturn(outcome).ex
        /\ recompiled' = IF outcome = "recompiled" /\ exec.runtime # "none" /\ mode = "auto"
                         THEN Append(recompiled, tick) ELSE recompiled
  BY DEF Return
<1>u. UNCHANGED <<mode, tick, cut>>
  BY DEF Return, request
<1>2. outcome \in {"unchanged", "updated", "error", "recompiled"}
  BY DEF Outcomes
<1>3. CASE \/ outcome = "unchanged" \/ exec.runtime = "none"
           \/ exec.permanent # "no" /\ mode = "compiled"
  <2>1. exec' = exec
    BY <1>1, <1>3 DEF AtReturn, Synchronize, Ok, Err
  <2>2. exec.permanent # "no" => exec.runtime = "none"
    BY <1>k DEF Sound
  <2>3. recompiled' = recompiled
    BY <1>1, <1>3, <2>2
  <2> QED BY <1>k, <1>u, <2>1, <2>3, NothingCounted
<1>4. CASE outcome # "unchanged" /\ exec.runtime # "none"
  <2> DEFINE fresh == [exec EXCEPT !.runtime = "fresh"]
  <2>1. exec.permanent = "no" /\ Len(exec.recent) < Limit
    BY <1>k, <1>4 DEF Sound
  <2>2. /\ fresh \in Executors /\ fresh.recent = exec.recent /\ fresh.permanent = exec.permanent
    BY <1>k DEF Executors
  <2>3. exec' = IF outcome = "error" THEN FailRuntime(exec, "synchronization").ex
                ELSE IF outcome = "recompiled" THEN Recompiled(fresh).ex
                ELSE Ok(fresh).ex
    BY <1>1, <1>4, <2>1 DEF AtReturn, Synchronize
  <2> HIDE DEF fresh
  <2>4. CASE outcome = "error"
    BY <1>1, <1>k, <1>u, <2>3, <2>4, FailRuntimeCounts, NothingCounted
  <2>5. CASE outcome = "updated" \/ (outcome = "recompiled" /\ mode # "auto")
    <3>1. exec' = fresh /\ recompiled' = recompiled
      BY <1>1, <2>3, <2>5 DEF Ok, Recompiled
    <3> QED BY <1>k, <1>u, <2>2, <3>1, NothingCounted
  <2>6. CASE outcome = "recompiled" /\ mode = "auto"
    <3> DEFINE recent == Append(Pruned(exec.recent), tick)
               counted == [fresh EXCEPT !.recent = recent]
    <3>0. recent \in Seq(0 .. MaxTick)
      <4>1. exec.recent \in Seq(0 .. MaxTick)
        BY <1>k DEF Executors
      <4> QED BY <1>k, <4>1, PrunedType, AppendProperties
    <3>1. exec' = IF Len(recent) >= Limit THEN FailRuntime(counted, "frequent").ex ELSE counted
      BY <2>2, <2>3, <2>6 DEF Recompiled, TooOften, Ok
    <3>2. counted \in Executors /\ counted.recent = recent /\ counted.permanent = "no"
      BY <2>1, <2>2, <3>0 DEF Executors
    <3> HIDE DEF counted, recent
    <3>3. exec'.recent = recent /\ IF Len(recent) >= Limit THEN exec'.permanent = "frequent"
                                                           ELSE exec'.permanent = "no"
      BY <3>1, <3>2, FailRuntimeCounts
    <3>4. recompiled' = Append(recompiled, tick)
      BY <1>1, <1>4, <2>6
    <3> QED BY <1>u, <2>1, <2>6, <3>3, <3>4, RecompilationCounts DEF recent
  <2> QED BY <1>2, <1>4, <2>4, <2>5, <2>6
<1> QED BY <1>3, <1>4

LEMMA NextWInv == IInv /\ WInv /\ [Next]_vars => WInv'
<1> SUFFICES ASSUME IInv, WInv, [Next]_vars PROVE WInv'
  OBVIOUS
<1>k. Request /\ exec \in Executors /\ tick \in 0 .. MaxTick /\ prepared \in BOOLEAN
  BY Known DEF Sound
<1>1. CASE SetTrace
  BY <1>1, SetTraceCounts
<1>2. CASE Begin
  <2>1. PICK compiles \in BOOLEAN, step \in {0, 1} :
          /\ tick + step <= MaxTick
          /\ exec' = PrepareExecution(exec, prepared, compiles).ex
          /\ tick' \in {tick + step, tick}
    BY <1>2 DEF Begin
  <2>2. UNCHANGED <<mode, recompiled, cut>>
    BY <1>2 DEF Begin, request, history
  <2> QED BY <1>k, <2>1, <2>2, PrepareCounts, NothingCounted
<1>3. CASE Change
  <2>1. exec'.recent = exec.recent /\ exec'.permanent = exec.permanent
    BY <1>k, <1>3 DEF Change, Executors
  <2> QED BY <1>k, <1>3, <2>1, NothingCounted DEF Change, request, history
<1>4. CASE PropagationFails
  <2>1. exec' = exec \/ exec' = FailRuntime(exec, "propagation").ex
    BY <1>4 DEF PropagationFails, Err
  <2>2. UNCHANGED <<mode, recompiled, cut, tick>>
    BY <1>4 DEF PropagationFails, request
  <2> QED BY <1>k, <2>1, <2>2, FailRuntimeCounts, NothingCounted
<1>5. CASE Return
  BY <1>5, ReturnCounts
<1>6. CASE BeginSilent \/ EnterCallback \/ RulesFail \/ End \/ UNCHANGED vars
  <2>1. UNCHANGED <<mode, exec, tick, recompiled, cut>>
    BY <1>6 DEF BeginSilent, EnterCallback, RulesFail, End, vars, request, history
  <2> QED BY <1>k, <2>1, NothingCounted
<1> QED BY <1>1, <1>2, <1>3, <1>4, <1>5, <1>6 DEF Next

LEMMA InitWInv == Init => WInv
<1> SUFFICES ASSUME Init PROVE WInv
  OBVIOUS
<1>1. /\ recompiled = <<>> /\ Len(recompiled) = 0 /\ cut = 0
      /\ exec.recent = <<>> /\ Len(exec.recent) = 0 /\ exec.permanent = "no"
  BY DEF Init
<1>2. Tracked
  BY <1>1 DEF Tracked, Dropped
<1>3. InTickOrder
  BY <1>1 DEF InTickOrder
<1>4. ~TooMany(cut)
  BY <1>1 DEF TooMany
<1> QED BY <1>1, <1>2, <1>3, <1>4 DEF WInv

-----------------------------------------------------------------------------
LEMMA SpecIInv == Spec => []IInv
  BY InitIInv, NextIInv, PTL DEF Spec

-----------------------------------------------------------------------------
\* The variables keep their types, recent_recompilations its length, and the
\* executor is configured for the trace flag of the simulation.
THEOREM TypeCorrect == Spec => []TypeOK
<1>1. IInv => TypeOK
  BY DEF IInv
<1> QED BY <1>1, SpecIInv, PTL

\* The synchronisation at the end of every callback leaves no stale graph.
THEOREM GraphNeverStale == Spec => []GraphFresh
<1>1. IInv => GraphFresh
  BY DEF IInv, Phases, GraphFresh
<1> QED BY <1>1, SpecIInv, PTL

\* permanent_fallback_reason keeps a graph that was given up from coming back.
THEOREM FallbackPermanent == Spec => []FallbackIsFinal
<1>1. IInv => FallbackIsFinal
  BY DEF IInv, Sound, FallbackIsFinal
<1> QED BY <1>1, SpecIInv, PTL

\* configure keeps the graph away from traces and experimental redstone.
THEOREM DiagnosticsUncompiled == Spec => []DiagnosticsInterpreted
<1>1. ASSUME IInv PROVE DiagnosticsInterpreted
  <2>1. exec.runtime # "none" => mode # "interpreted" /\ ~Diagnostic(exec.on) /\ exec.on = trace
    BY <1>1 DEF IInv, TypeOK, Sound
  <2>2. exec.runtime # "none" => mode # "interpreted" /\ ~experimental /\ ~trace
    BY <2>1 DEF Diagnostic
  <2> QED BY <2>2 DEF DiagnosticsInterpreted
<1> QED BY <1>1, SpecIInv, PTL

\* The graph runs only where configure and the fallback allow it.
THEOREM GraphGuarded == Spec => []GraphOnlyWhereAllowed
  BY FallbackPermanent, DiagnosticsUncompiled, PTL DEF GraphOnlyWhereAllowed

\* The report of auto mode follows the runtime.
THEOREM ReportFollows == Spec => []ReportTruthful
<1>1. IInv => ReportTruthful
  BY DEF IInv, Ready, ReportTruthful
<1> QED BY <1>1, SpecIInv, PTL

\* A callback that changed a block in compiled mode used the graph or failed.
THEOREM NoSilentInterpretation == Spec => CompiledOrError
<1>1. ASSUME IInv, [Next]_vars
      PROVE  [mode = "compiled" /\ phase = "step" /\ changed # "no" /\ ~open' /\ phase' = "step"
                => exec'.runtime = "fresh"]_vars
  <2> SUFFICES ASSUME Next, mode = "compiled", phase = "step", changed # "no", ~open', phase' = "step"
               PROVE  exec'.runtime = "fresh"
    BY <1>1
  <2>1. open
    BY <1>1 DEF IInv, Phases
  <2>2. CASE Return
    BY <1>1, <2>2, ReturnIInv
  <2>3. CASE ~Return
    BY <2>1, <2>3 DEF Next, SetTrace, Begin, BeginSilent, EnterCallback, Change, PropagationFails,
                      RulesFail, End, callback
  <2> QED BY <2>2, <2>3
<1> QED BY <1>1, SpecIInv, PTL DEF Spec, CompiledOrError

\* Pruning the front of recent_recompilations loses nothing: the graph is given
\* up at the Limit-th recompilation within Window ticks, and then only.
THEOREM WindowCounted == Spec => []WindowExact
<1>1. IInv /\ WInv => WindowExact
  BY DEF WInv, WindowExact
<1> QED BY <1>1, InitIInv, NextIInv, InitWInv, NextWInv, PTL DEF Spec

-----------------------------------------------------------------------------
(* What holds a graph together.                                            *)

\* The node of a position.
At(g, p) == Node(g, g.at[p])

IsNodeRecord(n) ==
  n = [pos |-> n.pos, kind |-> n.kind, state |-> n.state, needs |-> n.needs, plan |-> n.plan]

IsSlot(s) ==
  /\ s = [generation |-> s.generation, node |-> s.node] /\ s.generation \in Nat
  /\ s.node # <<>> => IsNodeRecord(s.node) /\ IsFiniteSet(s.node.needs)

Shaped(g) ==
  /\ g = [slots |-> g.slots, free |-> g.free, at |-> g.at, rev |-> g.rev, edges |-> g.edges]
  /\ Len(g.slots) \in Nat /\ g.slots = [i \in 1 .. Len(g.slots) |-> g.slots[i]]
  /\ \A i \in DOMAIN g.slots : IsSlot(g.slots[i])
  /\ g.at = [p \in DOMAIN g.at |-> g.at[p]] /\ g.rev = [p \in DOMAIN g.rev |-> g.rev[p]]

\* A position leads to its slot and a slot to its position; the free slots are
\* the empty ones, each once.
Placing(g) ==
  /\ \A p \in DOMAIN g.at :
       /\ g.at[p][1] \in DOMAIN g.slots
       /\ g.at[p] = <<g.at[p][1], g.slots[g.at[p][1]].generation>>
       /\ g.slots[g.at[p][1]].node # <<>> /\ g.slots[g.at[p][1]].node.pos = p
  /\ \A i \in DOMAIN g.slots :
       g.slots[i].node # <<>> => /\ g.slots[i].node.pos \in DOMAIN g.at
                                 /\ g.at[g.slots[i].node.pos][1] = i
  /\ g.free \in Seq(Nat)
  /\ \A j, k \in DOMAIN g.free : g.free[j] = g.free[k] => j = k
  /\ \A k \in DOMAIN g.free : g.free[k] \in DOMAIN g.slots /\ g.slots[g.free[k]].node = <<>>
  /\ \A i \in DOMAIN g.slots : g.slots[i].node = <<>> => \E k \in DOMAIN g.free : g.free[k] = i

EdgesOf(g, X) == UNION {{p} \X At(g, p).needs : p \in X}

DependentIds(g, X, p) == {g.at[q] : q \in {r \in X : p \in Positions(At(g, r))}}

\* The index has an entry for the nodes of X and for no other.
Indexes(g, X) ==
  /\ X \subseteq DOMAIN g.at
  /\ \A p \in DOMAIN g.rev : g.rev[p] # {} /\ g.rev[p] = DependentIds(g, X, p)
  /\ \A q \in X : Positions(At(g, q)) \subseteq DOMAIN g.rev
  /\ IsFiniteSet(EdgesOf(g, X)) /\ g.edges = Cardinality(EdgesOf(g, X))

Whole(g, X) == Shaped(g) /\ Placing(g) /\ Indexes(g, X)

-----------------------------------------------------------------------------
(* Small facts.                                                            *)

LEMMA RecordNotEmpty == ASSUME NEW n, IsNodeRecord(n) PROVE n # <<>>
<1>1. DOMAIN n = {"pos", "kind", "state", "needs", "plan"} BY DEF IsNodeRecord
<1>2. DOMAIN <<>> = {} OBVIOUS
<1> QED BY <1>1, <1>2

LEMMA LenOfInterval ==
  ASSUME NEW s, NEW n \in Nat, s = [i \in 1 .. n |-> s[i]]
  PROVE  Len(s) = n /\ DOMAIN s = 1 .. n
<1>1. s \in Seq({s[i] : i \in 1 .. n}) OBVIOUS
<1>2. Len(s) \in Nat /\ DOMAIN s = 1 .. Len(s) BY <1>1, LenProperties
<1> QED BY <1>2

LEMMA ShapedDomain == ASSUME NEW g, Shaped(g) PROVE DOMAIN g.slots = 1 .. Len(g.slots)
BY DEF Shaped

\* Two positions have two ids.
LEMMA IdsDiffer ==
  ASSUME NEW g, Placing(g), NEW p \in DOMAIN g.at, NEW q \in DOMAIN g.at, g.at[p] = g.at[q]
  PROVE  p = q
BY DEF Placing

LEMMA NodeFacts ==
  ASSUME NEW g, Shaped(g), Placing(g), NEW p \in DOMAIN g.at
  PROVE  /\ At(g, p) = g.slots[g.at[p][1]].node /\ g.at[p][1] \in DOMAIN g.slots
         /\ At(g, p) # <<>> /\ At(g, p).pos = p
         /\ IsNodeRecord(At(g, p)) /\ IsFiniteSet(At(g, p).needs)
<1>1. /\ g.at[p][1] \in DOMAIN g.slots /\ g.slots[g.at[p][1]].node # <<>>
      /\ g.slots[g.at[p][1]].node.pos = p
  BY DEF Placing
<1>2. IsSlot(g.slots[g.at[p][1]]) BY <1>1 DEF Shaped
<1> QED BY <1>1, <1>2 DEF IsSlot, At, Node

LEMMA RowCount ==
  ASSUME NEW p, NEW S, IsFiniteSet(S)
  PROVE  IsFiniteSet({p} \X S) /\ Cardinality({p} \X S) = Cardinality(S)
<1>1. IsFiniteSet({p}) /\ Cardinality({p}) = 1 BY FS_Singleton
<1>2. Cardinality(S) \in Nat BY FS_CardinalityType
<1>3. IsFiniteSet({p} \X S) /\ Cardinality({p} \X S) = Cardinality({p}) * Cardinality(S)
  BY <1>1, FS_Product
<1> QED BY <1>1, <1>2, <1>3

LEMMA DisjointCount ==
  ASSUME NEW S, NEW T, IsFiniteSet(S), IsFiniteSet(T), S \cap T = {}
  PROVE  /\ IsFiniteSet(S \cup T) /\ Cardinality(S \cup T) = Cardinality(S) + Cardinality(T)
         /\ Cardinality(S) \in Nat /\ Cardinality(T) \in Nat
<1>1. Cardinality(S \cap T) = 0 BY FS_EmptySet
<1>2. Cardinality(S) \in Nat /\ Cardinality(T) \in Nat BY FS_CardinalityType
<1>3. IsFiniteSet(S \cup T)
      /\ Cardinality(S \cup T) = Cardinality(S) + Cardinality(T) - Cardinality(S \cap T)
  BY FS_Union
<1> QED BY <1>1, <1>2, <1>3

\* The edges of one more node.
LEMMA EdgesGrow ==
  ASSUME NEW g, NEW X, NEW p, p \notin X, IsFiniteSet(EdgesOf(g, X)), IsFiniteSet(At(g, p).needs)
  PROVE  /\ IsFiniteSet(EdgesOf(g, X \cup {p}))
         /\ Cardinality(EdgesOf(g, X \cup {p})) = Cardinality(EdgesOf(g, X)) + Cardinality(At(g, p).needs)
         /\ Cardinality(EdgesOf(g, X)) \in Nat /\ Cardinality(At(g, p).needs) \in Nat
<1> DEFINE row == {p} \X At(g, p).needs
<1>1. EdgesOf(g, X \cup {p}) = EdgesOf(g, X) \cup row BY DEF EdgesOf
<1>2. EdgesOf(g, X) \cap row = {}
  <2> SUFFICES ASSUME NEW e \in EdgesOf(g, X), e \in row PROVE FALSE OBVIOUS
  <2>1. PICK q \in X : e \in {q} \X At(g, q).needs BY DEF EdgesOf
  <2> QED BY <2>1
<1>3. IsFiniteSet(row) /\ Cardinality(row) = Cardinality(At(g, p).needs) BY RowCount
<1> HIDE DEF row
<1> QED BY <1>1, <1>2, <1>3, DisjointCount

LEMMA SameEdges ==
  ASSUME NEW g, NEW h, NEW X, \A p \in X : At(h, p).needs = At(g, p).needs
  PROVE  EdgesOf(h, X) = EdgesOf(g, X)
BY DEF EdgesOf

-----------------------------------------------------------------------------
(* What each operation does to a graph.                                    *)

\* The index without one node, of whose edges it had all or there are none.
LEMMA UnindexedWhole ==
  ASSUME NEW g, NEW X, Whole(g, X), NEW p \in DOMAIN g.at, p \in X \/ At(g, p).needs = {}
  PROVE  LET u == Unindexed(g, g.at[p]) IN
         /\ u.slots = g.slots /\ u.free = g.free /\ u.at = g.at
         /\ Whole(u, X \ {p})
<1> DEFINE id == g.at[p]  u == Unindexed(g, id)  here == Positions(At(g, p))
           less == Without(g.rev, here, id)  Y == X \ {p}
<1>1. Shaped(g) /\ Placing(g) /\ Indexes(g, X) BY DEF Whole
<1>2. /\ u = [g EXCEPT !.edges = @ - Cardinality(At(g, p).needs), !.rev = WithoutEmpty(less)]
  BY DEF Unindexed, At
<1>3. /\ u.slots = g.slots /\ u.free = g.free /\ u.at = g.at
      /\ u.rev = WithoutEmpty(less) /\ u.edges = g.edges - Cardinality(At(g, p).needs)
      /\ u = [slots |-> u.slots, free |-> u.free, at |-> u.at, rev |-> u.rev, edges |-> u.edges]
  BY <1>1, <1>2 DEF Shaped
<1> HIDE DEF u
<1>4. /\ DOMAIN less = DOMAIN g.rev
      /\ \A q \in DOMAIN g.rev : less[q] = IF q \in here THEN g.rev[q] \ {id} ELSE g.rev[q]
  BY DEF Without
<1> HIDE DEF less
<1>5. /\ u.rev = [q \in DOMAIN u.rev |-> u.rev[q]]
      /\ DOMAIN u.rev = {q \in DOMAIN g.rev : less[q] # {}}
      /\ \A q \in DOMAIN u.rev : u.rev[q] = less[q] /\ less[q] # {} /\ q \in DOMAIN g.rev
  BY <1>3, <1>4 DEF WithoutEmpty
<1>6. \A q \in DOMAIN u.at : At(u, q) = At(g, q) BY <1>3 DEF At, Node
<1>7. Shaped(u) BY <1>1, <1>3, <1>5 DEF Shaped
<1>8. Placing(u) BY <1>1, <1>3 DEF Placing
<1>9. \A q \in DOMAIN g.rev : less[q] = DependentIds(g, Y, q)
  <2> SUFFICES ASSUME NEW q \in DOMAIN g.rev PROVE less[q] = DependentIds(g, Y, q) OBVIOUS
  <2>1. g.rev[q] = DependentIds(g, X, q) /\ X \subseteq DOMAIN g.at BY <1>1 DEF Indexes
  <2>2. \A r \in X : r # p => g.at[r] # id BY <1>1, <2>1, IdsDiffer
  <2>3. CASE q \in here BY <1>4, <2>1, <2>2, <2>3 DEF DependentIds
  <2>4. CASE q \notin here BY <1>4, <2>1, <2>2, <2>4 DEF DependentIds
  <2> QED BY <2>3, <2>4
<1>10. \A q : DependentIds(u, Y, q) = DependentIds(g, Y, q)
  BY <1>1, <1>3, <1>6 DEF DependentIds, Indexes
<1>11. \A q \in Y : Positions(At(u, q)) \subseteq DOMAIN u.rev
  <2> SUFFICES ASSUME NEW q \in Y, NEW r \in Positions(At(g, q)) PROVE r \in DOMAIN u.rev
    BY <1>1, <1>3, <1>6 DEF Indexes
  <2>1. r \in DOMAIN g.rev BY <1>1 DEF Indexes
  <2>2. g.at[q] \in less[r] BY <1>9, <2>1 DEF DependentIds
  <2> QED BY <1>5, <2>1, <2>2
<1>12. IsFiniteSet(At(g, p).needs) BY <1>1, NodeFacts
<1>13. EdgesOf(u, Y) = EdgesOf(g, Y) BY <1>1, <1>3, <1>6, SameEdges DEF Indexes
<1>14. IsFiniteSet(EdgesOf(g, Y)) /\ u.edges = Cardinality(EdgesOf(g, Y))
  <2>1. IsFiniteSet(EdgesOf(g, X)) /\ g.edges = Cardinality(EdgesOf(g, X)) BY <1>1 DEF Indexes
  <2>2. CASE p \in X
    <3>1. EdgesOf(g, Y) \subseteq EdgesOf(g, X) BY DEF EdgesOf
    <3>2. IsFiniteSet(EdgesOf(g, Y)) BY <2>1, <3>1, FS_Subset
    <3>3. Y \cup {p} = X /\ p \notin Y BY <2>2
    <3> HIDE DEF Y
    <3> QED BY <1>3, <1>12, <2>1, <3>2, <3>3, EdgesGrow
  <2>3. CASE p \notin X
    <3>1. Y = X BY <2>3
    <3>2. Cardinality(At(g, p).needs) = 0 BY <2>3, FS_EmptySet
    <3>3. g.edges \in Nat BY <2>1, FS_CardinalityType
    <3> HIDE DEF Y
    <3> QED BY <1>3, <2>1, <3>1, <3>2, <3>3
  <2> QED BY <2>2, <2>3
<1>15. Indexes(u, Y)
  <2>1. Y \subseteq DOMAIN u.at BY <1>1, <1>3 DEF Indexes
  <2> HIDE DEF Y
  <2> QED BY <1>5, <1>9, <1>10, <1>11, <1>13, <1>14, <2>1 DEF Indexes
<1> QED BY <1>3, <1>7, <1>8, <1>15 DEF Whole, u

\* The index with one more node.
LEMMA IndexedWhole ==
  ASSUME NEW g, NEW X, Whole(g, X), NEW p \in DOMAIN g.at, p \notin X
  PROVE  LET h == Indexed(g, g.at[p]) IN
         /\ h.slots = g.slots /\ h.free = g.free /\ h.at = g.at
         /\ Whole(h, X \cup {p})
<1> DEFINE id == g.at[p]  h == Indexed(g, id)  here == Positions(At(g, p))  Y == X \cup {p}
<1>1. Shaped(g) /\ Placing(g) /\ Indexes(g, X) BY DEF Whole
<1>2. h = [g EXCEPT !.edges = @ + Cardinality(At(g, p).needs),
                    !.rev = [q \in DOMAIN @ \cup here |->
               (IF q \in DOMAIN @ THEN @[q] ELSE {}) \cup (IF q \in here THEN {id} ELSE {})]]
  BY DEF Indexed, At
<1>3. /\ h.slots = g.slots /\ h.free = g.free /\ h.at = g.at
      /\ h.rev = [q \in DOMAIN g.rev \cup here |->
            (IF q \in DOMAIN g.rev THEN g.rev[q] ELSE {}) \cup (IF q \in here THEN {id} ELSE {})]
      /\ h.edges = g.edges + Cardinality(At(g, p).needs)
      /\ h = [slots |-> h.slots, free |-> h.free, at |-> h.at, rev |-> h.rev, edges |-> h.edges]
  BY <1>1, <1>2 DEF Shaped
<1> HIDE DEF h
<1>5. /\ h.rev = [q \in DOMAIN h.rev |-> h.rev[q]] /\ DOMAIN h.rev = DOMAIN g.rev \cup here
      /\ \A q \in DOMAIN h.rev :
           h.rev[q] = (IF q \in DOMAIN g.rev THEN g.rev[q] ELSE {})
                      \cup (IF q \in here THEN {id} ELSE {})
  BY <1>3
<1>6. \A q \in DOMAIN h.at : At(h, q) = At(g, q) BY <1>3 DEF At, Node
<1>7. Shaped(h) BY <1>1, <1>3, <1>5 DEF Shaped
<1>8. Placing(h) BY <1>1, <1>3 DEF Placing
<1>9. \A q \in DOMAIN h.rev : h.rev[q] = DependentIds(g, Y, q)
  <2> SUFFICES ASSUME NEW q \in DOMAIN h.rev PROVE h.rev[q] = DependentIds(g, Y, q) OBVIOUS
  <2>1. (IF q \in DOMAIN g.rev THEN g.rev[q] ELSE {}) = DependentIds(g, X, q)
    <3>1. CASE q \in DOMAIN g.rev BY <1>1, <3>1 DEF Indexes
    <3>2. CASE q \notin DOMAIN g.rev BY <1>1, <3>2 DEF Indexes, DependentIds
    <3> QED BY <3>1, <3>2
  <2>2. (IF q \in here THEN {id} ELSE {}) = DependentIds(g, {p}, q) BY DEF DependentIds
  <2>3. DependentIds(g, Y, q) = DependentIds(g, X, q) \cup DependentIds(g, {p}, q)
    BY DEF DependentIds
  <2> QED BY <1>5, <2>1, <2>2, <2>3
<1>10. \A q : DependentIds(h, Y, q) = DependentIds(g, Y, q)
  BY <1>1, <1>3, <1>6 DEF DependentIds, Indexes
<1>11. \A q \in Y : Positions(At(h, q)) \subseteq DOMAIN h.rev
  BY <1>1, <1>3, <1>5, <1>6 DEF Indexes
<1>12. IsFiniteSet(At(g, p).needs) BY <1>1, NodeFacts
<1>13. EdgesOf(h, Y) = EdgesOf(g, Y) BY <1>1, <1>3, <1>6, SameEdges DEF Indexes
<1>14. IsFiniteSet(EdgesOf(g, Y)) /\ h.edges = Cardinality(EdgesOf(g, Y))
  BY <1>1, <1>3, <1>12, EdgesGrow DEF Indexes
<1>16. \A q \in DOMAIN h.rev : h.rev[q] # {}
  <2> SUFFICES ASSUME NEW q \in DOMAIN h.rev PROVE h.rev[q] # {} OBVIOUS
  <2>1. CASE q \in here BY <1>5, <2>1
  <2>2. CASE q \notin here BY <1>1, <1>5, <2>2 DEF Indexes
  <2> QED BY <2>1, <2>2
<1>15. Indexes(h, Y)
  <2>1. Y \subseteq DOMAIN h.at BY <1>1, <1>3 DEF Indexes
  <2> HIDE DEF Y
  <2> QED BY <1>9, <1>10, <1>11, <1>13, <1>14, <1>16, <2>1 DEF Indexes
<1> QED BY <1>3, <1>7, <1>8, <1>15 DEF Whole, h

\* A node for an empty or a new slot.
InsertedIn(h, g, X, w, p) ==
  /\ Whole(h, X) /\ DOMAIN h.at = DOMAIN g.at \cup {p} /\ At(h, p) = NewNode(w, p)
  /\ \A q \in DOMAIN g.at : h.at[q] = g.at[q] /\ At(h, q) = At(g, q)

LEMMA InsertedWhole ==
  ASSUME NEW g, NEW X, NEW w, NEW p, p \notin DOMAIN g.at, Whole(g, X)
  PROVE  InsertedIn(InsertNode(g, w, p), g, X, w, p)
<1> DEFINE slot == IF g.free = <<>> THEN Len(g.slots) + 1 ELSE Last(g.free)
           rest == IF g.free = <<>> THEN <<>> ELSE Front(g.free)
           gen == Generation(g, slot)  new == [generation |-> gen, node |-> NewNode(w, p)]
           h == InsertNode(g, w, p)
           N == IF g.free = <<>> THEN Len(g.slots) + 1 ELSE Len(g.slots)
<1>1. Shaped(g) /\ Placing(g) /\ Indexes(g, X) BY DEF Whole
<1>2. DOMAIN g.slots = 1 .. Len(g.slots) /\ Len(g.slots) \in Nat /\ g.free \in Seq(Nat)
  BY <1>1, ShapedDomain DEF Shaped, Placing
<1>3. /\ g.free # <<>> => /\ Len(g.free) \in Nat \ {0} /\ DOMAIN g.free = 1 .. Len(g.free)
                          /\ slot = g.free[Len(g.free)] /\ rest = SubSeq(g.free, 1, Len(g.free) - 1)
      /\ g.free = <<>> => DOMAIN g.free = {} /\ Len(g.free) = 0
  BY <1>2, LenProperties, EmptySeq DEF Last, Front
<1>4. /\ rest \in Seq(Nat) /\ DOMAIN rest = {k \in DOMAIN g.free : k < Len(g.free)}
      /\ \A k \in DOMAIN rest : rest[k] = g.free[k]
  <2>1. CASE g.free = <<>> BY <1>3, <2>1
  <2>2. CASE g.free # <<>>
    <3> DEFINE n == Len(g.free) - 1  kept == SubSeq(g.free, 1, n)
    <3>1. n \in Int /\ 1 \in Int /\ \A k \in 1 .. n : g.free[k] \in Nat BY <1>2, <1>3, <2>2
    <3>2. kept \in Seq(Nat) /\ Len(kept) = (IF 1 <= n THEN n - 1 + 1 ELSE 0)
          /\ \A k \in 1 .. n - 1 + 1 : kept[k] = g.free[1 + k - 1]
      <4> HIDE DEF n
      <4> QED BY <3>1, SubSeqProperties
    <3>3. DOMAIN kept = 1 .. Len(kept) BY <3>2, LenProperties
    <3>4. Len(kept) = n /\ n \in Nat
      <4> HIDE DEF kept
      <4> QED BY <1>3, <2>2, <3>2
    <3>5. rest = kept BY <1>3, <2>2
    <3>6. DOMAIN kept = 1 .. n /\ \A k \in 1 .. n : kept[k] = g.free[k]
      <4>1. n - 1 + 1 = n /\ \A k \in 1 .. n : 1 + k - 1 = k BY <3>4
      <4> HIDE DEF kept, n
      <4> QED BY <3>2, <3>3, <3>4, <4>1
    <3>7. {k \in DOMAIN g.free : k < Len(g.free)} = 1 .. n BY <1>3, <2>2
    <3> HIDE DEF rest, kept, n
    <3> QED BY <3>2, <3>5, <3>6, <3>7
  <2> QED BY <2>1, <2>2
<1>5. /\ slot \in 1 .. N /\ 1 .. N = DOMAIN g.slots \cup {slot}
      /\ slot \in DOMAIN g.slots => g.slots[slot].node = <<>>
      /\ \A k \in DOMAIN rest : g.free[k] # slot
  <2>1. CASE g.free = <<>> BY <1>2, <1>3, <1>4, <2>1
  <2>2. CASE g.free # <<>>
    <3>1. Len(g.free) \in DOMAIN g.free BY <1>3, <2>2
    <3>2. slot \in DOMAIN g.slots /\ g.slots[slot].node = <<>> BY <1>1, <1>3, <2>2, <3>1 DEF Placing
    <3>3. \A k \in DOMAIN rest : g.free[k] # slot BY <1>1, <1>3, <1>4, <2>2, <3>1 DEF Placing
    <3> QED BY <1>2, <2>2, <3>2, <3>3
  <2> QED BY <2>1, <2>2
<1>6. gen \in Nat BY <1>1 DEF Generation, Shaped, IsSlot
<1>7. /\ h.slots = [i \in DOMAIN g.slots \cup {slot} |-> IF i = slot THEN new ELSE g.slots[i]]
      /\ h.at = [q \in DOMAIN g.at \cup {p} |-> IF q = p THEN <<slot, gen>> ELSE g.at[q]]
      /\ h.free = rest /\ h.rev = g.rev /\ h.edges = g.edges
      /\ h = [slots |-> h.slots, free |-> h.free, at |-> h.at, rev |-> h.rev, edges |-> h.edges]
  <2>1. CASE g.free = <<>> BY <1>1, <2>1 DEF InsertNode, InsertedAt, Generation, Shaped
  <2>2. CASE g.free # <<>> BY <1>1, <2>2 DEF InsertNode, InsertedAt, Generation, Shaped
  <2> QED BY <2>1, <2>2
<1> HIDE DEF h, gen, rest, slot
<1>8. IsSlot(new) /\ NewNode(w, p) # <<>> /\ NewNode(w, p).pos = p /\ NewNode(w, p).needs = {}
  <2>1. IsNodeRecord(NewNode(w, p)) /\ NewNode(w, p).needs = {} /\ NewNode(w, p).pos = p
    BY DEF IsNodeRecord, NewNode
  <2>2. IsFiniteSet({}) BY FS_EmptySet
  <2> QED BY <1>6, <2>1, <2>2, RecordNotEmpty DEF IsSlot
<1> HIDE DEF new
<1>8a. new.node = NewNode(w, p) /\ new.generation = gen BY DEF new
<1>9. N \in Nat BY <1>2
<1> HIDE DEF N
<1>10. /\ h.slots = [i \in 1 .. N |-> h.slots[i]] /\ DOMAIN h.slots = 1 .. N
       /\ h.slots[slot] = new /\ \A i \in DOMAIN g.slots : i # slot => h.slots[i] = g.slots[i]
       /\ \A i \in DOMAIN h.slots : i # slot => i \in DOMAIN g.slots
  BY <1>5, <1>7
<1>11. Len(h.slots) = N BY <1>9, <1>10, LenOfInterval
<1>12. /\ h.at = [q \in DOMAIN h.at |-> h.at[q]] /\ DOMAIN h.at = DOMAIN g.at \cup {p}
       /\ h.at[p] = <<slot, gen>> /\ \A q \in DOMAIN g.at : h.at[q] = g.at[q]
  BY <1>7
<1>13. Shaped(h)
  <2>1. \A i \in DOMAIN h.slots : IsSlot(h.slots[i]) BY <1>1, <1>8, <1>10 DEF Shaped
  <2> QED BY <1>1, <1>7, <1>9, <1>10, <1>11, <1>12, <2>1 DEF Shaped
<1>14. \A q \in DOMAIN g.at : g.at[q][1] \in DOMAIN g.slots /\ g.at[q][1] # slot
  BY <1>1, <1>5 DEF Placing
<1>15. At(h, p) = NewNode(w, p) BY <1>8a, <1>10, <1>12 DEF At, Node
<1>16. \A q \in DOMAIN g.at : At(h, q) = At(g, q) BY <1>10, <1>12, <1>14 DEF At, Node
<1>17. Placing(h)
  <2>1. ASSUME NEW q \in DOMAIN h.at
        PROVE  /\ h.at[q][1] \in DOMAIN h.slots
               /\ h.at[q] = <<h.at[q][1], h.slots[h.at[q][1]].generation>>
               /\ h.slots[h.at[q][1]].node # <<>> /\ h.slots[h.at[q][1]].node.pos = q
    <3>1. CASE q = p BY <1>5, <1>8, <1>8a, <1>10, <1>12, <3>1
    <3>2. CASE q # p
      <4>1. q \in DOMAIN g.at BY <1>12, <3>2
      <4>2. h.at[q] = g.at[q] /\ g.at[q][1] \in DOMAIN h.slots BY <1>5, <1>10, <1>12, <1>14, <4>1
      <4>3. h.slots[g.at[q][1]] = g.slots[g.at[q][1]] BY <1>10, <1>14, <4>1
      <4>4. /\ g.at[q] = <<g.at[q][1], g.slots[g.at[q][1]].generation>>
            /\ g.slots[g.at[q][1]].node # <<>> /\ g.slots[g.at[q][1]].node.pos = q
        BY <1>1, <4>1 DEF Placing
      <4> QED BY <4>2, <4>3, <4>4
    <3> QED BY <3>1, <3>2
  <2>2. ASSUME NEW i \in DOMAIN h.slots, h.slots[i].node # <<>>
        PROVE  h.slots[i].node.pos \in DOMAIN h.at /\ h.at[h.slots[i].node.pos][1] = i
    <3>1. CASE i = slot BY <1>8, <1>8a, <1>10, <1>12, <3>1
    <3>2. CASE i # slot
      <4>1. i \in DOMAIN g.slots /\ h.slots[i] = g.slots[i] BY <1>10, <3>2
      <4> QED BY <1>1, <1>12, <2>2, <4>1 DEF Placing
    <3> QED BY <3>1, <3>2
  <2>3. \A k \in DOMAIN h.free : h.free[k] \in DOMAIN h.slots /\ h.slots[h.free[k]].node = <<>>
    <3>1. TAKE k \in DOMAIN h.free
    <3>2. h.free[k] = g.free[k] /\ k \in DOMAIN g.free /\ g.free[k] # slot BY <1>4, <1>5, <1>7
    <3>3. g.free[k] \in DOMAIN g.slots /\ g.slots[g.free[k]].node = <<>> BY <1>1, <3>2 DEF Placing
    <3> QED BY <1>5, <1>10, <3>2, <3>3
  <2>4. ASSUME NEW i \in DOMAIN h.slots, h.slots[i].node = <<>>
        PROVE  \E k \in DOMAIN h.free : h.free[k] = i
    <3>1. i # slot BY <1>8, <1>8a, <1>10, <2>4
    <3>2. i \in DOMAIN g.slots /\ g.slots[i].node = <<>> BY <1>10, <2>4, <3>1
    <3>3. PICK k \in DOMAIN g.free : g.free[k] = i BY <1>1, <3>2 DEF Placing
    <3>4. CASE g.free = <<>> BY <1>3, <3>3, <3>4
    <3>5. CASE g.free # <<>>
      <4>1. k # Len(g.free) BY <1>3, <3>1, <3>3, <3>5
      <4>2. k < Len(g.free) BY <1>3, <3>3, <3>5, <4>1
      <4> QED BY <1>4, <1>7, <3>3, <4>2
    <3> QED BY <3>4, <3>5
  <2>5. \A j, k \in DOMAIN h.free : h.free[j] = h.free[k] => j = k
    BY <1>1, <1>4, <1>7 DEF Placing
  <2> QED BY <1>4, <1>7, <2>1, <2>2, <2>3, <2>4, <2>5 DEF Placing
<1>18. Indexes(h, X)
  <2>1. \A q : DependentIds(h, X, q) = DependentIds(g, X, q)
    BY <1>1, <1>12, <1>16 DEF DependentIds, Indexes
  <2>2. EdgesOf(h, X) = EdgesOf(g, X) BY <1>1, <1>16, SameEdges DEF Indexes
  <2> QED BY <1>1, <1>7, <1>12, <1>16, <2>1, <2>2 DEF Indexes
<1> QED BY <1>12, <1>13, <1>15, <1>16, <1>17, <1>18 DEF Whole, InsertedIn, h

LEMMA FreeSlot ==
  ASSUME NEW k \in Nat
  PROVE  IsSlot([generation |-> k, node |-> <<>>])
BY DEF IsSlot

LEMMA UsedSlot ==
  ASSUME NEW s, IsSlot(s), NEW n, IsNodeRecord(n), IsFiniteSet(n.needs)
  PROVE  /\ [s EXCEPT !.node = n].generation = s.generation /\ [s EXCEPT !.node = n].node = n
         /\ IsSlot([s EXCEPT !.node = n]) /\ n # <<>>
<1>1. s = [generation |-> s.generation, node |-> s.node] /\ s.generation \in Nat BY DEF IsSlot
<1>2. [s EXCEPT !.node = n] = [generation |-> s.generation, node |-> n] BY <1>1
<1> QED BY <1>1, <1>2, RecordNotEmpty DEF IsSlot

\* The slot of a node that is not indexed becomes free.
LEMMA EmptiedWhole ==
  ASSUME NEW g, NEW X, Whole(g, X), NEW p \in DOMAIN g.at, p \notin X
  PROVE  LET h == Emptied(g, g.at[p]) IN
         /\ Whole(h, X) /\ DOMAIN h.at = DOMAIN g.at \ {p}
         /\ \A q \in DOMAIN h.at : h.at[q] = g.at[q] /\ At(h, q) = At(g, q)
<1> DEFINE slot == g.at[p][1]  h == Emptied(g, g.at[p])
           void == [generation |-> g.slots[slot].generation + 1, node |-> <<>>]
<1>1. Shaped(g) /\ Placing(g) /\ Indexes(g, X) BY DEF Whole
<1>2. /\ DOMAIN g.slots = 1 .. Len(g.slots) /\ Len(g.slots) \in Nat /\ g.free \in Seq(Nat)
      /\ slot \in DOMAIN g.slots /\ g.slots[slot].node # <<>> /\ g.slots[slot].node.pos = p
      /\ Node(g, g.at[p]).pos = p
  BY <1>1, ShapedDomain DEF Shaped, Placing, Node
<1>3. /\ h.slots = [g.slots EXCEPT ![slot] = void]
      /\ h.free = Append(g.free, slot)
      /\ h.at = [q \in DOMAIN g.at \ {p} |-> g.at[q]] /\ h.rev = g.rev /\ h.edges = g.edges
      /\ h = [slots |-> h.slots, free |-> h.free, at |-> h.at, rev |-> h.rev, edges |-> h.edges]
  <2> DEFINE slots == [g.slots EXCEPT ![slot] = void]  free == Append(g.free, slot)
             at == [q \in DOMAIN g.at \ {p} |-> g.at[q]]
  <2>1. h = [g EXCEPT !.slots = slots, !.free = free, !.at = at] BY <1>2 DEF Emptied
  <2> HIDE DEF h, slots, free, at
  <2>2. /\ h.slots = slots /\ h.free = free /\ h.at = at /\ h.rev = g.rev /\ h.edges = g.edges
        /\ h = [slots |-> h.slots, free |-> h.free, at |-> h.at, rev |-> h.rev, edges |-> h.edges]
    BY <1>1, <2>1 DEF Shaped
  <2> QED BY <2>2 DEF slots, free, at
<1>4. void.generation \in Nat /\ void.node = <<>> /\ IsSlot(void)
  <2>1. g.slots[slot].generation \in Nat BY <1>1, <1>2 DEF Shaped, IsSlot
  <2>2. g.slots[slot].generation + 1 \in Nat BY <2>1
  <2> QED BY <2>2, FreeSlot
<1> HIDE DEF h, void
<1>5. slot \in Nat BY <1>2
<1> HIDE DEF slot
<1>6. /\ h.free \in Seq(Nat) /\ DOMAIN h.free = 1 .. Len(g.free) + 1 /\ DOMAIN g.free = 1 .. Len(g.free)
      /\ h.free[Len(g.free) + 1] = slot /\ \A k \in DOMAIN g.free : h.free[k] = g.free[k]
      /\ Len(g.free) \in Nat
  BY <1>2, <1>3, <1>5
<1>7. /\ h.slots = [i \in 1 .. Len(g.slots) |-> h.slots[i]] /\ DOMAIN h.slots = DOMAIN g.slots
      /\ h.slots[slot] = void /\ \A i \in DOMAIN g.slots : i # slot => h.slots[i] = g.slots[i]
  BY <1>1, <1>2, <1>3 DEF Shaped
<1>8. Len(h.slots) = Len(g.slots) BY <1>2, <1>7, LenOfInterval
<1>9. /\ h.at = [q \in DOMAIN h.at |-> h.at[q]] /\ DOMAIN h.at = DOMAIN g.at \ {p}
      /\ \A q \in DOMAIN h.at : h.at[q] = g.at[q]
  BY <1>3
<1>10. Shaped(h) BY <1>1, <1>2, <1>3, <1>4, <1>7, <1>8, <1>9 DEF Shaped
<1>11. \A q \in DOMAIN h.at : q \in DOMAIN g.at /\ g.at[q][1] \in DOMAIN g.slots /\ g.at[q][1] # slot
  BY <1>1, <1>2, <1>9 DEF Placing
<1>12. \A q \in DOMAIN h.at : At(h, q) = At(g, q) BY <1>7, <1>9, <1>11 DEF At, Node
<1>13. Placing(h)
  <2>1. ASSUME NEW q \in DOMAIN h.at
        PROVE  /\ h.at[q][1] \in DOMAIN h.slots
               /\ h.at[q] = <<h.at[q][1], h.slots[h.at[q][1]].generation>>
               /\ h.slots[h.at[q][1]].node # <<>> /\ h.slots[h.at[q][1]].node.pos = q
    <3>1. h.at[q] = g.at[q] /\ q \in DOMAIN g.at BY <1>9
    <3>2. h.slots[g.at[q][1]] = g.slots[g.at[q][1]] BY <1>7, <1>11
    <3>3. /\ g.at[q][1] \in DOMAIN g.slots
          /\ g.at[q] = <<g.at[q][1], g.slots[g.at[q][1]].generation>>
          /\ g.slots[g.at[q][1]].node # <<>> /\ g.slots[g.at[q][1]].node.pos = q
      BY <1>1, <3>1 DEF Placing
    <3> QED BY <1>7, <3>1, <3>2, <3>3
  <2>2. ASSUME NEW i \in DOMAIN h.slots, h.slots[i].node # <<>>
        PROVE  h.slots[i].node.pos \in DOMAIN h.at /\ h.at[h.slots[i].node.pos][1] = i
    <3>1. i # slot BY <1>4, <1>7, <2>2
    <3>2. i \in DOMAIN g.slots /\ h.slots[i] = g.slots[i] BY <1>7, <3>1
    <3>3. g.slots[i].node.pos \in DOMAIN g.at /\ g.at[g.slots[i].node.pos][1] = i
      BY <1>1, <2>2, <3>2 DEF Placing
    <3>4. g.slots[i].node.pos # p BY <3>1, <3>3 DEF slot
    <3> QED BY <1>9, <3>2, <3>3, <3>4
  <2>3. \A k \in DOMAIN h.free : h.free[k] \in DOMAIN h.slots /\ h.slots[h.free[k]].node = <<>>
    <3>1. TAKE k \in DOMAIN h.free
    <3>2. CASE k = Len(g.free) + 1 BY <1>2, <1>4, <1>6, <1>7, <3>2
    <3>3. CASE k # Len(g.free) + 1
      <4>1. k \in DOMAIN g.free BY <1>6, <3>3
      <4>2. g.free[k] \in DOMAIN g.slots /\ g.slots[g.free[k]].node = <<>>
        BY <1>1, <4>1 DEF Placing
      <4> QED BY <1>2, <1>6, <1>7, <4>1, <4>2
    <3> QED BY <3>2, <3>3
  <2>4. ASSUME NEW i \in DOMAIN h.slots, h.slots[i].node = <<>>
        PROVE  \E k \in DOMAIN h.free : h.free[k] = i
    <3>1. CASE i = slot
      <4>1. Len(g.free) + 1 \in DOMAIN h.free BY <1>6
      <4> QED BY <1>6, <3>1, <4>1
    <3>2. CASE i # slot
      <4>1. i \in DOMAIN g.slots /\ g.slots[i].node = <<>> BY <1>7, <2>4, <3>2
      <4>2. PICK k \in DOMAIN g.free : g.free[k] = i BY <1>1, <4>1 DEF Placing
      <4>3. k \in DOMAIN h.free BY <1>6
      <4> QED BY <1>6, <4>2, <4>3
    <3> QED BY <3>1, <3>2
  <2>5. \A j, k \in DOMAIN h.free : h.free[j] = h.free[k] => j = k
    <3>1. \A k \in DOMAIN g.free : g.free[k] # slot BY <1>1, <1>2 DEF Placing
    <3>2. \A k \in DOMAIN h.free : k \in DOMAIN g.free \/ k = Len(g.free) + 1 BY <1>6
    <3>3. \A j, k \in DOMAIN g.free : g.free[j] = g.free[k] => j = k BY <1>1 DEF Placing
    <3> QED BY <1>6, <3>1, <3>2, <3>3
  <2> QED BY <1>6, <2>1, <2>2, <2>3, <2>4, <2>5 DEF Placing
<1>14. Indexes(h, X)
  <2>1. X \subseteq DOMAIN h.at BY <1>1, <1>9 DEF Indexes
  <2>2. \A q : DependentIds(h, X, q) = DependentIds(g, X, q)
    BY <1>9, <1>12, <2>1 DEF DependentIds
  <2>3. EdgesOf(h, X) = EdgesOf(g, X) BY <1>12, <2>1, SameEdges
  <2> QED BY <1>1, <1>3, <1>12, <2>1, <2>2, <2>3 DEF Indexes
<1> QED BY <1>9, <1>10, <1>12, <1>13, <1>14 DEF Whole, h

LEMMA RemovedWhole ==
  ASSUME NEW g, NEW X, Whole(g, X), NEW p \in DOMAIN g.at, p \in X \/ At(g, p).needs = {}
  PROVE  LET h == RemoveNode(g, g.at[p]) IN
         /\ Whole(h, X \ {p}) /\ DOMAIN h.at = DOMAIN g.at \ {p}
         /\ \A q \in DOMAIN h.at : h.at[q] = g.at[q] /\ At(h, q) = At(g, q)
<1> DEFINE u == Unindexed(g, g.at[p])
<1>1. u.slots = g.slots /\ u.at = g.at /\ Whole(u, X \ {p}) BY UnindexedWhole
<1>2. RemoveNode(g, g.at[p]) = Emptied(u, u.at[p]) BY <1>1 DEF RemoveNode
<1>3. \A q \in DOMAIN g.at : At(u, q) = At(g, q) BY <1>1 DEF At, Node
<1> HIDE DEF u
<1>4. p \notin X \ {p} /\ p \in DOMAIN u.at BY <1>1
<1> QED BY <1>1, <1>2, <1>3, <1>4, EmptiedWhole

\* Another node in the slot of a position, with the needs of the one before
\* it unless they are not indexed.
LEMMA WithNodeWhole ==
  ASSUME NEW g, NEW X, Whole(g, X), NEW p \in DOMAIN g.at,
         NEW n, IsNodeRecord(n), n.pos = p, IsFiniteSet(n.needs), p \notin X \/ n.needs = At(g, p).needs
  PROVE  LET h == WithNode(g, g.at[p], n) IN
         /\ Whole(h, X) /\ h.at = g.at /\ At(h, p) = n
         /\ \A q \in DOMAIN g.at : q # p => At(h, q) = At(g, q)
<1> DEFINE slot == g.at[p][1]  h == WithNode(g, g.at[p], n)
           new == [g.slots[slot] EXCEPT !.node = n]
<1>1. Shaped(g) /\ Placing(g) /\ Indexes(g, X) BY DEF Whole
<1>2. /\ DOMAIN g.slots = 1 .. Len(g.slots) /\ Len(g.slots) \in Nat
      /\ slot \in DOMAIN g.slots /\ g.slots[slot].node # <<>> /\ g.slots[slot].node.pos = p
      /\ IsSlot(g.slots[slot])
  BY <1>1, ShapedDomain DEF Shaped, Placing
<1>3. /\ h.slots = [g.slots EXCEPT ![slot] = new]
      /\ h.free = g.free /\ h.at = g.at /\ h.rev = g.rev /\ h.edges = g.edges
      /\ h = [slots |-> h.slots, free |-> h.free, at |-> h.at, rev |-> h.rev, edges |-> h.edges]
  <2> DEFINE slots == [g.slots EXCEPT ![slot] = new]
  <2>1. h = [g EXCEPT !.slots = slots] BY <1>2 DEF WithNode
  <2> HIDE DEF h, slots
  <2>2. /\ h.slots = slots /\ h.free = g.free /\ h.at = g.at /\ h.rev = g.rev /\ h.edges = g.edges
        /\ h = [slots |-> h.slots, free |-> h.free, at |-> h.at, rev |-> h.rev, edges |-> h.edges]
    BY <1>1, <2>1 DEF Shaped
  <2> QED BY <2>2 DEF slots
<1>4. new.generation = g.slots[slot].generation /\ new.node = n /\ n # <<>> /\ IsSlot(new)
  BY <1>2, UsedSlot
<1> HIDE DEF h, new, slot
<1>7. /\ h.slots = [i \in 1 .. Len(g.slots) |-> h.slots[i]] /\ DOMAIN h.slots = DOMAIN g.slots
      /\ h.slots[slot] = new /\ \A i \in DOMAIN g.slots : i # slot => h.slots[i] = g.slots[i]
  BY <1>1, <1>2, <1>3 DEF Shaped
<1>8. Len(h.slots) = Len(g.slots) BY <1>2, <1>7, LenOfInterval
<1>9. Shaped(h) BY <1>1, <1>2, <1>3, <1>4, <1>7, <1>8 DEF Shaped
<1>10. \A i \in DOMAIN g.slots : /\ h.slots[i].generation = g.slots[i].generation
                                 /\ h.slots[i].node = <<>> <=> g.slots[i].node = <<>>
                                 /\ h.slots[i].node.pos = g.slots[i].node.pos
  BY <1>2, <1>4, <1>7
<1>11. Placing(h)
  <2>1. \A q \in DOMAIN h.at :
               /\ h.at[q][1] \in DOMAIN h.slots
               /\ h.at[q] = <<h.at[q][1], h.slots[h.at[q][1]].generation>>
               /\ h.slots[h.at[q][1]].node # <<>> /\ h.slots[h.at[q][1]].node.pos = q
    <3>1. TAKE q \in DOMAIN h.at
    <3>2. /\ g.at[q][1] \in DOMAIN g.slots
          /\ g.at[q] = <<g.at[q][1], g.slots[g.at[q][1]].generation>>
          /\ g.slots[g.at[q][1]].node # <<>> /\ g.slots[g.at[q][1]].node.pos = q
      BY <1>1, <1>3 DEF Placing
    <3> QED BY <1>3, <1>7, <1>10, <3>2
  <2>2. \A i \in DOMAIN h.slots : h.slots[i].node # <<>> =>
          h.slots[i].node.pos \in DOMAIN h.at /\ h.at[h.slots[i].node.pos][1] = i
    BY <1>1, <1>3, <1>7, <1>10 DEF Placing
  <2>3. \A k \in DOMAIN h.free : h.free[k] \in DOMAIN h.slots /\ h.slots[h.free[k]].node = <<>>
    BY <1>1, <1>3, <1>7, <1>10 DEF Placing
  <2>4. \A i \in DOMAIN h.slots : h.slots[i].node = <<>> => \E k \in DOMAIN h.free : h.free[k] = i
    BY <1>1, <1>3, <1>7, <1>10 DEF Placing
  <2> QED BY <1>1, <1>3, <2>1, <2>2, <2>3, <2>4 DEF Placing
<1>12. At(h, p) = n BY <1>3, <1>4, <1>7 DEF At, Node, slot
<1>13. \A q \in DOMAIN g.at : q # p => At(h, q) = At(g, q)
  <2>1. \A q \in DOMAIN g.at : q # p => g.at[q][1] # slot /\ g.at[q][1] \in DOMAIN g.slots
    BY <1>1, <1>2 DEF Placing
  <2> QED BY <1>3, <1>7, <2>1 DEF At, Node
<1>14. At(g, p).pos = p BY <1>1, NodeFacts
<1>15. \A q \in X : Positions(At(h, q)) = Positions(At(g, q)) /\ At(h, q).needs = At(g, q).needs
  BY <1>1, <1>12, <1>13, <1>14 DEF Positions, Indexes
<1>16. Indexes(h, X)
  <2>1. \A q : DependentIds(h, X, q) = DependentIds(g, X, q) BY <1>3, <1>15 DEF DependentIds
  <2>2. EdgesOf(h, X) = EdgesOf(g, X) BY <1>15, SameEdges
  <2> QED BY <1>1, <1>3, <1>15, <2>1, <2>2 DEF Indexes
<1> QED BY <1>3, <1>9, <1>11, <1>12, <1>13, <1>16 DEF Whole, h

-----------------------------------------------------------------------------
(* What a node knows of a world.                                           *)

IsWorld(w) ==
  /\ IsFiniteSet(DOMAIN w) /\ DOMAIN w \subseteq Int \X Int \X Int
  /\ w = [p \in DOMAIN w |-> w[p]] /\ \A p \in DOMAIN w : IsBlock(w[p])

LEMMA ImageFinite ==
  ASSUME NEW S, IsFiniteSet(S), NEW f
  PROVE  IsFiniteSet({f[x] : x \in S})
<1> DEFINE T == {f[x] : x \in S}  h == [x \in S |-> f[x]]
<1>1. h \in Surjection(S, T) BY DEF Surjection
<1> HIDE DEF h, T
<1>2. IsFiniteSet(T) BY <1>1, FS_Surjection
<1> QED BY <1>2 DEF T

LEMMA FewFinite == \A a, b, c, d, e, f : IsFiniteSet({a, b, c, d, e, f})
<1> TAKE a, b, c, d, e, f
<1>1. IsFiniteSet({a}) BY FS_Singleton
<1>2. IsFiniteSet({a} \cup {b}) BY <1>1, FS_AddElement
<1>3. IsFiniteSet(({a} \cup {b}) \cup {c}) BY <1>2, FS_AddElement
<1>4. IsFiniteSet((({a} \cup {b}) \cup {c}) \cup {d}) BY <1>3, FS_AddElement
<1>5. IsFiniteSet(((({a} \cup {b}) \cup {c}) \cup {d}) \cup {e}) BY <1>4, FS_AddElement
<1>6. IsFiniteSet((((({a} \cup {b}) \cup {c}) \cup {d}) \cup {e}) \cup {f}) BY <1>5, FS_AddElement
<1>7. {a, b, c, d, e, f} = (((({a} \cup {b}) \cup {c}) \cup {d}) \cup {e}) \cup {f} OBVIOUS
<1> QED BY <1>6, <1>7

LEMMA DirectionsFinite == IsFiniteSet(Directions)
<1>1. Directions = {"north", "east", "south", "west", "down", "up"} BY DEF Directions, Horizontal
<1> QED BY <1>1, FewFinite

Around(p) == {Next6(p, d) : d \in Directions}

LEMMA AroundFinite == ASSUME NEW p PROVE IsFiniteSet(Around(p))
<1> DEFINE f == [d \in Directions |-> Next6(p, d)]
<1>1. Around(p) = {f[d] : d \in Directions} BY DEF Around
<1> HIDE DEF f
<1> QED BY <1>1, DirectionsFinite, ImageFinite

LEMMA WireNeighborsIn == ASSUME NEW w, NEW p PROVE WireNeighbors(w, p) \subseteq DOMAIN w
<1> SUFFICES ASSUME NEW q \in WireNeighbors(w, p) PROVE q \in DOMAIN w OBVIOUS
<1>1. IsWire(Block(w, q)) BY DEF WireNeighbors
<1> QED BY <1>1 DEF IsWire, Block, Air

LEMMA WireDependenciesFinite ==
  ASSUME NEW w, IsFiniteSet(DOMAIN w), NEW p
  PROVE  IsFiniteSet(WireDependencies(w, p))
<1> DEFINE f == [d \in Directions |-> BlockInput(w, Next6(p, d)).sources]
<1>1. WireDependencies(w, p) = (Around(p) \cup WireNeighbors(w, p)) \cup UNION {f[d] : d \in Directions}
  BY DEF WireDependencies, Around
<1>2. \A d \in Directions : IsFiniteSet(f[d])
  <2> TAKE d \in Directions
  <2>1. f[d] \subseteq Around(Next6(p, d)) BY DEF BlockInput, Around
  <2> HIDE DEF f
  <2> QED BY <2>1, AroundFinite, FS_Subset
<1> HIDE DEF f
<1>3. IsFiniteSet({f[d] : d \in Directions}) BY DirectionsFinite, ImageFinite
<1> DEFINE F == {f[d] : d \in Directions}
<1>4. \A T \in F : IsFiniteSet(T) BY <1>2
<1>5. IsFiniteSet(UNION F)
  <2> HIDE DEF F
  <2>1. IsFiniteSet(F) BY <1>3 DEF F
  <2> QED BY <1>4, <2>1, FS_UNION
<1>6. IsFiniteSet(WireNeighbors(w, p)) BY WireNeighborsIn, FS_Subset
<1>7. IsFiniteSet(Around(p) \cup WireNeighbors(w, p)) BY <1>6, AroundFinite, FS_Union
<1> DEFINE some == Around(p) \cup WireNeighbors(w, p)  more == UNION F
<1>8. IsFiniteSet(some) /\ IsFiniteSet(more) /\ WireDependencies(w, p) = some \cup more
  BY <1>1, <1>5, <1>7
<1> HIDE DEF some, more
<1> QED BY <1>8, FS_Union

LEMMA InputPositionsFinite ==
  ASSUME NEW w, NEW p
  PROVE  IsFiniteSet(InputPositions(w, p))
<1> DEFINE b == Block(w, p)  rear == Next6(p, b.facing)
           right == Next6(p, Clockwise(b.facing))  left == Next6(p, CounterClockwise(b.facing))
           far == IF b.kind = "comparator" /\ Conductor(Block(w, rear)) THEN {Next6(rear, b.facing)} ELSE {}
<1>1. CASE b.kind = "torch"
  <2>1. InputPositions(w, p) = {Next6(p, TorchInput(b))} BY <1>1 DEF InputPositions
  <2> QED BY <2>1, FS_Singleton
<1>2. CASE b.kind \in {"repeater", "comparator"}
  <2>1. InputPositions(w, p) = {rear, right, left} \cup far BY <1>2 DEF InputPositions
  <2>2. {rear, right, left} = {rear, right, left, left, left, left} OBVIOUS
  <2>3. IsFiniteSet({rear, right, left}) BY <2>2, FewFinite
  <2>4. far = {} \/ far = {Next6(rear, b.facing)} OBVIOUS
  <2> HIDE DEF far
  <2>5. IsFiniteSet(far)
    <3>1. IsFiniteSet({}) BY FS_EmptySet
    <3>2. IsFiniteSet({Next6(rear, b.facing)}) BY FS_Singleton
    <3> QED BY <2>4, <3>1, <3>2
  <2> QED BY <2>1, <2>3, <2>5, FS_Union
<1>3. CASE b.kind \notin {"torch", "repeater", "comparator"}
  <2>1. InputPositions(w, p) = {} BY <1>3 DEF InputPositions
  <2> QED BY <2>1, FS_EmptySet
<1> QED BY <1>1, <1>2, <1>3

LEMMA RebuiltFacts ==
  ASSUME NEW w, IsFiniteSet(DOMAIN w), NEW n, IsNodeRecord(n)
  PROVE  LET r == Rebuilt(w, n) IN
         /\ IsNodeRecord(r) /\ IsFiniteSet(r.needs)
         /\ r.pos = n.pos /\ r.kind = n.kind /\ r.state = Block(w, n.pos)
         /\ r.needs = IF n.kind = "wire" THEN WireDependencies(w, n.pos) ELSE InputPositions(w, n.pos)
         /\ r.plan = IF n.kind = "wire" THEN WirePlan(w, n.pos) ELSE <<>>
<1> DEFINE needs == IF n.kind = "wire" THEN WireDependencies(w, n.pos) ELSE InputPositions(w, n.pos)
           plan == IF n.kind = "wire" THEN WirePlan(w, n.pos) ELSE <<>>
           state == Block(w, n.pos)
           r == Rebuilt(w, n)
<1>1. r = [n EXCEPT !.state = state, !.needs = needs, !.plan = plan] BY DEF Rebuilt
<1>2. IsFiniteSet(needs) BY WireDependenciesFinite, InputPositionsFinite
<1> HIDE DEF r, state, needs, plan
<1>3. /\ IsNodeRecord(r) /\ r.pos = n.pos /\ r.kind = n.kind
      /\ r.state = state /\ r.needs = needs /\ r.plan = plan
  BY <1>1 DEF IsNodeRecord
<1> QED BY <1>2, <1>3 DEF r, state, needs, plan

\* A node that is built and indexed again.
RebuiltIn(h, g, X, w, p) ==
  /\ Whole(h, X \cup {p}) /\ h.at = g.at /\ At(h, p) = Rebuilt(w, At(g, p))
  /\ \A q \in DOMAIN g.at : q # p => At(h, q) = At(g, q)

LEMMA RebuiltWhole ==
  ASSUME NEW g, NEW X, Whole(g, X), NEW p \in DOMAIN g.at, p \in X \/ At(g, p).needs = {},
         NEW w, IsFiniteSet(DOMAIN w)
  PROVE  RebuiltIn(RebuildNode(g, w, g.at[p]), g, X, w, p)
<1> DEFINE id == g.at[p]  u == Unindexed(g, id)  r == Rebuilt(w, At(g, p))
           v == WithNode(u, id, r)  h == Indexed(v, id)  Y == X \ {p}
<1>1. u.slots = g.slots /\ u.at = g.at /\ Whole(u, Y) BY UnindexedWhole
<1>2. \A q \in DOMAIN g.at : At(u, q) = At(g, q) BY <1>1 DEF At, Node
<1>3. At(g, p).pos = p /\ IsNodeRecord(At(g, p)) BY NodeFacts DEF Whole
<1>4. IsNodeRecord(r) /\ r.pos = p /\ IsFiniteSet(r.needs) BY <1>3, RebuiltFacts
<1>5. RebuildNode(g, w, id) = h BY DEF RebuildNode, At
<1> HIDE DEF r, u
<1>6. /\ Whole(v, Y) /\ v.at = u.at /\ At(v, p) = r
      /\ \A q \in DOMAIN u.at : q # p => At(v, q) = At(u, q)
  <2>1. p \notin Y /\ p \in DOMAIN u.at /\ u.at[p] = id BY <1>1
  <2> HIDE DEF Y
  <2> QED BY <1>1, <1>4, <2>1, WithNodeWhole
<1> HIDE DEF v
<1>7. /\ h.slots = v.slots /\ h.at = v.at /\ Whole(h, Y \cup {p})
  <2>1. p \notin Y /\ p \in DOMAIN v.at /\ v.at[p] = id BY <1>1, <1>6
  <2> HIDE DEF Y
  <2> QED BY <1>6, <2>1, IndexedWhole
<1>8. \A q \in DOMAIN g.at : At(h, q) = At(v, q) BY <1>1, <1>6, <1>7 DEF At, Node
<1>9. Y \cup {p} = X \cup {p} OBVIOUS
<1> HIDE DEF h, Y
<1> QED BY <1>1, <1>2, <1>5, <1>6, <1>7, <1>8, <1>9 DEF r, RebuiltIn

-----------------------------------------------------------------------------
(* A pass handles the positions one by one.                                *)

LEMMA SmallestSet ==
  ASSUME NEW X, IsFiniteSet(X), NEW C, C \subseteq SUBSET X, C # {}
  PROVE  \E s \in C : \A t \in C : ~(t \subseteq s /\ t # s)
<1> DEFINE R == StrictSubsetOrdering(X)
<1>1. IsWellFoundedOn(R, SUBSET X)
  <2>1. IsWellFoundedOn(R, FiniteSubsetsOf(X)) BY FS_StrictSubsetOrderingWellFounded
  <2>2. SUBSET X = FiniteSubsetsOf(X) BY FS_Subset DEF FiniteSubsetsOf
  <2> QED BY <2>1, <2>2
<1>2. \E s \in C : \A t \in C : ~ (<<t, s>> \in R)
  <2> HIDE DEF R
  <2> QED BY <1>1, WFMin, Zenon
<1> QED BY <1>2 DEF StrictSubsetOrdering

\* after holds the graph after each subset of X.
Passes(after, pass, g, w, X) ==
  after = [s \in SUBSET X |->
             IF s = {} THEN g
             ELSE LET p == CHOOSE q \in s : TRUE IN Handled(pass, g, w, after[s \ {p}], p)]

Picked(s) == CHOOSE q \in s : TRUE

LEMMA PassesStep ==
  ASSUME NEW after, NEW pass, NEW g, NEW w, NEW X, Passes(after, pass, g, w, X), NEW s \in SUBSET X
  PROVE  /\ s = {} => after[s] = g
         /\ s # {} => /\ Picked(s) \in s
                      /\ after[s] = Handled(pass, g, w, after[s \ {Picked(s)}], Picked(s))
BY DEF Passes, Picked

LEMMA PassesAgree ==
  ASSUME NEW X, IsFiniteSet(X), NEW Y, NEW pass, NEW g, NEW w, NEW a, NEW b,
         Passes(a, pass, g, w, X), Passes(b, pass, g, w, Y), NEW s, s \subseteq X, s \subseteq Y
  PROVE  a[s] = b[s]
<1> DEFINE C == {t \in SUBSET s : a[t] # b[t]}
<1>1. SUFFICES ASSUME C # {} PROVE FALSE OBVIOUS
<1>2. \E t \in C : \A u \in C : ~(u \subseteq t /\ u # t)
  <2>1. C \subseteq SUBSET X OBVIOUS
  <2> HIDE DEF C
  <2> QED BY <1>1, <2>1, SmallestSet
<1>3. PICK t \in C : \A u \in C : ~(u \subseteq t /\ u # t) BY <1>2
<1>4. t \in SUBSET X /\ t \in SUBSET Y OBVIOUS
<1>5. CASE t = {}
  <2>1. a[t] = g BY <1>4, <1>5, PassesStep
  <2>2. b[t] = g BY <1>4, <1>5, PassesStep
  <2> QED BY <1>3, <2>1, <2>2
<1>6. CASE t # {}
  <2> DEFINE p == Picked(t)  u == t \ {p}
  <2>1. p \in t /\ a[t] = Handled(pass, g, w, a[u], p) /\ b[t] = Handled(pass, g, w, b[u], p)
    BY <1>4, <1>6, PassesStep
  <2>2. a[u] = b[u] BY <1>3, <2>1
  <2> QED BY <1>3, <2>1, <2>2
<1> QED BY <1>5, <1>6

LEMMA PassIsChosen ==
  ASSUME NEW pass, NEW g, NEW w, NEW S
  PROVE  Passed(pass, g, w, S) = (CHOOSE after : Passes(after, pass, g, w, S))[S]
BY DEF Passed, Passes

LEMMA PassKnown ==
  ASSUME NEW pass, NEW g, NEW w, NEW S, IsFiniteSet(S),
         NEW X, NEW after, Passes(after, pass, g, w, X), S \subseteq X,
         \E f : Passes(f, pass, g, w, S)
  PROVE  Passed(pass, g, w, S) = after[S]
<1> DEFINE F == CHOOSE f : Passes(f, pass, g, w, S)
<1>1. Passes(F, pass, g, w, S) OBVIOUS
<1>2. Passed(pass, g, w, S) = F[S] BY PassIsChosen
<1> HIDE DEF F
<1> QED BY <1>1, <1>2, PassesAgree

LEMMA PassesExist ==
  ASSUME NEW pass, NEW g, NEW w, NEW X, IsFiniteSet(X)
  PROVE  \E after : Passes(after, pass, g, w, X)
<1> DEFINE C == {s \in SUBSET X : ~ \E f : Passes(f, pass, g, w, s)}
<1>1. SUFFICES ASSUME C # {} PROVE FALSE OBVIOUS
<1>2. \E s \in C : \A t \in C : ~(t \subseteq s /\ t # s)
  <2>1. C \subseteq SUBSET X OBVIOUS
  <2> HIDE DEF C
  <2> QED BY <1>1, <2>1, SmallestSet
<1>3. PICK s \in C : \A t \in C : ~(t \subseteq s /\ t # s) BY <1>2
<1>4. \A t \in SUBSET s : t # s => \E f : Passes(f, pass, g, w, t) BY <1>3
<1> DEFINE val(t) == Passed(pass, g, w, t)
           rec(t) == IF t = {} THEN g ELSE Handled(pass, g, w, val(t \ {Picked(t)}), Picked(t))
           f == [t \in SUBSET s |-> rec(t)]
<1>5. \A t \in SUBSET s : t # {} => Picked(t) \in t /\ t \ {Picked(t)} \in SUBSET s /\ t \ {Picked(t)} # s
  BY DEF Picked
<1>6. \A t \in SUBSET s : t # s => val(t) = rec(t)
  <2> SUFFICES ASSUME NEW t \in SUBSET s, t # s PROVE val(t) = rec(t) OBVIOUS
  <2>1. IsFiniteSet(t) BY FS_Subset
  <2>2. PICK a : Passes(a, pass, g, w, t) BY <1>4
  <2>3. val(t) = a[t] BY <2>1, <2>2, PassKnown
  <2>4. CASE t = {} BY <2>2, <2>3, <2>4, PassesStep
  <2>5. CASE t # {}
    <3> DEFINE u == t \ {Picked(t)}
    <3>1. u \subseteq t /\ u \in SUBSET s /\ u # s /\ IsFiniteSet(u) BY <1>5, <2>1, <2>5, FS_Subset
    <3>2. val(u) = a[u] BY <1>4, <2>2, <3>1, PassKnown
    <3>3. a[t] = Handled(pass, g, w, a[u], Picked(t)) BY <2>2, <2>5, PassesStep
    <3> QED BY <2>3, <2>5, <3>2, <3>3
  <2> QED BY <2>4, <2>5
<1>7. \A t \in SUBSET s : rec(t) =
        IF t = {} THEN g ELSE Handled(pass, g, w, f[t \ {Picked(t)}], Picked(t))
  <2> SUFFICES ASSUME NEW t \in SUBSET s, t # {}
               PROVE  val(t \ {Picked(t)}) = f[t \ {Picked(t)}]
    OBVIOUS
  <2>1. val(t \ {Picked(t)}) = rec(t \ {Picked(t)}) BY <1>5, <1>6
  <2>2. f[t \ {Picked(t)}] = rec(t \ {Picked(t)}) BY <1>5
  <2> QED BY <2>1, <2>2
<1>8. Passes(f, pass, g, w, s)
  <2> HIDE DEF f
  <2>1. f = [t \in SUBSET s |-> rec(t)] BY DEF f
  <2> HIDE DEF rec
  <2> QED BY <1>7, <2>1 DEF Passes, Picked
<1> QED BY <1>3, <1>8

LEMMA PassedNone == ASSUME NEW pass, NEW g, NEW w PROVE Passed(pass, g, w, {}) = g
<1>1. IsFiniteSet({}) BY FS_EmptySet
<1>2. PICK a : Passes(a, pass, g, w, {}) BY <1>1, PassesExist
<1>3. Passed(pass, g, w, {}) = a[{}] BY <1>1, <1>2, PassKnown
<1>4. a[{}] = g BY <1>2, PassesStep
<1> QED BY <1>3, <1>4

LEMMA PassedStep ==
  ASSUME NEW pass, NEW g, NEW w, NEW S, IsFiniteSet(S), S # {}
  PROVE  /\ Picked(S) \in S
         /\ Passed(pass, g, w, S) =
              Handled(pass, g, w, Passed(pass, g, w, S \ {Picked(S)}), Picked(S))
<1>1. PICK a : Passes(a, pass, g, w, S) BY PassesExist
<1>2. Passed(pass, g, w, S) = a[S] BY <1>1, PassKnown
<1>3. Passed(pass, g, w, S \ {Picked(S)}) = a[S \ {Picked(S)}]
  <2>1. IsFiniteSet(S \ {Picked(S)}) BY FS_Subset
  <2>2. \E f : Passes(f, pass, g, w, S \ {Picked(S)}) BY <2>1, PassesExist
  <2>3. S \ {Picked(S)} \subseteq S OBVIOUS
  <2> QED BY <1>1, <2>1, <2>2, <2>3, PassKnown
<1> QED BY <1>1, <1>2, <1>3, PassesStep

-----------------------------------------------------------------------------
(* The pass that places nodes.                                             *)

Bare(g, X) == \A p \in DOMAIN g.at \ X : At(g, p).needs = {}

KindsKnown(g) == \A p \in DOMAIN g.at : At(g, p).kind \in NodeKinds

\* All nodes are indexed but some of those of P, which have no needs.
IndexedBut(g, P) == \E X : Whole(g, X) /\ Bare(g, X) /\ DOMAIN g.at \ X \subseteq P

SameNode(h, g, p) ==
  /\ p \in DOMAIN h.at <=> p \in DOMAIN g.at
  /\ p \in DOMAIN g.at => At(h, p) = At(g, p)

KindRight(g, w, p) ==
  /\ p \in DOMAIN g.at <=> IsNode(Block(w, p))
  /\ p \in DOMAIN g.at => At(g, p).kind = Block(w, p).kind

LEMMA NewStateFacts ==
  ASSUME NEW n, IsNodeRecord(n), NEW b
  PROVE  LET m == [n EXCEPT !.state = b] IN
         /\ IsNodeRecord(m) /\ m.pos = n.pos /\ m.kind = n.kind /\ m.needs = n.needs
         /\ m.plan = n.plan /\ m.state = b
BY DEF IsNodeRecord

LEMMA NewNodeFacts ==
  ASSUME NEW w, NEW p
  PROVE  /\ IsNodeRecord(NewNode(w, p)) /\ NewNode(w, p).needs = {} /\ NewNode(w, p).pos = p
         /\ NewNode(w, p).kind = Block(w, p).kind
BY DEF IsNodeRecord, NewNode

LEMMA KeptAt ==
  ASSUME NEW g, NEW w, NEW p \in DOMAIN g.at, NEW X, Whole(g, X), Bare(g, X), KindsKnown(g),
         At(g, p).kind = Block(w, p).kind
  PROVE  LET h == PlacedAt(g, w, p) IN
         /\ Whole(h, X) /\ Bare(h, X) /\ KindsKnown(h) /\ KindRight(h, w, p) /\ h.at = g.at
         /\ \A q : q # p => SameNode(h, g, q)
<1> DEFINE n == [At(g, p) EXCEPT !.state = Block(w, p)]  h == WithNode(g, g.at[p], n)
<1>1. IsNodeRecord(At(g, p)) /\ At(g, p).pos = p /\ IsFiniteSet(At(g, p).needs)
  BY NodeFacts DEF Whole
<1>2. /\ IsNodeRecord(n) /\ n.pos = p /\ n.kind = At(g, p).kind
      /\ n.needs = At(g, p).needs /\ IsFiniteSet(n.needs)
  BY <1>1, NewStateFacts
<1>3. PlacedAt(g, w, p) = h BY DEF PlacedAt, WithNode, At, Node
<1> HIDE DEF n
<1>4. /\ Whole(h, X) /\ h.at = g.at /\ At(h, p) = n
      /\ \A q \in DOMAIN g.at : q # p => At(h, q) = At(g, q)
  BY <1>2, WithNodeWhole
<1> HIDE DEF h
<1>5. Bare(h, X) BY <1>2, <1>4 DEF Bare
<1>6. KindsKnown(h) BY <1>2, <1>4 DEF KindsKnown
<1>7. KindRight(h, w, p) BY <1>2, <1>4 DEF KindRight, KindsKnown, IsNode
<1>8. \A q : q # p => SameNode(h, g, q) BY <1>4 DEF SameNode
<1> QED BY <1>3, <1>4, <1>5, <1>6, <1>7, <1>8

LEMMA InsertedAtPlace ==
  ASSUME NEW g, NEW w, NEW p, p \notin DOMAIN g.at, NEW X, Whole(g, X), Bare(g, X), KindsKnown(g)
  PROVE  LET h == IF IsNode(Block(w, p)) THEN InsertNode(g, w, p) ELSE g IN
         /\ Whole(h, X) /\ Bare(h, X) /\ KindsKnown(h) /\ KindRight(h, w, p)
         /\ DOMAIN h.at \subseteq DOMAIN g.at \cup {p}
         /\ \A q : q # p => SameNode(h, g, q)
<1>1. CASE IsNode(Block(w, p))
  <2> DEFINE h == InsertNode(g, w, p)
  <2>1. /\ Whole(h, X) /\ DOMAIN h.at = DOMAIN g.at \cup {p} /\ At(h, p) = NewNode(w, p)
        /\ \A q \in DOMAIN g.at : h.at[q] = g.at[q] /\ At(h, q) = At(g, q)
    <3>1. InsertedIn(InsertNode(g, w, p), g, X, w, p) BY ONLY Whole(g, X), p \notin DOMAIN g.at, InsertedWhole
    <3> QED BY <3>1 DEF InsertedIn
  <2> HIDE DEF h
  <2>2. Bare(h, X) BY <2>1, NewNodeFacts DEF Bare
  <2>3. KindsKnown(h) BY <1>1, <2>1, NewNodeFacts DEF KindsKnown, IsNode
  <2>4. KindRight(h, w, p) BY <1>1, <2>1, NewNodeFacts DEF KindRight
  <2>5. \A q : q # p => SameNode(h, g, q) BY <2>1 DEF SameNode
  <2> QED BY <1>1, <2>1, <2>2, <2>3, <2>4, <2>5 DEF h
<1>2. CASE ~IsNode(Block(w, p)) BY <1>2 DEF KindRight, SameNode
<1> QED BY <1>1, <1>2

LEMMA PlacedAtWhole ==
  ASSUME NEW g, NEW w, NEW p, NEW P, IndexedBut(g, P), KindsKnown(g)
  PROVE  LET h == PlacedAt(g, w, p) IN
         /\ IndexedBut(h, P \cup {p}) /\ KindsKnown(h) /\ KindRight(h, w, p)
         /\ \A q : q # p => SameNode(h, g, q)
<1> DEFINE h == PlacedAt(g, w, p)
           settled(f, e) == IF IsNode(Block(w, p)) THEN InsertNode(f, w, p) ELSE e
<1>1. PICK X : Whole(g, X) /\ Bare(g, X) /\ DOMAIN g.at \ X \subseteq P BY DEF IndexedBut
<1>2. CASE p \in DOMAIN g.at /\ At(g, p).kind = Block(w, p).kind
  <2>1. /\ Whole(h, X) /\ Bare(h, X) /\ KindsKnown(h) /\ KindRight(h, w, p) /\ h.at = g.at
        /\ \A q : q # p => SameNode(h, g, q)
    BY <1>1, <1>2, KeptAt
  <2> HIDE DEF h
  <2>2. DOMAIN h.at \ X \subseteq P \cup {p} BY <1>1, <2>1
  <2>3. IndexedBut(h, P \cup {p}) BY <2>1, <2>2 DEF IndexedBut
  <2> QED BY <2>1, <2>3 DEF h
<1>3. CASE p \in DOMAIN g.at /\ At(g, p).kind # Block(w, p).kind
  <2> DEFINE c == RemoveNode(g, g.at[p])  Y == X \ {p}
  <2>1. h = IF IsNode(Block(w, p)) THEN InsertNode(c, w, p) ELSE c BY <1>3 DEF PlacedAt, At
  <2>2. p \in X \/ At(g, p).needs = {} BY <1>1, <1>3 DEF Bare
  <2>3. /\ Whole(c, Y) /\ DOMAIN c.at = DOMAIN g.at \ {p}
        /\ \A q \in DOMAIN c.at : c.at[q] = g.at[q] /\ At(c, q) = At(g, q)
    BY <1>1, <1>3, <2>2, RemovedWhole
  <2> HIDE DEF c, h
  <2>4. Bare(c, Y) /\ KindsKnown(c) /\ p \notin DOMAIN c.at
    BY <1>1, <2>3 DEF Bare, KindsKnown
  <2> HIDE DEF Y
  <2>5. /\ Whole(h, Y) /\ Bare(h, Y) /\ KindsKnown(h) /\ KindRight(h, w, p)
        /\ DOMAIN h.at \subseteq DOMAIN c.at \cup {p}
        /\ \A q : q # p => SameNode(h, c, q)
    BY <2>1, <2>3, <2>4, InsertedAtPlace
  <2>6. DOMAIN h.at \ Y \subseteq P \cup {p} BY <1>1, <2>3, <2>5 DEF Y
  <2>7. IndexedBut(h, P \cup {p}) BY <2>5, <2>6 DEF IndexedBut
  <2>8. \A q : q # p => SameNode(h, g, q) BY <2>3, <2>5 DEF SameNode
  <2> QED BY <2>5, <2>7, <2>8 DEF h
<1>4. CASE p \notin DOMAIN g.at
  <2>1. h = IF IsNode(Block(w, p)) THEN InsertNode(g, w, p) ELSE g BY <1>4 DEF PlacedAt
  <2> HIDE DEF h
  <2>2. /\ Whole(h, X) /\ Bare(h, X) /\ KindsKnown(h) /\ KindRight(h, w, p)
        /\ DOMAIN h.at \subseteq DOMAIN g.at \cup {p}
        /\ \A q : q # p => SameNode(h, g, q)
    BY <1>1, <1>4, <2>1, InsertedAtPlace
  <2>3. DOMAIN h.at \ X \subseteq P \cup {p} BY <1>1, <2>2
  <2>4. IndexedBut(h, P \cup {p}) BY <2>2, <2>3 DEF IndexedBut
  <2> QED BY <2>2, <2>4 DEF h
<1> QED BY <1>2, <1>3, <1>4

\* What the pass over P has done of a graph.
PlacedOver(h, g, w, P) ==
  /\ IndexedBut(h, P) /\ KindsKnown(h)
  /\ \A q \in P : KindRight(h, w, q)
  /\ \A q : q \notin P => SameNode(h, g, q)

LEMMA PlacePass ==
  ASSUME NEW g, NEW w, NEW P, IsFiniteSet(P), Whole(g, DOMAIN g.at), KindsKnown(g)
  PROVE  PlacedOver(Passed("place", g, w, P), g, w, P)
<1> DEFINE C == {S \in SUBSET P : ~PlacedOver(Passed("place", g, w, S), g, w, S)}
<1>1. SUFFICES ASSUME C # {} PROVE FALSE OBVIOUS
<1>2. \E S \in C : \A T \in C : ~(T \subseteq S /\ T # S)
  <2>1. C \subseteq SUBSET P OBVIOUS
  <2> HIDE DEF C
  <2> QED BY <1>1, <2>1, SmallestSet
<1>3. PICK S \in C : \A T \in C : ~(T \subseteq S /\ T # S) BY <1>2
<1>4. IsFiniteSet(S) BY FS_Subset
<1>5. CASE S = {}
  <2>1. Passed("place", g, w, S) = g BY <1>5, PassedNone
  <2>2. IndexedBut(g, {}) BY DEF IndexedBut, Bare
  <2>3. PlacedOver(g, g, w, S) BY <1>5, <2>2 DEF PlacedOver, SameNode
  <2> QED BY <1>3, <2>1, <2>3
<1>6. CASE S # {}
  <2> DEFINE p == Picked(S)  T == S \ {p}  f == Passed("place", g, w, T)  h == Passed("place", g, w, S)
  <2>1. p \in S /\ h = PlacedAt(f, w, p) BY <1>4, <1>6, PassedStep DEF Handled
  <2>2. PlacedOver(f, g, w, T) BY <1>3, <2>1
  <2>3. T \cup {p} = S /\ p \notin T BY <2>1
  <2> HIDE DEF h, f, T, p
  <2>4. /\ IndexedBut(h, S) /\ KindsKnown(h) /\ KindRight(h, w, p)
        /\ \A q : q # p => SameNode(h, f, q)
    BY <2>1, <2>2, <2>3, PlacedAtWhole DEF PlacedOver
  <2>5. \A q \in S : KindRight(h, w, q)
    <3> SUFFICES ASSUME NEW q \in S, q # p PROVE KindRight(h, w, q) BY <2>4
    <3>1. KindRight(f, w, q) /\ SameNode(h, f, q) BY <2>2, <2>3, <2>4 DEF PlacedOver
    <3> QED BY <3>1 DEF KindRight, SameNode
  <2>6. \A q : q \notin S => SameNode(h, g, q)
    <3> SUFFICES ASSUME NEW q, q \notin S PROVE SameNode(h, g, q) OBVIOUS
    <3>1. SameNode(f, g, q) /\ SameNode(h, f, q) BY <2>2, <2>3, <2>4 DEF PlacedOver
    <3> QED BY <3>1 DEF SameNode
  <2>7. PlacedOver(h, g, w, S) BY <2>4, <2>5, <2>6 DEF PlacedOver
  <2> QED BY <1>3, <2>7 DEF h
<1> QED BY <1>5, <1>6

-----------------------------------------------------------------------------
(* The pass that builds nodes again, and both passes together.             *)

RebuiltOver(h, g, w, S, R) ==
  /\ h.at = g.at /\ IndexedBut(h, R \ S)
  /\ \A q \in S : At(h, q) = Rebuilt(w, At(g, q))
  /\ \A q \in DOMAIN g.at \ S : At(h, q) = At(g, q)

LEMMA RebuildPass ==
  ASSUME NEW g, NEW w, IsFiniteSet(DOMAIN w), NEW R, IsFiniteSet(R), R \subseteq DOMAIN g.at,
         IndexedBut(g, R)
  PROVE  RebuiltOver(Passed("rebuild", g, w, R), g, w, R, R)
<1> DEFINE C == {S \in SUBSET R : ~RebuiltOver(Passed("rebuild", g, w, S), g, w, S, R)}
<1>1. SUFFICES ASSUME C # {} PROVE FALSE OBVIOUS
<1>2. \E S \in C : \A T \in C : ~(T \subseteq S /\ T # S)
  <2>1. C \subseteq SUBSET R OBVIOUS
  <2> HIDE DEF C
  <2> QED BY <1>1, <2>1, SmallestSet
<1>3. PICK S \in C : \A T \in C : ~(T \subseteq S /\ T # S) BY <1>2
<1>4. IsFiniteSet(S) BY FS_Subset
<1>5. CASE S = {}
  <2>1. Passed("rebuild", g, w, S) = g BY <1>5, PassedNone
  <2>2. R \ S = R BY <1>5
  <2>3. RebuiltOver(g, g, w, S, R) BY <1>5, <2>2 DEF RebuiltOver
  <2> QED BY <1>3, <2>1, <2>3
<1>6. CASE S # {}
  <2> DEFINE p == Picked(S)  T == S \ {p}  f == Passed("rebuild", g, w, T)
             h == Passed("rebuild", g, w, S)
  <2>1. p \in S /\ h = RebuildNode(f, w, g.at[p])
    <3>1. p \in S /\ h = Handled("rebuild", g, w, f, p) BY <1>4, <1>6, PassedStep
    <3>2. "rebuild" # "place" OBVIOUS
    <3> HIDE DEF h, f, p
    <3> QED BY <3>1, <3>2 DEF Handled
  <2>2. RebuiltOver(f, g, w, T, R) BY <1>3, <2>1
  <2>3. T \cup {p} = S /\ p \notin T /\ p \in DOMAIN g.at /\ p \in R BY <2>1
  <2> HIDE DEF h, f, T, p
  <2>4. PICK X : Whole(f, X) /\ Bare(f, X) /\ DOMAIN f.at \ X \subseteq R \ T
    BY <2>2 DEF RebuiltOver, IndexedBut
  <2>5. f.at = g.at /\ At(f, p) = At(g, p) BY <2>2, <2>3 DEF RebuiltOver
  <2>6. p \in X \/ At(f, p).needs = {} BY <2>3, <2>4, <2>5 DEF Bare
  <2>7. /\ Whole(h, X \cup {p}) /\ h.at = f.at /\ At(h, p) = Rebuilt(w, At(f, p))
        /\ \A q \in DOMAIN f.at : q # p => At(h, q) = At(f, q)
    <3>1. h = RebuildNode(f, w, f.at[p]) /\ p \in DOMAIN f.at /\ Whole(f, X)
      BY <2>1, <2>3, <2>4, <2>5
    <3>2. RebuiltIn(RebuildNode(f, w, f.at[p]), f, X, w, p)
      BY ONLY IsFiniteSet(DOMAIN w), <2>6, <3>1, RebuiltWhole
    <3> QED BY <3>1, <3>2 DEF RebuiltIn
  <2>8. Bare(h, X \cup {p}) BY <2>4, <2>7 DEF Bare
  <2>9. DOMAIN h.at \ (X \cup {p}) \subseteq R \ S BY <2>3, <2>4, <2>7
  <2>10. IndexedBut(h, R \ S) BY <2>7, <2>8, <2>9 DEF IndexedBut
  <2>11. \A q \in S : At(h, q) = Rebuilt(w, At(g, q))
    BY <2>2, <2>3, <2>5, <2>7 DEF RebuiltOver
  <2>12. \A q \in DOMAIN g.at \ S : At(h, q) = At(g, q) BY <2>2, <2>3, <2>5, <2>7 DEF RebuiltOver
  <2>13. RebuiltOver(h, g, w, S, R) BY <2>5, <2>7, <2>10, <2>11, <2>12 DEF RebuiltOver
  <2> QED BY <1>3, <2>13 DEF h
<1> QED BY <1>5, <1>6

LEMMA WholeAll ==
  ASSUME NEW g, IndexedBut(g, {})
  PROVE  Whole(g, DOMAIN g.at)
<1>1. PICK X : Whole(g, X) /\ DOMAIN g.at \ X \subseteq {} BY DEF IndexedBut
<1>2. X = DOMAIN g.at BY <1>1 DEF Whole, Indexes
<1> QED BY <1>1, <1>2

\* There are no more nodes than slots.
LEMMA NodesFinite ==
  ASSUME NEW g, Shaped(g), Placing(g)
  PROVE  IsFiniteSet(DOMAIN g.at)
<1> DEFINE f == [i \in DOMAIN g.slots |-> g.slots[i].node.pos]  T == {f[i] : i \in DOMAIN g.slots}
<1>1. IsFiniteSet(DOMAIN g.slots)
  <2>1. Len(g.slots) \in Int /\ 1 \in Int BY DEF Shaped
  <2>2. IsFiniteSet(1 .. Len(g.slots)) BY <2>1, FS_Interval
  <2> QED BY <2>2, ShapedDomain
<1>2. DOMAIN g.at \subseteq T
  <2> SUFFICES ASSUME NEW p \in DOMAIN g.at PROVE p \in T OBVIOUS
  <2>1. g.at[p][1] \in DOMAIN g.slots /\ g.slots[g.at[p][1]].node.pos = p BY DEF Placing
  <2> QED BY <2>1
<1>3. IsFiniteSet(T)
  <2> HIDE DEF f
  <2> QED BY <1>1, ImageFinite
<1> HIDE DEF T
<1> QED BY <1>2, <1>3, FS_Subset

Needs(w, p) == IF IsWire(Block(w, p)) THEN WireDependencies(w, p) ELSE InputPositions(w, p)

Plan(w, p) == IF IsWire(Block(w, p)) THEN WirePlan(w, p) ELSE <<>>

\* The graph has the node of p that a fresh compilation gives, or none.
Matches(g, w, p) ==
  /\ KindRight(g, w, p)
  /\ p \in DOMAIN g.at => /\ At(g, p).needs = Needs(w, p) /\ At(g, p).plan = Plan(w, p)
                          /\ IsWire(Block(w, p)) \/ At(g, p).state = Block(w, p)

LEMMA RebuiltMatches ==
  ASSUME NEW g, Shaped(g), Placing(g), NEW w, IsFiniteSet(DOMAIN w), NEW p \in DOMAIN g.at,
         KindRight(g, w, p), NEW h, p \in DOMAIN h.at, At(h, p) = Rebuilt(w, At(g, p))
  PROVE  Matches(h, w, p)
<1>1. IsNodeRecord(At(g, p)) /\ At(g, p).pos = p BY NodeFacts
<1>2. At(g, p).kind = Block(w, p).kind /\ IsNode(Block(w, p)) BY DEF KindRight
<1> DEFINE r == Rebuilt(w, At(g, p))
<1>3. /\ r.kind = At(g, p).kind /\ r.state = Block(w, p)
      /\ r.needs = IF At(g, p).kind = "wire" THEN WireDependencies(w, p) ELSE InputPositions(w, p)
      /\ r.plan = IF At(g, p).kind = "wire" THEN WirePlan(w, p) ELSE <<>>
  BY <1>1, RebuiltFacts
<1> HIDE DEF r
<1>4. At(h, p) = r BY DEF r
<1> QED BY <1>2, <1>3, <1>4 DEF Matches, KindRight, Needs, Plan, IsWire

LEMMA RecompileRight ==
  ASSUME NEW g, Whole(g, DOMAIN g.at), KindsKnown(g), NEW w, IsFiniteSet(DOMAIN w),
         NEW P, IsFiniteSet(P)
  PROVE  LET h == RecompilePositions(g, w, P) IN
         /\ Whole(h, DOMAIN h.at) /\ KindsKnown(h)
         /\ \A p \in P : Matches(h, w, p)
         /\ \A p : p \notin P /\ Matches(g, w, p) => Matches(h, w, p)
<1> DEFINE told == UNION {DependentsOf(g, p) : p \in P}  f == Passed("place", g, w, P)
           R == (P \cup told) \cap DOMAIN f.at  h == Passed("rebuild", f, w, R)
<1>1. RecompilePositions(g, w, P) = h BY DEF RecompilePositions
<1>2. PlacedOver(f, g, w, P) BY PlacePass
<1> HIDE DEF told, f
<1>3. PICK X : Whole(f, X) /\ Bare(f, X) /\ DOMAIN f.at \ X \subseteq P BY <1>2 DEF PlacedOver, IndexedBut
<1>4. Shaped(f) /\ Placing(f) BY <1>3 DEF Whole
<1>5. R \subseteq DOMAIN f.at /\ IsFiniteSet(R) /\ P \cap DOMAIN f.at \subseteq R
  <2>1. R \subseteq DOMAIN f.at /\ P \cap DOMAIN f.at \subseteq R OBVIOUS
  <2> HIDE DEF R
  <2> QED BY <1>4, <2>1, NodesFinite, FS_Subset
<1> HIDE DEF R
<1>6. IndexedBut(f, R) BY <1>3, <1>5 DEF IndexedBut
<1>7. RebuiltOver(h, f, w, R, R) BY <1>5, <1>6, RebuildPass
<1> HIDE DEF h
<1>8. Whole(h, DOMAIN h.at)
  <2>1. R \ R = {} OBVIOUS
  <2> QED BY <1>7, <2>1, WholeAll DEF RebuiltOver
<1>9. h.at = f.at BY <1>7 DEF RebuiltOver
<1>10. \A q \in DOMAIN f.at : At(h, q) = Rebuilt(w, At(f, q)) \/ (q \notin R /\ At(h, q) = At(f, q))
  BY <1>7 DEF RebuiltOver
<1>11. KindsKnown(h)
  <2> SUFFICES ASSUME NEW q \in DOMAIN f.at PROVE At(h, q).kind \in NodeKinds
    BY <1>9 DEF KindsKnown
  <2>1. At(f, q).kind \in NodeKinds BY <1>2 DEF PlacedOver, KindsKnown
  <2>2. IsNodeRecord(At(f, q)) BY <1>4, NodeFacts
  <2>3. Rebuilt(w, At(f, q)).kind = At(f, q).kind BY <2>2, RebuiltFacts
  <2> QED BY <1>10, <2>1, <2>3
<1>12. ASSUME NEW p \in P PROVE Matches(h, w, p)
  <2>1. KindRight(f, w, p) BY <1>2 DEF PlacedOver
  <2>2. CASE p \in DOMAIN f.at
    <3>1. At(h, p) = Rebuilt(w, At(f, p)) BY <1>5, <1>10, <2>2
    <3> QED BY <1>4, <1>9, <2>1, <2>2, <3>1, RebuiltMatches
  <2>3. CASE p \notin DOMAIN f.at BY <1>9, <2>1, <2>3 DEF Matches, KindRight
  <2> QED BY <2>2, <2>3
<1>13. ASSUME NEW p, p \notin P, Matches(g, w, p) PROVE Matches(h, w, p)
  <2>1. SameNode(f, g, p) BY <1>2, <1>13 DEF PlacedOver
  <2>2. Matches(f, w, p) BY <1>13, <2>1 DEF Matches, SameNode, KindRight
  <2>3. CASE p \notin DOMAIN f.at BY <1>9, <2>2, <2>3 DEF Matches, KindRight
  <2>4. CASE p \in DOMAIN f.at /\ At(h, p) = At(f, p)
    BY <1>9, <2>2, <2>4 DEF Matches, KindRight
  <2>5. CASE p \in DOMAIN f.at /\ At(h, p) = Rebuilt(w, At(f, p))
    <3>1. KindRight(f, w, p) BY <2>2 DEF Matches
    <3> QED BY <1>4, <1>9, <2>5, <3>1, RebuiltMatches
  <2> QED BY <1>10, <2>3, <2>4, <2>5
<1> QED BY <1>1, <1>8, <1>11, <1>12, <1>13

LEMMA EmptyWhole == Whole(EmptyGraph, DOMAIN EmptyGraph.at) /\ KindsKnown(EmptyGraph) /\ DOMAIN EmptyGraph.at = {}
<1> DEFINE g == EmptyGraph
<1>1. /\ g.slots = <<>> /\ g.free = <<>> /\ g.at = <<>> /\ g.rev = <<>> /\ g.edges = 0
      /\ g = [slots |-> g.slots, free |-> g.free, at |-> g.at, rev |-> g.rev, edges |-> g.edges]
  BY DEF EmptyGraph
<1> HIDE DEF g
<1>2. DOMAIN <<>> = {} /\ Len(<<>>) = 0 /\ <<>> = [i \in 1 .. 0 |-> <<>>[i]] /\ <<>> = [i \in {} |-> <<>>[i]]
  OBVIOUS
<1>3. Shaped(g) BY <1>1, <1>2 DEF Shaped
<1>4. Placing(g) BY <1>1, <1>2 DEF Placing
<1>5. EdgesOf(g, {}) = {} BY DEF EdgesOf
<1>6. Indexes(g, {}) BY <1>1, <1>2, <1>5, FS_EmptySet DEF Indexes
<1> QED BY <1>1, <1>2, <1>3, <1>4, <1>6 DEF Whole, KindsKnown, g

LEMMA CompileRight ==
  ASSUME NEW w, IsFiniteSet(DOMAIN w)
  PROVE  LET h == Compile(w) IN
         /\ Whole(h, DOMAIN h.at) /\ KindsKnown(h) /\ \A p : Matches(h, w, p)
<1> DEFINE P == {p \in DOMAIN w : IsNode(w[p])}  h == Compile(w)
<1>1. IsFiniteSet(P) BY FS_Subset
<1>2. h = RecompilePositions(EmptyGraph, w, P) BY DEF Compile
<1> HIDE DEF h, P
<1>3. /\ Whole(h, DOMAIN h.at) /\ KindsKnown(h) /\ \A p \in P : Matches(h, w, p)
      /\ \A p : p \notin P /\ Matches(EmptyGraph, w, p) => Matches(h, w, p)
  BY <1>1, <1>2, EmptyWhole, RecompileRight
<1>4. ASSUME NEW p, p \notin P PROVE Matches(EmptyGraph, w, p)
  <2>1. ~IsNode(Block(w, p)) BY <1>4 DEF P, Block, Air, IsNode, NodeKinds
  <2> QED BY <2>1, EmptyWhole DEF Matches, KindRight
<1> QED BY <1>3, <1>4 DEF h

-----------------------------------------------------------------------------
(* Changes of power.                                                       *)

NewsOf(cs, n) == [n EXCEPT !.state = LatestState(cs, n)]

LEMMA ToldFacts ==
  ASSUME NEW cs, NEW n, IsNodeRecord(n)
  PROVE  /\ IsNodeRecord(NewsOf(cs, n)) /\ NewsOf(cs, n).pos = n.pos /\ NewsOf(cs, n).kind = n.kind
         /\ NewsOf(cs, n).needs = n.needs /\ NewsOf(cs, n).plan = n.plan
         /\ NewsOf(cs, n).state = LatestState(cs, n)
BY NewStateFacts DEF NewsOf

LEMMA ToldWhole ==
  ASSUME NEW g, Whole(g, DOMAIN g.at), KindsKnown(g), NEW cs
  PROVE  LET h == StatesApplied(g, cs) IN
         /\ Whole(h, DOMAIN h.at) /\ KindsKnown(h) /\ h.at = g.at
         /\ \A p \in DOMAIN g.at : At(h, p) = NewsOf(cs, At(g, p))
<1> DEFINE h == StatesApplied(g, cs)  X == DOMAIN g.at
           new(s) == [s EXCEPT !.node = IF s.node = <<>> THEN s.node ELSE NewsOf(cs, s.node)]
<1>1. Shaped(g) /\ Placing(g) /\ Indexes(g, X) BY DEF Whole
<1>2. DOMAIN g.slots = 1 .. Len(g.slots) /\ Len(g.slots) \in Nat /\ \A i \in DOMAIN g.slots : IsSlot(g.slots[i])
  BY <1>1, ShapedDomain DEF Shaped
<1>3. /\ h.slots = [i \in DOMAIN g.slots |-> new(g.slots[i])]
      /\ h.free = g.free /\ h.at = g.at /\ h.rev = g.rev /\ h.edges = g.edges
      /\ h = [slots |-> h.slots, free |-> h.free, at |-> h.at, rev |-> h.rev, edges |-> h.edges]
  <2> DEFINE slots == [i \in DOMAIN g.slots |-> new(g.slots[i])]
  <2>1. h = [g EXCEPT !.slots = slots] BY DEF StatesApplied, NewsOf
  <2> HIDE DEF h, slots
  <2>2. /\ h.slots = slots /\ h.free = g.free /\ h.at = g.at /\ h.rev = g.rev /\ h.edges = g.edges
        /\ h = [slots |-> h.slots, free |-> h.free, at |-> h.at, rev |-> h.rev, edges |-> h.edges]
    BY <1>1, <2>1 DEF Shaped
  <2> QED BY <2>2 DEF slots
<1>4. ASSUME NEW i \in DOMAIN g.slots
      PROVE  /\ IsSlot(new(g.slots[i])) /\ new(g.slots[i]).generation = g.slots[i].generation
             /\ new(g.slots[i]).node = <<>> <=> g.slots[i].node = <<>>
             /\ g.slots[i].node # <<>> => new(g.slots[i]).node = NewsOf(cs, g.slots[i].node)
  <2> DEFINE s == g.slots[i]
  <2>1. IsSlot(s) BY <1>2
  <2> HIDE DEF s
  <2>2. CASE s.node = <<>>
    <3>1. new(s) = s BY <2>1, <2>2 DEF IsSlot
    <3> QED BY <2>1, <2>2, <3>1 DEF s
  <2>3. CASE s.node # <<>>
    <3>1. IsNodeRecord(s.node) /\ IsFiniteSet(s.node.needs) BY <2>1, <2>3 DEF IsSlot
    <3>2. IsNodeRecord(NewsOf(cs, s.node)) /\ IsFiniteSet(NewsOf(cs, s.node).needs) BY <3>1, ToldFacts
    <3>3. new(s) = [s EXCEPT !.node = NewsOf(cs, s.node)] BY <2>3
    <3> QED BY <2>1, <2>3, <3>2, <3>3, UsedSlot DEF s
  <2> QED BY <2>2, <2>3
<1> HIDE DEF h, new
<1>5. /\ DOMAIN h.slots = DOMAIN g.slots /\ h.slots = [i \in 1 .. Len(g.slots) |-> h.slots[i]]
      /\ \A i \in DOMAIN g.slots :
           /\ IsSlot(h.slots[i]) /\ h.slots[i].generation = g.slots[i].generation
           /\ h.slots[i].node = <<>> <=> g.slots[i].node = <<>>
           /\ g.slots[i].node # <<>> => h.slots[i].node = NewsOf(cs, g.slots[i].node)
  BY <1>2, <1>3, <1>4
<1>6. Len(h.slots) = Len(g.slots) BY <1>2, <1>5, LenOfInterval
<1>7. Shaped(h) BY <1>1, <1>2, <1>3, <1>5, <1>6 DEF Shaped
<1>8. \A p \in X : At(h, p) = NewsOf(cs, At(g, p)) /\ IsNodeRecord(At(g, p)) /\ At(g, p).pos = p
  <2> TAKE p \in X
  <2>1. /\ At(g, p) = g.slots[g.at[p][1]].node /\ g.at[p][1] \in DOMAIN g.slots
        /\ At(g, p) # <<>> /\ At(g, p).pos = p /\ IsNodeRecord(At(g, p))
    BY <1>1, NodeFacts
  <2>2. At(h, p) = h.slots[g.at[p][1]].node BY <1>3 DEF At, Node
  <2> QED BY <1>5, <2>1, <2>2
<1>9. \A p \in X : /\ At(h, p).pos = p /\ At(h, p).needs = At(g, p).needs
                   /\ At(h, p).kind = At(g, p).kind
  BY <1>8, ToldFacts
<1>10. Placing(h)
  <2>1. \A i \in DOMAIN g.slots : g.slots[i].node # <<>> => h.slots[i].node.pos = g.slots[i].node.pos
    <3> TAKE i \in DOMAIN g.slots
    <3> HAVE g.slots[i].node # <<>>
    <3>1. IsNodeRecord(g.slots[i].node) BY <1>2 DEF IsSlot
    <3>2. h.slots[i].node = NewsOf(cs, g.slots[i].node) BY <1>5
    <3>3. NewsOf(cs, g.slots[i].node).pos = g.slots[i].node.pos BY <3>1, ToldFacts
    <3> QED BY <3>2, <3>3
  <2>2. \A q \in DOMAIN h.at :
               /\ h.at[q][1] \in DOMAIN h.slots
               /\ h.at[q] = <<h.at[q][1], h.slots[h.at[q][1]].generation>>
               /\ h.slots[h.at[q][1]].node # <<>> /\ h.slots[h.at[q][1]].node.pos = q
    <3>1. TAKE q \in DOMAIN h.at
    <3>2. /\ g.at[q][1] \in DOMAIN g.slots
          /\ g.at[q] = <<g.at[q][1], g.slots[g.at[q][1]].generation>>
          /\ g.slots[g.at[q][1]].node # <<>> /\ g.slots[g.at[q][1]].node.pos = q
      BY <1>1, <1>3 DEF Placing
    <3> QED BY <1>3, <1>5, <2>1, <3>2
  <2>3. \A i \in DOMAIN h.slots : h.slots[i].node # <<>> =>
          h.slots[i].node.pos \in DOMAIN h.at /\ h.at[h.slots[i].node.pos][1] = i
    BY <1>1, <1>3, <1>5, <2>1 DEF Placing
  <2>4. \A k \in DOMAIN h.free : h.free[k] \in DOMAIN h.slots /\ h.slots[h.free[k]].node = <<>>
    BY <1>1, <1>3, <1>5 DEF Placing
  <2>5. \A i \in DOMAIN h.slots : h.slots[i].node = <<>> => \E k \in DOMAIN h.free : h.free[k] = i
    <3> TAKE i \in DOMAIN h.slots
    <3> HAVE h.slots[i].node = <<>>
    <3>1. i \in DOMAIN g.slots /\ g.slots[i].node = <<>> BY <1>5
    <3>2. \E k \in DOMAIN g.free : g.free[k] = i BY <1>1, <3>1 DEF Placing
    <3> QED BY <1>3, <3>2
  <2> QED BY <1>1, <1>3, <2>2, <2>3, <2>4, <2>5 DEF Placing
<1>11. Indexes(h, X)
  <2>1. \A p \in X : Positions(At(h, p)) = Positions(At(g, p)) BY <1>8, <1>9 DEF Positions
  <2>2. \A q : DependentIds(h, X, q) = DependentIds(g, X, q) BY <1>3, <2>1 DEF DependentIds
  <2>3. EdgesOf(h, X) = EdgesOf(g, X) BY <1>9, SameEdges
  <2> HIDE DEF X
  <2> QED BY <1>1, <1>3, <2>1, <2>2, <2>3 DEF Indexes
<1>12. KindsKnown(h) BY <1>3, <1>9 DEF KindsKnown
<1> QED BY <1>3, <1>7, <1>8, <1>10, <1>11, <1>12 DEF Whole, h

-----------------------------------------------------------------------------
(* The wires reached from a change.                                        *)

LEMMA NatInductionOnSet ==
  ASSUME NEW T, 0 \in T, \A n \in Nat : n \in T => n + 1 \in T
  PROVE  Nat \subseteq T
<1> DEFINE C == {n \in Nat : n \notin T}
           R == OpToRel(<, Nat)
<1>1. SUFFICES ASSUME C # {} PROVE FALSE OBVIOUS
<1>2. \E x \in C : \A y \in C : ~ (<<y, x>> \in R)
  <2>1. IsWellFoundedOn(R, Nat) BY NatLessThanWellFounded
  <2>2. C \subseteq Nat OBVIOUS
  <2> HIDE DEF R, C
  <2> QED BY <2>1, <2>2, <1>1, WFMin, Zenon
<1>3. PICK x \in C : \A y \in C : ~ (<<y, x>> \in R) BY <1>2
<1>4. \A y \in C : ~ (y < x) BY <1>3 DEF OpToRel
<1>5. x \in Nat /\ x # 0 /\ x \notin T BY <1>3
<1>6. x - 1 \in Nat /\ x - 1 < x BY <1>5
<1>7. x - 1 \in T BY <1>4, <1>6
<1>8. (x - 1) + 1 \in T BY <1>6, <1>7
<1>9. (x - 1) + 1 = x BY <1>5
<1> QED BY <1>5, <1>8, <1>9

\* What holds of 0 and goes on to the next number holds up to n.
LEMMA UpTo ==
  ASSUME NEW n \in Nat, NEW T, 0 \in T, \A i \in 0 .. n - 1 : i \in T => i + 1 \in T
  PROVE  0 .. n \subseteq T
<1> DEFINE U == {i \in Nat : i <= n => i \in T}
<1>1. 0 \in U OBVIOUS
<1>2. \A i \in Nat : i \in U => i + 1 \in U
  <2> SUFFICES ASSUME NEW i \in Nat, i \in U, i + 1 <= n PROVE i + 1 \in T OBVIOUS
  <2>1. i \in T OBVIOUS
  <2> QED BY <2>1
<1>3. Nat \subseteq U
  <2> HIDE DEF U
  <2> QED BY <1>1, <1>2, NatInductionOnSet
<1> QED BY <1>3

\* A recursion in which each value is the step of the one before it.
IsRecursion(f, n, A, base, step) ==
  f \in [0 .. n -> A] /\ f[0] = base /\ \A i \in 1 .. n : f[i] = step[i][f[i - 1]]

LEMMA RecursionExists ==
  ASSUME NEW n \in Nat, NEW A, NEW base \in A, NEW step \in [1 .. n -> [A -> A]]
  PROVE  \E f : IsRecursion(f, n, A, base, step)
<1> DEFINE ok(f, m) == f[0] = base /\ \A i \in 1 .. m : f[i] = step[i][f[i - 1]]
           has(m) == \E f \in [0 .. m -> A] : ok(f, m)
           T == {m \in 0 .. n : has(m)}
<1>1. 0 \in T
  <2>1. [i \in 0 .. 0 |-> base] \in [0 .. 0 -> A] /\ ok([i \in 0 .. 0 |-> base], 0) OBVIOUS
  <2>2. \E f \in [0 .. 0 -> A] : ok(f, 0) BY <2>1
  <2> QED BY <2>2
<1>2. \A m \in 0 .. n - 1 : m \in T => m + 1 \in T
  <2> SUFFICES ASSUME NEW m \in 0 .. n - 1, has(m) PROVE has(m + 1)
    <3> HIDE DEF has
    <3> QED OBVIOUS
  <2>1. PICK f \in [0 .. m -> A] : ok(f, m) OBVIOUS
  <2> DEFINE g == [i \in 0 .. m + 1 |-> IF i = m + 1 THEN step[m + 1][f[m]] ELSE f[i]]
  <2>2. step[m + 1][f[m]] \in A OBVIOUS
  <2>3. g \in [0 .. m + 1 -> A] BY <2>2
  <2>4. g[0] = base BY <2>1
  <2>5. \A i \in 1 .. m + 1 : g[i] = step[i][g[i - 1]]
    <3> SUFFICES ASSUME NEW i \in 1 .. m + 1 PROVE g[i] = step[i][g[i - 1]] OBVIOUS
    <3>1. i - 1 \in 0 .. m /\ g[i - 1] = f[i - 1] OBVIOUS
    <3>2. CASE i = m + 1 BY <3>1, <3>2
    <3>3. CASE i # m + 1
      <4>1. i \in 1 .. m BY <3>3
      <4>2. g[i] = f[i] BY <3>3
      <4>3. f[i] = step[i][f[i - 1]] BY <2>1, <4>1
      <4> QED BY <3>1, <4>2, <4>3
    <3> QED BY <3>2, <3>3
  <2> QED BY <2>3, <2>4, <2>5
<1>3. 0 .. n \subseteq T
  <2> HIDE DEF T
  <2> QED BY <1>1, <1>2, UpTo
<1>4. n \in T BY <1>3
<1>5. has(n) BY <1>4
<1> QED BY <1>5 DEF IsRecursion

LEMMA ReachedBounds ==
  ASSUME NEW g, NEW w, NEW P
  PROVE  /\ WiresAround(g, w, P) \subseteq WiresReached(g, w, P)
         /\ WiresReached(g, w, P) \subseteq DOMAIN w
<1> DEFINE D == DOMAIN w  A == SUBSET D  base == WiresAround(g, w, P)
           grown(S) == S \cup UNION {WireNeighbors(w, p) : p \in S}
           step == [i \in 1 .. Strength |-> [S \in A |-> grown(S)]]
           is(r) == r = [n \in 0 .. Strength |-> IF n = 0 THEN base ELSE grown(r[n - 1])]
<1>1. base \in A BY DEF WiresAround
<1>2. \A S \in A : grown(S) \in A BY WireNeighborsIn
<1>3. step \in [1 .. Strength -> [A -> A]] BY <1>2
<1> HIDE DEF base, grown
<1>4. Strength \in Nat BY StrengthAssumption
<1>5. PICK f : IsRecursion(f, Strength, A, base, step)
  <2> HIDE DEF step, A
  <2> QED BY <1>1, <1>3, <1>4, RecursionExists
<1>6. f \in [0 .. Strength -> A] /\ f[0] = base /\ \A i \in 1 .. Strength : f[i] = grown(f[i - 1])
  <2>1. \A i \in 1 .. Strength : f[i - 1] \in A BY <1>4, <1>5 DEF IsRecursion
  <2> QED BY <1>4, <1>5, <2>1 DEF IsRecursion
<1>7. is(f)
  <2> DEFINE h == [n \in 0 .. Strength |-> IF n = 0 THEN base ELSE grown(f[n - 1])]
  <2>1. \A n \in 0 .. Strength : f[n] = h[n]
    <3> TAKE n \in 0 .. Strength
    <3>1. n = 0 \/ n \in 1 .. Strength BY <1>4
    <3> QED BY <1>6, <3>1
  <2>2. f = h
    <3> HIDE DEF A
    <3>1. DOMAIN f = 0 .. Strength /\ f = [n \in 0 .. Strength |-> f[n]] BY <1>6
    <3> QED BY <2>1, <3>1
  <2> QED BY <2>2
<1> DEFINE r == CHOOSE r : is(r)
<1>8. is(r) BY <1>7
<1>9. WiresReached(g, w, P) = r[Strength] BY DEF WiresReached, base, grown
<1> HIDE DEF r
<1>10. r[0] = base /\ \A n \in 1 .. Strength : r[n] = grown(r[n - 1])
  <2>1. \A n \in 0 .. Strength : r[n] = IF n = 0 THEN base ELSE grown(r[n - 1]) BY <1>8
  <2>2. 0 \in 0 .. Strength BY <1>4
  <2> QED BY <1>4, <2>1, <2>2
<1> DEFINE T == {n \in 0 .. Strength : base \subseteq r[n] /\ r[n] \in A}
<1>11. 0 .. Strength \subseteq T
  <2>1. 0 \in T BY <1>1, <1>4, <1>10
  <2>2. \A i \in 0 .. Strength - 1 : i \in T => i + 1 \in T
    <3> SUFFICES ASSUME NEW i \in 0 .. Strength - 1, i \in T PROVE i + 1 \in T OBVIOUS
    <3>1. r[i + 1] = grown(r[i])
      <4>1. i + 1 \in 1 .. Strength /\ (i + 1) - 1 = i BY <1>4
      <4> QED BY <1>10, <4>1
    <3>2. r[i] \in A /\ base \subseteq r[i] OBVIOUS
    <3>3. grown(r[i]) \in A BY <1>2, <3>2
    <3>4. r[i] \subseteq grown(r[i]) BY DEF grown
    <3>5. i + 1 \in 0 .. Strength BY <1>4
    <3> QED BY <3>1, <3>2, <3>3, <3>4, <3>5
  <2> HIDE DEF T
  <2> QED BY <1>4, <2>1, <2>2, UpTo
<1>12. Strength \in T
  <2>1. Strength \in 0 .. Strength BY <1>4
  <2> QED BY <1>11, <2>1
<1> QED BY <1>9, <1>12 DEF base

-----------------------------------------------------------------------------
(* What a node depends on is the kinds of the blocks around it.            *)

SameKind(u, w, p) == Block(u, p).kind = Block(w, p).kind

SameFacing(u, w, p) ==
  Block(w, p).kind \in {"torch", "repeater", "comparator"} => Block(u, p).facing = Block(w, p).facing

\* The blocks a node at p depends on are the same but for their power.
SameAround(u, w, p) ==
  /\ SameKind(u, w, p) /\ SameFacing(u, w, p)
  /\ \A q \in Around(p) : SameKind(u, w, q)
  /\ IsWire(Block(w, p)) => \A q \in Around(p) : \A r \in Around(q) : SameKind(u, w, r)

LEMMA SameInput ==
  ASSUME NEW u, NEW w, NEW q, SameKind(u, w, q), \A r \in Around(q) : SameKind(u, w, r)
  PROVE  BlockInput(u, q) = BlockInput(w, q)
<1>1. Conductor(Block(u, q)) <=> Conductor(Block(w, q)) BY DEF Conductor, SameKind
<1>2. \A r \in Around(q) : IsWire(Block(u, r)) <=> IsWire(Block(w, r)) BY DEF IsWire, SameKind
<1>3. {r \in Around(q) : ~IsWire(Block(u, r))} = {r \in Around(q) : ~IsWire(Block(w, r))} BY <1>2
<1>4. (Block(u, q).kind = "block") = (Block(w, q).kind = "block") BY DEF SameKind
<1> QED BY <1>1, <1>3, <1>4 DEF BlockInput, Around

LEMMA SameNeighbors ==
  ASSUME NEW u, NEW w, NEW p, \A q \in Around(p) : SameKind(u, w, q),
         \A q \in Around(p) : \A r \in Around(q) : SameKind(u, w, r)
  PROVE  WireNeighbors(u, p) = WireNeighbors(w, p)
<1> DEFINE uncovered(x) == ~Conductor(Block(x, Next6(p, "up")))
           Reads(x, d) ==
             {Next6(p, d)} \cup (IF Conductor(Block(x, Next6(p, d)))
                                 THEN (IF uncovered(x) THEN {Next6(Next6(p, d), "up")} ELSE {})
                                 ELSE {Next6(Next6(p, d), "down")})
<1>1. \A x : WireNeighbors(x, p) = {q \in UNION {Reads(x, d) : d \in Horizontal} : IsWire(Block(x, q))}
  BY DEF WireNeighbors
<1>2. "up" \in Directions /\ "down" \in Directions /\ Horizontal \subseteq Directions
  BY DEF Directions
<1>3. \A q \in Around(p) : Conductor(Block(u, q)) <=> Conductor(Block(w, q))
  BY DEF Conductor, SameKind
<1>4. \A d \in Horizontal : Next6(p, d) \in Around(p) BY <1>2 DEF Around
<1>5. Next6(p, "up") \in Around(p) BY <1>2 DEF Around
<1>6. \A d \in Horizontal : Reads(u, d) = Reads(w, d) BY <1>3, <1>4, <1>5
<1>7. \A d \in Horizontal : \A r \in Reads(w, d) : SameKind(u, w, r)
  <2> SUFFICES ASSUME NEW d \in Horizontal, NEW r \in Reads(w, d) PROVE SameKind(u, w, r) OBVIOUS
  <2>1. Next6(Next6(p, d), "up") \in Around(Next6(p, d)) /\ Next6(Next6(p, d), "down") \in Around(Next6(p, d))
    BY <1>2 DEF Around
  <2>2. \/ r = Next6(p, d) \/ r = Next6(Next6(p, d), "up") \/ r = Next6(Next6(p, d), "down") OBVIOUS
  <2> QED BY <1>4, <2>1, <2>2
<1> HIDE DEF Reads
<1>8. {Reads(u, d) : d \in Horizontal} = {Reads(w, d) : d \in Horizontal} BY <1>6
<1>9. \A r \in UNION {Reads(w, d) : d \in Horizontal} : IsWire(Block(u, r)) <=> IsWire(Block(w, r))
  BY <1>7 DEF IsWire, SameKind
<1> QED BY <1>1, <1>8, <1>9

LEMMA SameCompiled ==
  ASSUME NEW u, NEW w, NEW p, SameAround(u, w, p),
         Block(w, p).kind \in {"repeater", "comparator"} => Block(w, p).facing \in Horizontal
  PROVE  Needs(u, p) = Needs(w, p) /\ Plan(u, p) = Plan(w, p)
<1>1. IsWire(Block(u, p)) <=> IsWire(Block(w, p)) BY DEF SameAround, SameKind, IsWire
<1>2. CASE IsWire(Block(w, p))
  <2>1. \A d \in Directions : Next6(p, d) \in Around(p) BY DEF Around
  <2>2. \A d \in Directions : BlockInput(u, Next6(p, d)) = BlockInput(w, Next6(p, d))
    <3> TAKE d \in Directions
    <3>1. SameKind(u, w, Next6(p, d)) /\ \A r \in Around(Next6(p, d)) : SameKind(u, w, r)
      BY <1>2, <2>1 DEF SameAround
    <3> QED BY <3>1, SameInput
  <2>3. WireNeighbors(u, p) = WireNeighbors(w, p) BY <1>2, SameNeighbors DEF SameAround
  <2>4. [d \in Directions |-> BlockInput(u, Next6(p, d))] = [d \in Directions |-> BlockInput(w, Next6(p, d))]
    BY <2>2
  <2>5. {BlockInput(u, Next6(p, d)).sources : d \in Directions} = {BlockInput(w, Next6(p, d)).sources : d \in Directions}
    BY <2>2
  <2>6. WireDependencies(u, p) = WireDependencies(w, p) BY <2>3, <2>5 DEF WireDependencies
  <2>7. WirePlan(u, p) = WirePlan(w, p) BY <2>3, <2>4 DEF WirePlan
  <2> QED BY <1>1, <1>2, <2>6, <2>7 DEF Needs, Plan
<1>3. CASE ~IsWire(Block(w, p))
  <2> DEFINE a == Block(u, p)  b == Block(w, p)
  <2>1. a.kind = b.kind BY DEF SameAround, SameKind
  <2>2. InputPositions(u, p) = InputPositions(w, p)
    <3>1. CASE b.kind = "torch"
      <4>1. a.facing = b.facing BY <3>1 DEF SameAround, SameFacing
      <4>2. TorchInput(a) = TorchInput(b) BY <4>1 DEF TorchInput
      <4> QED BY <2>1, <3>1, <4>2 DEF InputPositions
    <3>2. CASE b.kind \in {"repeater", "comparator"}
      <4>1. a.facing = b.facing /\ b.facing \in Horizontal BY <3>2 DEF SameAround, SameFacing
      <4>2. Next6(p, b.facing) \in Around(p) BY <4>1 DEF Around, Directions
      <4>3. Conductor(Block(u, Next6(p, b.facing))) <=> Conductor(Block(w, Next6(p, b.facing)))
        BY <4>2 DEF SameAround, SameKind, Conductor
      <4> QED BY <2>1, <3>2, <4>1, <4>3 DEF InputPositions
    <3>3. CASE b.kind \notin {"torch", "repeater", "comparator"}
      BY <2>1, <3>3 DEF InputPositions
    <3> QED BY <3>1, <3>2, <3>3
  <2> QED BY <1>1, <1>3, <2>2 DEF Needs, Plan
<1> QED BY <1>2, <1>3

-----------------------------------------------------------------------------
(* Distances.                                                              *)

LEMMA AroundBack ==
  ASSUME NEW p \in Int \X Int \X Int, NEW q \in Around(p)
  PROVE  p \in Near(q) /\ q \in Int \X Int \X Int /\ \A i \in 1 .. 3 : p[i] - q[i] \in -1 .. 1
<1>1. PICK d \in Directions : q = Next6(p, d) BY DEF Around
<1>2. d \in {"north", "east", "south", "west", "down", "up"} BY DEF Directions, Horizontal
<1>3. p = <<p[1], p[2], p[3]>> /\ p[1] \in Int /\ p[2] \in Int /\ p[3] \in Int OBVIOUS
<1> DEFINE e == Opposite(d)
<1>4. e \in Directions BY <1>2 DEF Opposite, Directions, Horizontal
<1>5. /\ p = Next6(q, e) /\ q \in Int \X Int \X Int
      /\ p[1] - q[1] \in -1 .. 1 /\ p[2] - q[2] \in -1 .. 1 /\ p[3] - q[3] \in -1 .. 1
  <2>1. CASE d = "north" BY <1>1, <1>3, <2>1 DEF Next6, Opposite
  <2>2. CASE d = "east" BY <1>1, <1>3, <2>2 DEF Next6, Opposite
  <2>3. CASE d = "south" BY <1>1, <1>3, <2>3 DEF Next6, Opposite
  <2>4. CASE d = "west" BY <1>1, <1>3, <2>4 DEF Next6, Opposite
  <2>5. CASE d = "down" BY <1>1, <1>3, <2>5 DEF Next6, Opposite
  <2>6. CASE d = "up" BY <1>1, <1>3, <2>6 DEF Next6, Opposite
  <2> QED BY <1>2, <2>1, <2>2, <2>3, <2>4, <2>5, <2>6
<1>6. p \in Near(q) BY <1>4, <1>5 DEF Near
<1>7. \A i \in 1 .. 3 : i = 1 \/ i = 2 \/ i = 3 OBVIOUS
<1> QED BY <1>5, <1>6, <1>7

LEMMA AroundTwice ==
  ASSUME NEW p \in Int \X Int \X Int, NEW q \in Around(p), NEW r \in Around(q)
  PROVE  \A i \in 1 .. 3 : p[i] - r[i] \in -2 .. 2
<1>1. q \in Int \X Int \X Int /\ \A i \in 1 .. 3 : p[i] - q[i] \in -1 .. 1 BY AroundBack
<1>2. r \in Int \X Int \X Int /\ \A i \in 1 .. 3 : q[i] - r[i] \in -1 .. 1 BY <1>1, AroundBack
<1> SUFFICES ASSUME NEW i \in 1 .. 3 PROVE p[i] - r[i] \in -2 .. 2 OBVIOUS
<1>3. p[i] \in Int /\ q[i] \in Int /\ r[i] \in Int
  <2>1. i = 1 \/ i = 2 \/ i = 3 OBVIOUS
  <2>2. p[1] \in Int /\ p[2] \in Int /\ p[3] \in Int OBVIOUS
  <2>3. q[1] \in Int /\ q[2] \in Int /\ q[3] \in Int BY <1>1
  <2>4. r[1] \in Int /\ r[2] \in Int /\ r[3] \in Int BY <1>2
  <2> QED BY <2>1, <2>2, <2>3, <2>4
<1>4. p[i] - q[i] \in -1 .. 1 /\ q[i] - r[i] \in -1 .. 1 BY <1>1, <1>2
<1> QED BY <1>3, <1>4

-----------------------------------------------------------------------------
(* The changes between two synchronisations.                               *)

AllBlocks == Blocks \cup UNION {{w[p] : p \in DOMAIN w} : w \in Starts}

Changes(D) == [pos : D, old : AllBlocks, new : AllBlocks]

\* Two blocks that a dense network cannot tell apart.
Alike(a, b) == Signature(a) = Signature(b) \/ (IsWire(a) /\ IsWire(b))

ChangesAt(cs, p) == {i \in DOMAIN cs : cs[i].pos = p}

\* The world was u, then the blocks of cs changed, and now it is w.
Since(u, cs, w) ==
  \A p \in DOMAIN w :
    /\ p \notin Topology(cs) => /\ Signature(u[p]) = Signature(w[p])
                                /\ \A i \in ChangesAt(cs, p) : Signature(cs[i].new) = Signature(w[p])
    /\ p \notin NetworkTopology(cs) => /\ Alike(u[p], w[p])
                                       /\ p \in Topology(cs) => IsWire(w[p])
    /\ ChangesAt(cs, p) = {} => u[p] = w[p]
    /\ \A i \in ChangesAt(cs, p) : (\A j \in ChangesAt(cs, p) : j <= i) => cs[i].new = w[p]

LEMMA BlocksKnown == \A b \in AllBlocks : IsBlock(b)
BY PlanAssumption DEF AllBlocks

LEMMA SignatureFacts ==
  ASSUME NEW a, NEW b, IsBlock(a), IsBlock(b), Signature(a) = Signature(b)
  PROVE  /\ a.kind = b.kind
         /\ b.kind \in {"torch", "repeater", "comparator"} => a.facing = b.facing
<1> DEFINE power == {"power", "powered", "lit"}
<1>1. /\ "kind" \in DOMAIN a \ power /\ "kind" \in DOMAIN b \ power BY DEF IsBlock
<1>2. DOMAIN a \ power = DOMAIN b \ power
  <2>1. DOMAIN Signature(a) = DOMAIN a \ power /\ DOMAIN Signature(b) = DOMAIN b \ power BY DEF Signature
  <2> QED BY <2>1
<1>3. \A f \in DOMAIN b \ power : a[f] = b[f]
  <2> TAKE f \in DOMAIN b \ power
  <2>1. Signature(b)[f] = b[f] BY DEF Signature
  <2>2. Signature(a)[f] = a[f] BY <1>2 DEF Signature
  <2> QED BY <2>1, <2>2
<1>4. a.kind = b.kind BY <1>1, <1>3
<1>5. ASSUME b.kind \in {"torch", "repeater", "comparator"} PROVE a.facing = b.facing
  <2>1. "facing" \in DOMAIN b \ power BY <1>5 DEF IsBlock
  <2> QED BY <1>3, <2>1
<1> QED BY <1>4, <1>5

LEMMA AlikeFacts ==
  ASSUME NEW a, NEW b, NEW c, IsBlock(a), IsBlock(b), IsBlock(c), Alike(a, b), Alike(b, c)
  PROVE  Alike(a, c)
<1>1. CASE Signature(a) = Signature(b) /\ Signature(b) = Signature(c) BY <1>1 DEF Alike
<1>2. CASE Signature(a) = Signature(b) /\ IsWire(b) /\ IsWire(c)
  BY <1>2, SignatureFacts DEF Alike, IsWire
<1>3. CASE IsWire(a) /\ IsWire(b) /\ Signature(b) = Signature(c)
  <2>1. b.kind = c.kind BY <1>3, SignatureFacts
  <2> QED BY <1>3, <2>1 DEF Alike, IsWire
<1>4. CASE IsWire(a) /\ IsWire(c) BY <1>4 DEF Alike
<1> QED BY <1>1, <1>2, <1>3, <1>4 DEF Alike

LEMMA InTopology ==
  ASSUME NEW cs, NEW p
  PROVE  /\ p \in Topology(cs) <=> \E i \in ChangesAt(cs, p) : Signature(cs[i].old) # Signature(cs[i].new)
         /\ p \in NetworkTopology(cs) <=> \E i \in ChangesAt(cs, p) : ~Alike(cs[i].old, cs[i].new)
BY DEF Topology, NetworkTopology, TopologyChanges, ChangesAt, ToSet, Alike

LEMMA MoreChanges ==
  ASSUME NEW S, NEW cs \in Seq(S), NEW c \in S, NEW p
  PROVE  LET ds == Append(cs, c) IN
         /\ Len(ds) \in Nat /\ Len(ds) \in DOMAIN ds /\ ds[Len(ds)] = c
         /\ Len(ds) \notin DOMAIN cs /\ \A i \in DOMAIN cs : ds[i] = cs[i] /\ i < Len(ds)
         /\ DOMAIN ds = DOMAIN cs \cup {Len(ds)}
OBVIOUS

\* What one more change adds to those at p.
MoreOf(ds, cs, c, p) ==
  /\ ChangesAt(ds, p) = IF c.pos = p THEN ChangesAt(cs, p) \cup {Len(ds)} ELSE ChangesAt(cs, p)
  /\ \A i \in ChangesAt(cs, p) : ds[i] = cs[i] /\ i < Len(ds)
  /\ ds[Len(ds)] = c /\ Len(ds) \in Nat

LEMMA MoreAt ==
  ASSUME NEW S, NEW cs \in Seq(S), NEW c \in S, NEW p
  PROVE  MoreOf(Append(cs, c), cs, c, p)
<1> DEFINE ds == Append(cs, c)
<1>1. /\ Len(ds) \in DOMAIN ds /\ ds[Len(ds)] = c /\ Len(ds) \notin DOMAIN cs /\ Len(ds) \in Nat
      /\ \A i \in DOMAIN cs : ds[i] = cs[i] /\ i < Len(ds)
      /\ DOMAIN ds = DOMAIN cs \cup {Len(ds)}
  BY MoreChanges
<1> HIDE DEF ds
<1>2. ChangesAt(ds, p) = IF c.pos = p THEN ChangesAt(cs, p) \cup {Len(ds)} ELSE ChangesAt(cs, p)
  BY <1>1 DEF ChangesAt
<1> QED BY <1>1, <1>2 DEF ds, ChangesAt, MoreOf

LEMMA MoreTopology ==
  ASSUME NEW ds, NEW cs, NEW c, NEW p, MoreOf(ds, cs, c, p)
  PROVE  /\ p \notin Topology(ds) => /\ p \notin Topology(cs)
                                     /\ c.pos = p => Signature(c.old) = Signature(c.new)
         /\ p \notin NetworkTopology(ds) => /\ p \notin NetworkTopology(cs)
                                            /\ c.pos = p => Alike(c.old, c.new)
         /\ p \in Topology(ds) => p \in Topology(cs) \/ (c.pos = p /\ Signature(c.old) # Signature(c.new))
<1>1. /\ ChangesAt(cs, p) \subseteq ChangesAt(ds, p)
      /\ c.pos = p => Len(ds) \in ChangesAt(ds, p)
      /\ \A i \in ChangesAt(cs, p) : ds[i] = cs[i]
      /\ ds[Len(ds)] = c
  BY DEF MoreOf
<1>2. p \notin Topology(ds) => p \notin Topology(cs) /\ (c.pos = p => Signature(c.old) = Signature(c.new))
  BY <1>1, InTopology
<1>3. p \notin NetworkTopology(ds) => p \notin NetworkTopology(cs) /\ (c.pos = p => Alike(c.old, c.new))
  BY <1>1, InTopology
<1>4. p \in Topology(ds) => p \in Topology(cs) \/ (c.pos = p /\ Signature(c.old) # Signature(c.new))
  <2> HAVE p \in Topology(ds)
  <2>1. PICK i \in ChangesAt(ds, p) : Signature(ds[i].old) # Signature(ds[i].new) BY InTopology
  <2>2. CASE i \in ChangesAt(cs, p) BY <1>1, <2>1, <2>2, InTopology
  <2>3. CASE i \notin ChangesAt(cs, p)
    <3>1. i = Len(ds) /\ c.pos = p BY <2>1, <2>3 DEF MoreOf
    <3> QED BY <1>1, <2>1, <3>1
  <2> QED BY <2>2, <2>3
<1> QED BY <1>2, <1>3, <1>4

\* The world of an edit.
LEMMA SinceEdit ==
  ASSUME NEW D, NEW u \in [D -> AllBlocks], NEW w \in [D -> AllBlocks], NEW cs \in Seq(Changes(D)),
         NEW p \in D, NEW b \in AllBlocks
  PROVE  LET c == [pos |-> p, old |-> w[p], new |-> b]
             ds == Append(cs, c)
             x == [w EXCEPT ![p] = b]
         IN  /\ x \in [D -> AllBlocks] /\ ds \in Seq(Changes(D))
             /\ Since(u, cs, w) => Since(u, ds, x)
             /\ (\A q \in D : q \notin NetworkTopology(cs) => Alike(u[q], w[q]))
                => \A q \in D : q \notin NetworkTopology(ds) => Alike(u[q], x[q])
<1> DEFINE c == [pos |-> p, old |-> w[p], new |-> b]
           ds == Append(cs, c)
           x == [w EXCEPT ![p] = b]
<1>1. c \in Changes(D) /\ c.pos = p /\ c.old = w[p] /\ c.new = b BY DEF Changes
<1> HIDE DEF c
<1>2. ds \in Seq(Changes(D)) /\ \A q : MoreOf(ds, cs, c, q) BY <1>1, MoreAt
<1>3. /\ x \in [D -> AllBlocks] /\ x[p] = b /\ \A q \in D : q # p => x[q] = w[q]
      /\ DOMAIN w = D /\ DOMAIN x = D
  OBVIOUS
<1> HIDE DEF ds, x
<1>4. \A q \in D : IsBlock(u[q]) /\ IsBlock(w[q]) /\ IsBlock(b) BY BlocksKnown
<1>5. ASSUME NEW q \in D, q \notin NetworkTopology(cs) => Alike(u[q], w[q]), q \notin NetworkTopology(ds)
      PROVE  Alike(u[q], x[q])
  <2>1. q \notin NetworkTopology(cs) /\ (q = p => Alike(w[p], b))
    BY <1>1, <1>2, <1>5, MoreTopology
  <2>2. Alike(u[q], w[q]) BY <1>5, <2>1
  <2>3. CASE q = p BY <1>3, <1>4, <2>1, <2>2, <2>3, AlikeFacts
  <2>4. CASE q # p BY <1>3, <2>2, <2>4
  <2> QED BY <2>3, <2>4
<1>6. ASSUME Since(u, cs, w), NEW q \in D
      PROVE  /\ q \notin Topology(ds) => /\ Signature(u[q]) = Signature(x[q])
                                         /\ \A i \in ChangesAt(ds, q) : Signature(ds[i].new) = Signature(x[q])
             /\ ChangesAt(ds, q) = {} => u[q] = x[q]
             /\ \A i \in ChangesAt(ds, q) : (\A j \in ChangesAt(ds, q) : j <= i) => ds[i].new = x[q]
  <2>1. /\ ChangesAt(ds, q) = IF p = q THEN ChangesAt(cs, q) \cup {Len(ds)} ELSE ChangesAt(cs, q)
        /\ \A i \in ChangesAt(cs, q) : ds[i] = cs[i] /\ i < Len(ds)
        /\ ds[Len(ds)] = c /\ Len(ds) \in Nat
    BY <1>1, <1>2 DEF MoreOf
  <2>2. q \notin Topology(ds) => q \notin Topology(cs) /\ (q = p => Signature(w[p]) = Signature(b))
    BY <1>1, <1>2, MoreTopology
  <2>3. /\ q \notin Topology(cs) => /\ Signature(u[q]) = Signature(w[q])
                                    /\ \A i \in ChangesAt(cs, q) : Signature(cs[i].new) = Signature(w[q])
        /\ ChangesAt(cs, q) = {} => u[q] = w[q]
        /\ \A i \in ChangesAt(cs, q) : (\A j \in ChangesAt(cs, q) : j <= i) => cs[i].new = w[q]
    BY <1>3, <1>6 DEF Since
  <2>4. CASE q # p BY <1>3, <2>1, <2>2, <2>3, <2>4
  <2>5. CASE q = p
    <3>1. q \notin Topology(ds) => /\ Signature(u[q]) = Signature(x[q])
                                   /\ \A i \in ChangesAt(ds, q) : Signature(ds[i].new) = Signature(x[q])
      <4> HAVE q \notin Topology(ds)
      <4>1. Signature(u[q]) = Signature(w[q]) /\ Signature(w[q]) = Signature(x[q])
        BY <1>3, <2>2, <2>3, <2>5
      <4>2. \A i \in ChangesAt(cs, q) : Signature(ds[i].new) = Signature(x[q])
        BY <2>1, <2>2, <2>3, <4>1
      <4>3. Signature(ds[Len(ds)].new) = Signature(x[q]) BY <1>1, <1>3, <2>1, <2>5
      <4> QED BY <2>1, <2>5, <4>1, <4>2, <4>3
    <3>2. Len(ds) \in ChangesAt(ds, q) BY <2>1, <2>5
    <3>3. \A i \in ChangesAt(ds, q) : (\A j \in ChangesAt(ds, q) : j <= i) => ds[i].new = x[q]
      <4> TAKE i \in ChangesAt(ds, q)
      <4> HAVE \A j \in ChangesAt(ds, q) : j <= i
      <4>1. Len(ds) <= i BY <3>2
      <4>2. i = Len(ds)
        <5>1. CASE i \in ChangesAt(cs, q)
          <6>1. i < Len(ds) BY <2>1, <5>1
          <6>2. i \in Nat BY <5>1 DEF ChangesAt
          <6> QED BY <2>1, <4>1, <6>1, <6>2
        <5> QED BY <2>1, <2>5, <5>1
      <4> QED BY <1>1, <1>3, <2>1, <2>5, <4>2
    <3> QED BY <3>1, <3>2, <3>3
  <2> QED BY <2>4, <2>5
<1>7. Since(u, cs, w) => Since(u, ds, x)
  <2> SUFFICES ASSUME Since(u, cs, w), NEW q \in D
               PROVE  /\ q \notin Topology(ds) =>
                           /\ Signature(u[q]) = Signature(x[q])
                           /\ \A i \in ChangesAt(ds, q) : Signature(ds[i].new) = Signature(x[q])
                      /\ q \notin NetworkTopology(ds) => /\ Alike(u[q], x[q])
                                                         /\ q \in Topology(ds) => IsWire(x[q])
                      /\ ChangesAt(ds, q) = {} => u[q] = x[q]
                      /\ \A i \in ChangesAt(ds, q) : (\A j \in ChangesAt(ds, q) : j <= i) => ds[i].new = x[q]
    BY <1>3 DEF Since
  <2>1. q \notin NetworkTopology(cs) => Alike(u[q], w[q]) /\ (q \in Topology(cs) => IsWire(w[q]))
    BY <1>3 DEF Since
  <2>2. q \notin NetworkTopology(ds) /\ q \in Topology(ds) => IsWire(x[q])
    <3> SUFFICES ASSUME q \notin NetworkTopology(ds), q \in Topology(ds) PROVE IsWire(x[q]) OBVIOUS
    <3>1. q \notin NetworkTopology(cs) /\ (q = p => Alike(w[p], b)) BY <1>1, <1>2, MoreTopology
    <3>2. q \in Topology(cs) \/ (q = p /\ Signature(w[p]) # Signature(b)) BY <1>1, <1>2, MoreTopology
    <3>3. CASE q # p BY <1>3, <2>1, <3>1, <3>2, <3>3
    <3>4. CASE q = p /\ q \in Topology(cs)
      <4>1. IsWire(w[p]) /\ Alike(w[p], b) BY <2>1, <3>1, <3>4
      <4>2. IsWire(b) BY <1>4, <4>1, SignatureFacts DEF Alike, IsWire
      <4> QED BY <1>3, <3>4, <4>2
    <3>5. CASE q = p /\ Signature(w[p]) # Signature(b) BY <1>3, <3>1, <3>5 DEF Alike
    <3> QED BY <3>2, <3>3, <3>4, <3>5
  <2> QED BY <1>5, <1>6, <2>1, <2>2
<1>8. (\A q \in D : q \notin NetworkTopology(cs) => Alike(u[q], w[q]))
      => \A q \in D : q \notin NetworkTopology(ds) => Alike(u[q], x[q])
  BY <1>5
<1> QED BY <1>2, <1>3, <1>7, <1>8 DEF c, ds, x

-----------------------------------------------------------------------------
(* A node that is not compiled again.                                      *)

LEMMA LastOf ==
  ASSUME NEW n \in Nat, NEW S, S \subseteq 1 .. n, S # {}
  PROVE  \E i \in S : \A j \in S : j <= i
<1> DEFINE B == {m \in Nat : \A i \in S : i <= m}
           R == OpToRel(<, Nat)
<1>1. n \in B OBVIOUS
<1>2. \E x \in B : \A y \in B : ~ (<<y, x>> \in R)
  <2>1. IsWellFoundedOn(R, Nat) BY NatLessThanWellFounded
  <2>2. B \subseteq Nat /\ B # {} BY <1>1
  <2> HIDE DEF R, B
  <2> QED BY <2>1, <2>2, WFMin, Zenon
<1>3. PICK x \in B : \A y \in B : ~ (<<y, x>> \in R) BY <1>2
<1>4. \A y \in B : ~ (y < x) BY <1>3 DEF OpToRel
<1>5. x \in S
  <2> SUFFICES ASSUME x \notin S PROVE FALSE OBVIOUS
  <2>1. x \in Nat /\ \A i \in S : i < x /\ i \in 1 .. n
    <3>1. x \in B OBVIOUS
    <3>2. \A i \in S : i <= x /\ i \in 1 .. n /\ i # x BY <3>1
    <3>3. x \in Nat BY <3>1
    <3> HIDE DEF B
    <3> QED BY <3>2, <3>3
  <2>2. x - 1 \in Nat /\ x - 1 < x
    <3>1. PICK i \in S : TRUE OBVIOUS
    <3>2. i < x /\ i \in 1 .. n BY <2>1, <3>1
    <3> QED BY <2>1, <3>2
  <2>3. \A i \in S : i <= x - 1 BY <2>1
  <2> QED BY <1>4, <2>2, <2>3
<1> QED BY <1>5

\* The worlds of a run.
Worlds(D, u, cs, w) ==
  /\ D \subseteq Int \X Int \X Int
  /\ u \in [D -> AllBlocks] /\ w \in [D -> AllBlocks] /\ cs \in Seq(Changes(D))

LEMMA LatestIsRight ==
  ASSUME NEW D, NEW u, NEW cs, NEW w, Worlds(D, u, cs, w), Since(u, cs, w),
         NEW p \in D, p \notin Topology(cs), ~IsWire(w[p]), NEW n, n.pos = p, n.state = u[p]
  PROVE  LatestState(cs, n) = w[p]
<1> DEFINE S == ChangesAt(cs, p)
<1>1. \A i \in DOMAIN cs : cs[i].new \in AllBlocks /\ cs[i].pos \in D
  <2> DEFINE C == Changes(D)
  <2>1. cs \in Seq(C) /\ \A c \in C : c.new \in AllBlocks /\ c.pos \in D BY DEF Worlds, Changes
  <2> HIDE DEF C
  <2>2. \A i \in DOMAIN cs : cs[i] \in C BY <2>1
  <2> QED BY <2>1, <2>2
<1>2. /\ w[p] \in AllBlocks /\ p \in DOMAIN w BY DEF Worlds
<1>3. /\ \A i \in S : Signature(cs[i].new) = Signature(w[p])
      /\ S = {} => u[p] = w[p]
      /\ \A i \in S : (\A j \in S : j <= i) => cs[i].new = w[p]
  BY <1>2 DEF Since
<1>4. \A i \in S : Signature(cs[i].old) = Signature(cs[i].new) BY InTopology
<1>5. \A i \in S : ~IsWire(cs[i].new)
  <2> TAKE i \in S
  <2>1. IsBlock(cs[i].new) /\ IsBlock(w[p]) BY <1>1, <1>2, BlocksKnown DEF ChangesAt
  <2>2. cs[i].new.kind = w[p].kind BY <1>3, <2>1, SignatureFacts
  <2> QED BY <2>2 DEF IsWire
<1>6. StateChangesAt(cs, p) = S BY <1>4, <1>5 DEF StateChangesAt, ChangesAt
<1>7. CASE S = {} BY <1>3, <1>6, <1>7 DEF LatestState
<1>8. CASE S # {}
  <2>1. Len(cs) \in Nat /\ S \subseteq 1 .. Len(cs) BY DEF Worlds, ChangesAt
  <2> HIDE DEF S
  <2>2. \E i \in S : \A j \in S : j <= i BY <1>8, <2>1, LastOf
  <2> DEFINE i == CHOOSE i \in S : \A j \in S : j <= i
  <2>3. i \in S /\ \A j \in S : j <= i BY <2>2
  <2>4. LatestState(cs, n) = cs[i].new BY <1>6, <1>8 DEF LatestState
  <2> HIDE DEF i
  <2> QED BY <1>3, <2>3, <2>4
<1> QED BY <1>7, <1>8

\* A graph that was told of the changes of power.
ToldOf(h, g, cs) == h.at = g.at /\ \A p \in DOMAIN g.at : At(h, p) = NewsOf(cs, At(g, p))

LEMMA StillMatches ==
  ASSUME NEW D, NEW u, NEW cs, NEW w, Worlds(D, u, cs, w), Since(u, cs, w),
         NEW g, Whole(g, DOMAIN g.at), NEW h, ToldOf(h, g, cs),
         NEW p, Matches(g, u, p),
         p \in D => SameAround(u, w, p) /\ (p \in Topology(cs) => IsWire(Block(w, p)))
  PROVE  Matches(h, w, p)
<1>1. DOMAIN u = D /\ DOMAIN w = D /\ D \subseteq Int \X Int \X Int BY DEF Worlds
<1>2. Block(u, p).kind = Block(w, p).kind
  <2>1. CASE p \in D BY <2>1 DEF SameAround, SameKind
  <2>2. CASE p \notin D BY <1>1, <2>2 DEF Block
  <2> QED BY <2>1, <2>2
<1>3. KindRight(g, u, p) BY DEF Matches
<1>4. CASE p \notin DOMAIN g.at
  BY <1>2, <1>3, <1>4 DEF Matches, KindRight, ToldOf, IsNode
<1>5. CASE p \in DOMAIN g.at
  <2>1. IsNode(Block(u, p)) /\ At(g, p).kind = Block(u, p).kind BY <1>3, <1>5 DEF KindRight
  <2>2. p \in D BY <1>1, <2>1 DEF Block, Air, IsNode, NodeKinds
  <2>3. IsNodeRecord(At(g, p)) /\ At(g, p).pos = p BY <1>5, NodeFacts DEF Whole
  <2>0. SameAround(u, w, p) /\ (p \in Topology(cs) => IsWire(Block(w, p))) BY <2>2
  <2>4. /\ At(h, p).kind = At(g, p).kind /\ At(h, p).needs = At(g, p).needs
        /\ At(h, p).plan = At(g, p).plan /\ At(h, p).state = LatestState(cs, At(g, p))
    <3>1. At(h, p) = NewsOf(cs, At(g, p)) BY <1>5 DEF ToldOf
    <3> QED BY <2>3, <3>1, ToldFacts
  <2>5. Block(w, p) = w[p] /\ Block(u, p) = u[p] BY <1>1, <2>2 DEF Block
  <2>6. Needs(u, p) = Needs(w, p) /\ Plan(u, p) = Plan(w, p)
    <3>1. IsBlock(w[p]) BY <2>2, BlocksKnown DEF Worlds
    <3>2. Block(w, p).kind \in {"repeater", "comparator"} => Block(w, p).facing \in Horizontal
      BY <2>5, <3>1 DEF IsBlock
    <3> QED BY <2>0, <3>2, SameCompiled
  <2>7. At(g, p).needs = Needs(u, p) /\ At(g, p).plan = Plan(u, p) BY <1>5 DEF Matches
  <2>8. IsWire(w[p]) \/ At(h, p).state = w[p]
    <3> SUFFICES ASSUME ~IsWire(w[p]) PROVE At(h, p).state = w[p] OBVIOUS
    <3>1. p \notin Topology(cs) BY <2>0, <2>5
    <3>2. At(g, p).state = u[p]
      <4>1. ~IsWire(Block(u, p)) BY <1>2, <2>5 DEF IsWire
      <4> QED BY <1>5, <2>5, <4>1 DEF Matches
    <3>3. LatestState(cs, At(g, p)) = w[p] BY <2>2, <2>3, <3>1, <3>2, LatestIsRight
    <3> QED BY <2>4, <3>3
  <2>9. p \in DOMAIN h.at /\ IsNode(Block(w, p)) BY <1>2, <1>5, <2>1 DEF ToldOf, IsNode
  <2>10. KindRight(h, w, p) BY <1>2, <2>1, <2>4, <2>9 DEF KindRight
  <2>11. At(h, p).needs = Needs(w, p) /\ At(h, p).plan = Plan(w, p) BY <2>4, <2>6, <2>7
  <2> QED BY <2>5, <2>8, <2>10, <2>11 DEF Matches
<1> QED BY <1>4, <1>5

\* Where nothing but power or the shape of a wire changed.
LEMMA QuietAt ==
  ASSUME NEW D, NEW u, NEW cs, NEW w, Worlds(D, u, cs, w), Since(u, cs, w),
         NEW q, q \notin NetworkTopology(cs)
  PROVE  SameKind(u, w, q) /\ SameFacing(u, w, q)
<1>1. DOMAIN u = D /\ DOMAIN w = D BY DEF Worlds
<1>2. CASE q \notin D BY <1>1, <1>2 DEF SameKind, SameFacing, Block, Air
<1>3. CASE q \in D
  <2>1. IsBlock(u[q]) /\ IsBlock(w[q]) BY <1>3, BlocksKnown DEF Worlds
  <2>2. Alike(u[q], w[q]) BY <1>1, <1>3 DEF Since
  <2>3. Block(u, q) = u[q] /\ Block(w, q) = w[q] BY <1>1, <1>3 DEF Block
  <2>4. CASE Signature(u[q]) = Signature(w[q])
    BY <2>1, <2>3, <2>4, SignatureFacts DEF SameKind, SameFacing
  <2>5. CASE IsWire(u[q]) /\ IsWire(w[q]) BY <2>3, <2>5 DEF SameKind, SameFacing, IsWire
  <2> QED BY <2>2, <2>4, <2>5 DEF Alike
<1> QED BY <1>2, <1>3

LEMMA QuietAround ==
  ASSUME NEW D, NEW u, NEW cs, NEW w, Worlds(D, u, cs, w), Since(u, cs, w),
         NEW p \in D, NetworkTopology(cs) = {}
  PROVE  SameAround(u, w, p) /\ (p \in Topology(cs) => IsWire(Block(w, p)))
<1>1. \A q : SameKind(u, w, q) /\ SameFacing(u, w, q) BY QuietAt
<1>2. p \in Topology(cs) => IsWire(Block(w, p)) BY DEF Since, Worlds, Block
<1> QED BY <1>1, <1>2 DEF SameAround

LEMMA FarAround ==
  ASSUME NEW D, NEW u, NEW cs, NEW w, Worlds(D, u, cs, w), Since(u, cs, w),
         NEW g, NEW p \in D, p \notin Affected(g, w, Topology(cs))
  PROVE  SameAround(u, w, p) /\ (p \in Topology(cs) => IsWire(Block(w, p)))
<1> DEFINE T == Topology(cs)
<1>1. p \notin UNION {Near(q) : q \in T} /\ p \notin WiresReached(g, w, T) BY DEF Affected
<1>2. p \in Int \X Int \X Int /\ p \in DOMAIN w BY DEF Worlds
<1>3. \A q : q \notin T => q \notin NetworkTopology(cs) BY InTopology DEF Alike
<1> HIDE DEF T
<1>4. p \notin T BY <1>1 DEF Near
<1>5. \A q \in Around(p) : q \notin T BY <1>1, <1>2, AroundBack
<1>6. ASSUME IsWire(Block(w, p)), NEW q \in Around(p), NEW r \in Around(q) PROVE r \notin T
  <2> SUFFICES ASSUME r \in T PROVE FALSE OBVIOUS
  <2>1. \A i \in 1 .. 3 : p[i] - r[i] \in -2 .. 2 BY <1>2, AroundTwice
  <2>2. IsWire(w[p]) BY <1>2, <1>6 DEF Block
  <2>3. p \in WiresAround(g, w, T) BY <1>2, <2>1, <2>2 DEF WiresAround
  <2> QED BY <1>1, <2>3, ReachedBounds
<1>7. \A q : q \notin T => SameKind(u, w, q) /\ SameFacing(u, w, q) BY <1>3, QuietAt
<1> QED BY <1>4, <1>5, <1>6, <1>7 DEF SameAround, T

LEMMA DependentsAreNodes ==
  ASSUME NEW g, Whole(g, DOMAIN g.at), NEW p
  PROVE  DependentsOf(g, p) \subseteq DOMAIN g.at
<1> SUFFICES ASSUME NEW q \in DependentsOf(g, p) PROVE q \in DOMAIN g.at OBVIOUS
<1>1. p \in DOMAIN g.rev /\ \E id \in g.rev[p] : q = Node(g, id).pos BY DEF DependentsOf
<1>2. PICK id \in g.rev[p] : q = Node(g, id).pos BY <1>1
<1>3. PICK r \in DOMAIN g.at : id = g.at[r] BY <1>1, <1>2 DEF Whole, Indexes, DependentIds
<1>4. Node(g, id).pos = r BY <1>3, NodeFacts DEF Whole, At
<1> QED BY <1>2, <1>3, <1>4

LEMMA AffectedFinite ==
  ASSUME NEW w, IsFiniteSet(DOMAIN w), NEW g, Whole(g, DOMAIN g.at), NEW T, IsFiniteSet(T)
  PROVE  IsFiniteSet(Affected(g, w, T))
<1> DEFINE f == [p \in T |-> Near(p)]
           wires == WiresReached(g, w, T)
           near == UNION {Near(p) : p \in T}
           told == UNION {DependentsOf(g, p) : p \in near \cup wires}
<1>1. IsFiniteSet(near)
  <2>1. {Near(p) : p \in T} = {f[p] : p \in T} OBVIOUS
  <2>2. \A p : IsFiniteSet(Near(p))
    <3> TAKE p
    <3>1. Near(p) = {p} \cup Around(p) BY DEF Near, Around
    <3>2. IsFiniteSet({p}) /\ IsFiniteSet(Around(p)) BY AroundFinite, FS_Singleton
    <3> QED BY ONLY <3>1, <3>2, FS_Union
  <2> DEFINE F == {Near(p) : p \in T}
  <2>3. IsFiniteSet(F)
    <3> HIDE DEF f
    <3> QED BY <2>1, ImageFinite
  <2>4. \A N \in F : IsFiniteSet(N) BY <2>2
  <2> HIDE DEF F
  <2>5. IsFiniteSet(UNION F) BY <2>3, <2>4, FS_UNION
  <2> QED BY <2>5 DEF F
<1>2. IsFiniteSet(wires)
  <2>1. wires \subseteq DOMAIN w BY ReachedBounds
  <2> HIDE DEF wires
  <2> QED BY <2>1, FS_Subset
<1>3. IsFiniteSet(told)
  <2>1. told \subseteq DOMAIN g.at BY DependentsAreNodes
  <2>2. IsFiniteSet(DOMAIN g.at) BY NodesFinite DEF Whole
  <2> HIDE DEF told
  <2> QED BY <2>1, <2>2, FS_Subset
<1>4. Affected(g, w, T) = (near \cup wires) \cup told BY DEF Affected
<1> HIDE DEF near, wires, told
<1>5. IsFiniteSet(near \cup wires) BY <1>1, <1>2, FS_Union
<1> QED BY <1>3, <1>4, <1>5, FS_Union

LEMMA TopologyFinite ==
  ASSUME NEW S, NEW cs \in Seq(S)
  PROVE  IsFiniteSet(Topology(cs))
<1> DEFINE f == [i \in DOMAIN cs |-> cs[i].pos]  F == {f[i] : i \in DOMAIN cs}
<1>1. IsFiniteSet(DOMAIN cs)
  <2>1. Len(cs) \in Int /\ 1 \in Int /\ DOMAIN cs = 1 .. Len(cs) OBVIOUS
  <2> QED BY <2>1, FS_Interval
<1>2. IsFiniteSet(F)
  <2> HIDE DEF f
  <2> QED BY <1>1, ImageFinite
<1>3. Topology(cs) \subseteq F BY DEF Topology, TopologyChanges, ToSet
<1> HIDE DEF F
<1> QED BY <1>2, <1>3, FS_Subset

-----------------------------------------------------------------------------
(* The graph of a run.                                                     *)

\* A graph a compilation of w gives.
Compiled(g, w) == Whole(g, DOMAIN g.at) /\ KindsKnown(g) /\ \A p : Matches(g, w, p)

\* The inductive invariant: the graph is that of a world u, which the changes
\* since have made this one, and the dense network is of a world that differs
\* from this one only where the changes say so.
GraphInv ==
  LET D == DOMAIN blocks IN
  /\ IsFiniteSet(D) /\ Worlds(D, netWorld, changes, blocks)
  /\ \E u \in [D -> AllBlocks] : Compiled(graph, u) /\ Since(u, changes, blocks)
  /\ \A p \in D : p \notin NetworkTopology(changes) => Alike(netWorld[p], blocks[p])

LEMMA NothingChanged ==
  /\ Topology(<<>>) = {} /\ NetworkTopology(<<>>) = {} /\ \A p : ChangesAt(<<>>, p) = {}
<1>1. \A p : ChangesAt(<<>>, p) = {} BY DEF ChangesAt
<1> QED BY <1>1, InTopology

LEMMA SinceNothing ==
  ASSUME NEW u, NEW w
  PROVE  Since(u, <<>>, w) <=> \A p \in DOMAIN w : u[p] = w[p]
<1>1. ASSUME NEW p \in DOMAIN w, u[p] = w[p] PROVE Alike(u[p], w[p]) BY <1>1 DEF Alike
<1> QED BY <1>1, NothingChanged DEF Since

LEMMA GraphInit == PlanInit => GraphInv
<1> SUFFICES ASSUME PlanInit PROVE GraphInv OBVIOUS
<1> DEFINE D == DOMAIN blocks
<1>1. blocks \in Starts /\ changes = <<>> /\ graph = Compile(blocks) /\ netWorld = blocks BY DEF PlanInit
<1>2. IsFiniteSet(D) /\ D \subseteq Int \X Int \X Int /\ blocks = [p \in D |-> blocks[p]]
  BY <1>1, PlanAssumption
<1>3. blocks \in [D -> AllBlocks]
  <2>1. \A p \in D : blocks[p] \in AllBlocks BY <1>1 DEF AllBlocks
  <2> QED BY <1>2, <2>1
<1>4. <<>> \in Seq(Changes(D)) OBVIOUS
<1>5. Worlds(D, netWorld, changes, blocks) BY <1>1, <1>2, <1>3, <1>4 DEF Worlds
<1>6. Compiled(graph, blocks) BY <1>1, <1>2, CompileRight DEF Compiled
<1>7. Since(blocks, changes, blocks) BY <1>1, SinceNothing
<1>8. \A p \in D : Alike(netWorld[p], blocks[p]) BY <1>1 DEF Alike
<1> QED BY <1>2, <1>3, <1>5, <1>6, <1>7, <1>8 DEF GraphInv

LEMMA GraphEdit ==
  ASSUME GraphInv, NEW p \in Sites \cap DOMAIN blocks, NEW b \in Blocks, Edit(p, b)
  PROVE  GraphInv'
<1> DEFINE D == DOMAIN blocks
           c == [pos |-> p, old |-> blocks[p], new |-> b]
           ds == Append(changes, c)
           x == [blocks EXCEPT ![p] = b]
<1>1. blocks' = x /\ changes' = ds /\ UNCHANGED <<graph, dense, netWorld>> BY DEF Edit
<1>2. /\ IsFiniteSet(D) /\ D \subseteq Int \X Int \X Int
      /\ netWorld \in [D -> AllBlocks] /\ blocks \in [D -> AllBlocks] /\ changes \in Seq(Changes(D))
      /\ \A q \in D : q \notin NetworkTopology(changes) => Alike(netWorld[q], blocks[q])
  BY DEF GraphInv, Worlds
<1>3. PICK u \in [D -> AllBlocks] : Compiled(graph, u) /\ Since(u, changes, blocks) BY DEF GraphInv
<1>4. p \in D /\ b \in AllBlocks BY DEF AllBlocks
<1> HIDE DEF D
<1>5. x \in [D -> AllBlocks] /\ ds \in Seq(Changes(D)) /\ Since(u, ds, x)
  BY <1>2, <1>3, <1>4, SinceEdit
<1>6. \A q \in D : q \notin NetworkTopology(ds) => Alike(netWorld[q], x[q])
  BY <1>2, <1>4, SinceEdit
<1>7. DOMAIN x = D BY <1>2
<1> HIDE DEF x, ds
<1>8. Worlds(D, netWorld, ds, x) BY <1>2, <1>5 DEF Worlds
<1>9. DOMAIN blocks' = D BY <1>1, <1>7
<1> QED BY <1>1, <1>2, <1>3, <1>5, <1>6, <1>8, <1>9 DEF GraphInv

\* Whichever part of the graph the plan compiles again, the graph is that of
\* the world.
LEMMA FollowRight ==
  ASSUME GraphInv
  PROVE  Compiled(Follow(PlanOf(graph, blocks, changes)), blocks)
<1> DEFINE D == DOMAIN blocks  T == Topology(changes)  N == NetworkTopology(changes)
           plan == PlanOf(graph, blocks, changes)
           h == StatesApplied(graph, changes)
           P == IF dense /\ N = {} THEN {} ELSE Affected(graph, blocks, T)
<1>1. PICK u \in [D -> AllBlocks] : Compiled(graph, u) /\ Since(u, changes, blocks) BY DEF GraphInv
<1>2. IsFiniteSet(D) /\ Worlds(D, u, changes, blocks) BY DEF GraphInv, Worlds
<1>3. Whole(graph, DOMAIN graph.at) /\ KindsKnown(graph) /\ \A p : Matches(graph, u, p)
  BY <1>1 DEF Compiled
<1>4. Whole(h, DOMAIN h.at) /\ KindsKnown(h) /\ ToldOf(h, graph, changes)
  BY <1>3, ToldWhole DEF ToldOf
<1> HIDE DEF h
<1>5. ASSUME NEW p, N = {} PROVE Matches(h, blocks, p)
  <2>1. p \in D => SameAround(u, blocks, p) /\ (p \in T => IsWire(Block(blocks, p)))
    BY <1>1, <1>2, <1>5, QuietAround
  <2> QED BY <1>1, <1>2, <1>3, <1>4, <2>1, StillMatches
<1>6. ASSUME NEW p, p \notin Affected(graph, blocks, T) PROVE Matches(h, blocks, p)
  <2>1. p \in D => SameAround(u, blocks, p) /\ (p \in T => IsWire(Block(blocks, p)))
    BY <1>1, <1>2, <1>6, FarAround
  <2> QED BY <1>1, <1>2, <1>3, <1>4, <2>1, StillMatches
<1>7. \/ T = {} /\ plan = [kind |-> "state"]
      \/ plan = [kind |-> "full"]
      \/ plan = [kind |-> "local", positions |-> P]
  BY DEF PlanOf
<1> HIDE DEF plan
<1>8. CASE T = {} /\ plan = [kind |-> "state"]
  <2>1. N = {} BY <1>8, InTopology DEF Alike
  <2>2. plan.kind = "state" BY <1>8
  <2>3. Follow(plan) = h BY <2>2 DEF Follow, h
  <2> QED BY <1>4, <1>5, <2>1, <2>3 DEF Compiled, plan
<1>9. CASE plan = [kind |-> "full"]
  <2>1. plan.kind = "full" BY <1>9
  <2>2. Follow(plan) = Compile(blocks) BY <2>1 DEF Follow
  <2> QED BY <1>2, <2>2, CompileRight DEF Compiled, plan
<1>10. CASE plan = [kind |-> "local", positions |-> P]
  <2>1. IsFiniteSet(P)
    <3>1. IsFiniteSet(T) BY <1>2, TopologyFinite DEF Worlds
    <3>2. IsFiniteSet(Affected(graph, blocks, T)) BY <1>2, <1>3, <3>1, AffectedFinite
    <3> QED BY <3>2, FS_EmptySet
  <2>2. \A p : p \notin P => Matches(h, blocks, p) BY <1>5, <1>6
  <2> HIDE DEF P
  <2>3. plan.kind = "local" /\ plan.positions = P BY <1>10
  <2>4. Follow(plan) = RecompilePositions(h, blocks, P) BY <2>3 DEF Follow, h
  <2> DEFINE k == RecompilePositions(h, blocks, P)
  <2>5. /\ Whole(k, DOMAIN k.at) /\ KindsKnown(k)
        /\ \A p \in P : Matches(k, blocks, p)
        /\ \A p : p \notin P /\ Matches(h, blocks, p) => Matches(k, blocks, p)
    BY <1>2, <1>4, <2>1, RecompileRight
  <2> HIDE DEF k
  <2>6. Compiled(k, blocks) BY <2>2, <2>5 DEF Compiled
  <2> QED BY <2>4, <2>6 DEF k, plan
<1> QED BY <1>7, <1>8, <1>9, <1>10

LEMMA GraphSynchronize ==
  ASSUME GraphInv, SynchronizeGraph
  PROVE  GraphInv'
<1> DEFINE D == DOMAIN blocks
<1>1. /\ graph' = Follow(PlanOf(graph, blocks, changes)) /\ changes' = <<>>
      /\ netWorld' = IF NetworkTopology(changes) # {} THEN blocks ELSE netWorld
      /\ blocks' = blocks
  BY DEF SynchronizeGraph
<1>2. Compiled(graph', blocks) BY <1>1, FollowRight
<1>3. Since(blocks, <<>>, blocks) BY SinceNothing
<1>4. /\ IsFiniteSet(D) /\ D \subseteq Int \X Int \X Int
      /\ netWorld \in [D -> AllBlocks] /\ blocks \in [D -> AllBlocks]
      /\ \A q \in D : q \notin NetworkTopology(changes) => Alike(netWorld[q], blocks[q])
  BY DEF GraphInv, Worlds
<1>5. <<>> \in Seq(Changes(D)) OBVIOUS
<1>6. Worlds(D, netWorld', <<>>, blocks) BY <1>1, <1>4, <1>5 DEF Worlds
<1>7. \A q \in D : Alike(netWorld'[q], blocks[q])
  <2>1. \A q \in D : Alike(blocks[q], blocks[q]) BY DEF Alike
  <2> QED BY <1>1, <1>4, <2>1
<1> QED BY <1>1, <1>2, <1>3, <1>4, <1>6, <1>7 DEF GraphInv

LEMMA GraphStep == GraphInv /\ [PlanNext]_planVars => GraphInv'
<1> SUFFICES ASSUME GraphInv, [PlanNext]_planVars PROVE GraphInv' OBVIOUS
<1>1. ASSUME NEW p \in Sites \cap DOMAIN blocks, NEW b \in Blocks, Edit(p, b) PROVE GraphInv'
  BY <1>1, GraphEdit
<1>2. CASE SynchronizeGraph BY <1>2, GraphSynchronize
<1>3. CASE UNCHANGED planVars BY <1>3 DEF planVars, GraphInv
<1> QED BY <1>1, <1>2, <1>3 DEF PlanNext

-----------------------------------------------------------------------------
(* What holds a graph together is what CompiledGraph::validate asks.       *)

LEMMA UpToCount == \A n \in Nat : IsFiniteSet(1 .. n) /\ Cardinality(1 .. n) = n
<1> TAKE n \in Nat
<1>1. 1 \in Int /\ n \in Int OBVIOUS
<1>2. IsFiniteSet(1 .. n) /\ Cardinality(1 .. n) = IF 1 > n THEN 0 ELSE n - 1 + 1
  BY ONLY <1>1, FS_Interval
<1> QED BY <1>2

LEMMA SlotsCounted ==
  ASSUME NEW g, Shaped(g), Placing(g)
  PROVE  /\ {id[1] : id \in Ids(g)} \cup ToSet(g.free) = DOMAIN g.slots
         /\ Cardinality(Ids(g)) + Len(g.free) = Len(g.slots)
<1> DEFINE A == {id[1] : id \in Ids(g)}  F == ToSet(g.free)  S == DOMAIN g.slots
           f == [id \in Ids(g) |-> id[1]]  k == [i \in 1 .. Len(g.free) |-> g.free[i]]
<1>1. /\ S = 1 .. Len(g.slots) /\ Len(g.slots) \in Nat
      /\ Len(g.free) \in Nat /\ DOMAIN g.free = 1 .. Len(g.free)
  BY ShapedDomain DEF Shaped, Placing
<1>2. \A id \in Ids(g) : /\ id[1] \in S /\ g.slots[id[1]].node # <<>>
                         /\ id = <<id[1], g.slots[id[1]].generation>>
  <2> TAKE id \in Ids(g)
  <2>1. PICK p \in DOMAIN g.at : id = g.at[p] BY DEF Ids
  <2>2. /\ g.at[p][1] \in DOMAIN g.slots /\ g.slots[g.at[p][1]].node # <<>>
        /\ g.at[p] = <<g.at[p][1], g.slots[g.at[p][1]].generation>>
    BY DEF Placing
  <2> QED BY <2>1, <2>2
<1>3. A \subseteq S /\ \A i \in A : g.slots[i].node # <<>> BY <1>2
<1>4. F \subseteq S /\ \A i \in F : g.slots[i].node = <<>> BY DEF ToSet, Placing
<1>5. \A i \in S : i \in A \/ i \in F
  <2> TAKE i \in S
  <2>1. CASE g.slots[i].node = <<>>
    <3>1. \E j \in DOMAIN g.free : g.free[j] = i BY <2>1 DEF Placing
    <3> QED BY <3>1 DEF ToSet
  <2>2. CASE g.slots[i].node # <<>>
    <3>1. g.slots[i].node.pos \in DOMAIN g.at /\ g.at[g.slots[i].node.pos][1] = i BY <2>2 DEF Placing
    <3> QED BY <3>1 DEF Ids
  <2> QED BY <2>1, <2>2
<1>6. A \cup F = S /\ A \cap F = {} BY <1>3, <1>4, <1>5
<1>7. f \in Bijection(Ids(g), A)
  <2>1. \A a, b \in Ids(g) : f[a] = f[b] => a = b BY <1>2
  <2>2. f \in [Ids(g) -> A] /\ \A i \in A : \E id \in Ids(g) : f[id] = i OBVIOUS
  <2> HIDE DEF f, A
  <2>3. f \in Injection(Ids(g), A) BY <2>1, <2>2 DEF Injection, IsInjective
  <2>4. f \in Surjection(Ids(g), A) BY <2>2 DEF Surjection
  <2> QED BY <2>3, <2>4 DEF Bijection
<1>8. k \in Bijection(1 .. Len(g.free), F)
  <2>1. \A a, b \in 1 .. Len(g.free) : k[a] = k[b] => a = b BY <1>1 DEF Placing
  <2>2. k \in [1 .. Len(g.free) -> F] /\ \A i \in F : \E j \in 1 .. Len(g.free) : k[j] = i
    BY <1>1 DEF ToSet
  <2> HIDE DEF k, F
  <2>3. k \in Injection(1 .. Len(g.free), F) BY <2>1, <2>2 DEF Injection, IsInjective
  <2>4. k \in Surjection(1 .. Len(g.free), F) BY <2>2 DEF Surjection
  <2> QED BY <2>3, <2>4 DEF Bijection
<1> HIDE DEF A, F, S, f, k
<1>9. IsFiniteSet(S) /\ Cardinality(S) = Len(g.slots) BY ONLY <1>1, UpToCount
<1>10. IsFiniteSet(A) /\ IsFiniteSet(F) BY <1>6, <1>9, FS_Subset
<1>11. Cardinality(F) = Len(g.free)
  <2>2. IsFiniteSet(1 .. Len(g.free)) /\ Cardinality(1 .. Len(g.free)) = Len(g.free)
    BY ONLY <1>1, UpToCount
  <2>3. ExistsBijection(1 .. Len(g.free), F) BY <1>8 DEF ExistsBijection
  <2> QED BY <2>2, <2>3, FS_Bijection
<1>12. Cardinality(A) = Cardinality(Ids(g))
  <2>1. f \in Injection(Ids(g), A) /\ f \in Surjection(Ids(g), A) BY <1>7 DEF Bijection
  <2> QED BY <1>10, <2>1, FS_Injection
<1>13. Cardinality(A \cup F) = Cardinality(A) + Cardinality(F) BY <1>6, <1>10, DisjointCount
<1> QED BY <1>6, <1>9, <1>11, <1>12, <1>13 DEF A, F, S

LEMMA WholeIsCoherent ==
  ASSUME Whole(graph, DOMAIN graph.at)
  PROVE  Coherent
<1> DEFINE g == graph  X == DOMAIN g.at  nodes == {Node(graph, id) : id \in Ids(graph)}
<1>1. Shaped(g) /\ Placing(g) /\ Indexes(g, X) BY DEF Whole
<1>2. \A p \in X : Live(g, g.at[p]) /\ Node(g, g.at[p]).pos = p
  BY <1>1 DEF Placing, Live, Node
<1>3. \A p : DependentIds(g, X, p) = {id \in Ids(g) : p \in Positions(Node(g, id))}
  BY DEF DependentIds, Ids, At
<1>4. DOMAIN g.rev = UNION {Positions(n) : n \in nodes}
  <2>1. ASSUME NEW p \in DOMAIN g.rev PROVE p \in UNION {Positions(n) : n \in nodes}
    <3>1. g.rev[p] # {} /\ g.rev[p] = DependentIds(g, X, p) BY <1>1 DEF Indexes
    <3>2. PICK id \in Ids(g) : p \in Positions(Node(g, id)) BY <1>3, <3>1
    <3> QED BY <3>2
  <2>2. ASSUME NEW id \in Ids(g) PROVE Positions(Node(g, id)) \subseteq DOMAIN g.rev
    <3>1. PICK q \in X : id = g.at[q] BY DEF Ids
    <3> QED BY <1>1, <3>1 DEF Indexes, At
  <2> QED BY <2>1, <2>2
<1>5. \A p \in DOMAIN g.rev : g.rev[p] = {id \in Ids(g) : p \in Positions(Node(g, id))}
  BY <1>1, <1>3 DEF Indexes
<1>6. g.edges = Cardinality(Edges(g)) BY <1>1 DEF Indexes, EdgesOf, Edges, At
<1> QED BY <1>1, <1>2, <1>4, <1>5, <1>6, SlotsCounted DEF Coherent

LEMMA GraphInvExact == GraphInv => GraphExact
<1> SUFFICES ASSUME GraphInv PROVE GraphExact OBVIOUS
<1> DEFINE D == DOMAIN blocks
<1>1. PICK u \in [D -> AllBlocks] : Compiled(graph, u) /\ Since(u, changes, blocks) BY DEF GraphInv
<1>2. Coherent BY <1>1, WholeIsCoherent DEF Compiled
<1>3. ASSUME UpToDate PROVE NetworkCurrent /\ NodesCurrent
  <2>1. changes = <<>> BY <1>3 DEF UpToDate
  <2>2. NetworkCurrent BY <2>1, NothingChanged DEF GraphInv, NetworkCurrent, Alike
  <2>3. u = blocks
    <3>1. \A p \in D : u[p] = blocks[p] BY <1>1, <2>1, SinceNothing
    <3>2. blocks \in [D -> AllBlocks] BY DEF GraphInv, Worlds
    <3> QED BY <3>1, <3>2
  <2>4. \A p : Matches(graph, blocks, p) BY <1>1, <2>3 DEF Compiled
  <2>5. DOMAIN graph.at = {p \in D : IsNode(blocks[p])}
    <3>1. \A p : p \in DOMAIN graph.at <=> IsNode(Block(blocks, p)) BY <2>4 DEF Matches, KindRight
    <3>2. \A p \in D : Block(blocks, p) = blocks[p] BY DEF Block
    <3>3. \A p : p \notin D => ~IsNode(Block(blocks, p)) BY DEF Block, Air, IsNode, NodeKinds
    <3> QED BY <3>1, <3>2, <3>3
  <2>6. ASSUME NEW p \in DOMAIN graph.at
        PROVE  LET known == Node(graph, graph.at[p])
                   fresh == Rebuilt(blocks, NewNode(blocks, p))
               IN  /\ known.kind = fresh.kind /\ known.plan = fresh.plan /\ known.needs = fresh.needs
                   /\ IsWire(blocks[p]) \/ known.state = fresh.state
    <3> DEFINE known == At(graph, p)  new == NewNode(blocks, p)  fresh == Rebuilt(blocks, new)
    <3>1. p \in D /\ Block(blocks, p) = blocks[p] BY <2>5 DEF Block
    <3>2. /\ known.kind = Block(blocks, p).kind
          /\ known.needs = Needs(blocks, p) /\ known.plan = Plan(blocks, p)
          /\ IsWire(Block(blocks, p)) \/ known.state = Block(blocks, p)
      BY <2>4 DEF Matches, KindRight
    <3>3. IsNodeRecord(new) /\ new.pos = p /\ new.kind = Block(blocks, p).kind BY NewNodeFacts
    <3>4. IsFiniteSet(D) BY DEF GraphInv
    <3> HIDE DEF new
    <3>5. /\ fresh.kind = new.kind /\ fresh.state = Block(blocks, new.pos)
          /\ fresh.needs = IF new.kind = "wire" THEN WireDependencies(blocks, new.pos)
                                                ELSE InputPositions(blocks, new.pos)
          /\ fresh.plan = IF new.kind = "wire" THEN WirePlan(blocks, new.pos) ELSE <<>>
      BY <3>3, <3>4, RebuiltFacts
    <3> HIDE DEF known, fresh
    <3>6. known.kind = fresh.kind /\ known.plan = fresh.plan /\ known.needs = fresh.needs
      BY <3>2, <3>3, <3>5 DEF Needs, Plan, IsWire
    <3>7. IsWire(blocks[p]) \/ known.state = fresh.state BY <3>1, <3>2, <3>3, <3>5
    <3> QED BY <3>6, <3>7 DEF known, fresh, new, At
  <2>7. NodesCurrent BY <2>5, <2>6 DEF NodesCurrent
  <2> QED BY <2>2, <2>7
<1> QED BY <1>2, <1>3 DEF GraphExact

\* Whatever batch of blocks changed and whichever part of the graph was
\* compiled again for it, a synchronised graph is the one a fresh compilation
\* gives, its slots and its index of dependents fit together, and the dense
\* network is one of this world (InvalidationPlan, CompiledRuntime::synchronize).
THEOREM GraphIsExact == PlanSpec => []GraphExact
<1>1. PlanInit => GraphInv BY GraphInit
<1>2. GraphInv /\ [PlanNext]_planVars => GraphInv' BY GraphStep
<1>3. GraphInv => GraphExact BY GraphInvExact
<1> QED BY <1>1, <1>2, <1>3, PTL DEF PlanSpec
=============================================================================
