------------------------------- MODULE MCStep --------------------------------
(***************************************************************************)
(* A step for TLC: its phases, clocks and block events, or the chain of    *)
(* neighbour updates that one callback starts; a behaviour follows one of  *)
(* the two, the other rests.                                               *)
(***************************************************************************)
EXTENDS StepEngine, UpdateChain

VARIABLE part

EitherInit ==
  \/ part = "engine" /\ Init /\ ChainInit /\ stack = <<>>
  \/ part = "chain" /\ Init /\ ChainInit

\* A chain that has ended stays as it is.
ChainEnded == part = "chain" /\ status # "run" /\ UNCHANGED <<part, vars, chainVars>>

EitherNext ==
  \/ part = "engine" /\ Next /\ UNCHANGED <<part, chainVars>>
  \/ part = "chain" /\ ChainNext /\ UNCHANGED <<part, vars>>
  \/ ChainEnded

EngineFairness ==
  /\ WF_vars(part = "engine" /\ ReturnFromCallback) /\ WF_vars(part = "engine" /\ EndEvent)
  /\ WF_vars(part = "engine" /\ StartEvent) /\ WF_vars(part = "engine" /\ EndEvents)
  /\ SF_vars(part = "engine" /\ BeginEvents) /\ SF_vars(part = "engine" /\ End)
  /\ SF_vars(part = "engine" /\ BeginStep)

EitherSpec == EitherInit /\ [][EitherNext]_<<part, vars, chainVars>> /\ EngineFairness
=============================================================================
