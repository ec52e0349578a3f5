------------------------------- MODULE BlockMap -------------------------------
(***************************************************************************)
(* What SparseWorld promises of its blocks: a map from positions to block  *)
(* states that is air until something is set.                              *)
(***************************************************************************)
CONSTANTS Sections, Cells, States, Air

VARIABLE blocks  \* the state at a cell of a section

Everywhere == Sections \X Cells

Init == blocks = [pos \in Everywhere |-> Air]

SetBlock(before, after, pos) ==
  /\ after[pos] \in States
  /\ \A other \in Everywhere : other = pos \/ after[other] = before[other]

\* Both maps are bound: each is computed once for a step.
Next ==
  \E before \in {blocks}, after \in {blocks'} :
    \E pos \in {p \in Everywhere : after[p] # before[p]} : SetBlock(before, after, pos)

Spec == Init /\ [][Next]_blocks
=============================================================================
