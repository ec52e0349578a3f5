---------------------------- MODULE MCTickWheel ----------------------------
(* TickWheel for TLC: keys are interchangeable.                            *)
EXTENDS TickWheel, TLC

KeySymmetry == Permutations(Keys)
=============================================================================
