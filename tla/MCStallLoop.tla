------------------------------ MODULE MCStallLoop ------------------------------
(* StallLoop for TLC. Nothing compares loops, so they may be interchanged.   *)
EXTENDS StallLoop, TLC

Symmetry == Permutations(Loops)
===============================================================================
