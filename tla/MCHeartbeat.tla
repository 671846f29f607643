------------------------------ MODULE MCHeartbeat ------------------------------
(* Heartbeat for TLC. Nothing compares run ids, so they may be interchanged. *)
EXTENDS Heartbeat, TLC

Symmetry == Permutations(RunIds)
===============================================================================
