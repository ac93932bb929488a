------------------------------- MODULE MCShutdown -------------------------------
(* Shutdown on small instances. *)
EXTENDS Shutdown, TLC

Symmetry == Permutations(Hooks) \cup Permutations(Callers)
================================================================================
