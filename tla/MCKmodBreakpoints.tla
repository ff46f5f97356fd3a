-------------------------- MODULE MCKmodBreakpoints --------------------------
(* TLC instances of KmodBreakpoints. *)
EXTENDS KmodBreakpoints, TLC

\* Threads and slot objects are interchangeable: no property tells them apart.
Symmetry == Permutations(Threads) \cup Permutations(Slots) \cup Permutations(Cpus)
=============================================================================
