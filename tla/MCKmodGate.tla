----------------------------- MODULE MCKmodGate -----------------------------
(* KmodGate on a small instance.  One snapshot object per version of the   *)
(* file is enough: each version is published at most once.                 *)
EXTENDS KmodGate, TLC

Symmetry == Permutations(Threads) \cup Permutations(Snaps)
=============================================================================
