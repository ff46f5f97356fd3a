---------------------------- MODULE MCAppSession ----------------------------
(* AppSession on small instances; processes and classes are interchangeable. *)
EXTENDS AppSession, TLC

Symmetry == Permutations(Pids) \cup Permutations(Classes)
=============================================================================
