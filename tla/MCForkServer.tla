---------------------------- MODULE MCForkServer ----------------------------
(* Small instances of ForkServer. *)
EXTENDS ForkServer, TLC

Symmetry == Permutations(Conns)
=============================================================================
