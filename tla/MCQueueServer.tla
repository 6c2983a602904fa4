---------------------------- MODULE MCQueueServer ----------------------------
(* Small instances of QueueServer: more connections than workers. *)
EXTENDS QueueServer, TLC

Symmetry == Permutations(Workers) \union Permutations(Conns)
=============================================================================
