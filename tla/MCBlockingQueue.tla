-------------------------- MODULE MCBlockingQueue --------------------------
(* Small instances of BlockingQueue: one accepting thread as in the program, *)
(* two workers, and as many messages as sockets can be outstanding.          *)
EXTENDS BlockingQueue, TLC

Symmetry == Permutations(Workers) \union Permutations(Msgs) \union Permutations(Socks)
=============================================================================
