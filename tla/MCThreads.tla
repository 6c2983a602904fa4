------------------------------ MODULE MCThreads ------------------------------
(* Small instances of ThreadServers: fewer threads and fewer descriptors than
   connections. *)
EXTENDS ThreadServers, TLC
=============================================================================
