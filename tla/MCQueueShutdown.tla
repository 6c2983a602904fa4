--------------------------- MODULE MCQueueShutdown ---------------------------
(* Small instances of QueueShutdown. *)
EXTENDS QueueShutdown, TLC
=============================================================================
