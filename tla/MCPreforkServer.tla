--------------------------- MODULE MCPreforkServer ---------------------------
(* Small instances of PreforkServer, as the unfinished copy of it runs. *)
EXTENDS PassFdServer, TLC
=============================================================================
