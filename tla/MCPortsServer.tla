---------------------------- MODULE MCPortsServer ----------------------------
(* Small instances of PortsServer: one worker, two ports. *)
EXTENDS PortsServer, TLC
=============================================================================
