---------------------------- MODULE MCBashScript ----------------------------
(* Small instances of BashScript. *)
EXTENDS BashScript, TLC
=============================================================================
