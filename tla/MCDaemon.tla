------------------------------ MODULE MCDaemon ------------------------------
(* Instances of Daemon for TLC: two callers, two schedulers. *)
EXTENDS Daemon

CONSTANTS c1, c2
=============================================================================
