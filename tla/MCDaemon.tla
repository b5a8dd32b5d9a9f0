------------------------------ MODULE MCDaemon ------------------------------
(* Two daemon processes, one of them started with --once, and two clients. *)
EXTENDS Daemon

CONSTANTS d1, d2, c1, c2
=============================================================================
