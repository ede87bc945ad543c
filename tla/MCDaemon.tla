------------------------------ MODULE MCDaemon ------------------------------
(* One instance of the daemon; the bounds are in the cfg.                  *)
EXTENDS Daemon
=============================================================================
