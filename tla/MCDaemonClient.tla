-------------------------- MODULE MCDaemonClient ---------------------------
(* Small instances of DaemonClient for TLC.                                *)
EXTENDS DaemonClient, TLC
=============================================================================
