------------------------------- MODULE MCTray -------------------------------
(* Small instances of Tray, and with it of QueueWindow, for TLC.           *)
EXTENDS Tray, TLC
=============================================================================
