---------------------------- MODULE MCRowButtons ----------------------------
(* A small instance of RowButtons for TLC.                                 *)
EXTENDS RowButtons, TLC
=============================================================================
