------------------------------ MODULE MCCopyOp ------------------------------
(* Small instances of CopyOp for TLC.                                      *)
EXTENDS CopyOp, TLC
=============================================================================
