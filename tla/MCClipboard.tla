---------------------------- MODULE MCClipboard -----------------------------
(* Small instances of Clipboard for TLC.                                   *)
EXTENDS Clipboard

(* Directories and processes are only compared with each other.            *)
HelperSymmetry == Permutations(Helpers) \cup Permutations(Dir)
=============================================================================
