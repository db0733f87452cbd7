------------------------------ MODULE Counting -------------------------------
(* How often members of a set occur in a list.                             *)
EXTENDS Naturals, FiniteSets, Sequences

Places(s, X) == {i \in DOMAIN s : s[i] \in X}
Count(s, X)  == Cardinality(Places(s, X))
=============================================================================
