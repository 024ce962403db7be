------------------------------ MODULE MCAccess ------------------------------
(* One browser with two tabs, and a calendar program.                          *)
EXTENDS Access, TLC

CONSTANT b1

OneBrowser == [t \in Tab |-> b1]

Symmetry == Permutations(Tab)
=============================================================================
