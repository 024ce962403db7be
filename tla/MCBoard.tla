------------------------------ MODULE MCBoard -------------------------------
(* Small instances of the board for TLC.                                      *)
EXTENDS BoardPages, TLC

CONSTANTS s1, p1

Fixed == [s \in Schedule |-> p1]

Calendar == <<0, 31, 61>>        \* August and September 2026
=============================================================================
