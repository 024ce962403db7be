--------------------------- MODULE MCKitchenCache ---------------------------
(* Small instances of KitchenCache for TLC. *)
EXTENDS KitchenCache, TLC

Requests == Permutations(Reader) \cup Permutations(Writer)
=============================================================================
