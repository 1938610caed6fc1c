----------------------------- MODULE MCInventory -----------------------------
(* Instances of Inventory for TLC. *)
EXTENDS Inventory, TLC

\* Requests are interchangeable.
RequestSymmetry == Permutations(Mover)
=============================================================================
