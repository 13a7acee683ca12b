------------------------------ MODULE MCInventory ------------------------------
(* Small instances of Inventory for TLC.                                     *)
EXTENDS Inventory, TLC

\* Requests differ only in their random ids.
Symmetry == Permutations(Request)
===============================================================================
