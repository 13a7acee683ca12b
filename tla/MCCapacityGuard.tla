---------------------------- MODULE MCCapacityGuard ----------------------------
(* Small instances of CapacityGuard for TLC.                                 *)
EXTENDS CapacityGuard, TLC

\* Requests are interchangeable.
Symmetry == Permutations(Request)
===============================================================================
