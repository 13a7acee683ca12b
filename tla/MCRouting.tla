------------------------------- MODULE MCRouting -------------------------------
(* Small instances of Routing for TLC.                                       *)
EXTENDS Routing, TLC

\* Submissions are interchangeable, and so are operators.
Symmetry == Permutations(Submission) \cup Permutations(Operator)
===============================================================================
