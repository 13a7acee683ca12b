----------------------------- MODULE MCSubmission -----------------------------
(* Small instances of Submission for TLC.                                    *)
EXTENDS Submission, TLC

\* Requests differ only in their random ids.
Symmetry == Permutations(Request)
===============================================================================
