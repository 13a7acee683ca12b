----------------------------- MODULE MCAbuseGuard -----------------------------
(* Small instances of AbuseGuard for TLC.                                    *)
EXTENDS AbuseGuard, TLC

\* A length within the limit and one over it, which costs as much as an unknown one.
Lengths == {1, 9}

\* A narrow budget.
ValidBudgets == [budget: {3}, windowInRange: {TRUE}]

\* Goroutines and clients are interchangeable.
Symmetry == Permutations(Goroutine) \cup Permutations(Client)
===============================================================================
