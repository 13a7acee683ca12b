---------------------------- MODULE MCIntakeService ----------------------------
(* A small instance of IntakeService for TLC.                                *)
EXTENDS IntakeService

\* A chunked body, a short one, and one that declares more than is allowed.
Lengths == {-1, 1, 9}

\* A budget of two uploads, the default, one below a single request, and a window
\* that is out of range.
Budgets ==
    [budget: {2, 6, Unset}, windowInRange: {TRUE}]
        \cup {[budget |-> 6, windowInRange |-> FALSE]}
===============================================================================
