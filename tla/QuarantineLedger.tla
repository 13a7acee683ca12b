--------------------------- MODULE QuarantineLedger ---------------------------
(***************************************************************************)
(* What the quarantine promises to whoever submits a sample, with no word  *)
(* of files, names or disks.  A submission is open until it is             *)
(* acknowledged, refused or abandoned (its handler died).  It is stored in *)
(* one step, as a whole or not at all; it is acknowledged only once        *)
(* stored; what was acknowledged is never lost or altered, and what was    *)
(* refused is never stored.  Only an abandoned submission may lose what it *)
(* had stored.                                                             *)
(***************************************************************************)

CONSTANTS
    Request,    \* submissions
    Entry,      \* what may be stored of one: where, and which bytes
    Absent      \* nothing is stored: a value that is no Entry

VARIABLES stored, outcome

vars == <<stored, outcome>>

TypeOK ==
    /\ stored \in [Request -> Entry \cup {Absent}]
    /\ outcome \in [Request -> {"open", "acknowledged", "refused", "abandoned"}]

Init ==
    /\ stored = [r \in Request |-> Absent]
    /\ outcome = [r \in Request |-> "open"]

Store(r, e) ==
    /\ outcome[r] = "open"
    /\ stored[r] = Absent
    /\ stored' = [stored EXCEPT ![r] = e]
    /\ UNCHANGED outcome

Acknowledge(r) ==
    /\ outcome[r] = "open"
    /\ stored[r] # Absent
    /\ outcome' = [outcome EXCEPT ![r] = "acknowledged"]
    /\ UNCHANGED stored

Refuse(r) ==
    /\ outcome[r] = "open"
    /\ stored[r] = Absent
    /\ outcome' = [outcome EXCEPT ![r] = "refused"]
    /\ UNCHANGED stored

\* The service dies: some open submissions are abandoned, and of those that are
\* abandoned some may lose what they had stored.
Fail ==
    \E dropped, lost \in SUBSET Request :
        /\ \A r \in dropped : outcome[r] = "open"
        /\ outcome' = [r \in Request |-> IF r \in dropped THEN "abandoned" ELSE outcome[r]]
        /\ \A r \in lost : outcome'[r] = "abandoned"
        /\ stored' = [r \in Request |-> IF r \in lost THEN Absent ELSE stored[r]]

Next ==
    \/ \E r \in Request :
          \/ \E e \in Entry : Store(r, e)
          \/ Acknowledge(r)
          \/ Refuse(r)
    \/ Fail

Spec == Init /\ [][Next]_vars
===============================================================================
