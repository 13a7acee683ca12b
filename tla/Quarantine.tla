------------------------------ MODULE Quarantine ------------------------------
(***************************************************************************)
(* The quarantine as those who read it meet it: which names are in which   *)
(* directory while requests come, fail, are stored and are cut short.      *)
(*                                                                         *)
(* What the handler does beside that is left to Submission, which          *)
(* implements this module; a record under its final name is complete, and  *)
(* a sample in a platform directory too, because it does.                  *)
(***************************************************************************)
CONSTANTS
    Request,            \* submissions, each with an id of its own
    Platform,           \* supportedPlatforms
    RemoveMayFail,      \* os.Remove may return an error (the code ignores it)
    PowerLossPossible   \* the machine may lose its power

ASSUME PlacesAssumption == Platform \cap {"none", ".incoming"} = {}

VARIABLES
    life,       \* whether a handler is at work on each request
    place,      \* the directory the sample of each request is in
    published,  \* the requests whose record is beside the sample
    spaces      \* the platform directories that exist

vars == <<life, place, published, spaces>>

TypeOK ==
    /\ life \in [Request -> {"fresh", "working", "over"}]
    /\ place \in [Request -> {"none", ".incoming"} \cup Platform]
    /\ published \subseteq Request
    /\ spaces \subseteq Platform

Init ==
    /\ life = [r \in Request |-> "fresh"]
    /\ place = [r \in Request |-> "none"]
    /\ published = {}
    /\ spaces = {}

Working == {r \in Request : life[r] = "working"}

Arrive(r) ==
    /\ life[r] = "fresh"
    /\ \E l \in {"working", "over"} : life' = [life EXCEPT ![r] = l]
    /\ UNCHANGED <<place, published, spaces>>

Spool(r) ==
    /\ r \in Working /\ place[r] = "none"
    /\ place' = [place EXCEPT ![r] = ".incoming"]
    /\ UNCHANGED <<life, published, spaces>>

\* The directory of a platform appears with its first sample...
MoveIn(r, p) ==
    /\ r \in Working /\ place[r] = ".incoming"
    /\ place' = [place EXCEPT ![r] = p]
    /\ spaces' = spaces \cup {p}
    /\ UNCHANGED <<life, published>>

Publish(r) ==
    /\ r \in Working /\ place[r] \in Platform
    /\ published' = published \cup {r}
    /\ UNCHANGED <<life, place, spaces>>

\* Mutant of Fail: a directory sync that fails undoes the publication.
FailUndoing(r) ==
    /\ r \in Working
    /\ life' = [life EXCEPT ![r] = "over"]
    /\ place' = [place EXCEPT ![r] = "none"]
    /\ published' = published \ {r}
    /\ UNCHANGED spaces

\* ...or before a rename that fails.  Nothing published is ever taken back.
Fail(r) ==
    /\ r \in Working \ published
    /\ life' = [life EXCEPT ![r] = "over"]
    /\ \/ place' = [place EXCEPT ![r] = "none"]
       \/ RemoveMayFail /\ UNCHANGED place
    /\ \/ UNCHANGED spaces
       \/ \E p \in Platform : spaces' = spaces \cup {p}
    /\ UNCHANGED published

Acknowledge(r) ==
    /\ r \in Working \cap published
    /\ life' = [life EXCEPT ![r] = "over"]
    /\ UNCHANGED <<place, published, spaces>>

CutShort == life' = [r \in Request |-> IF r \in Working THEN "over" ELSE life[r]]

Crash ==
    /\ CutShort
    /\ UNCHANGED <<place, published, spaces>>

\* Names may be lost, and older ones come back; but no record comes back without
\* the sample, and no sample without its directory.
PowerLoss ==
    /\ PowerLossPossible
    /\ CutShort
    /\ spaces' \in SUBSET spaces
    /\ published' \in SUBSET published
    /\ place' \in [Request -> {"none", ".incoming"} \cup spaces']
    /\ \A r \in Request : life[r] = "fresh" => place'[r] = "none"
    /\ \A r \in published' : place'[r] = place[r]

Step(r) ==
    \/ Arrive(r) \/ Spool(r) \/ Publish(r) \/ Fail(r) \/ Acknowledge(r)
    \/ \E p \in Platform : MoveIn(r, p)

Next ==
    \/ \E r \in Request : Step(r)
    \/ Crash
    \/ PowerLoss

Spec == Init /\ [][Next]_vars
===============================================================================
