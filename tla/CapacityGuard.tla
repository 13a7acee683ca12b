----------------------------- MODULE CapacityGuard -----------------------------
(***************************************************************************)
(* quarantineHasCapacity (main.go) against the writes of the uploads it    *)
(* lets through.  The check reads the file system once, at the start of a  *)
(* request that already holds an upload slot; the request then writes its  *)
(* sample (up to one byte over the limit before it is refused) and its     *)
(* record, while other requests do the same.  Sizes are in blocks.         *)
(***************************************************************************)
EXTENDS Integers, FiniteSets

CONSTANTS
    Request,        \* requests past abuse.begin
    Slots,          \* defaultMaxConcurrentUploads
    Total,          \* stat.Blocks
    RootReserve,    \* blocks that only root may use: Bfree - Bavail
    MinFree,        \* values of cfg.quarantineMinFreeBytes
    MaxUsedPercent, \* values of cfg.quarantineMaxUsedPercent
    MaxUpload,      \* cfg.maxUploadBytes
    RecordSize      \* what a metadata file takes

ASSUME CapacityAssumption ==
    /\ IsFiniteSet(Request)
    /\ Slots \in Nat \ {0}
    /\ MinFree \subseteq Nat /\ MaxUsedPercent \subseteq Nat
    /\ {Total, RootReserve, MaxUpload, RecordSize} \subseteq Nat
    /\ RootReserve <= Total

VARIABLES
    cfg,        \* what loadConfig returned
    bfree,      \* free blocks of the quarantine file system
    pc,         \* "idle", or "copy" once let through, or "record"
    written     \* blocks each request in flight has written

vars == <<cfg, bfree, pc, written>>

TypeOK ==
    /\ cfg \in [minFree: MinFree, maxUsedPercent: MaxUsedPercent]
    /\ bfree \in 0 .. Total
    /\ pc \in [Request -> {"idle", "copy", "record"}]
    /\ written \in [Request -> 0 .. MaxUpload + 1 + RecordSize]

\* The quarantine may hold any number of earlier submissions.
Init ==
    /\ cfg \in [minFree: MinFree, maxUsedPercent: MaxUsedPercent]
    /\ bfree \in 0 .. Total
    /\ pc = [r \in Request |-> "idle"]
    /\ written = [r \in Request |-> 0]

Available == IF bfree > RootReserve THEN bfree - RootReserve ELSE 0
Used      == Total - bfree
InFlight  == {r \in Request : pc[r] # "idle"}

\* Mutants of HasCapacity: no room is left for the upload; the watermark is not
\* looked at.
HasCapacityUnreserved ==
    /\ Available >= cfg.minFree
    /\ Total # 0
    /\ Used * 100 < Total * cfg.maxUsedPercent

HasCapacityByFloor ==
    /\ Available >= cfg.minFree
    /\ Available - cfg.minFree >= MaxUpload

HasCapacity ==
    /\ Available >= cfg.minFree
    /\ Available - cfg.minFree >= MaxUpload
    /\ Total # 0
    /\ Used * 100 < Total * cfg.maxUsedPercent

\* A request asks and is let through...
LetThrough(r) ==
    /\ pc[r] = "idle"
    /\ HasCapacity
    /\ pc' = [pc EXCEPT ![r] = "copy"]
    /\ written' = [written EXCEPT ![r] = 0]
    /\ UNCHANGED <<cfg, bfree>>

\* ...or answered 503.
TurnAway(r) ==
    /\ pc[r] = "idle"
    /\ ~HasCapacity
    /\ UNCHANGED vars

\* Only a request that holds a slot asks: an assumption about the caller, which
\* IntakeService is shown to meet.
Ask(r) ==
    /\ Cardinality(InFlight) < Slots
    /\ LetThrough(r) \/ TurnAway(r)

\* io.Copy writes the next block of a sample of at most max+1.
WriteSample(r) ==
    /\ pc[r] = "copy"
    /\ written[r] < MaxUpload + 1
    /\ Available > 0
    /\ bfree' = bfree - 1
    /\ written' = [written EXCEPT ![r] = @ + 1]
    /\ UNCHANGED <<cfg, pc>>

\* The whole sample was written and is within the limit; the record follows.
WriteRecord(r) ==
    /\ pc[r] = "copy"
    /\ written[r] <= MaxUpload
    /\ Available >= RecordSize
    /\ bfree' = bfree - RecordSize
    /\ written' = [written EXCEPT ![r] = @ + RecordSize]
    /\ pc' = [pc EXCEPT ![r] = "record"]
    /\ UNCHANGED cfg

\* Both files stay, and the slot is given back.
Keep(r) ==
    /\ pc[r] = "record"
    /\ pc' = [pc EXCEPT ![r] = "idle"]
    /\ written' = [written EXCEPT ![r] = 0]
    /\ UNCHANGED <<cfg, bfree>>

\* What the removals of an error return may leave taken, as nobody looks whether they
\* succeed: the sample, the record, both or neither.
LeftTaken(r) ==
    IF pc[r] = "record"
      THEN {0, RecordSize, written[r] - RecordSize, written[r]}
      ELSE {0, written[r]}

\* An error return, too large, out of space or any other: the files are removed.
Discard(r) ==
    /\ pc[r] # "idle"
    /\ pc' = [pc EXCEPT ![r] = "idle"]
    /\ written' = [written EXCEPT ![r] = 0]
    /\ \E left \in LeftTaken(r) : bfree' = bfree + (written[r] - left)
    /\ UNCHANGED cfg

\* The process dies and is started again; what was written stays where it is, and
\* the configuration is read anew.
Crash ==
    /\ cfg' \in [minFree: MinFree, maxUsedPercent: MaxUsedPercent]
    /\ pc' = [r \in Request |-> "idle"]
    /\ written' = [r \in Request |-> 0]
    /\ UNCHANGED bfree

Next ==
    \/ \E r \in Request :
          \/ Ask(r) \/ WriteSample(r) \/ WriteRecord(r) \/ Keep(r) \/ Discard(r)
    \/ Crash

Spec == Init /\ [][Next]_vars

-------------------------------------------------------------------------------
(* Properties                                                                *)

PerRequest == MaxUpload + (IF RecordSize > 1 THEN RecordSize ELSE 1)

\* What the check is worth with all slots in use: the last request it let through
\* saw one upload of room above the floor, and every slot may take one more.
\* (A quarantine that was fuller than that to begin with only gets emptier.)
FloorMargin ==
    InFlight # {} =>
        Available >= cfg.minFree + MaxUpload - Slots * PerRequest

\* The same for the watermark, for which the check reserves nothing.
WatermarkMargin ==
    InFlight # {} =>
        (Used - Slots * PerRequest) * 100 < Total * cfg.maxUsedPercent

\* What the documents say (README.md:31, M5_7_CAPACITY_ABUSE_HARDENING.md:13):
\* intake stops before the file system reaches its reserve, as the check leaves
\* room for one upload above the floor; give or take the record of that upload and
\* the byte that shows it to be too large.
FloorIsKept == InFlight # {} => Available + RecordSize + 1 >= cfg.minFree
===============================================================================
