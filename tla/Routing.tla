-------------------------------- MODULE Routing --------------------------------
(***************************************************************************)
(* amiguard-admin route and export: operators copy verified samples out of *)
(* the quarantine, each command in a process of its own, into an inbox     *)
(* (where a manifest beside the sample hands it to the analysis side) or   *)
(* into an export directory.  There is one inbox and one export directory, *)
(* named by the command that writes to it.                                 *)
(*                                                                         *)
(* Contents are abstracted to what the hashes tell apart.  A removal       *)
(* succeeds, unless the command is killed before it.                       *)
(***************************************************************************)
EXTENDS Naturals

CONSTANTS
    Submission,     \* ids
    Operator,       \* processes that may run at the same time
    Command         \* the commands they give

ASSUME CommandAssumption == Command \subseteq {"route", "export"}

VARIABLES
    quarantine,     \* the sample a valid record names: "none" without such a record
    sample,         \* what is found under <id>.sample where a command puts it
    manifest,       \* <id>.route.json in the inbox
    op,             \* the command each process runs
    reported,       \* how often a command reported ROUTED or EXPORTED
    left            \* submissions a killed command worked on

vars == <<quarantine, sample, manifest, op, reported, left>>

Content == {"none", "partial", "genuine", "altered"}
Step    == {"check", "create", "copy", "rehash", "describe", "encode", "sync", "undo"}
Idle    == [step |-> "idle"]
Job     == [step: Step, command: Command, id: Submission]

TypeOK ==
    /\ quarantine \in [Submission -> {"none", "genuine", "altered"}]
    /\ sample \in [Command -> [Submission -> Content]]
    /\ manifest \in [Submission -> {"none", "partial", "complete"}]
    /\ op \in [Operator -> Job \cup {Idle}]
    /\ reported \in [Command -> [Submission -> Nat]]
    /\ left \subseteq Submission

Init ==
    /\ quarantine \in [Submission -> {"none", "genuine"}]
    /\ sample = [c \in Command |-> [s \in Submission |-> "none"]]
    /\ manifest = [s \in Submission |-> "none"]
    /\ op = [o \in Operator |-> Idle]
    /\ reported = [c \in Command |-> [s \in Submission |-> 0]]
    /\ left = {}

At(o, step) == op[o] # Idle /\ op[o].step = step
GoTo(o, step) == op' = [op EXCEPT ![o].step = step]

\* Mutant of Exit: the locals of a command outlive it.
ExitKeepingLocals(o) == GoTo(o, "idle")

Exit(o) == op' = [op EXCEPT ![o] = Idle]

\* The sample and the manifest of the command process o runs.
SampleOf(o) == sample[op[o].command][op[o].id]
SetSample(o, content) == sample' = [sample EXCEPT ![op[o].command][op[o].id] = content]
SetManifest(o, content) == manifest' = [manifest EXCEPT ![op[o].id] = content]

-------------------------------------------------------------------------------

\* loadRecord and verifyRecord: the source is what its record says.
Begin(o, c, s) ==
    /\ op[o] = Idle
    /\ quarantine[s] = "genuine"
    /\ op' = [op EXCEPT ![o] =
                [step |-> IF c = "route" THEN "check" ELSE "create", command |-> c, id |-> s]]
    /\ UNCHANGED <<quarantine, sample, manifest, reported, left>>

\* Without a valid record, or with another sample than it describes, nothing is
\* begun.
Refuse(o, s) ==
    /\ op[o] = Idle
    /\ quarantine[s] # "genuine"
    /\ UNCHANGED vars

\* A namespace that is missing, or a manifest that is there, ends the command;
\* the look at the manifest and its creation are apart.
CheckManifest(o) ==
    /\ At(o, "check")
    /\ \/ manifest[op[o].id] = "none" /\ GoTo(o, "create")
       \/ Exit(o)
    /\ UNCHANGED <<quarantine, sample, manifest, reported, left>>

\* Mutants of CreateSample: an existing file is truncated; the removal is deferred
\* before the file is opened.
CreateSampleTruncating(o) ==
    /\ At(o, "create")
    /\ SetSample(o, "partial") /\ GoTo(o, "copy")
    /\ UNCHANGED <<quarantine, manifest, reported, left>>

CreateSampleOrUndo(o) ==
    /\ At(o, "create")
    /\ \/ SampleOf(o) = "none" /\ SetSample(o, "partial") /\ GoTo(o, "copy")
       \/ GoTo(o, "undo") /\ UNCHANGED sample
    /\ UNCHANGED <<quarantine, manifest, reported, left>>

\* The exclusive creation.  When it fails there is nothing of ours to remove.
CreateSample(o) ==
    /\ At(o, "create")
    /\ \/ SampleOf(o) = "none" /\ SetSample(o, "partial") /\ GoTo(o, "copy")
       \/ Exit(o) /\ UNCHANGED sample
    /\ UNCHANGED <<quarantine, manifest, reported, left>>

\* The sample as it is now is streamed to the copy, and hashed on the way.  What
\* reaches the disk may be something else, which the stream does not show.
CopySample(o) ==
    /\ At(o, "copy")
    /\ \/ /\ \E written \in {quarantine[op[o].id], "altered"} : SetSample(o, written)
          /\ GoTo(o, IF quarantine[op[o].id] = "genuine" THEN "rehash" ELSE "undo")
       \/ GoTo(o, "undo") /\ UNCHANGED sample
    /\ UNCHANGED <<quarantine, manifest, reported, left>>

\* The last line of a command.
Report(o) ==
    /\ reported' = [reported EXCEPT ![op[o].command][op[o].id] = @ + 1]
    /\ Exit(o)

\* Mutant of Rehash: the hash of the stream is taken for that of the copy.
RehashStreamOnly(o) ==
    /\ At(o, "rehash")
    /\ IF op[o].command = "route"
         THEN GoTo(o, "describe") /\ UNCHANGED reported
         ELSE Report(o)
    /\ UNCHANGED <<quarantine, sample, manifest, left>>

\* The copy is read back.  An export is done then.
Rehash(o) ==
    /\ At(o, "rehash")
    /\ \/ SampleOf(o) = "genuine" /\ op[o].command = "export" /\ Report(o)
       \/ SampleOf(o) = "genuine" /\ op[o].command = "route" /\ GoTo(o, "describe")
             /\ UNCHANGED reported
       \/ GoTo(o, "undo") /\ UNCHANGED reported
    /\ UNCHANGED <<quarantine, sample, manifest, left>>

\* The manifest, too, is created exclusively...
CreateManifest(o) ==
    /\ At(o, "describe")
    /\ \/ manifest[op[o].id] = "none" /\ SetManifest(o, "partial") /\ GoTo(o, "encode")
       \/ GoTo(o, "undo") /\ UNCHANGED manifest
    /\ UNCHANGED <<quarantine, sample, reported, left>>

\* ...written under its name, where others can see it...
EncodeManifest(o) ==
    /\ At(o, "encode")
    /\ \/ SetManifest(o, "complete") /\ GoTo(o, "sync")
       \/ SetManifest(o, "none") /\ GoTo(o, "undo")
    /\ UNCHANGED <<quarantine, sample, reported, left>>

\* Mutant of SyncManifest: the sample is not removed after its manifest.
SyncManifestKeepingSample(o) ==
    /\ At(o, "sync")
    /\ \/ Report(o) /\ UNCHANGED manifest
       \/ SetManifest(o, "none") /\ Exit(o) /\ UNCHANGED reported
    /\ UNCHANGED <<quarantine, sample, left>>

\* ...and synced and closed, or removed again.
SyncManifest(o) ==
    /\ At(o, "sync")
    /\ \/ Report(o) /\ UNCHANGED manifest
       \/ SetManifest(o, "none") /\ GoTo(o, "undo") /\ UNCHANGED reported
    /\ UNCHANGED <<quarantine, sample, left>>

\* The sample is removed, and the command ends with an error.
Undo(o) ==
    /\ At(o, "undo")
    /\ SetSample(o, "none")
    /\ Exit(o)
    /\ UNCHANGED <<quarantine, manifest, reported, left>>

\* The command is killed; nothing runs in its place.
Kill(o) ==
    /\ op[o] # Idle
    /\ left' = left \cup {op[o].id}
    /\ Exit(o)
    /\ UNCHANGED <<quarantine, sample, manifest, reported>>

\* A sample rots, or is overwritten, in the quarantine.
Alter(s) ==
    /\ quarantine[s] = "genuine"
    /\ quarantine' = [quarantine EXCEPT ![s] = "altered"]
    /\ UNCHANGED <<sample, manifest, op, reported, left>>

OperatorStep(o) ==
    \/ \E s \in Submission : Refuse(o, s) \/ \E c \in Command : Begin(o, c, s)
    \/ CheckManifest(o) \/ CreateSample(o) \/ CopySample(o) \/ Rehash(o)
    \/ CreateManifest(o) \/ EncodeManifest(o) \/ SyncManifest(o)
    \/ Undo(o) \/ Kill(o)

Next ==
    \/ \E o \in Operator : OperatorStep(o)
    \/ \E s \in Submission : Alter(s)

Spec == Init /\ [][Next]_vars

-------------------------------------------------------------------------------
(* Properties                                                                *)

\* A complete manifest is a promise to whoever reads the inbox, at any moment:
\* the sample beside it is the one that was verified in the quarantine, whatever
\* became of the quarantine since and whichever commands were killed.
RoutedPairIsWhole ==
    \A s \in Submission, c \in Command :
        c = "route" /\ manifest[s] = "complete" => sample[c][s] = "genuine"

\* What a command reported stays: no later command, duplicate or failing,
\* overwrites or removes a file that was handed out.
ReportedIsKept ==
    \A c \in Command, s \in Submission :
        reported[c][s] > 0 =>
            /\ sample[c][s] = "genuine"
            /\ c = "route" => manifest[s] = "complete"

\* A submission is handed out once to each place, however many operators try at the
\* same time.
ReportedOnce ==
    \A c \in Command, s \in Submission : reported[c][s] <= 1

\* Process o works on what command c does with submission s.
WorksOn(o, c, s) == op[o] # Idle /\ op[o].command = c /\ op[o].id = s

\* A command that reports an error leaves nothing behind, and one that reports
\* success leaves all of it; only a killed command leaves something in between.
NothingHalfDone ==
    \A c \in Command, s \in Submission :
        s \notin left /\ (\A o \in Operator : ~WorksOn(o, c, s)) =>
            IF reported[c][s] = 0
            THEN sample[c][s] = "none" /\ (c = "route" => manifest[s] = "none")
            ELSE sample[c][s] = "genuine" /\ (c = "route" => manifest[s] = "complete")
===============================================================================
