------------------------------ MODULE Submission ------------------------------
(***************************************************************************)
(* The intake of samples: handleSubmission and the helpers it calls        *)
(* (writeQuarantineTemp, writeMetadataAtomic, syncDir), run by concurrent  *)
(* requests over one quarantine file system.                               *)
(*                                                                         *)
(* A request is identified with its random 128-bit id, so two requests     *)
(* never share a path.  The file system is modelled by what the handler    *)
(* relies on: names change atomically in memory, reach the disk at a later *)
(* moment of the system's choosing (or when a directory is synced), and    *)
(* bytes that were not synced are lost with the power.                     *)
(***************************************************************************)
EXTENDS Naturals

CONSTANTS
    Request,            \* submissions, each with an id of its own
    Platform,           \* supportedPlatforms
    DefaultPlatform,    \* defaultPlatform
    Payload,            \* what a client's file may contain
    Size,               \* the lengths a client's file may have
    MaxUpload,          \* cfg.maxUploadBytes
    WriteDeadline,      \* srv.WriteTimeout, in ticks since the header was read
    ReadDeadline,       \* srv.ReadTimeout, in the same ticks
    Torn,               \* bytes that are not completely on their medium
    PowerLossPossible,  \* the machine may lose its power
    DirSyncMayFail,     \* syncDir may return an error (the code ignores it)
    RemoveMayFail       \* os.Remove may return an error (the code ignores it)

Places  == {"none", ".incoming"} \cup Platform
Names   == {"none", "temp", "final"}
Refusal == {"BadRequest", "TooLarge", "Failed"}

File    == [of: Payload, len: Size]
Content == [of: Payload, len: Nat]
Record  == [platform: Platform, digest: Content]

ASSUME PlatformAssumption ==
    /\ DefaultPlatform \in Platform
    /\ Platform \cap {"none", ".incoming"} = {}

ASSUME SizeAssumption ==
    /\ Size \subseteq Nat
    /\ MaxUpload \in Nat

ASSUME DeadlineAssumption ==
    /\ WriteDeadline \in Nat
    /\ ReadDeadline \in Nat

ASSUME TornAssumption ==
    /\ Torn \notin Content
    /\ Torn \notin Record

ASSUME EnvironmentAssumption ==
    /\ PowerLossPossible \in BOOLEAN
    /\ DirSyncMayFail \in BOOLEAN
    /\ RemoveMayFail \in BOOLEAN

VARIABLES
    phase,      \* where the handler of each request stands
    form,       \* the handler's local variables
    client,     \* what the client sent: its file, and whether it ever declined
    sample,     \* the sample file of each request, as the running system sees it
    meta,       \* the metadata file of each request, likewise
    disk,       \* the names of both files that a power loss would bring back
    dirs,       \* the platform directories that exist now, and on the disk
    age,        \* ticks since the header of each request was read
    status,     \* the HTTP status the handler answered with
    answered    \* the requests whose answer reached the client

handler == <<phase, form, client, age>>
files   == <<sample, meta>>
storage == <<sample, meta, disk, dirs>>
reply   == <<status, answered>>
vars    == <<phase, form, client, sample, meta, disk, dirs, age, status, answered>>

NoSample == [at |-> "none", bytes |-> Torn, synced |-> FALSE]
NoMeta   == [at |-> "none", record |-> Torn, synced |-> FALSE]

Live == {r \in Request : phase[r] \notin {"idle", "done", "dead"}}

Phases ==
    {"idle", "parse", "copy", "place", "describe", "seal", "publish",
     "syncPlatform", "syncRoot", "respond", "done", "dead"}
Form ==
    [platform: Platform, platformSeen: BOOLEAN, consent: BOOLEAN,
     sampleSeen: BOOLEAN, temp: BOOLEAN, digest: Content \cup {Torn}]
SampleFile == [at: Places, bytes: Content \cup {Torn}, synced: BOOLEAN]
MetaFile   == [at: Names, record: Record \cup {Torn}, synced: BOOLEAN]
Dirs       == [now: SUBSET Platform, disk: SUBSET Platform]

TypeOK ==
    /\ phase \in [Request -> Phases]
    /\ form \in [Request -> Form]
    /\ client \in [Request -> [file: File \cup {Torn}, declined: BOOLEAN]]
    /\ sample \in [Request -> SampleFile]
    /\ meta \in [Request -> MetaFile]
    /\ disk \in [Request -> [sample: Places, meta: Names]]
    /\ dirs \in Dirs
    /\ age \in [Request -> 0 .. ReadDeadline]
    /\ status \in [Request -> Refusal \cup {"none", "Created"}]
    /\ answered \in SUBSET Request

Init ==
    /\ phase = [r \in Request |-> "idle"]
    /\ form = [r \in Request |->
                 [platform |-> DefaultPlatform, platformSeen |-> FALSE,
                  consent |-> FALSE, sampleSeen |-> FALSE,
                  temp |-> FALSE, digest |-> Torn]]
    /\ client = [r \in Request |-> [file |-> Torn, declined |-> FALSE]]
    /\ sample = [r \in Request |-> NoSample]
    /\ meta = [r \in Request |-> NoMeta]
    /\ disk = [r \in Request |-> [sample |-> "none", meta |-> "none"]]
    /\ dirs = [now |-> {}, disk |-> {}]
    /\ age = [r \in Request |-> 0]
    /\ status = [r \in Request |-> "none"]
    /\ answered = {}

-------------------------------------------------------------------------------
(* Answers and clean-up                                                      *)

\* The handler answers and returns.  The server set the write deadline when it
\* had read the header: an answer written later than that is not sent.
Answer(r, code) ==
    /\ phase' = [phase EXCEPT ![r] = "done"]
    /\ status' = [status EXCEPT ![r] = code]
    /\ answered' = IF age[r] < WriteDeadline THEN answered \cup {r} ELSE answered

\* os.Remove of the sample file, whose error nobody looks at.
RemoveSample(r) ==
    \/ sample' = [sample EXCEPT ![r] = NoSample]
    \/ RemoveMayFail /\ UNCHANGED sample

\* os.Remove of the temporary metadata file, if it was created.
RemoveMeta(r) ==
    \/ meta' = [meta EXCEPT ![r] = NoMeta]
    \/ RemoveMayFail /\ UNCHANGED meta

\* Mutant of Refuse: the deferred removal is missing.
RefuseKeepingTemp(r, code) ==
    /\ Answer(r, code)
    /\ UNCHANGED <<form, client, age, files, disk>>

\* An error return of handleSubmission: the answer, then the deferred removal
\* of tempPath when it is set.
Refuse(r, code) ==
    /\ Answer(r, code)
    /\ IF form[r].temp THEN RemoveSample(r) ELSE UNCHANGED sample
    /\ UNCHANGED <<form, client, age, meta, disk>>

\* Mutant of RefuseMetadata: the renamed sample is forgotten, as the deferred
\* removal no longer covers it.
RefuseMetadataKeepingSample(r) ==
    /\ Answer(r, "Failed")
    /\ RemoveMeta(r)
    /\ UNCHANGED <<form, client, age, sample, disk, dirs>>

\* writeMetadataAtomic failed: it removes its temporary file, and the handler
\* removes the sample it had already renamed into the platform directory.
RefuseMetadata(r) ==
    /\ Answer(r, "Failed")
    /\ RemoveSample(r)
    /\ RemoveMeta(r)
    /\ UNCHANGED <<form, client, age, disk, dirs>>

-------------------------------------------------------------------------------
(* Reading the multipart body                                                *)

Begin(r) ==
    /\ phase[r] = "idle"
    /\ \/ /\ phase' = [phase EXCEPT ![r] = "parse"]
          /\ UNCHANGED <<form, client, age, storage, reply>>
       \/ \E code \in {"BadRequest", "Failed"} :    \* not multipart; no random id
             Refuse(r, code) /\ UNCHANGED dirs

\* Bytes of the body still arrive: the read deadline has not passed.
Reading(r) ==
    /\ phase[r] = "parse"
    /\ age[r] < ReadDeadline

PlatformPart(r) ==
    /\ Reading(r)
    /\ \/ /\ ~form[r].platformSeen
          /\ \E p \in Platform :
                form' = [form EXCEPT ![r].platform = p, ![r].platformSeen = TRUE]
          /\ UNCHANGED <<phase, client, age, storage, reply>>
       \/ Refuse(r, "BadRequest") /\ UNCHANGED dirs   \* second one, or unsupported

ConsentPart(r) ==
    /\ Reading(r)
    /\ \E given \in BOOLEAN :
          /\ form' = [form EXCEPT ![r].consent = given]
          /\ client' = [client EXCEPT ![r].declined = @ \/ ~given]
    /\ UNCHANGED <<phase, age, storage, reply>>

\* The first sample part that is a file is opened under .incoming, with O_EXCL.
SamplePart(r) ==
    /\ Reading(r)
    /\ \/ /\ ~form[r].sampleSeen
          /\ \E f \in File : client' = [client EXCEPT ![r].file = f]
          /\ form' = [form EXCEPT ![r].sampleSeen = TRUE]
          /\ sample' = [sample EXCEPT ![r].at = ".incoming"]
          /\ phase' = [phase EXCEPT ![r] = "copy"]
          /\ UNCHANGED <<age, meta, disk, dirs, reply>>
       \/ Refuse(r, "BadRequest") /\ UNCHANGED dirs   \* second one, or not a file
       \/ /\ ~form[r].sampleSeen
          /\ Refuse(r, "Failed") /\ UNCHANGED dirs    \* .incoming or the open failed

UnknownPart(r) ==
    /\ Reading(r)
    /\ Refuse(r, "BadRequest")
    /\ UNCHANGED dirs

\* Mutant of BodyFails: the server has no read deadline.
BodyFailsWithoutDeadline(r) ==
    /\ Reading(r)
    /\ Refuse(r, "BadRequest")
    /\ UNCHANGED dirs

\* NextPart or a field cannot be read: the body is malformed, too large for
\* MaxBytesReader, cut short by the client, or past the read deadline.
BodyFails(r) ==
    /\ phase[r] = "parse"
    /\ Refuse(r, "BadRequest")
    /\ UNCHANGED dirs

\* Mutant of Limited: the limit is the maximum itself, so that a file which is
\* too large looks like one that just fits.
LimitedToMax(f) ==
    [f EXCEPT !.len = IF @ > MaxUpload THEN MaxUpload ELSE @]

\* What io.Copy takes from the part through LimitReader(src, max+1).
Limited(f) ==
    [f EXCEPT !.len = IF @ > MaxUpload + 1 THEN MaxUpload + 1 ELSE @]

\* The copy ends at the end of the part; the file is synced and closed.
CopyEnds(r) ==
    /\ phase[r] = "copy"
    /\ LET got == Limited(client[r].file) IN
       /\ got.len <= MaxUpload
       /\ sample' = [sample EXCEPT ![r].bytes = got, ![r].synced = TRUE]
       /\ form' = [form EXCEPT ![r].temp = TRUE, ![r].digest = got]
    /\ phase' = [phase EXCEPT ![r] = "parse"]
    /\ UNCHANGED <<client, age, meta, disk, dirs, reply>>

CopyTooLarge(r) ==
    /\ phase[r] = "copy"
    /\ Limited(client[r].file).len > MaxUpload
    /\ Answer(r, "TooLarge")
    /\ RemoveSample(r)
    /\ UNCHANGED <<form, client, age, meta, disk, dirs>>

\* The body cannot be read any further, or a write, the sync or the close fails.
CopyFails(r) ==
    /\ phase[r] = "copy"
    /\ Answer(r, "Failed")
    /\ RemoveSample(r)
    /\ UNCHANGED <<form, client, age, meta, disk, dirs>>

\* Mutant of EndOfBody: consent is not asked for.
EndOfBodyUnasked(r) ==
    /\ Reading(r)
    /\ \/ /\ form[r].temp
          /\ phase' = [phase EXCEPT ![r] = "place"]
          /\ UNCHANGED <<form, client, age, storage, reply>>
       \/ /\ ~form[r].temp
          /\ Refuse(r, "BadRequest") /\ UNCHANGED dirs

EndOfBody(r) ==
    /\ Reading(r)
    /\ \/ /\ form[r].consent /\ form[r].temp
          /\ phase' = [phase EXCEPT ![r] = "place"]
          /\ UNCHANGED <<form, client, age, storage, reply>>
       \/ /\ ~form[r].consent \/ ~form[r].temp
          /\ Refuse(r, "BadRequest") /\ UNCHANGED dirs

-------------------------------------------------------------------------------
(* Storing the pair                                                          *)

\* ensurePlatformQuarantine, then the rename out of .incoming.
PlaceSample(r) ==
    /\ phase[r] = "place"
    /\ \/ /\ dirs' = [dirs EXCEPT !.now = @ \cup {form[r].platform}]
          /\ sample' = [sample EXCEPT ![r].at = form[r].platform]
          /\ form' = [form EXCEPT ![r].temp = FALSE]
          /\ phase' = [phase EXCEPT ![r] = "describe"]
          /\ UNCHANGED <<client, age, meta, disk, reply>>
       \/ /\ Refuse(r, "Failed")
          /\ \/ UNCHANGED dirs
             \/ dirs' = [dirs EXCEPT !.now = @ \cup {form[r].platform}]

CreateMetadata(r) ==
    /\ phase[r] = "describe"
    /\ \/ /\ meta' = [meta EXCEPT ![r].at = "temp"]
          /\ phase' = [phase EXCEPT ![r] = "seal"]
          /\ UNCHANGED <<form, client, age, sample, disk, dirs, reply>>
       \/ RefuseMetadata(r)

SealMetadata(r) ==
    /\ phase[r] = "seal"
    /\ \/ /\ meta' = [meta EXCEPT
                        ![r].record = [platform |-> form[r].platform,
                                       digest |-> form[r].digest],
                        ![r].synced = TRUE]
          /\ phase' = [phase EXCEPT ![r] = "publish"]
          /\ UNCHANGED <<form, client, age, sample, disk, dirs, reply>>
       \/ RefuseMetadata(r)

PublishMetadata(r) ==
    /\ phase[r] = "publish"
    /\ \/ /\ meta' = [meta EXCEPT ![r].at = "final"]
          /\ phase' = [phase EXCEPT ![r] = "syncPlatform"]
          /\ UNCHANGED <<form, client, age, sample, disk, dirs, reply>>
       \/ RefuseMetadata(r)

\* The names the disk holds once directory p is synced: every entry p has now,
\* of whichever request, and none that it no longer has.
Synced(p) ==
    [q \in Request |->
       IF p \in {sample[q].at, disk[q].sample}
         THEN [sample |-> sample[q].at, meta |-> meta[q].at]
         ELSE disk[q]]

\* Mutant of SyncPlatformDir: the platform directory is not synced.
SyncPlatformDirSkipped(r) ==
    /\ phase[r] = "syncPlatform"
    /\ phase' = [phase EXCEPT ![r] = "syncRoot"]
    /\ UNCHANGED <<form, client, age, storage, reply>>

SyncPlatformDir(r) ==
    /\ phase[r] = "syncPlatform"
    /\ phase' = [phase EXCEPT ![r] = "syncRoot"]
    /\ \/ disk' = Synced(form[r].platform)
       \/ DirSyncMayFail /\ UNCHANGED disk
    /\ UNCHANGED <<form, client, age, files, dirs, reply>>

\* Mutant of SyncRootDir: the new platform directory itself is not synced.
SyncRootDirSkipped(r) ==
    /\ phase[r] = "syncRoot"
    /\ phase' = [phase EXCEPT ![r] = "respond"]
    /\ UNCHANGED <<form, client, age, storage, reply>>

\* Mutant of SyncRootDir: a sync that fails undoes the submission.
SyncRootDirOrUndo(r) ==
    /\ phase[r] = "syncRoot"
    /\ \/ /\ phase' = [phase EXCEPT ![r] = "respond"]
          /\ dirs' = [dirs EXCEPT !.disk = dirs.now]
          /\ UNCHANGED <<form, client, age, files, disk, reply>>
       \/ DirSyncMayFail /\ RefuseMetadata(r)

SyncRootDir(r) ==
    /\ phase[r] = "syncRoot"
    /\ phase' = [phase EXCEPT ![r] = "respond"]
    /\ \/ dirs' = [dirs EXCEPT !.disk = dirs.now]
       \/ DirSyncMayFail /\ UNCHANGED dirs
    /\ UNCHANGED <<form, client, age, files, disk, reply>>

Respond(r) ==
    /\ phase[r] = "respond"
    /\ Answer(r, "Created")
    /\ UNCHANGED <<form, client, age, storage>>

-------------------------------------------------------------------------------
(* The world around the handlers                                             *)

\* Mutant of Age: the deadline is noticed one tick late.
AgeLate(r) ==
    /\ r \in Live
    /\ age[r] <= ReadDeadline
    /\ age' = [age EXCEPT ![r] = @ + 1]
    /\ UNCHANGED <<phase, form, client, storage, reply>>

Age(r) ==
    /\ r \in Live
    /\ age[r] < ReadDeadline
    /\ age' = [age EXCEPT ![r] = @ + 1]
    /\ UNCHANGED <<phase, form, client, storage, reply>>

\* The process dies and is started again; nothing resumes or sweeps its files.
Crash ==
    /\ Live # {}
    /\ phase' = [r \in Request |-> IF r \in Live THEN "dead" ELSE phase[r]]
    /\ UNCHANGED <<form, client, age, storage, reply>>

\* The file system commits its journal, in the order the names changed.
Writeback ==
    /\ PowerLossPossible
    /\ disk' = [r \in Request |-> [sample |-> sample[r].at, meta |-> meta[r].at]]
    /\ dirs' = [dirs EXCEPT !.disk = dirs.now]
    /\ UNCHANGED <<handler, files, reply>>

\* What a power loss leaves of the names of request r: those on the disk, except
\* in a platform directory that is not itself on the disk.
Survives(r) ==
    IF disk[r].sample \in Platform \ dirs.disk
      THEN [sample |-> "none", meta |-> "none"]
      ELSE disk[r]

PowerLoss ==
    /\ PowerLossPossible
    /\ phase' = [r \in Request |-> IF r \in Live THEN "dead" ELSE phase[r]]
    /\ disk' = [r \in Request |-> Survives(r)]
    /\ sample' = [r \in Request |->
                    IF Survives(r).sample = "none" THEN NoSample
                    ELSE [at     |-> Survives(r).sample,
                          bytes  |-> IF sample[r].synced THEN sample[r].bytes ELSE Torn,
                          synced |-> sample[r].synced]]
    /\ meta' = [r \in Request |->
                  IF Survives(r).meta = "none" THEN NoMeta
                  ELSE [at     |-> Survives(r).meta,
                        record |-> IF meta[r].synced THEN meta[r].record ELSE Torn,
                        synced |-> meta[r].synced]]
    /\ dirs' = [dirs EXCEPT !.now = dirs.disk]
    /\ UNCHANGED <<form, client, age, reply>>

-------------------------------------------------------------------------------

BodyStep(r) ==
    \/ Begin(r) \/ PlatformPart(r) \/ ConsentPart(r) \/ SamplePart(r)
    \/ UnknownPart(r) \/ BodyFails(r) \/ CopyEnds(r) \/ CopyTooLarge(r)
    \/ CopyFails(r) \/ EndOfBody(r)

StoreStep(r) ==
    \/ PlaceSample(r) \/ CreateMetadata(r) \/ SealMetadata(r) \/ PublishMetadata(r)
    \/ SyncPlatformDir(r) \/ SyncRootDir(r) \/ Respond(r)

Next ==
    \/ \E r \in Request : BodyStep(r) \/ StoreStep(r) \/ Age(r)
    \/ Crash
    \/ Writeback
    \/ PowerLoss

Spec == Init /\ [][Next]_vars

\* Time passes; the goroutine of a request whose body is complete keeps running
\* (none of its steps waits for another request); and past the read deadline the
\* connection returns an error to whoever reads the body.  The client is owed
\* nothing: it may stop sending at any point.
Fairness ==
    \A r \in Request :
        /\ WF_vars(Age(r))
        /\ WF_vars(StoreStep(r))
        /\ WF_vars(age[r] = ReadDeadline /\ (BodyFails(r) \/ CopyFails(r)))

FairSpec == Spec /\ Fairness

-------------------------------------------------------------------------------
(* Properties                                                                *)

\* The pair of a published request is whole: the sample lies where the record
\* says, with the bytes the record's digest was taken of, synced like the record,
\* no longer than allowed, and the client's own file from end to end.
Whole(r) ==
    /\ sample[r].at = form[r].platform
    /\ sample[r].synced /\ meta[r].synced
    /\ meta[r].record = [platform |-> sample[r].at, digest |-> sample[r].bytes]
    /\ sample[r].bytes = client[r].file
    /\ sample[r].bytes.len <= MaxUpload

\* Commit order.  Whoever finds <id>.json in a platform directory, at whatever
\* moment, after whatever crash or power loss, finds the whole sample beside it:
\* the bytes were synced before the first rename (main.go:422, 359), the record
\* before the second (main.go:451, 457), and the renames come in that order.
PublishedPairIsWhole ==
    \A r \in Request : meta[r].at = "final" => Whole(r)

\* A sample is published only if the last word of its client on consent was
\* "true" (main.go:311, 343), whatever the order and number of the parts.
PublishedWithConsent ==
    \A r \in Request : meta[r].at = "final" => form[r].consent

\* The names of the pair of a request are on the disk.
DurablePair(r) ==
    disk[r] = [sample |-> form[r].platform, meta |-> "final"]

\* A receipt is durable.  Once the handler wrote 201, the pair is on the disk, in
\* a directory that is on the disk: no later power loss takes it back.  That is
\* what the two syncDir calls (main.go:383-384) are for; they do it unless they
\* fail, so this is checked and proved for ~DirSyncMayFail.
ReceiptIsDurable ==
    \A r \in Request : status[r] = "Created" =>
        DurablePair(r) /\ form[r].platform \in dirs.disk

\* A refused request leaves nothing: no file in a platform directory and none in
\* .incoming, on whichever of the error returns it left (main.go:269-273, 379,
\* 406-411, 439-444).  Checked where removals succeed and the power stays on.
RefusedLeavesNothing ==
    \A r \in Request : status[r] \in Refusal =>
        sample[r] = NoSample /\ meta[r] = NoMeta

\* Files that belong to no published pair are the traces of a handler at work or
\* of one that died: a crash is the only way to an orphan (no sweep removes it).
OrphansOnlyFromCrashes ==
    \A r \in Request :
        (sample[r].at # "none" \/ meta[r].at # "none") /\ meta[r].at # "final"
            => r \in Live \/ phase[r] = "dead"

\* Once published, neither file of a pair is ever changed by the service: no
\* error path of the request itself, of another one, and no restart touches it.
PublishedIsImmutable ==
    [][\A r \in Request : meta[r].at = "final" =>
          sample'[r] = sample[r] /\ meta'[r] = meta[r]]_vars

\* Every request that began comes to an end, whatever its client does, so its
\* goroutine (and the upload slot it holds) is given back.
EveryRequestEnds ==
    \A r \in Request : phase[r] = "parse" ~> phase[r] \in {"done", "dead"}

\* What the protocol document says of a success (M3_QUARANTINE_PROTOCOL.md:26):
\* the client of a stored submission receives the 201 with its receipt.
StoredIsAnswered ==
    \A r \in Request : status[r] = "Created" => r \in answered

\* What the protocol document says of a request (M3_QUARANTINE_PROTOCOL.md:17-20):
\* it contains exactly consent=true and one sample, so that a client that answered
\* the consent question with anything else has nothing published.
PublishedNeverDeclined ==
    \A r \in Request : meta[r].at = "final" => ~client[r].declined

-------------------------------------------------------------------------------
(* The promise to submitters                                                 *)

\* What an operator reads of a request: the sample, at the place where it is, of
\* a request whose record is published.
StoredEntry ==
    [r \in Request |->
       IF meta[r].at = "final"
         THEN [platform |-> sample[r].at, digest |-> sample[r].bytes]
         ELSE Torn]

Outcome ==
    [r \in Request |->
       CASE status[r] = "Created"  -> "acknowledged"
         [] status[r] \in Refusal  -> "refused"
         [] phase[r] = "dead"      -> "abandoned"
         [] OTHER                  -> "open"]

Ledger == INSTANCE QuarantineLedger WITH
    Entry   <- [platform: Platform, digest: {c \in File : c.len <= MaxUpload}],
    Absent  <- Torn,
    stored  <- StoredEntry,
    outcome <- Outcome

\* The service implements the ledger: publication is one step although it takes
\* two files, and acknowledged entries outlive crashes and power losses.
ImplementsLedger == Ledger!Spec

-------------------------------------------------------------------------------
(* The quarantine its readers meet                                           *)

Life ==
    [r \in Request |->
       IF r \in Live THEN "working" ELSE IF phase[r] = "idle" THEN "fresh" ELSE "over"]

Files == INSTANCE Quarantine WITH
    life      <- Life,
    place     <- [r \in Request |-> sample[r].at],
    published <- {r \in Request : meta[r].at = "final"},
    spaces    <- dirs.now

\* To whoever lists its directories the service does what Quarantine says: a sample
\* goes from .incoming into one platform directory, its record appears after it,
\* and no error path takes a record back (main.go:356-384).  So what Inventory
\* shows of the readers holds of this service.
ImplementsQuarantine == Files!Spec

-------------------------------------------------------------------------------
(* The inductive invariant behind PublishedPairIsWhole                       *)

BeforeMetadata == {"idle", "parse", "copy", "place"}
Unplaced       == {"none", ".incoming"}
HasStored      == {"syncPlatform", "syncRoot", "respond"}

\* Until the sample is placed nothing of a request can be on its way to a
\* platform directory, and tempPath, when set, names a complete synced copy.
UploadInv(r) ==
    /\ phase[r] \in BeforeMetadata =>
         /\ meta[r] = NoMeta /\ disk[r].meta = "none"
         /\ sample[r].at \in Unplaced /\ disk[r].sample \in Unplaced
    /\ form[r].temp /\ phase[r] \in {"parse", "place"} =>
         /\ sample[r].at = ".incoming"
         /\ sample[r].synced
         /\ sample[r].bytes = form[r].digest
         /\ form[r].digest = client[r].file
         /\ client[r].file # Torn /\ client[r].file.len <= MaxUpload
         /\ form[r].sampleSeen
    /\ phase[r] = "place" => form[r].consent /\ form[r].temp
    /\ phase[r] = "copy" =>
         /\ sample[r].at = ".incoming" /\ client[r].file # Torn
         /\ ~form[r].temp /\ form[r].sampleSeen
    /\ phase[r] = "idle" => ~form[r].sampleSeen
    /\ phase[r] \in {"idle", "parse"} /\ ~form[r].sampleSeen => ~form[r].temp

\* From then on the handler's locals describe the sample it placed.
PlacedInv(r) ==
    /\ phase[r] \in {"describe", "seal", "publish"} =>
         /\ form[r].consent /\ ~form[r].temp
         /\ sample[r].at = form[r].platform /\ sample[r].synced
         /\ sample[r].bytes = form[r].digest
         /\ form[r].digest = client[r].file
         /\ client[r].file # Torn /\ client[r].file.len <= MaxUpload
         /\ meta[r].at # "final" /\ disk[r].meta # "final"
    /\ phase[r] = "publish" =>
         /\ meta[r].synced
         /\ meta[r].record = [platform |-> form[r].platform, digest |-> form[r].digest]
    /\ phase[r] \in HasStored => meta[r].at = "final"

\* What is published is whole now, and would be whole after a power loss.
PublishedInv(r) ==
    /\ disk[r].meta = "final" =>
         /\ meta[r].at = "final"
         /\ disk[r].sample = sample[r].at
    /\ meta[r].at = "final" =>
         Whole(r) /\ form[r].consent /\ ~form[r].temp /\ phase[r] \notin BeforeMetadata

RequestInv(r) == UploadInv(r) /\ PlacedInv(r) /\ PublishedInv(r)

\* Between the two syncs and after them, when syncs do not fail (the strengthening
\* of ReceiptIsDurable, which holds beside IInv).
RequestDurable(r) ==
    /\ phase[r] \in {"describe", "seal", "publish"} \cup HasStored =>
         form[r].platform \in dirs.now
    /\ phase[r] = "syncRoot" => DurablePair(r)
    /\ phase[r] = "respond" \/ status[r] = "Created" =>
         DurablePair(r) /\ form[r].platform \in dirs.disk
    /\ phase[r] # "done" => status[r] = "none"

DurableInv == dirs.disk \subseteq dirs.now /\ \A r \in Request : RequestDurable(r)

IInv == TypeOK /\ \A r \in Request : RequestInv(r)

===============================================================================
