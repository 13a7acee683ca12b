------------------------ MODULE SubmissionFilesProofs -------------------------
(***************************************************************************)
(* More about Submission: what a request leaves of its files on every way  *)
(* out, and that the service implements Quarantine, the view of it that    *)
(* the readers have, and QuarantineLedger, what a submitter is promised.   *)
(***************************************************************************)
EXTENDS SubmissionProofs

-------------------------------------------------------------------------------
(* What a handler has of its files                                           *)

\* Before the sample part, and after a refused one, there is no file; no record is
\* begun before the sample is placed; the status is written at the end.
SpoolInv(r) ==
    /\ phase[r] = "idle" => sample[r] = NoSample /\ disk[r].sample = "none"
    /\ phase[r] \in {"idle", "parse"} /\ ~form[r].temp => sample[r] = NoSample
    /\ phase[r] = "describe" => meta[r] = NoMeta
    /\ phase[r] # "done" => status[r] = "none"
    /\ phase[r] = "done" /\ status[r] # "Created" => meta[r].at # "final"
    /\ phase[r] = "done" => status[r] # "none"

\* How a handler that came to its end left them, where removals succeed and the
\* power stays on.
EndInv(r) ==
    phase[r] = "done" =>
        \/ status[r] \in Refusal /\ sample[r] = NoSample /\ meta[r] = NoMeta
        \/ status[r] = "Created" /\ meta[r].at = "final"

SpoolsInv == \A r \in Request : SpoolInv(r)
EndsInv   == \A r \in Request : EndInv(r)

\* What a step of one request does to the others: nothing, but that their names may
\* reach the disk.
Others(r) ==
    \A q \in Request \ {r} :
        /\ phase'[q] = phase[q] /\ form'[q] = form[q] /\ status'[q] = status[q]
        /\ sample'[q] = sample[q] /\ meta'[q] = meta[q]
        /\ disk'[q] \in {disk[q], [sample |-> sample[q].at, meta |-> meta[q].at]}

\* The files of a request that a step leaves alone.
LEMMA SpoolFrame ==
    ASSUME NEW q \in Request, SpoolInv(q),
           phase'[q] = phase[q], form'[q] = form[q], status'[q] = status[q],
           sample'[q] = sample[q], meta'[q] = meta[q],
           disk'[q] \in {disk[q], [sample |-> sample[q].at, meta |-> meta[q].at]}
    PROVE  SpoolInv(q)' /\ (EndInv(q) => EndInv(q)')
BY DEF SpoolInv, EndInv, NoSample

\* An error return before the record was begun.
LEMMA RefuseSpool ==
    ASSUME IInv, SpoolsInv, NEW r \in Request, NEW code \in Refusal,
           phase[r] \in {"idle", "parse", "place"}, Refuse(r, code)
    PROVE  /\ Others(r) /\ SpoolInv(r)'
           /\ sample'[r] = NoSample \/ (RemoveMayFail /\ sample'[r] = sample[r])
           /\ phase'[r] = "done" /\ meta'[r] = NoMeta /\ meta[r] = NoMeta
           /\ ~RemoveMayFail => EndInv(r)'
<1>1. TypeOK /\ RequestInv(r) /\ SpoolInv(r)
  BY DEF IInv, SpoolsInv
<1>2. phase'[r] = "done" /\ status'[r] = code
  BY <1>1, AnswerType DEF Refuse
<1>3. meta' = meta /\ disk' = disk /\ form' = form /\ meta[r] = NoMeta
  BY <1>1 DEF Refuse, RequestInv, UploadInv, BeforeMetadata
<1>4. Others(r)
  BY <1>1, <1>3, AnswerType, RemoveSampleType DEF Refuse, Others
<1>5. sample'[r] = NoSample \/ (RemoveMayFail /\ sample'[r] = sample[r])
  <2>1. CASE form[r].temp
    BY <1>1, <2>1 DEF Refuse, RemoveSample, TypeOK
  <2>2. CASE ~form[r].temp
    <3>1. phase[r] \in {"idle", "parse"}
      BY <1>1, <2>2 DEF RequestInv, UploadInv
    <3> QED
      BY <1>1, <2>2, <3>1 DEF Refuse, SpoolInv
  <2> QED
    BY <2>1, <2>2
<1>6. meta'[r].at # "final" /\ code # "Created" /\ code # "none"
  BY <1>3 DEF NoMeta, Refusal
<1>7. SpoolInv(r)'
  BY <1>2, <1>6 DEF SpoolInv
<1>8. ~RemoveMayFail => EndInv(r)'
  BY <1>2, <1>3, <1>5 DEF EndInv
<1> QED
  BY <1>2, <1>3, <1>4, <1>5, <1>7, <1>8

\* An error return out of the copy.
LEMMA DropCopySpool ==
    ASSUME IInv, SpoolsInv, NEW r \in Request, NEW code \in Refusal,
           phase[r] = "copy", Answer(r, code), RemoveSample(r),
           UNCHANGED <<form, client, age, meta, disk, dirs>>
    PROVE  /\ Others(r) /\ SpoolInv(r)'
           /\ sample'[r] = NoSample \/ (RemoveMayFail /\ sample'[r] = sample[r])
           /\ phase'[r] = "done" /\ meta'[r] = NoMeta /\ meta[r] = NoMeta
           /\ ~RemoveMayFail => EndInv(r)'
<1>1. TypeOK /\ RequestInv(r)
  BY DEF IInv
<1>2. phase'[r] = "done" /\ status'[r] = code
  BY <1>1, AnswerType
<1>3. meta[r] = NoMeta
  BY <1>1 DEF RequestInv, UploadInv, BeforeMetadata
<1>4. Others(r)
  BY <1>1, AnswerType, RemoveSampleType DEF Others
<1>5. sample'[r] = NoSample \/ (RemoveMayFail /\ sample'[r] = sample[r])
  BY <1>1 DEF RemoveSample, TypeOK
<1>6. meta'[r].at # "final" /\ code # "Created" /\ code # "none"
  BY <1>3 DEF NoMeta, Refusal
<1>7. SpoolInv(r)'
  BY <1>2, <1>6 DEF SpoolInv
<1>8. ~RemoveMayFail => EndInv(r)'
  BY <1>2, <1>3, <1>5 DEF EndInv
<1> QED
  BY <1>2, <1>3, <1>4, <1>5, <1>7, <1>8

\* An error return of writeMetadataAtomic.
LEMMA RefuseMetadataSpool ==
    ASSUME IInv, SpoolsInv, NEW r \in Request,
           phase[r] \in {"describe", "seal", "publish"}, RefuseMetadata(r)
    PROVE  /\ Others(r) /\ SpoolInv(r)'
           /\ sample'[r] = NoSample \/ (RemoveMayFail /\ sample'[r] = sample[r])
           /\ phase'[r] = "done" /\ meta[r].at # "final" /\ meta'[r].at # "final"
           /\ ~RemoveMayFail => EndInv(r)'
<1>1. TypeOK /\ meta[r].at # "final"
  BY PlacedFacts DEF IInv
<1>2. phase'[r] = "done" /\ status'[r] = "Failed"
  BY <1>1, AnswerType DEF RefuseMetadata, Refusal
<1>3. Others(r)
  BY <1>1, AnswerType, RemoveSampleType, RemoveMetaType
     DEF RefuseMetadata, Others, Refusal
<1>4. sample'[r] = NoSample \/ (RemoveMayFail /\ sample'[r] = sample[r])
  BY <1>1 DEF RefuseMetadata, RemoveSample, TypeOK
<1>5. meta'[r] = NoMeta \/ (RemoveMayFail /\ meta'[r] = meta[r])
  BY <1>1 DEF RefuseMetadata, RemoveMeta, TypeOK
<1>6. meta'[r].at # "final"
  BY <1>1, <1>5 DEF NoMeta
<1>7. SpoolInv(r)'
  BY <1>2, <1>6 DEF SpoolInv
<1>8. ~RemoveMayFail => EndInv(r)'
  BY <1>2, <1>4, <1>5 DEF EndInv, Refusal
<1> QED
  BY <1>1, <1>2, <1>3, <1>4, <1>6, <1>7, <1>8

-------------------------------------------------------------------------------
(* What a step of one request is to the readers                              *)

AtWork == Phases \ {"idle", "done", "dead"}

\* The place of the sample and the publication stay as they are.
SamePlace(r) ==
    /\ sample'[r].at = sample[r].at
    /\ meta'[r].at = "final" <=> meta[r].at = "final"
    /\ dirs'.now = dirs.now

Quiet(r) ==
    /\ phase[r] \in AtWork /\ phase'[r] \in AtWork
    /\ SamePlace(r)

Arrives(r) ==
    /\ phase[r] = "idle" /\ phase'[r] \in AtWork \cup {"done"}
    /\ SamePlace(r)

Spools(r) ==
    /\ phase[r] \in AtWork /\ phase'[r] \in AtWork
    /\ sample[r].at = "none" /\ sample'[r].at = ".incoming"
    /\ meta[r].at # "final" /\ meta'[r].at # "final" /\ dirs'.now = dirs.now

MovesIn(r) ==
    /\ phase[r] \in AtWork /\ phase'[r] \in AtWork
    /\ sample[r].at = ".incoming"
    /\ \E p \in Platform : sample'[r].at = p /\ dirs'.now = dirs.now \cup {p}
    /\ meta[r].at # "final" /\ meta'[r].at # "final"

Publishes(r) ==
    /\ phase[r] \in AtWork /\ phase'[r] \in AtWork
    /\ sample[r].at \in Platform /\ sample'[r].at = sample[r].at
    /\ meta'[r].at = "final" /\ dirs'.now = dirs.now

Fails(r) ==
    /\ phase[r] \in AtWork /\ phase'[r] = "done"
    /\ sample'[r].at = "none" \/ (RemoveMayFail /\ sample'[r].at = sample[r].at)
    /\ meta[r].at # "final" /\ meta'[r].at # "final"
    /\ dirs'.now = dirs.now \/ \E p \in Platform : dirs'.now = dirs.now \cup {p}

Acknowledges(r) ==
    /\ phase[r] \in AtWork /\ phase'[r] = "done"
    /\ meta[r].at = "final" /\ SamePlace(r)

Effect(r) ==
    \/ Quiet(r) \/ Arrives(r) \/ Spools(r) \/ MovesIn(r) \/ Publishes(r)
    \/ Fails(r) \/ Acknowledges(r)

\* What the proofs need of a step of one request.
StepsWell(r) ==
    /\ Others(r) /\ SpoolInv(r)' /\ Effect(r)
    /\ ~RemoveMayFail => EndInv(r)'
    /\ meta[r].at = "final" => sample'[r] = sample[r] /\ meta'[r] = meta[r]

\* An error return while the body is read or the sample placed.
LEMMA RefuseSteps ==
    ASSUME IInv, SpoolsInv, NEW r \in Request, NEW code \in Refusal,
           phase[r] \in {"idle", "parse", "place"}, Refuse(r, code),
           dirs'.now = dirs.now \/ \E p \in Platform : dirs'.now = dirs.now \cup {p},
           phase[r] = "idle" => dirs'.now = dirs.now
    PROVE  StepsWell(r)
<1>1. /\ Others(r) /\ SpoolInv(r)'
      /\ sample'[r] = NoSample \/ (RemoveMayFail /\ sample'[r] = sample[r])
      /\ phase'[r] = "done" /\ meta'[r] = NoMeta /\ meta[r] = NoMeta
      /\ ~RemoveMayFail => EndInv(r)'
  BY RefuseSpool
<1>2. NoMeta.at = "none" /\ NoSample.at = "none"
  BY DEF NoMeta, NoSample
<1>3. CASE phase[r] = "idle"
  <2>1. sample[r] = NoSample
    BY <1>3 DEF SpoolsInv, SpoolInv
  <2> QED
    BY <1>1, <1>2, <1>3, <2>1 DEF StepsWell, Effect, Arrives, SamePlace
<1>4. CASE phase[r] # "idle"
  <2>1. Fails(r)
    BY <1>1, <1>2, <1>4 DEF Fails, AtWork, Phases
  <2> QED
    BY <1>1, <1>2, <2>1 DEF StepsWell, Effect
<1> QED
  BY <1>3, <1>4

\* An error return out of the copy.
LEMMA DropCopySteps ==
    ASSUME IInv, SpoolsInv, NEW r \in Request, CopyTooLarge(r) \/ CopyFails(r)
    PROVE  StepsWell(r)
<1>1. PICK code \in Refusal :
        /\ phase[r] = "copy" /\ Answer(r, code) /\ RemoveSample(r)
        /\ UNCHANGED <<form, client, age, meta, disk, dirs>>
  BY DEF CopyTooLarge, CopyFails, Refusal
<1>2. /\ Others(r) /\ SpoolInv(r)'
      /\ sample'[r] = NoSample \/ (RemoveMayFail /\ sample'[r] = sample[r])
      /\ phase'[r] = "done" /\ meta'[r] = NoMeta /\ meta[r] = NoMeta
      /\ ~RemoveMayFail => EndInv(r)'
  BY <1>1, DropCopySpool
<1>3. NoMeta.at = "none" /\ NoSample.at = "none"
  BY DEF NoMeta, NoSample
<1>4. Fails(r)
  BY <1>1, <1>2, <1>3 DEF Fails, AtWork, Phases
<1> QED
  BY <1>2, <1>3, <1>4 DEF StepsWell, Effect

\* An error return of writeMetadataAtomic.
LEMMA RefuseMetadataSteps ==
    ASSUME IInv, SpoolsInv, NEW r \in Request,
           phase[r] \in {"describe", "seal", "publish"}, RefuseMetadata(r)
    PROVE  StepsWell(r)
<1>1. /\ Others(r) /\ SpoolInv(r)'
      /\ sample'[r] = NoSample \/ (RemoveMayFail /\ sample'[r] = sample[r])
      /\ phase'[r] = "done" /\ meta[r].at # "final" /\ meta'[r].at # "final"
      /\ ~RemoveMayFail => EndInv(r)'
  BY RefuseMetadataSpool
<1>2. NoSample.at = "none" /\ UNCHANGED dirs
  BY DEF NoSample, RefuseMetadata
<1>3. Fails(r)
  BY <1>1, <1>2 DEF Fails, AtWork, Phases
<1> QED
  BY <1>1, <1>3 DEF StepsWell, Effect

\* A step between two moments of reading that touches no file.
LEMMA ParseSteps ==
    ASSUME IInv, SpoolsInv, NEW r \in Request,
           phase[r] \in {"idle", "parse"}, phase'[r] \in {"parse", "place"},
           phase'[r] = "parse" => form'[r].temp = form[r].temp,
           \A q \in Request \ {r} : phase'[q] = phase[q] /\ form'[q] = form[q],
           UNCHANGED <<sample, meta, disk, dirs, status>>
    PROVE  StepsWell(r)
<1>1. SpoolInv(r) /\ meta[r] = NoMeta /\ NoMeta.at = "none"
  BY DEF SpoolsInv, IInv, RequestInv, UploadInv, BeforeMetadata, NoMeta
<1>2. SpoolInv(r)'
  BY <1>1 DEF SpoolInv
<1>3. Others(r) /\ SamePlace(r) /\ EndInv(r)'
  BY DEF Others, SamePlace, EndInv
<1>4. Effect(r)
  BY <1>3 DEF Effect, Quiet, Arrives, AtWork, Phases
<1> QED
  BY <1>1, <1>2, <1>3, <1>4 DEF StepsWell

\* The steps that read the body.
LEMMA BodySteps ==
    ASSUME IInv, SpoolsInv, NEW r \in Request, BodyStep(r)
    PROVE  StepsWell(r)
<1>0. TypeOK /\ RequestInv(r) /\ SpoolInv(r) /\ form[r] \in Form /\ sample[r] \in SampleFile
  BY DEF IInv, SpoolsInv, TypeOK
<1>r. ASSUME NEW code \in Refusal, Refuse(r, code), UNCHANGED dirs,
             phase[r] \in {"idle", "parse"}
      PROVE  StepsWell(r)
  BY <1>r, RefuseSteps
<1>1. CASE Begin(r)
  <2>1. CASE /\ phase' = [phase EXCEPT ![r] = "parse"]
             /\ UNCHANGED <<form, client, age, storage, reply>>
    BY <1>0, <1>1, <2>1, ParseSteps DEF Begin, TypeOK, storage, reply
  <2> QED
    BY <1>1, <1>r, <2>1 DEF Begin, Refusal
<1>2. CASE PlatformPart(r)
  <2>1. ASSUME NEW p \in Platform,
               form' = [form EXCEPT ![r].platform = p, ![r].platformSeen = TRUE],
               UNCHANGED <<phase, client, age, storage, reply>>
        PROVE  StepsWell(r)
    <3>1. form'[r].temp = form[r].temp /\ \A q \in Request \ {r} : form'[q] = form[q]
      BY <1>0, <2>1 DEF TypeOK, Form
    <3> QED
      BY <1>2, <2>1, <3>1, ParseSteps DEF PlatformPart, Reading, storage, reply
  <2> QED
    BY <1>2, <1>r, <2>1 DEF PlatformPart, Reading, Refusal
<1>3. CASE ConsentPart(r)
  <2>1. form'[r].temp = form[r].temp /\ \A q \in Request \ {r} : form'[q] = form[q]
    BY <1>0, <1>3 DEF ConsentPart, TypeOK, Form
  <2> QED
    BY <1>3, <2>1, ParseSteps DEF ConsentPart, Reading, storage, reply
<1>4. CASE SamplePart(r)
  <2>1. ASSUME ~form[r].sampleSeen,
               form' = [form EXCEPT ![r].sampleSeen = TRUE],
               sample' = [sample EXCEPT ![r].at = ".incoming"],
               phase' = [phase EXCEPT ![r] = "copy"],
               phase[r] = "parse",
               UNCHANGED <<meta, disk, dirs, status>>
        PROVE  StepsWell(r)
    <3>1. ~form[r].temp /\ meta[r] = NoMeta
      BY <1>0, <2>1 DEF RequestInv, UploadInv, BeforeMetadata
    <3>2. sample[r].at = "none" /\ NoMeta.at = "none"
      BY <1>0, <2>1, <3>1 DEF SpoolInv, NoSample, NoMeta
    <3>3. /\ sample'[r].at = ".incoming" /\ phase'[r] = "copy"
          /\ meta'[r] = NoMeta /\ status'[r] = status[r]
      BY <1>0, <2>1, <3>1 DEF TypeOK, SampleFile
    <3>4. Others(r)
      BY <1>0, <2>1 DEF Others, TypeOK
    <3>5. SpoolInv(r)' /\ EndInv(r)'
      BY <1>0, <2>1, <3>3 DEF SpoolInv, EndInv
    <3>6. Spools(r)
      BY <2>1, <3>1, <3>2, <3>3 DEF Spools, AtWork, Phases
    <3> QED
      BY <3>1, <3>2, <3>4, <3>5, <3>6 DEF StepsWell, Effect
  <2> QED
    BY <1>4, <1>r, <2>1 DEF SamplePart, Reading, Refusal, reply
<1>5. CASE UnknownPart(r) \/ BodyFails(r)
  BY <1>5, <1>r DEF UnknownPart, BodyFails, Reading, Refusal
<1>6. CASE CopyEnds(r)
  <2>1. /\ phase[r] = "copy" /\ phase'[r] = "parse" /\ form'[r].temp
        /\ sample'[r].at = sample[r].at
        /\ UNCHANGED <<meta, disk, dirs, status>>
    BY <1>0, <1>6 DEF CopyEnds, TypeOK, Form, SampleFile, reply
  <2>2. Others(r)
    BY <1>0, <1>6 DEF CopyEnds, Others, TypeOK, reply
  <2>3. SpoolInv(r)' /\ EndInv(r)'
    BY <1>0, <2>1 DEF SpoolInv, EndInv
  <2>4. Quiet(r)
    BY <2>1 DEF Quiet, SamePlace, AtWork, Phases
  <2>5. meta[r].at # "final"
    BY <1>0, <2>1 DEF RequestInv, UploadInv, BeforeMetadata, NoMeta
  <2> QED
    BY <2>2, <2>3, <2>4, <2>5 DEF StepsWell, Effect
<1>7. CASE CopyTooLarge(r) \/ CopyFails(r)
  BY <1>7, DropCopySteps
<1>8. CASE EndOfBody(r)
  <2>1. CASE /\ form[r].consent /\ form[r].temp
             /\ phase' = [phase EXCEPT ![r] = "place"]
             /\ UNCHANGED <<form, client, age, storage, reply>>
    BY <1>0, <1>8, <2>1, ParseSteps DEF EndOfBody, Reading, TypeOK, storage, reply
  <2> QED
    BY <1>8, <1>r, <2>1 DEF EndOfBody, Reading, Refusal
<1> QED
  BY <1>1, <1>2, <1>3, <1>4, <1>5, <1>6, <1>7, <1>8 DEF BodyStep

\* The steps that store the pair.
LEMMA StoreSteps ==
    ASSUME IInv, SpoolsInv, NEW r \in Request, StoreStep(r)
    PROVE  StepsWell(r)
<1>0. /\ TypeOK /\ RequestInv(r) /\ SpoolInv(r) /\ dirs \in Dirs
      /\ form[r] \in Form /\ sample[r] \in SampleFile /\ meta[r] \in MetaFile
      /\ form[r].platform \in Platform /\ NoMeta.at = "none"
  BY DEF IInv, SpoolsInv, TypeOK, Form, NoMeta
<1>1. CASE PlaceSample(r)
  <2>1. CASE Refuse(r, "Failed")
    <3>1. dirs'.now = dirs.now \/ \E p \in Platform : dirs'.now = dirs.now \cup {p}
      BY <1>0, <1>1 DEF PlaceSample, Dirs
    <3> QED
      BY <1>1, <2>1, <3>1, RefuseSteps DEF PlaceSample, Refusal
  <2>2. CASE /\ dirs' = [dirs EXCEPT !.now = @ \cup {form[r].platform}]
             /\ sample' = [sample EXCEPT ![r].at = form[r].platform]
             /\ form' = [form EXCEPT ![r].temp = FALSE]
             /\ phase' = [phase EXCEPT ![r] = "describe"]
             /\ UNCHANGED <<client, age, meta, disk, reply>>
    <3>1. /\ phase[r] = "place" /\ phase'[r] = "describe"
          /\ sample'[r].at = form[r].platform
          /\ dirs'.now = dirs.now \cup {form[r].platform}
          /\ meta' = meta /\ disk' = disk /\ status' = status
      BY <1>0, <1>1, <2>2 DEF PlaceSample, TypeOK, SampleFile, Dirs, reply
    <3>2. meta[r] = NoMeta /\ sample[r].at = ".incoming"
      BY <1>0, <3>1 DEF RequestInv, UploadInv, BeforeMetadata
    <3>3. Others(r)
      BY <1>0, <2>2, <3>1 DEF Others, TypeOK
    <3>4. SpoolInv(r)' /\ EndInv(r)'
      BY <1>0, <3>1, <3>2 DEF SpoolInv, EndInv
    <3>5. MovesIn(r)
      BY <1>0, <3>1, <3>2 DEF MovesIn, AtWork, Phases
    <3> QED
      BY <1>0, <3>2, <3>3, <3>4, <3>5 DEF StepsWell, Effect
  <2> QED
    BY <1>1, <2>1, <2>2 DEF PlaceSample
<1>2. CASE RefuseMetadata(r) /\ phase[r] \in {"describe", "seal", "publish"}
  BY <1>2, RefuseMetadataSteps
<1>3. ASSUME phase[r] \in {"describe", "seal"},
             NEW n \in {"seal", "publish"}, phase' = [phase EXCEPT ![r] = n],
             meta'[r].at = "temp" \/ meta'[r].at = meta[r].at,
             \A q \in Request \ {r} : meta'[q] = meta[q],
             UNCHANGED <<form, sample, disk, dirs, status>>
      PROVE  StepsWell(r)
  <2>1. meta[r].at # "final" /\ phase'[r] = n
    BY <1>0, <1>3 DEF RequestInv, PlacedInv, TypeOK
  <2>2. Others(r) /\ SpoolInv(r)' /\ EndInv(r)'
    BY <1>0, <1>3, <2>1 DEF Others, SpoolInv, EndInv, TypeOK
  <2>3. Quiet(r)
    BY <1>3, <2>1 DEF Quiet, SamePlace, AtWork, Phases
  <2> QED
    BY <2>1, <2>2, <2>3 DEF StepsWell, Effect
<1>4. CASE CreateMetadata(r)
  <2>1. CASE /\ meta' = [meta EXCEPT ![r].at = "temp"]
             /\ phase' = [phase EXCEPT ![r] = "seal"]
             /\ UNCHANGED <<form, client, age, sample, disk, dirs, reply>>
    BY <1>0, <1>3, <1>4, <2>1 DEF CreateMetadata, TypeOK, MetaFile, reply
  <2> QED
    BY <1>2, <1>4, <2>1 DEF CreateMetadata
<1>5. CASE SealMetadata(r)
  <2>1. CASE /\ meta' = [meta EXCEPT
                        ![r].record = [platform |-> form[r].platform,
                                       digest |-> form[r].digest],
                        ![r].synced = TRUE]
             /\ phase' = [phase EXCEPT ![r] = "publish"]
             /\ UNCHANGED <<form, client, age, sample, disk, dirs, reply>>
    <3>1. meta'[r].at = meta[r].at /\ \A q \in Request \ {r} : meta'[q] = meta[q]
      BY <1>0, <2>1 DEF TypeOK, MetaFile
    <3> QED
      BY <1>3, <1>5, <2>1, <3>1 DEF SealMetadata, reply
  <2> QED
    BY <1>2, <1>5, <2>1 DEF SealMetadata
<1>6. CASE PublishMetadata(r)
  <2>1. CASE /\ meta' = [meta EXCEPT ![r].at = "final"]
             /\ phase' = [phase EXCEPT ![r] = "syncPlatform"]
             /\ UNCHANGED <<form, client, age, sample, disk, dirs, reply>>
    <3>1. /\ phase[r] = "publish" /\ phase'[r] = "syncPlatform"
          /\ meta'[r].at = "final" /\ meta[r].at # "final"
          /\ sample[r].at = form[r].platform
          /\ UNCHANGED <<sample, disk, dirs, status>>
      BY <1>0, <1>6, <2>1 DEF PublishMetadata, TypeOK, MetaFile, RequestInv, PlacedInv, reply
    <3>2. Others(r)
      BY <1>0, <2>1 DEF Others, TypeOK, reply
    <3>3. SpoolInv(r)' /\ EndInv(r)'
      BY <1>0, <3>1 DEF SpoolInv, EndInv
    <3>4. Publishes(r)
      BY <1>0, <3>1 DEF Publishes, AtWork, Phases
    <3> QED
      BY <3>1, <3>2, <3>3, <3>4 DEF StepsWell, Effect
  <2> QED
    BY <1>2, <1>6, <2>1 DEF PublishMetadata
<1>7. CASE SyncPlatformDir(r) \/ SyncRootDir(r)
  <2>1. /\ phase[r] \in {"syncPlatform", "syncRoot"}
        /\ phase'[r] \in {"syncRoot", "respond"}
        /\ \A q \in Request \ {r} : phase'[q] = phase[q]
        /\ dirs'.now = dirs.now /\ UNCHANGED <<form, sample, meta, status>>
        /\ \A q \in Request :
              disk'[q] \in {disk[q], [sample |-> sample[q].at, meta |-> meta[q].at]}
    BY <1>0, <1>7 DEF SyncPlatformDir, SyncRootDir, Synced, TypeOK, Dirs, files, reply
  <2>2. Others(r)
    BY <2>1 DEF Others
  <2>3. SpoolInv(r)' /\ EndInv(r)'
    BY <1>0, <2>1 DEF SpoolInv, EndInv
  <2>4. Quiet(r)
    BY <2>1 DEF Quiet, SamePlace, AtWork, Phases
  <2> QED
    BY <2>1, <2>2, <2>3, <2>4 DEF StepsWell, Effect
<1>8. CASE Respond(r)
  <2>1. /\ phase[r] = "respond" /\ phase'[r] = "done" /\ status'[r] = "Created"
        /\ \A q \in Request \ {r} : phase'[q] = phase[q] /\ status'[q] = status[q]
        /\ UNCHANGED <<form, sample, meta, disk, dirs>>
    BY <1>0, <1>8, AnswerType DEF Respond, storage
  <2>2. meta[r].at = "final"
    BY <1>0, <2>1 DEF RequestInv, PlacedInv, HasStored
  <2>3. Others(r) /\ SpoolInv(r)' /\ EndInv(r)'
    BY <2>1, <2>2 DEF Others, SpoolInv, EndInv
  <2>4. Acknowledges(r)
    BY <2>1, <2>2 DEF Acknowledges, SamePlace, AtWork, Phases
  <2> QED
    BY <2>1, <2>3, <2>4 DEF StepsWell, Effect
<1> QED
  BY <1>1, <1>4, <1>5, <1>6, <1>7, <1>8 DEF StoreStep

-------------------------------------------------------------------------------
(* The world around the handlers                                             *)

\* Where a crash leaves each request.
CutShort(q) ==
    /\ phase[q] \in AtWork => phase'[q] = "dead"
    /\ phase[q] \notin AtWork => phase'[q] = phase[q]

\* A process that dies leaves the files where they are.
LEMMA CrashSpool ==
    ASSUME IInv, NEW q \in Request, SpoolInv(q), Crash
    PROVE  CutShort(q) /\ SpoolInv(q)' /\ (EndInv(q) => EndInv(q)')
<1>1. CutShort(q) /\ UNCHANGED <<form, sample, meta, disk, status>>
  BY DEF CutShort, Crash, Live, AtWork, IInv, TypeOK, storage, reply
<1> QED
  BY <1>1 DEF CutShort, AtWork, Phases, SpoolInv, EndInv

\* A power loss gives back old names, but none of a request that did not begin, and
\* no published record that was not published.
LEMMA PowerLossSpool ==
    ASSUME IInv, NEW q \in Request, SpoolInv(q), PowerLoss
    PROVE  /\ CutShort(q) /\ SpoolInv(q)'
           /\ sample'[q].at = Survives(q).sample /\ meta'[q].at = Survives(q).meta
<1>1. /\ phase'[q] = IF q \in Live THEN "dead" ELSE phase[q]
      /\ status' = status
      /\ Survives(q).sample = "none" => sample'[q] = NoSample
  BY DEF PowerLoss, reply
<1>2. CutShort(q)
  BY <1>1 DEF CutShort, Live, AtWork, IInv, TypeOK
<1>3. sample'[q].at = Survives(q).sample
  <2>1. CASE Survives(q).sample = "none"
    BY <1>1, <2>1 DEF NoSample
  <2>2. CASE Survives(q).sample # "none"
    <3>1. \E b, s : sample'[q] = [at |-> Survives(q).sample, bytes |-> b, synced |-> s]
      BY <2>2 DEF PowerLoss
    <3> QED
      BY <3>1
  <2> QED
    BY <2>1, <2>2
<1>4. meta'[q].at = Survives(q).meta
  <2>1. CASE Survives(q).meta = "none"
    BY <2>1 DEF PowerLoss, NoMeta
  <2>2. CASE Survives(q).meta # "none"
    <3>1. \E b, s : meta'[q] = [at |-> Survives(q).meta, record |-> b, synced |-> s]
      BY <2>2 DEF PowerLoss
    <3> QED
      BY <3>1
  <2> QED
    BY <2>1, <2>2
<1>5. phase'[q] = "idle" => sample'[q] = NoSample /\ disk'[q].sample = "none"
  <2> SUFFICES ASSUME phase'[q] = "idle"
               PROVE  sample'[q] = NoSample /\ disk'[q].sample = "none"
    OBVIOUS
  <2>1. disk[q].sample = "none"
    BY <1>1 DEF SpoolInv
  <2>2. Survives(q).sample = "none" /\ disk'[q] = Survives(q)
    BY <2>1 DEF PowerLoss, Survives
  <2> QED
    BY <1>1, <2>2
<1>6. phase'[q] = "done" => phase[q] = "done"
  BY <1>1
<1>7. Survives(q).meta = "final" => meta[q].at = "final"
  BY DEF Survives, IInv, RequestInv, PublishedInv
<1>8. SpoolInv(q)'
  <2>1. phase'[q] \in {"idle", "done", "dead"} /\ (phase'[q] = "idle" => phase[q] = "idle")
    BY <1>2 DEF CutShort, AtWork, Phases, IInv, TypeOK
  <2>2. phase'[q] = "dead" => status[q] = "none"
    BY <1>1, <1>2 DEF CutShort, AtWork, Phases, SpoolInv
  <2> QED
    BY <1>1, <1>4, <1>5, <1>6, <1>7, <2>1, <2>2 DEF SpoolInv
<1> QED
  BY <1>2, <1>3, <1>4, <1>8

-------------------------------------------------------------------------------
(* What refused and dead requests leave                                      *)

\* Where the handler of each request stands with its files, at every step.
LEMMA NextSpools ==
    IInv /\ SpoolsInv /\ [Next]_vars =>
        /\ SpoolsInv'
        /\ ~RemoveMayFail /\ ~PowerLossPossible /\ EndsInv => EndsInv'
<1> SUFFICES ASSUME IInv, SpoolsInv, [Next]_vars, NEW q \in Request
             PROVE  /\ SpoolInv(q)'
                    /\ ~RemoveMayFail /\ ~PowerLossPossible /\ EndInv(q) => EndInv(q)'
  BY DEF SpoolsInv, EndsInv
<1>0. SpoolInv(q)
  BY DEF SpoolsInv
<1>1. ASSUME NEW r \in Request, BodyStep(r) \/ StoreStep(r)
      PROVE  SpoolInv(q)' /\ (~RemoveMayFail /\ EndInv(q) => EndInv(q)')
  <2>1. StepsWell(r)
    BY <1>1, BodySteps, StoreSteps
  <2>2. CASE q = r
    BY <2>1, <2>2 DEF StepsWell
  <2>3. CASE q # r
    BY <1>0, <2>1, <2>3, SpoolFrame DEF StepsWell, Others
  <2> QED
    BY <2>2, <2>3
<1>2. CASE (\E r \in Request : Age(r)) \/ UNCHANGED vars
  BY <1>0, <1>2, SpoolFrame DEF Age, vars, storage, reply
<1>3. CASE Crash
  BY <1>0, <1>3, CrashSpool
<1>4. CASE Writeback
  <2>1. PowerLossPossible /\ UNCHANGED <<phase, form, status, sample, meta>>
        /\ disk'[q] = [sample |-> sample[q].at, meta |-> meta[q].at]
    BY <1>4 DEF Writeback, handler, files, reply
  <2> QED
    BY <1>0, <2>1, SpoolFrame
<1>5. CASE PowerLoss
  BY <1>0, <1>5, PowerLossSpool DEF PowerLoss
<1> QED
  BY <1>1, <1>2, <1>3, <1>4, <1>5 DEF Next

\* No request has begun.
LEMMA InitSpools == Init => SpoolsInv /\ EndsInv
BY DEF Init, SpoolsInv, EndsInv, SpoolInv, EndInv, NoSample, NoMeta

\* The invariant on which the theorems below rest.
THEOREM Spooling == Spec => [](IInv /\ SpoolsInv)
<1>1. Init => IInv /\ SpoolsInv
  BY InitInv, InitSpools
<1>2. (IInv /\ SpoolsInv) /\ [Next]_vars => (IInv /\ SpoolsInv)'
  BY NextInv, NextSpools
<1> QED
  BY <1>1, <1>2, PTL DEF Spec

\* The same with how requests end, where nothing is lost and removals succeed.
LEMMA Ending ==
    ~RemoveMayFail /\ ~PowerLossPossible => (Spec => [](IInv /\ SpoolsInv /\ EndsInv))
<1> SUFFICES ASSUME ~RemoveMayFail, ~PowerLossPossible
             PROVE  Spec => [](IInv /\ SpoolsInv /\ EndsInv)
  OBVIOUS
<1>1. Init => IInv /\ SpoolsInv /\ EndsInv
  BY InitInv, InitSpools
<1>2. (IInv /\ SpoolsInv /\ EndsInv) /\ [Next]_vars => (IInv /\ SpoolsInv /\ EndsInv)'
  BY NextInv, NextSpools
<1> QED
  BY <1>1, <1>2, PTL DEF Spec

\* Whatever error return a request left by, and whatever the others were doing,
\* neither of its files stays behind (removals succeed, the power stays on).
THEOREM RefusedLeaveNothing ==
    ~RemoveMayFail /\ ~PowerLossPossible => (Spec => []RefusedLeavesNothing)
<1> SUFFICES ASSUME ~RemoveMayFail, ~PowerLossPossible
             PROVE  Spec => []RefusedLeavesNothing
  OBVIOUS
<1>1. SpoolsInv /\ EndsInv => RefusedLeavesNothing
  BY DEF SpoolsInv, EndsInv, SpoolInv, EndInv, RefusedLeavesNothing, Refusal
<1> QED
  BY <1>1, Ending, PTL

\* Files without a published record belong to a handler at work or to one that was
\* cut short (removals succeed, the power stays on).
THEOREM OrphansFromCrashes ==
    ~RemoveMayFail /\ ~PowerLossPossible => (Spec => []OrphansOnlyFromCrashes)
<1> SUFFICES ASSUME ~RemoveMayFail, ~PowerLossPossible
             PROVE  Spec => []OrphansOnlyFromCrashes
  OBVIOUS
<1>1. IInv /\ SpoolsInv /\ EndsInv => OrphansOnlyFromCrashes
  <2> SUFFICES ASSUME IInv, SpoolsInv, EndsInv, NEW r \in Request, r \notin Live,
                      phase[r] # "dead", meta[r].at # "final"
               PROVE  sample[r].at = "none" /\ meta[r].at = "none"
    BY DEF OrphansOnlyFromCrashes
  <2>1. NoSample.at = "none" /\ NoMeta.at = "none"
    BY DEF NoSample, NoMeta
  <2>2. phase[r] \in {"idle", "done"}
    BY DEF Live
  <2>3. CASE phase[r] = "idle"
    BY <2>1, <2>3 DEF SpoolsInv, SpoolInv, IInv, RequestInv, UploadInv, BeforeMetadata
  <2>4. CASE phase[r] = "done"
    BY <2>1, <2>4 DEF EndsInv, EndInv
  <2> QED
    BY <2>2, <2>3, <2>4
<1> QED
  BY <1>1, Ending, PTL

-------------------------------------------------------------------------------
(* What a step may never do                                                  *)

\* Without a power loss no step changes either file of a published pair, be it of
\* the request itself, of another one, a crash or a restart.
THEOREM PublishedStay == ~PowerLossPossible => (Spec => PublishedIsImmutable)
<1> SUFFICES ASSUME ~PowerLossPossible PROVE Spec => PublishedIsImmutable
  OBVIOUS
<1>1. IInv /\ SpoolsInv /\ [Next]_vars =>
        [\A r \in Request : meta[r].at = "final" =>
            sample'[r] = sample[r] /\ meta'[r] = meta[r]]_vars
  <2> SUFFICES ASSUME IInv, SpoolsInv, Next, NEW q \in Request, meta[q].at = "final"
               PROVE  sample'[q] = sample[q] /\ meta'[q] = meta[q]
    OBVIOUS
  <2>1. ASSUME NEW r \in Request, BodyStep(r) \/ StoreStep(r)
        PROVE  sample'[q] = sample[q] /\ meta'[q] = meta[q]
    <3>1. StepsWell(r)
      BY <2>1, BodySteps, StoreSteps
    <3> QED
      BY <3>1 DEF StepsWell, Others
  <2>2. CASE (\E r \in Request : Age(r)) \/ Crash \/ Writeback
    BY <2>2 DEF Age, Crash, Writeback, storage, files
  <2>3. ~PowerLoss
    BY DEF PowerLoss
  <2> QED
    BY <2>1, <2>2, <2>3 DEF Next
<1>2. Spec => [][\A r \in Request : meta[r].at = "final" =>
                    sample'[r] = sample[r] /\ meta'[r] = meta[r]]_vars
  BY <1>1, Spooling, PTL DEF Spec
<1> QED
  BY <1>2, PTL DEF PublishedIsImmutable

-------------------------------------------------------------------------------
(* The service implements Quarantine                                         *)

\* The directories on the disk are among those that exist.
DirsKept == dirs.disk \subseteq dirs.now

LEMMA NextDirs == IInv /\ SpoolsInv /\ DirsKept /\ [Next]_vars => DirsKept'
<1> SUFFICES ASSUME IInv, SpoolsInv, DirsKept, [Next]_vars PROVE DirsKept'
  OBVIOUS
<1>1. dirs \in Dirs
  BY DEF IInv, TypeOK
<1>2. ASSUME NEW r \in Request, BodyStep(r) PROVE UNCHANGED dirs
  BY <1>2 DEF BodyStep, Begin, PlatformPart, ConsentPart, SamplePart, UnknownPart,
              BodyFails, CopyEnds, CopyTooLarge, CopyFails, EndOfBody, storage
<1>3. ASSUME NEW r \in Request, PlaceSample(r) PROVE DirsKept'
  BY <1>1, <1>3 DEF PlaceSample, Dirs, DirsKept
<1>4. ASSUME NEW r \in Request,
             \/ CreateMetadata(r) \/ SealMetadata(r) \/ PublishMetadata(r)
             \/ SyncPlatformDir(r) \/ SyncRootDir(r) \/ Respond(r)
      PROVE  DirsKept'
  BY <1>1, <1>4 DEF CreateMetadata, SealMetadata, PublishMetadata, RefuseMetadata,
              SyncPlatformDir, SyncRootDir, Respond, storage, Dirs, DirsKept
<1>5. ASSUME NEW r \in Request, Age(r) PROVE UNCHANGED dirs
  BY <1>5 DEF Age, storage
<1>6. CASE Crash \/ Writeback \/ PowerLoss \/ UNCHANGED vars
  BY <1>1, <1>6 DEF Crash, Writeback, PowerLoss, vars, storage, Dirs, DirsKept
<1> QED
  BY <1>2, <1>3, <1>4, <1>5, <1>6 DEF Next, StoreStep, DirsKept

LifeAt(q) ==
    IF phase[q] \in AtWork THEN "working" ELSE IF phase[q] = "idle" THEN "fresh" ELSE "over"

\* The mapping, by the phase of a request instead of the set of those at work.
LEMMA LifeByPhase ==
    /\ TypeOK => Life = [q \in Request |-> LifeAt(q)]
    /\ TypeOK' => Life' = [q \in Request |-> LifeAt(q)']
BY DEF TypeOK, Life, LifeAt, Live, AtWork

\* A step of one request is a step of Quarantine, or changes nothing of it.
LEMMA StepOfQuarantine ==
    ASSUME IInv, IInv', NEW r \in Request, StepsWell(r)
    PROVE  [Files!Next]_(Files!vars)
<1> DEFINE place     == [q \in Request |-> sample[q].at]
           published == {q \in Request : meta[q].at = "final"}
<1>0. Life = [q \in Request |-> LifeAt(q)] /\ Life' = [q \in Request |-> LifeAt(q)']
  BY LifeByPhase DEF IInv
<1>1. \A q \in Request \ {r} :
        LifeAt(q)' = LifeAt(q) /\ sample'[q].at = sample[q].at /\ meta'[q].at = meta[q].at
  BY DEF StepsWell, Others, LifeAt
<1>2. /\ Life' = [Life EXCEPT ![r] = LifeAt(r)']
      /\ place' = [place EXCEPT ![r] = sample'[r].at]
      /\ (meta'[r].at = "final" <=> meta[r].at = "final") => published' = published
      /\ meta'[r].at = "final" => published' = published \cup {r}
  BY <1>0, <1>1
<1>3. /\ Life[r] = LifeAt(r) /\ place[r] = sample[r].at
      /\ r \in published <=> meta[r].at = "final"
      /\ r \in Files!Working <=> LifeAt(r) = "working"
  BY <1>0 DEF Files!Working
<1>4. /\ phase[r] \in AtWork => LifeAt(r) = "working"
      /\ phase'[r] \in AtWork => LifeAt(r)' = "working"
      /\ phase[r] = "idle" => LifeAt(r) = "fresh"
      /\ phase'[r] = "done" => LifeAt(r)' = "over"
      /\ phase'[r] \in AtWork \cup {"done"} => LifeAt(r)' \in {"working", "over"}
  BY DEF LifeAt, AtWork
<1>5. /\ LifeAt(r)' = LifeAt(r) => Life' = Life
      /\ sample'[r].at = sample[r].at => place' = place
  BY <1>0, <1>1, <1>2
<1> HIDE DEF place, published
<1>6. CASE Quiet(r)
  <2>1. UNCHANGED <<Life, place, published, dirs.now>>
    BY <1>2, <1>4, <1>5, <1>6 DEF Quiet, SamePlace
  <2> QED
    BY <2>1 DEF Files!vars, place, published
<1>7. CASE Arrives(r)
  <2>1. Files!Arrive(r)
    BY <1>2, <1>3, <1>4, <1>5, <1>7 DEF Arrives, SamePlace, Files!Arrive, place, published
  <2> QED
    BY <2>1 DEF Files!Next, Files!Step
<1>8. CASE Spools(r)
  <2>1. /\ r \in Files!Working /\ place[r] = "none"
        /\ place' = [place EXCEPT ![r] = ".incoming"]
        /\ UNCHANGED <<Life, published, dirs.now>>
    BY <1>2, <1>3, <1>4, <1>5, <1>8 DEF Spools
  <2>2. Files!Spool(r)
    BY <2>1 DEF Files!Spool, place, published
  <2> QED
    BY <2>2 DEF Files!Next, Files!Step
<1>9. CASE MovesIn(r)
  <2>1. PICK p \in Platform : sample'[r].at = p /\ dirs'.now = dirs.now \cup {p}
    BY <1>9 DEF MovesIn
  <2>2. /\ r \in Files!Working /\ place[r] = ".incoming"
        /\ place' = [place EXCEPT ![r] = p] /\ dirs'.now = dirs.now \cup {p}
        /\ UNCHANGED <<Life, published>>
    BY <1>2, <1>3, <1>4, <1>5, <1>9, <2>1 DEF MovesIn
  <2>3. Files!MoveIn(r, p)
    BY <2>2 DEF Files!MoveIn, place, published
  <2> QED
    BY <2>3 DEF Files!Next, Files!Step
<1>10. CASE Publishes(r)
  <2>1. /\ r \in Files!Working /\ place[r] \in Platform
        /\ published' = published \cup {r}
        /\ UNCHANGED <<Life, place, dirs.now>>
    BY <1>2, <1>3, <1>4, <1>5, <1>10 DEF Publishes
  <2>2. Files!Publish(r)
    BY <2>1 DEF Files!Publish, place, published
  <2> QED
    BY <2>2 DEF Files!Next, Files!Step
<1>11. CASE Fails(r)
  <2>1. /\ r \in Files!Working \ published
        /\ Life' = [Life EXCEPT ![r] = "over"]
        /\ place' = [place EXCEPT ![r] = "none"] \/ (RemoveMayFail /\ place' = place)
        /\ dirs'.now = dirs.now \/ \E p \in Platform : dirs'.now = dirs.now \cup {p}
        /\ published' = published
    BY <1>2, <1>3, <1>4, <1>5, <1>11 DEF Fails
  <2>2. Files!Fail(r)
    BY <2>1 DEF Files!Fail, place, published
  <2> QED
    BY <2>2 DEF Files!Next, Files!Step
<1>12. CASE Acknowledges(r)
  <2>1. /\ r \in Files!Working \cap published
        /\ Life' = [Life EXCEPT ![r] = "over"]
        /\ UNCHANGED <<place, published, dirs.now>>
    BY <1>2, <1>3, <1>4, <1>5, <1>12 DEF Acknowledges, SamePlace
  <2>2. Files!Acknowledge(r)
    BY <2>1 DEF Files!Acknowledge, place, published
  <2> QED
    BY <2>2 DEF Files!Next, Files!Step
<1> QED
  BY <1>6, <1>7, <1>8, <1>9, <1>10, <1>11, <1>12 DEF StepsWell, Effect

\* A crash cuts the handlers of Quarantine short as well.
LEMMA LifeCutShort ==
    ASSUME IInv, IInv', \A q \in Request : CutShort(q)
    PROVE  Files!CutShort
<1>1. Life = [q \in Request |-> LifeAt(q)] /\ Life' = [q \in Request |-> LifeAt(q)']
  BY LifeByPhase DEF IInv
<1>2. \A q \in Request :
        LifeAt(q)' = IF LifeAt(q) = "working" THEN "over" ELSE LifeAt(q)
  BY DEF CutShort, LifeAt, AtWork
<1> QED
  BY <1>1, <1>2 DEF Files!CutShort, Files!Working

\* A power loss takes names away, but no sample from under its record.
LEMMA PowerLossOfQuarantine ==
    ASSUME IInv, IInv', SpoolsInv, DirsKept, PowerLoss
    PROVE  Files!PowerLoss
<1>1. PowerLossPossible /\ Files!CutShort
  BY LifeCutShort, PowerLossSpool DEF SpoolsInv, PowerLoss
<1>2. dirs'.now = dirs.disk /\ dirs'.now \subseteq dirs.now
  BY DEF PowerLoss, IInv, TypeOK, Dirs, DirsKept
<1>3. \A q \in Request :
        sample'[q].at = Survives(q).sample /\ meta'[q].at = Survives(q).meta
  BY PowerLossSpool DEF SpoolsInv
<1>4. \A q \in Request : Survives(q).sample \in {"none", ".incoming"} \cup dirs'.now
  BY <1>2 DEF Survives, IInv, TypeOK, Places
<1>5. ASSUME NEW q \in Request, meta'[q].at = "final"
      PROVE  meta[q].at = "final" /\ sample'[q].at = sample[q].at
  BY <1>3, <1>5 DEF Survives, IInv, RequestInv, PublishedInv
<1>6. ASSUME NEW q \in Request, Life[q] = "fresh" PROVE sample'[q].at = "none"
  <2>1. phase[q] = "idle"
    BY <1>6, LifeByPhase DEF LifeAt, IInv
  <2>2. disk[q].sample = "none"
    BY <2>1 DEF SpoolsInv, SpoolInv
  <2> QED
    BY <1>3, <2>2 DEF Survives
<1> DEFINE place     == [q \in Request |-> sample[q].at]
           published == {q \in Request : meta[q].at = "final"}
<1>7. /\ place' \in [Request -> {"none", ".incoming"} \cup dirs'.now]
      /\ published' \in SUBSET published
      /\ \A q \in Request : Life[q] = "fresh" => place'[q] = "none"
      /\ \A q \in published' : place'[q] = place[q]
  BY <1>3, <1>4, <1>5, <1>6
<1> QED
  BY <1>1, <1>2, <1>7 DEF Files!PowerLoss

\* The initial states map to the initial state.
LEMMA InitOfQuarantine == Init => Files!Init
BY DEF Init, Files!Init, Life, Live, NoSample, NoMeta

\* Every step of the service is a step of Quarantine or leaves it as it is.
LEMMA NextOfQuarantine ==
    IInv /\ IInv' /\ SpoolsInv /\ DirsKept /\ [Next]_vars => [Files!Next]_(Files!vars)
<1> SUFFICES ASSUME IInv, IInv', SpoolsInv, DirsKept, [Next]_vars
             PROVE  [Files!Next]_(Files!vars)
  OBVIOUS
<1>1. ASSUME NEW r \in Request, BodyStep(r) \/ StoreStep(r)
      PROVE  [Files!Next]_(Files!vars)
  <2>1. StepsWell(r)
    BY <1>1, BodySteps, StoreSteps
  <2> QED
    BY <2>1, StepOfQuarantine
<1>2. CASE UNCHANGED vars \/ (\E r \in Request : Age(r)) \/ Writeback
  <2>1. UNCHANGED <<phase, sample, meta>> /\ dirs'.now = dirs.now
    BY <1>2 DEF vars, Age, Writeback, handler, storage, files, IInv, TypeOK, Dirs
  <2>2. UNCHANGED Life
    BY <2>1 DEF Life, Live
  <2> QED
    BY <2>1, <2>2 DEF Files!vars
<1>3. CASE Crash
  <2>1. Files!CutShort
    BY <1>3, CrashSpool, LifeCutShort DEF SpoolsInv
  <2>2. Files!Crash
    BY <1>3, <2>1 DEF Crash, storage, Files!Crash
  <2> QED
    BY <2>2 DEF Files!Next
<1>4. CASE PowerLoss
  BY <1>4, PowerLossOfQuarantine DEF Files!Next
<1> QED
  BY <1>1, <1>2, <1>3, <1>4 DEF Next

\* The service implements the view its readers have of it: every behaviour of the
\* handlers, with concurrent requests, crashes and power losses, is one of
\* Quarantine, of which the theorems of InventoryProofs speak.
THEOREM SubmissionImplementsQuarantine == Spec => ImplementsQuarantine
<1>1. Init => IInv /\ SpoolsInv /\ DirsKept
  <2>1. Init => DirsKept
    BY DEF Init, DirsKept
  <2> QED
    BY <2>1, InitInv, InitSpools
<1>2. (IInv /\ SpoolsInv /\ DirsKept) /\ [Next]_vars => (IInv /\ SpoolsInv /\ DirsKept)'
  BY NextInv, NextSpools, NextDirs
<1>3. (IInv /\ SpoolsInv /\ DirsKept) /\ IInv' /\ [Next]_vars => [Files!Next]_(Files!vars)
  BY NextOfQuarantine
<1>4. Spec => [](IInv /\ SpoolsInv /\ DirsKept)
  BY <1>1, <1>2, PTL DEF Spec
<1>5. Spec => Files!Spec
  BY <1>3, <1>4, InitOfQuarantine, PTL DEF Spec, Files!Spec
<1> QED
  BY <1>5, PTL DEF ImplementsQuarantine

-------------------------------------------------------------------------------
(* The service implements the ledger                                         *)

\* What is published of a request is an entry of the ledger, of its client's file.
EntryInv(r) ==
    meta[r].at = "final" =>
        [platform |-> sample[r].at, digest |-> sample[r].bytes]
            \in [platform: Platform, digest: {c \in File : c.len <= MaxUpload}]

LedgerInv == DurableInv /\ \A r \in Request : EntryInv(r)

\* Entries are told from their absence.
LEMMA EntryIsPresent ==
    ASSUME NEW e \in [platform: Platform, digest: {c \in File : c.len <= MaxUpload}]
    PROVE  e # Torn
<1>1. e \in Record
  BY SizeAssumption DEF Record, File, Content
<1> QED
  BY <1>1, TornAssumption

\* The entry and the outcome of one request; no arm of the mapping overlaps another, as
\* only a handler that is done has answered.
LEMMA LedgerAt ==
    ASSUME TypeOK, SpoolsInv, NEW q \in Request
    PROVE  /\ meta[q].at # "final" => StoredEntry[q] = Torn
           /\ meta[q].at = "final" =>
                StoredEntry[q] = [platform |-> sample[q].at, digest |-> sample[q].bytes]
           /\ status[q] = "Created" => Outcome[q] = "acknowledged"
           /\ status[q] \in Refusal => Outcome[q] = "refused"
           /\ status[q] = "none" /\ phase[q] = "dead" => Outcome[q] = "abandoned"
           /\ status[q] = "none" /\ phase[q] # "dead" => Outcome[q] = "open"
<1>1. status[q] # "none" => phase[q] # "dead"
  BY DEF SpoolsInv, SpoolInv
<1>2. CASE status[q] = "Created"
  BY <1>1, <1>2 DEF StoredEntry, Outcome, Refusal
<1>3. CASE status[q] \in Refusal
  BY <1>1, <1>3 DEF StoredEntry, Outcome, Refusal
<1>4. CASE status[q] = "none"
  BY <1>4 DEF StoredEntry, Outcome, Refusal
<1> QED
  BY <1>2, <1>3, <1>4 DEF TypeOK

\* The same after a step.
LEMMA LedgerAtNext ==
    ASSUME TypeOK', SpoolsInv', NEW q \in Request
    PROVE  /\ meta'[q].at # "final" => StoredEntry'[q] = Torn
           /\ meta'[q].at = "final" =>
                StoredEntry'[q] = [platform |-> sample'[q].at, digest |-> sample'[q].bytes]
           /\ status'[q] = "Created" => Outcome'[q] = "acknowledged"
           /\ status'[q] \in Refusal => Outcome'[q] = "refused"
           /\ status'[q] = "none" /\ phase'[q] = "dead" => Outcome'[q] = "abandoned"
           /\ status'[q] = "none" /\ phase'[q] # "dead" => Outcome'[q] = "open"
<1>1. status'[q] # "none" => phase'[q] # "dead"
  BY DEF SpoolsInv, SpoolInv
<1>2. CASE status'[q] = "Created"
  BY <1>1, <1>2 DEF StoredEntry, Outcome, Refusal
<1>3. CASE status'[q] \in Refusal
  BY <1>1, <1>3 DEF StoredEntry, Outcome, Refusal
<1>4. CASE status'[q] = "none"
  BY <1>4 DEF StoredEntry, Outcome, Refusal
<1> QED
  BY <1>2, <1>3, <1>4 DEF TypeOK

\* A request that the step does not touch keeps both.
LEMMA LedgerFrame ==
    ASSUME NEW q \in Request,
           phase'[q] = phase[q], status'[q] = status[q],
           sample'[q] = sample[q], meta'[q] = meta[q]
    PROVE  StoredEntry'[q] = StoredEntry[q] /\ Outcome'[q] = Outcome[q]
BY DEF StoredEntry, Outcome

\* An answer is a receipt exactly if the pair is published.
LEMMA AnswerOfDone ==
    ASSUME IInv', SpoolsInv', DurableInv', NEW q \in Request, phase'[q] = "done"
    PROVE  /\ status'[q] = "Created" \/ status'[q] \in Refusal
           /\ status'[q] = "Created" <=> meta'[q].at = "final"
<1>1. TypeOK' /\ SpoolInv(q)' /\ RequestInv(q)' /\ RequestDurable(q)'
  BY DEF IInv, SpoolsInv, DurableInv
<1>2. status'[q] \in Refusal \cup {"Created"}
  BY <1>1 DEF TypeOK, SpoolInv
<1>3. status'[q] = "Created" => meta'[q].at = "final"
  BY <1>1 DEF RequestDurable, DurablePair, RequestInv, PublishedInv
<1> QED
  BY <1>1, <1>2, <1>3 DEF SpoolInv

\* Publication happens to a handler that still knows the file it copied.
LEMMA PublishedEntry ==
    ASSUME IInv, NEW r \in Request, BodyStep(r) \/ StoreStep(r),
           meta[r].at # "final", meta'[r].at = "final"
    PROVE  EntryInv(r)'
<1>1. TypeOK /\ RequestInv(r)
  BY DEF IInv
<1>2. PublishMetadata(r)
  <2>1. ~BodyStep(r)
    BY DEF BodyStep, Begin, PlatformPart, ConsentPart, SamplePart, UnknownPart, BodyFails,
           CopyEnds, CopyTooLarge, CopyFails, EndOfBody, Refuse, storage
  <2>2. ASSUME RefuseMetadata(r) PROVE FALSE
    <3>1. meta'[r] = NoMeta \/ meta'[r] = meta[r]
      BY <1>1, <2>2 DEF RefuseMetadata, RemoveMeta, TypeOK
    <3> QED
      BY <3>1 DEF NoMeta
  <2>3. ~PlaceSample(r) /\ ~SyncPlatformDir(r) /\ ~SyncRootDir(r) /\ ~Respond(r)
    BY DEF PlaceSample, SyncPlatformDir, SyncRootDir, Respond, Refuse, storage, files
  <2>4. ~CreateMetadata(r)
    BY <1>1, <2>2 DEF CreateMetadata, TypeOK, MetaFile
  <2>5. ~SealMetadata(r)
    BY <1>1, <2>2 DEF SealMetadata, TypeOK, MetaFile
  <2> QED
    BY <2>1, <2>3, <2>4, <2>5 DEF StoreStep
<1>3. phase[r] = "publish" /\ sample' = sample
  <2>1. ~RefuseMetadata(r)
    <3>1. RefuseMetadata(r) => meta'[r] = NoMeta \/ meta'[r] = meta[r]
      BY <1>1 DEF RefuseMetadata, RemoveMeta, TypeOK
    <3> QED
      BY <3>1 DEF NoMeta
  <2> QED
    BY <1>2, <2>1 DEF PublishMetadata
<1>4. /\ sample[r].at = form[r].platform /\ sample[r].bytes = client[r].file
      /\ client[r].file # Torn /\ client[r].file.len <= MaxUpload
  BY <1>1, <1>3 DEF RequestInv, PlacedInv
<1>5. form[r].platform \in Platform /\ client[r].file \in File
  BY <1>1, <1>4 DEF TypeOK, Form
<1> QED
  BY <1>3, <1>4, <1>5 DEF EntryInv

\* A power loss leaves of a published pair both files as they were, or not the record.
LEMMA PowerLossEntry ==
    ASSUME IInv, SpoolsInv, PowerLoss, NEW q \in Request, meta'[q].at = "final"
    PROVE  /\ meta[q].at = "final"
           /\ sample'[q].at = sample[q].at /\ sample'[q].bytes = sample[q].bytes
<1>1. TypeOK /\ RequestInv(q) /\ SpoolInv(q)
  BY DEF IInv, SpoolsInv
<1>2. sample'[q].at = Survives(q).sample /\ meta'[q].at = Survives(q).meta
  BY <1>1, PowerLossSpool
<1>3. disk[q].meta = "final" /\ Survives(q) = disk[q]
  BY <1>2 DEF Survives
<1>4. /\ meta[q].at = "final" /\ disk[q].sample = sample[q].at
      /\ sample[q].synced /\ sample[q].at = form[q].platform
  BY <1>1, <1>3 DEF RequestInv, PublishedInv, Whole
<1>5. Survives(q).sample # "none"
  BY <1>1, <1>3, <1>4, PlatformAssumption DEF TypeOK, Form
<1>6. sample'[q] = [at |-> Survives(q).sample, bytes |-> sample[q].bytes,
                    synced |-> sample[q].synced]
  BY <1>4, <1>5 DEF PowerLoss
<1> QED
  BY <1>2, <1>3, <1>4, <1>6

\* What is stored of each request stays an entry.
LEMMA NextEntry ==
    ASSUME IInv, SpoolsInv, [Next]_vars, NEW q \in Request, EntryInv(q)
    PROVE  EntryInv(q)'
<1>1. ASSUME meta[q].at = "final", sample'[q] = sample[q] PROVE EntryInv(q)'
  BY <1>1 DEF EntryInv
<1>2. ASSUME NEW r \in Request, BodyStep(r) \/ StoreStep(r) PROVE EntryInv(q)'
  <2>1. StepsWell(r)
    BY <1>2, BodySteps, StoreSteps
  <2>2. CASE q # r \/ meta[q].at = "final"
    <3>1. sample'[q] = sample[q] /\ meta'[q] = meta[q]
      BY <2>1, <2>2 DEF StepsWell, Others
    <3> QED
      BY <3>1 DEF EntryInv
  <2>3. CASE q = r /\ meta[q].at # "final"
    BY <1>2, <2>3, PublishedEntry DEF EntryInv
  <2> QED
    BY <2>2, <2>3
<1>3. CASE UNCHANGED vars \/ (\E r \in Request : Age(r)) \/ Crash \/ Writeback
  <2>1. UNCHANGED <<sample, meta>>
    BY <1>3 DEF vars, Age, Crash, Writeback, storage, files
  <2> QED
    BY <2>1 DEF EntryInv
<1>4. CASE PowerLoss
  BY <1>4, PowerLossEntry DEF EntryInv
<1> QED
  BY <1>2, <1>3, <1>4 DEF Next

\* A step of one request is a step of the ledger, or changes nothing of it.
LEMMA StepOfLedger ==
    ASSUME IInv, IInv', SpoolsInv, SpoolsInv', LedgerInv, LedgerInv',
           NEW r \in Request, StepsWell(r)
    PROVE  [Ledger!Next]_(Ledger!vars)
<1>0. /\ TypeOK /\ TypeOK' /\ SpoolInv(r) /\ SpoolInv(r)'
      /\ EntryInv(r) /\ EntryInv(r)'
  BY DEF IInv, SpoolsInv, LedgerInv
<1>1. /\ StoredEntry' = [StoredEntry EXCEPT ![r] = StoredEntry'[r]]
      /\ Outcome' = [Outcome EXCEPT ![r] = Outcome'[r]]
      /\ StoredEntry = [StoredEntry EXCEPT ![r] = StoredEntry[r]]
      /\ Outcome = [Outcome EXCEPT ![r] = Outcome[r]]
  <2>1. \A q \in Request \ {r} :
           StoredEntry'[q] = StoredEntry[q] /\ Outcome'[q] = Outcome[q]
    BY LedgerFrame DEF StepsWell, Others
  <2>2. /\ StoredEntry = [q \in Request |-> StoredEntry[q]]
        /\ StoredEntry' = [q \in Request |-> StoredEntry'[q]]
    BY DEF StoredEntry
  <2>3. /\ Outcome = [q \in Request |-> Outcome[q]]
        /\ Outcome' = [q \in Request |-> Outcome'[q]]
    BY DEF Outcome
  <2> QED
    BY <2>1, <2>2, <2>3
<1>2. /\ StoredEntry'[r] = StoredEntry[r] => StoredEntry' = StoredEntry
      /\ Outcome'[r] = Outcome[r] => Outcome' = Outcome
  <2> QED
    BY <1>1
<1>3. /\ phase[r] \in AtWork \cup {"idle"} => Outcome[r] = "open"
      /\ phase'[r] \in AtWork => Outcome'[r] = "open"
  BY <1>0, LedgerAt, LedgerAtNext DEF SpoolInv, AtWork
<1>4. ASSUME phase'[r] = "done"
      PROVE  /\ meta'[r].at = "final" => Outcome'[r] = "acknowledged"
             /\ meta'[r].at # "final" => Outcome'[r] = "refused"
  <2>1. /\ status'[r] = "Created" \/ status'[r] \in Refusal
        /\ status'[r] = "Created" <=> meta'[r].at = "final"
    BY <1>4, AnswerOfDone DEF LedgerInv
  <2> QED
    BY <1>0, <2>1, LedgerAtNext
<1>5. /\ meta[r].at # "final" => StoredEntry[r] = Torn
      /\ meta'[r].at # "final" => StoredEntry'[r] = Torn
      /\ meta[r].at = "final" => StoredEntry[r] # Torn
      /\ meta[r].at = "final" /\ meta'[r].at = "final" => StoredEntry'[r] = StoredEntry[r]
  BY <1>0, LedgerAt, LedgerAtNext, EntryIsPresent DEF EntryInv, StepsWell
<1>6. ASSUME meta'[r].at = "final"
      PROVE  StoredEntry'[r] \in [platform: Platform, digest: {c \in File : c.len <= MaxUpload}]
  BY <1>0, <1>6, LedgerAtNext DEF EntryInv
<1>7. meta[r].at = "final" => meta'[r].at = "final"
  BY DEF StepsWell
<1>8. CASE /\ phase[r] \in AtWork \cup {"idle"} /\ phase'[r] \in AtWork
           /\ meta'[r].at = "final" <=> meta[r].at = "final"
  BY <1>2, <1>3, <1>5, <1>8 DEF Ledger!vars
<1>9. CASE /\ phase[r] \in AtWork /\ phase'[r] \in AtWork
           /\ meta[r].at # "final" /\ meta'[r].at = "final"
  <2>1. Ledger!Store(r, StoredEntry'[r])
    BY <1>1, <1>2, <1>3, <1>5, <1>9 DEF Ledger!Store
  <2> QED
    BY <1>6, <1>9, <2>1 DEF Ledger!Next
<1>10. CASE /\ phase[r] \in AtWork \cup {"idle"} /\ phase'[r] = "done"
            /\ meta[r].at # "final" /\ meta'[r].at # "final"
  <2>1. Ledger!Refuse(r)
    BY <1>1, <1>2, <1>3, <1>4, <1>5, <1>10 DEF Ledger!Refuse
  <2> QED
    BY <2>1 DEF Ledger!Next
<1>11. CASE phase[r] \in AtWork /\ phase'[r] = "done" /\ meta[r].at = "final"
  <2>1. Ledger!Acknowledge(r)
    BY <1>1, <1>2, <1>3, <1>4, <1>5, <1>7, <1>11 DEF Ledger!Acknowledge
  <2> QED
    BY <2>1 DEF Ledger!Next
<1>12. phase[r] = "idle" => meta[r].at # "final"
  BY <1>0 DEF IInv, RequestInv, UploadInv, BeforeMetadata, NoMeta
<1> QED
  BY <1>7, <1>8, <1>9, <1>10, <1>11, <1>12
     DEF StepsWell, Effect, Quiet, Arrives, Spools, MovesIn, Publishes, Fails, Acknowledges,
         SamePlace

\* A process that dies abandons what it had in hand; of the abandoned, these or
\* earlier ones, a power loss may take what was stored.
LEMMA DeathOfLedger ==
    ASSUME IInv, IInv', SpoolsInv, SpoolsInv', LedgerInv, LedgerInv',
           \A q \in Request : CutShort(q), status' = status,
           \A q \in Request : meta'[q].at = "final" =>
               /\ meta[q].at = "final"
               /\ sample'[q].at = sample[q].at /\ sample'[q].bytes = sample[q].bytes
    PROVE  Ledger!Fail
<1> DEFINE dropped == {q \in Request : phase[q] \in AtWork}
           lost    == {q \in Request : meta[q].at = "final" /\ meta'[q].at # "final"}
<1>0. TypeOK /\ TypeOK'
  BY DEF IInv
<1>1. ASSUME NEW q \in Request
      PROVE  /\ q \in dropped => Outcome[q] = "open"
             /\ Outcome'[q] = IF q \in dropped THEN "abandoned" ELSE Outcome[q]
  <2>1. SpoolInv(q) /\ CutShort(q) /\ phase[q] \in Phases
    BY <1>0 DEF SpoolsInv, TypeOK
  <2>2. CASE q \in dropped
    <3>1. status[q] = "none" /\ status'[q] = "none" /\ phase'[q] = "dead" /\ phase[q] # "dead"
      BY <2>1, <2>2 DEF SpoolInv, CutShort, AtWork
    <3> QED
      BY <1>0, <2>2, <3>1, LedgerAt, LedgerAtNext
  <2>3. CASE q \notin dropped
    BY <2>1, <2>3 DEF CutShort, Outcome
  <2> QED
    BY <2>2, <2>3
<1>2. ASSUME NEW q \in lost PROVE Outcome'[q] = "abandoned"
  <2>1. SpoolInv(q) /\ CutShort(q) /\ phase[q] \in Phases /\ RequestInv(q)
    BY <1>0 DEF SpoolsInv, TypeOK, IInv
  <2>2. phase[q] # "idle"
    BY <2>1 DEF RequestInv, PublishedInv, BeforeMetadata
  <2>3. phase'[q] # "done"
    <3>1. SUFFICES ASSUME phase'[q] = "done" PROVE FALSE
      OBVIOUS
    <3>2. phase[q] = "done"
      BY <2>1, <3>1 DEF CutShort
    <3>3. status[q] = "Created"
      BY <2>1, <3>2 DEF SpoolInv
    <3>4. meta'[q].at = "final"
      BY <3>1, <3>3, AnswerOfDone DEF LedgerInv
    <3> QED
      BY <3>4
  <2>4. phase'[q] = "dead"
    BY <2>1, <2>2, <2>3 DEF CutShort, AtWork
  <2>5. status'[q] = "none"
    BY <2>4 DEF SpoolsInv, SpoolInv
  <2> QED
    BY <1>0, <2>4, <2>5, LedgerAtNext
<1>3. ASSUME NEW q \in Request
      PROVE  StoredEntry'[q] = IF q \in lost THEN Torn ELSE StoredEntry[q]
  <2>1. CASE meta'[q].at = "final"
    <3>1. /\ meta[q].at = "final" /\ q \notin lost
          /\ sample'[q].at = sample[q].at /\ sample'[q].bytes = sample[q].bytes
      BY <2>1
    <3>2. StoredEntry[q] = [platform |-> sample[q].at, digest |-> sample[q].bytes]
      BY <1>0, <3>1, LedgerAt
    <3>3. StoredEntry'[q] = [platform |-> sample'[q].at, digest |-> sample'[q].bytes]
      BY <1>0, <2>1, LedgerAtNext
    <3> QED
      BY <3>1, <3>2, <3>3
  <2>2. CASE meta'[q].at # "final"
    BY <1>0, <2>2, LedgerAt, LedgerAtNext
  <2> QED
    BY <2>1, <2>2
<1>4. /\ StoredEntry' = [q \in Request |-> StoredEntry'[q]]
      /\ Outcome' = [q \in Request |-> Outcome'[q]]
  BY DEF StoredEntry, Outcome
<1>5. /\ Outcome' = [q \in Request |-> IF q \in dropped THEN "abandoned" ELSE Outcome[q]]
      /\ StoredEntry' = [q \in Request |-> IF q \in lost THEN Torn ELSE StoredEntry[q]]
  BY <1>1, <1>3, <1>4
<1>6. dropped \in SUBSET Request /\ lost \in SUBSET Request
  OBVIOUS
<1> HIDE DEF dropped, lost
<1> QED
  BY <1>1, <1>2, <1>5, <1>6 DEF Ledger!Fail

\* Nothing is stored and everything is open.
LEMMA InitOfLedger == Init => Ledger!Init
BY DEF Init, Ledger!Init, StoredEntry, Outcome, NoMeta, Refusal

\* Every step of the service is a step of the ledger or leaves it as it is.
LEMMA NextOfLedger ==
    /\ IInv /\ SpoolsInv /\ LedgerInv
    /\ IInv' /\ SpoolsInv' /\ LedgerInv'
    /\ [Next]_vars
    => [Ledger!Next]_(Ledger!vars)
<1> SUFFICES ASSUME IInv, SpoolsInv, LedgerInv, IInv', SpoolsInv', LedgerInv', [Next]_vars
             PROVE  [Ledger!Next]_(Ledger!vars)
  OBVIOUS
<1>1. ASSUME NEW r \in Request, BodyStep(r) \/ StoreStep(r)
      PROVE  [Ledger!Next]_(Ledger!vars)
  <2>1. StepsWell(r)
    BY <1>1, BodySteps, StoreSteps
  <2> QED
    BY <2>1, StepOfLedger
<1>2. CASE UNCHANGED vars \/ (\E r \in Request : Age(r)) \/ Writeback
  <2>1. UNCHANGED <<phase, sample, meta, status>>
    BY <1>2 DEF vars, Age, Writeback, handler, storage, files, reply
  <2> QED
    BY <2>1 DEF Ledger!vars, StoredEntry, Outcome
<1>3. CASE Crash
  <2>1. \A q \in Request : CutShort(q)
    BY <1>3, CrashSpool DEF SpoolsInv
  <2>2. UNCHANGED <<sample, meta, status>>
    BY <1>3 DEF Crash, storage, reply
  <2>3. Ledger!Fail
    BY <2>1, <2>2, DeathOfLedger
  <2> QED
    BY <2>3 DEF Ledger!Next
<1>4. CASE PowerLoss
  <2>1. \A q \in Request : CutShort(q)
    BY <1>4, PowerLossSpool DEF SpoolsInv
  <2>2. status' = status
    BY <1>4 DEF PowerLoss, reply
  <2>3. Ledger!Fail
    BY <1>4, <2>1, <2>2, PowerLossEntry, DeathOfLedger
  <2> QED
    BY <2>3 DEF Ledger!Next
<1> QED
  BY <1>1, <1>2, <1>3, <1>4 DEF Next

\* What the intake promises, it keeps.  Seen from outside, each submission is stored in
\* one step, as a whole or not at all, though it takes two files, two renames and two
\* syncs (main.go:356-384); it gets its receipt only once stored, and what has a receipt
\* is never lost or altered: not by another request, a crash or a power loss.  It takes
\* directory syncs that do not fail, as the code ignores it when they do.
THEOREM SubmissionImplementsLedger == ~DirSyncMayFail => (Spec => ImplementsLedger)
<1> SUFFICES ASSUME ~DirSyncMayFail PROVE Spec => ImplementsLedger
  OBVIOUS
<1> DEFINE Inv == IInv /\ SpoolsInv /\ LedgerInv
<1>1. Init => Inv
  <2>1. Init => LedgerInv
    BY DEF Init, LedgerInv, DurableInv, RequestDurable, HasStored, EntryInv, NoMeta
  <2> QED
    BY <2>1, InitInv, InitSpools
<1>2. Inv /\ [Next]_vars => Inv'
  <2> SUFFICES ASSUME Inv, [Next]_vars PROVE Inv'
    OBVIOUS
  <2>1. IInv' /\ SpoolsInv'
    BY NextInv, NextSpools
  <2>2. DurableInv'
    BY NextDurable DEF LedgerInv
  <2>3. \A q \in Request : EntryInv(q)'
    BY NextEntry DEF LedgerInv
  <2> QED
    BY <2>1, <2>2, <2>3 DEF LedgerInv
<1>3. Inv /\ Inv' /\ [Next]_vars => [Ledger!Next]_(Ledger!vars)
  BY NextOfLedger
<1> HIDE DEF Inv
<1>4. Spec => Ledger!Spec
  BY <1>1, <1>2, <1>3, InitOfLedger, PTL DEF Spec, Ledger!Spec
<1> QED
  BY <1>4, PTL DEF ImplementsLedger

\* So a receipt is for good: whatever step follows, a power loss included, the request
\* stays acknowledged and its entry says what it said.
THEOREM ReceiptsAreForGood ==
    ~DirSyncMayFail =>
        (Spec => [][\A r \in Request : Outcome[r] = "acknowledged" =>
                       /\ Outcome'[r] = "acknowledged"
                       /\ StoredEntry'[r] = StoredEntry[r]]_(Ledger!vars))
<1> SUFFICES ASSUME ~DirSyncMayFail
             PROVE  Spec => [][\A r \in Request : Outcome[r] = "acknowledged" =>
                                  /\ Outcome'[r] = "acknowledged"
                                  /\ StoredEntry'[r] = StoredEntry[r]]_(Ledger!vars)
  OBVIOUS
<1>1. Spec => Ledger!Spec
  BY SubmissionImplementsLedger, PTL DEF ImplementsLedger
<1>2. ASSUME Ledger!Next, NEW r \in Request, Outcome[r] = "acknowledged"
      PROVE  Outcome'[r] = "acknowledged" /\ StoredEntry'[r] = StoredEntry[r]
  <2>1. /\ StoredEntry = [q \in Request |-> StoredEntry[q]]
        /\ Outcome = [q \in Request |-> Outcome[q]]
    BY DEF StoredEntry, Outcome
  <2>2. CASE Ledger!Fail
    <3>1. PICK dropped, lost \in SUBSET Request :
            /\ \A q \in dropped : Outcome[q] = "open"
            /\ Outcome' = [q \in Request |-> IF q \in dropped THEN "abandoned" ELSE Outcome[q]]
            /\ \A q \in lost : Outcome'[q] = "abandoned"
            /\ StoredEntry' = [q \in Request |-> IF q \in lost THEN Torn ELSE StoredEntry[q]]
      BY <2>2 DEF Ledger!Fail
    <3>2. r \notin dropped
      BY <1>2, <3>1
    <3>3. Outcome'[r] = "acknowledged"
      BY <1>2, <3>1, <3>2
    <3>4. r \notin lost
      BY <3>1, <3>3
    <3> QED
      BY <3>1, <3>3, <3>4
  <2>3. ASSUME NEW q \in Request, NEW e, Ledger!Store(q, e)
        PROVE  Outcome'[r] = "acknowledged" /\ StoredEntry'[r] = StoredEntry[r]
    <3>1. q # r /\ Outcome' = Outcome /\ StoredEntry' = [StoredEntry EXCEPT ![q] = e]
      BY <1>2, <2>3 DEF Ledger!Store
    <3> QED
      BY <1>2, <2>1, <3>1
  <2>4. ASSUME NEW q \in Request, NEW o, Outcome[q] = "open",
               Outcome' = [Outcome EXCEPT ![q] = o], StoredEntry' = StoredEntry
        PROVE  Outcome'[r] = "acknowledged" /\ StoredEntry'[r] = StoredEntry[r]
    <3>1. q # r
      BY <1>2, <2>4
    <3> QED
      BY <1>2, <2>1, <2>4, <3>1
  <2> QED
    BY <1>2, <2>2, <2>3, <2>4 DEF Ledger!Next, Ledger!Acknowledge, Ledger!Refuse
<1>3. [Ledger!Next]_(Ledger!vars) =>
        [\A r \in Request : Outcome[r] = "acknowledged" =>
            /\ Outcome'[r] = "acknowledged"
            /\ StoredEntry'[r] = StoredEntry[r]]_(Ledger!vars)
  BY <1>2
<1> QED
  BY <1>1, <1>3, PTL DEF Ledger!Spec
===============================================================================
