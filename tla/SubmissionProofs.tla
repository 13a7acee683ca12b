--------------------------- MODULE SubmissionProofs ---------------------------
(***************************************************************************)
(* Proofs about Submission, for any set of requests, any platforms, any    *)
(* payloads and sizes, any deadlines and any of the three ways in which    *)
(* the environment may fail.                                               *)
(***************************************************************************)
EXTENDS Submission, TLAPS

\* A file that fits is copied from end to end: the limit of one byte more than
\* the maximum never cuts a file the handler then accepts (main.go:415, 419).
LEMMA FittingFileIsCopiedWhole ==
    ASSUME NEW f \in File, Limited(f).len <= MaxUpload
    PROVE  Limited(f) = f /\ f \in Content /\ f.len <= MaxUpload
<1>1. f.len \in Nat /\ MaxUpload \in Nat
  BY SizeAssumption DEF File
<1>2. f = [of |-> f.of, len |-> f.len]
  BY DEF File
<1>3. Limited(f) = [of |-> f.of, len |-> IF f.len > MaxUpload + 1 THEN MaxUpload + 1
                                          ELSE f.len]
  BY <1>2 DEF Limited, File
<1>4. ~(f.len > MaxUpload + 1)
  BY <1>1, <1>3
<1>5. Limited(f) = f
  BY <1>2, <1>3, <1>4
<1>6. f \in Content
  BY <1>1, SizeAssumption DEF File, Content
<1> QED
  BY <1>5, <1>6

\* What an invariant of one request speaks of.
Unmoved(q) ==
    /\ phase'[q] = phase[q] /\ form'[q] = form[q] /\ client'[q] = client[q]
    /\ sample'[q] = sample[q] /\ meta'[q] = meta[q]
    /\ disk'[q] = disk[q] /\ status'[q] = status[q]

\* The invariant of a request that a step leaves alone.
LEMMA Frame ==
    ASSUME NEW q \in Request, RequestInv(q), Unmoved(q)
    PROVE  RequestInv(q)'
BY DEF RequestInv, UploadInv, PlacedInv, PublishedInv, Unmoved, Whole

\* The service starts within the invariant.
LEMMA InitInv == Init => IInv
<1> SUFFICES ASSUME Init PROVE IInv
  OBVIOUS
<1>1. TypeOK
  BY PlatformAssumption, DeadlineAssumption
     DEF Init, TypeOK, NoSample, NoMeta, Places, Names, Phases, Form,
         SampleFile, MetaFile, Dirs
<1>2. \A r \in Request : RequestInv(r)
  BY DEF Init, RequestInv, UploadInv, PlacedInv, PublishedInv, NoSample, NoMeta,
         BeforeMetadata, HasStored, Unplaced
<1> QED
  BY <1>1, <1>2 DEF IInv

-------------------------------------------------------------------------------
(* Error returns                                                             *)

\* What an answer changes, and nothing else.
LEMMA AnswerType ==
    ASSUME TypeOK, NEW r \in Request, NEW code \in Refusal \cup {"Created"},
           Answer(r, code)
    PROVE  /\ phase' \in [Request -> Phases]
           /\ status' \in [Request -> Refusal \cup {"none", "Created"}]
           /\ answered' \in SUBSET Request
           /\ phase'[r] = "done" /\ status'[r] = code
           /\ \A q \in Request \ {r} : phase'[q] = phase[q] /\ status'[q] = status[q]
BY DEF TypeOK, Answer, Phases

\* What the removal of a sample changes, done or failed.
LEMMA RemoveSampleType ==
    ASSUME TypeOK, NEW r \in Request, RemoveSample(r)
    PROVE  /\ sample' \in [Request -> SampleFile]
           /\ \A q \in Request \ {r} : sample'[q] = sample[q]
<1>1. NoSample \in SampleFile
  BY DEF NoSample, SampleFile, Places
<1>2. sample \in [Request -> SampleFile]
  BY DEF TypeOK
<1> QED
  BY <1>1, <1>2 DEF RemoveSample

\* What the removal of a temporary record changes, done or failed.
LEMMA RemoveMetaType ==
    ASSUME TypeOK, NEW r \in Request, RemoveMeta(r)
    PROVE  /\ meta' \in [Request -> MetaFile]
           /\ meta'[r] \in {NoMeta, meta[r]}
           /\ \A q \in Request \ {r} : meta'[q] = meta[q]
<1>1. NoMeta \in MetaFile
  BY DEF NoMeta, MetaFile, Names
<1>2. meta \in [Request -> MetaFile]
  BY DEF TypeOK
<1> QED
  BY <1>1, <1>2 DEF RemoveMeta

\* An error return before anything was placed keeps the invariant.
LEMMA RefuseInv ==
    ASSUME IInv, NEW r \in Request, NEW code \in Refusal,
           phase[r] \in BeforeMetadata,
           Refuse(r, code),
           dirs' \in Dirs
    PROVE  IInv'
<1>1. TypeOK'
  BY AnswerType, RemoveSampleType DEF IInv, TypeOK, Refuse
<1>2. RequestInv(r)'
  <2>1. phase'[r] = "done" /\ status'[r] \in Refusal
    BY AnswerType DEF IInv, Refuse
  <2>2. meta'[r] = NoMeta /\ disk'[r].meta = "none"
    BY DEF IInv, RequestInv, UploadInv, Refuse
  <2> QED
    BY <2>1, <2>2 DEF RequestInv, UploadInv, PlacedInv, PublishedInv, NoMeta,
                      BeforeMetadata, HasStored, Refusal
<1>3. ASSUME NEW q \in Request, q # r PROVE RequestInv(q)'
  <2>1. Unmoved(q)
    BY <1>3, AnswerType, RemoveSampleType DEF IInv, Refuse, Unmoved
  <2> QED
    BY <2>1, Frame DEF IInv
<1> QED
  BY <1>1, <1>2, <1>3 DEF IInv

\* An error return of writeMetadataAtomic keeps it: nothing is published yet.
LEMMA RefuseMetadataInv ==
    ASSUME IInv, NEW r \in Request, phase[r] \in {"describe", "seal", "publish"},
           RefuseMetadata(r)
    PROVE  IInv'
<1>1. TypeOK'
  BY AnswerType, RemoveSampleType, RemoveMetaType
     DEF IInv, TypeOK, RefuseMetadata, Refusal
<1>2. RequestInv(r)'
  <2>1. phase'[r] = "done" /\ status'[r] = "Failed"
    BY AnswerType DEF IInv, RefuseMetadata, Refusal
  <2>2. meta'[r].at # "final" /\ disk'[r].meta # "final"
    <3>1. meta'[r] \in {NoMeta, meta[r]} /\ disk' = disk
      BY RemoveMetaType DEF IInv, RefuseMetadata
    <3>2. meta[r].at # "final" /\ disk[r].meta # "final" /\ NoMeta.at # "final"
      BY DEF IInv, RequestInv, PlacedInv, NoMeta
    <3> QED
      BY <3>1, <3>2
  <2> QED
    BY <2>1, <2>2 DEF RequestInv, UploadInv, PlacedInv, PublishedInv,
                      BeforeMetadata, HasStored
<1>3. ASSUME NEW q \in Request, q # r PROVE RequestInv(q)'
  <2>1. Unmoved(q)
    BY <1>3, AnswerType, RemoveSampleType, RemoveMetaType
       DEF IInv, RefuseMetadata, Refusal, Unmoved
  <2> QED
    BY <2>1, Frame DEF IInv
<1> QED
  BY <1>1, <1>2, <1>3 DEF IInv

\* The two error returns out of the copy.
LEMMA DropCopyInv ==
    ASSUME IInv, NEW r \in Request, NEW code \in Refusal, phase[r] = "copy",
           Answer(r, code), RemoveSample(r),
           UNCHANGED <<form, client, age, meta, disk, dirs>>
    PROVE  IInv'
<1>1. TypeOK'
  BY AnswerType, RemoveSampleType DEF IInv, TypeOK
<1>2. RequestInv(r)'
  <2>1. phase'[r] = "done" /\ status'[r] \in Refusal
    BY AnswerType DEF IInv
  <2>2. meta'[r] = NoMeta /\ disk'[r].meta = "none"
    BY DEF IInv, RequestInv, UploadInv, BeforeMetadata
  <2> QED
    BY <2>1, <2>2 DEF RequestInv, UploadInv, PlacedInv, PublishedInv, NoMeta,
                      BeforeMetadata, HasStored, Refusal
<1>3. ASSUME NEW q \in Request, q # r PROVE RequestInv(q)'
  <2>1. Unmoved(q)
    BY <1>3, AnswerType, RemoveSampleType DEF IInv, Unmoved
  <2> QED
    BY <2>1, Frame DEF IInv
<1> QED
  BY <1>1, <1>2, <1>3 DEF IInv

-------------------------------------------------------------------------------
(* Reading the body                                                          *)

\* handleSubmission up to the multipart reader.
LEMMA BeginInv ==
    ASSUME IInv, NEW r \in Request, Begin(r)
    PROVE  IInv'
<1>1. CASE \E code \in {"BadRequest", "Failed"} : Refuse(r, code) /\ UNCHANGED dirs
  BY <1>1, RefuseInv DEF Begin, IInv, TypeOK, Refusal, BeforeMetadata
<1>2. CASE /\ phase' = [phase EXCEPT ![r] = "parse"]
           /\ UNCHANGED <<form, client, age, storage, reply>>
  <2>1. TypeOK'
    BY <1>2 DEF IInv, TypeOK, Phases, storage, reply
  <2>2. RequestInv(r)'
    BY <1>2 DEF Begin, IInv, TypeOK, storage, reply, RequestInv, UploadInv, PlacedInv,
                PublishedInv, BeforeMetadata, HasStored, Whole
  <2>3. ASSUME NEW q \in Request, q # r PROVE RequestInv(q)'
    BY <1>2, <2>3, Frame DEF IInv, TypeOK, storage, reply, Unmoved
  <2> QED
    BY <2>1, <2>2, <2>3 DEF IInv
<1> QED
  BY <1>1, <1>2 DEF Begin

\* A platform part: only the parser's locals change.
LEMMA PlatformPartInv ==
    ASSUME IInv, NEW r \in Request, PlatformPart(r)
    PROVE  IInv'
<1>1. CASE Refuse(r, "BadRequest") /\ UNCHANGED dirs
  BY <1>1, RefuseInv DEF PlatformPart, Reading, IInv, TypeOK, Refusal, BeforeMetadata
<1>2. ASSUME NEW p \in Platform,
             form' = [form EXCEPT ![r].platform = p, ![r].platformSeen = TRUE],
             UNCHANGED <<phase, client, age, storage, reply>>
      PROVE  IInv'
  <2>f. form[r] \in Form /\ form \in [Request -> Form]
    BY DEF IInv, TypeOK
  <2>g. /\ form'[r] = [form[r] EXCEPT !.platform = p, !.platformSeen = TRUE]
        /\ \A q \in Request \ {r} : form'[q] = form[q]
        /\ form' = [q \in Request |-> form'[q]]
    BY <1>2, <2>f
  <2>h. form'[r] \in Form
    BY <2>f, <2>g DEF Form
  <2>1. TypeOK'
    BY <1>2, <2>f, <2>g, <2>h DEF IInv, TypeOK, storage, reply
  <2>i. /\ form'[r].temp = form[r].temp /\ form'[r].consent = form[r].consent
        /\ form'[r].sampleSeen = form[r].sampleSeen /\ form'[r].digest = form[r].digest
    BY <2>f, <2>g DEF Form
  <2>j. phase[r] = "parse" /\ RequestInv(r)
    BY DEF PlatformPart, Reading, IInv
  <2>2. RequestInv(r)'
    BY <1>2, <2>i, <2>j
       DEF storage, reply, RequestInv, UploadInv, PlacedInv, PublishedInv,
           BeforeMetadata, HasStored, NoMeta
  <2>3. ASSUME NEW q \in Request, q # r PROVE RequestInv(q)'
    BY <1>2, <2>g, <2>3, Frame DEF IInv, storage, reply, Unmoved
  <2> QED
    BY <2>1, <2>2, <2>3 DEF IInv
<1> QED
  BY <1>1, <1>2 DEF PlatformPart

\* A consent part: nothing is published yet whose consent it could withdraw.
LEMMA ConsentPartInv ==
    ASSUME IInv, NEW r \in Request, ConsentPart(r)
    PROVE  IInv'
<1> PICK given \in BOOLEAN :
      /\ form' = [form EXCEPT ![r].consent = given]
      /\ client' = [client EXCEPT ![r].declined = @ \/ ~given]
  BY DEF ConsentPart
<1>1. /\ UNCHANGED <<phase, age, sample, meta, disk, dirs, status, answered>>
      /\ phase[r] = "parse" /\ RequestInv(r) /\ TypeOK
  BY DEF ConsentPart, Reading, IInv, storage, reply
<1>2. form' \in [Request -> Form]
  <2>1. form[r] \in Form /\ form \in [Request -> Form]
    BY <1>1 DEF TypeOK
  <2>2. [form[r] EXCEPT !.consent = given] \in Form
    BY <2>1 DEF Form
  <2> QED
    BY <2>1, <2>2
<1>3. TypeOK'
  BY <1>1, <1>2 DEF TypeOK
<1>4. /\ form'[r].temp = form[r].temp /\ form'[r].digest = form[r].digest
      /\ form'[r].sampleSeen = form[r].sampleSeen
      /\ client'[r].file = client[r].file
  BY <1>1 DEF TypeOK, Form
<1>5. RequestInv(r)'
  BY <1>1, <1>4 DEF RequestInv, UploadInv, PlacedInv, PublishedInv, BeforeMetadata,
                    HasStored, NoMeta
<1>6. ASSUME NEW q \in Request, q # r PROVE RequestInv(q)'
  BY <1>1, <1>6, Frame DEF IInv, TypeOK, Unmoved
<1> QED
  BY <1>3, <1>5, <1>6 DEF IInv

\* The sample part opens the incoming file.
LEMMA SamplePartInv ==
    ASSUME IInv, NEW r \in Request, SamplePart(r)
    PROVE  IInv'
<1>1. CASE Refuse(r, "BadRequest") /\ UNCHANGED dirs
  BY <1>1, RefuseInv DEF SamplePart, Reading, IInv, TypeOK, Refusal, BeforeMetadata
<1>2. CASE Refuse(r, "Failed") /\ UNCHANGED dirs
  BY <1>2, RefuseInv DEF SamplePart, Reading, IInv, TypeOK, Refusal, BeforeMetadata
<1>3. ASSUME ~form[r].sampleSeen,
             NEW f \in File, client' = [client EXCEPT ![r].file = f],
             form' = [form EXCEPT ![r].sampleSeen = TRUE],
             sample' = [sample EXCEPT ![r].at = ".incoming"],
             phase' = [phase EXCEPT ![r] = "copy"],
             UNCHANGED <<age, meta, disk, dirs, reply>>
      PROVE  IInv'
  <2>0. /\ form[r] \in Form /\ sample[r] \in SampleFile
        /\ form \in [Request -> Form] /\ sample \in [Request -> SampleFile]
    BY DEF IInv, TypeOK
  <2>a. [form[r] EXCEPT !.sampleSeen = TRUE] \in Form
    BY <2>0 DEF Form
  <2>b. [sample[r] EXCEPT !.at = ".incoming"] \in SampleFile
    BY <2>0 DEF SampleFile, Places
  <2>c. form' \in [Request -> Form] /\ sample' \in [Request -> SampleFile]
    BY <1>3, <2>0, <2>a, <2>b
  <2>1. TypeOK'
    BY <1>3, <2>c DEF IInv, TypeOK, Phases, reply
  <2>2. f # Torn
    BY <1>3, TornAssumption, SizeAssumption DEF File, Content
  <2>3. /\ phase'[r] = "copy" /\ client'[r].file = f
        /\ form'[r].sampleSeen /\ form'[r].temp = form[r].temp
        /\ sample'[r].at = ".incoming"
        /\ meta'[r] = meta[r] /\ disk'[r] = disk[r] /\ status'[r] = status[r]
    BY <1>3 DEF IInv, TypeOK, Form, SampleFile, reply
  <2>4. phase[r] = "parse" /\ RequestInv(r)
    BY DEF SamplePart, Reading, IInv
  <2>5. RequestInv(r)'
    BY <1>3, <2>2, <2>3, <2>4
       DEF RequestInv, UploadInv, PlacedInv, PublishedInv, BeforeMetadata, HasStored, NoMeta,
           Unplaced
  <2>6. ASSUME NEW q \in Request, q # r PROVE RequestInv(q)'
    BY <1>3, <2>6, Frame DEF IInv, TypeOK, reply, Unmoved
  <2> QED
    BY <2>1, <2>5, <2>6 DEF IInv
<1> QED
  BY <1>1, <1>2, <1>3 DEF SamplePart

\* The copy is complete, synced and whole.
LEMMA CopyEndsInv ==
    ASSUME IInv, NEW r \in Request, CopyEnds(r)
    PROVE  IInv'
<1> DEFINE got == Limited(client[r].file)
<1>1. phase[r] = "copy" /\ RequestInv(r) /\ TypeOK
  BY DEF CopyEnds, IInv
<1>2. client[r].file \in File
  BY <1>1 DEF TypeOK, RequestInv, UploadInv
<1>3. got.len <= MaxUpload
  BY DEF CopyEnds
<1>4. got = client[r].file /\ got \in Content
  BY <1>2, <1>3, FittingFileIsCopiedWhole
<1> HIDE DEF got
<1>5. /\ sample' = [sample EXCEPT ![r].bytes = got, ![r].synced = TRUE]
      /\ form' = [form EXCEPT ![r].temp = TRUE, ![r].digest = got]
      /\ phase' = [phase EXCEPT ![r] = "parse"]
      /\ UNCHANGED <<client, age, meta, disk, dirs, status, answered>>
  BY DEF CopyEnds, got, reply
<1>f. /\ form[r] \in Form /\ sample[r] \in SampleFile
      /\ form \in [Request -> Form] /\ sample \in [Request -> SampleFile]
  BY <1>1 DEF TypeOK
<1>g. [form[r] EXCEPT !.temp = TRUE, !.digest = got] \in Form
  BY <1>4, <1>f DEF Form
<1>h. [sample[r] EXCEPT !.bytes = got, !.synced = TRUE] \in SampleFile
  BY <1>4, <1>f DEF SampleFile
<1>i. form' \in [Request -> Form] /\ sample' \in [Request -> SampleFile]
  BY <1>5, <1>f, <1>g, <1>h
<1>6. TypeOK'
  BY <1>1, <1>5, <1>i DEF TypeOK, Phases
<1>7. /\ sample'[r].bytes = got /\ sample'[r].synced /\ sample'[r].at = sample[r].at
      /\ form'[r].temp /\ form'[r].digest = got /\ form'[r].sampleSeen = form[r].sampleSeen
      /\ phase'[r] = "parse"
  BY <1>1, <1>5 DEF TypeOK, Form, SampleFile
<1>j. /\ client'[r] = client[r] /\ meta'[r] = meta[r]
      /\ disk'[r] = disk[r] /\ status'[r] = status[r]
  BY <1>5
<1>k. /\ meta[r].at = "none" /\ meta[r] = NoMeta /\ disk[r].meta = "none"
      /\ sample[r].at = ".incoming" /\ disk[r].sample \in Unplaced
      /\ client[r].file # Torn /\ form[r].sampleSeen
  BY <1>1 DEF RequestInv, UploadInv, PlacedInv, BeforeMetadata, NoMeta
<1>8. RequestInv(r)'
  <2>1. UploadInv(r)'
    BY <1>3, <1>4, <1>7, <1>j, <1>k DEF UploadInv, BeforeMetadata, Unplaced
  <2>2. PlacedInv(r)' /\ PublishedInv(r)'
    BY <1>7, <1>j, <1>k DEF PlacedInv, PublishedInv, HasStored
  <2> QED
    BY <2>1, <2>2 DEF RequestInv
<1>9. ASSUME NEW q \in Request, q # r PROVE RequestInv(q)'
  BY <1>1, <1>5, <1>9, Frame DEF IInv, TypeOK, Unmoved
<1> QED
  BY <1>6, <1>8, <1>9 DEF IInv

\* The checks behind the last part.
LEMMA EndOfBodyInv ==
    ASSUME IInv, NEW r \in Request, EndOfBody(r)
    PROVE  IInv'
<1>1. CASE Refuse(r, "BadRequest") /\ UNCHANGED dirs
  BY <1>1, RefuseInv DEF EndOfBody, Reading, IInv, TypeOK, Refusal, BeforeMetadata
<1>2. CASE /\ form[r].consent /\ form[r].temp
           /\ phase' = [phase EXCEPT ![r] = "place"]
           /\ UNCHANGED <<form, client, age, storage, reply>>
  <2>1. TypeOK'
    BY <1>2 DEF IInv, TypeOK, Phases, storage, reply
  <2>2. RequestInv(r)'
    BY <1>2 DEF EndOfBody, Reading, IInv, TypeOK, storage, reply, RequestInv, UploadInv,
                PlacedInv, PublishedInv, BeforeMetadata, HasStored, Whole, NoMeta
  <2>3. ASSUME NEW q \in Request, q # r PROVE RequestInv(q)'
    BY <1>2, <2>3, Frame DEF IInv, TypeOK, storage, reply, Unmoved
  <2> QED
    BY <2>1, <2>2, <2>3 DEF IInv
<1> QED
  BY <1>1, <1>2 DEF EndOfBody

-------------------------------------------------------------------------------
(* Storing the pair                                                          *)

\* The rename out of .incoming carries the synced copy along.
LEMMA PlaceSampleInv ==
    ASSUME IInv, NEW r \in Request, PlaceSample(r)
    PROVE  IInv'
<1>1. /\ phase[r] = "place" /\ RequestInv(r) /\ TypeOK
      /\ form[r].platform \in Platform
  BY DEF PlaceSample, IInv, TypeOK, Form
<1>2. [dirs EXCEPT !.now = @ \cup {form[r].platform}] \in Dirs
  BY <1>1 DEF TypeOK, Dirs
<1>3. CASE /\ Refuse(r, "Failed")
           /\ \/ UNCHANGED dirs
              \/ dirs' = [dirs EXCEPT !.now = @ \cup {form[r].platform}]
  BY <1>1, <1>2, <1>3, RefuseInv DEF TypeOK, Refusal, BeforeMetadata
<1>4. CASE /\ dirs' = [dirs EXCEPT !.now = @ \cup {form[r].platform}]
           /\ sample' = [sample EXCEPT ![r].at = form[r].platform]
           /\ form' = [form EXCEPT ![r].temp = FALSE]
           /\ phase' = [phase EXCEPT ![r] = "describe"]
           /\ UNCHANGED <<client, age, meta, disk, reply>>
  <2>1. /\ form[r] \in Form /\ sample[r] \in SampleFile
        /\ form \in [Request -> Form] /\ sample \in [Request -> SampleFile]
    BY <1>1 DEF TypeOK
  <2>2. [form[r] EXCEPT !.temp = FALSE] \in Form
    BY <2>1 DEF Form
  <2>3. [sample[r] EXCEPT !.at = form[r].platform] \in SampleFile
    BY <1>1, <2>1 DEF SampleFile, Places
  <2>4. form' \in [Request -> Form] /\ sample' \in [Request -> SampleFile]
    BY <1>4, <2>1, <2>2, <2>3
  <2>5. TypeOK'
    BY <1>1, <1>2, <1>4, <2>4 DEF TypeOK, Phases, reply
  <2>6. /\ sample'[r].bytes = sample[r].bytes /\ sample'[r].synced = sample[r].synced
        /\ sample'[r].at = form[r].platform
        /\ form'[r].platform = form[r].platform /\ form'[r].digest = form[r].digest
        /\ form'[r].consent = form[r].consent /\ ~form'[r].temp
        /\ phase'[r] = "describe" /\ client'[r] = client[r] /\ meta'[r] = meta[r]
        /\ disk'[r] = disk[r] /\ status'[r] = status[r]
    BY <1>1, <1>4, <2>1 DEF TypeOK, Form, SampleFile, reply
  <2>7. /\ form[r].consent /\ sample[r].synced /\ sample[r].bytes = form[r].digest
        /\ form[r].digest = client[r].file
        /\ client[r].file # Torn /\ client[r].file.len <= MaxUpload
        /\ meta[r].at = "none" /\ disk[r].meta = "none"
    BY <1>1 DEF RequestInv, UploadInv, PlacedInv, BeforeMetadata, NoMeta
  <2>8. RequestInv(r)'
    BY <2>6, <2>7 DEF RequestInv, UploadInv, PlacedInv, PublishedInv, BeforeMetadata,
                      HasStored
  <2>9. ASSUME NEW q \in Request, q # r PROVE RequestInv(q)'
    BY <1>1, <1>4, <2>9, Frame DEF IInv, TypeOK, reply, Unmoved
  <2> QED
    BY <2>5, <2>8, <2>9 DEF IInv
<1> QED
  BY <1>3, <1>4 DEF PlaceSample

\* What the handler may rely on between the two renames.
LEMMA PlacedFacts ==
    ASSUME IInv, NEW r \in Request, phase[r] \in {"describe", "seal", "publish"}
    PROVE  /\ form[r] \in Form /\ meta[r] \in MetaFile /\ meta \in [Request -> MetaFile]
           /\ form[r].platform \in Platform /\ form[r].consent /\ ~form[r].temp
           /\ sample[r].at = form[r].platform /\ sample[r].synced
           /\ sample[r].bytes = form[r].digest /\ form[r].digest = client[r].file
           /\ client[r].file # Torn /\ client[r].file.len <= MaxUpload
           /\ form[r].digest \in Content
           /\ meta[r].at # "final" /\ disk[r].meta # "final"
<1>1. TypeOK /\ PlacedInv(r)
  BY DEF IInv, RequestInv
<1>2. form[r] \in Form /\ meta[r] \in MetaFile /\ client[r].file \in File \cup {Torn}
  BY <1>1 DEF TypeOK
<1>3. form[r].platform \in Platform /\ form[r].digest \in Content \cup {Torn}
  BY <1>2 DEF Form
<1> QED
  BY <1>1, <1>2, <1>3 DEF TypeOK, PlacedInv

\* The temporary record is no published one.
LEMMA CreateMetadataInv ==
    ASSUME IInv, NEW r \in Request, CreateMetadata(r)
    PROVE  IInv'
<1>1. CASE RefuseMetadata(r)
  BY <1>1, RefuseMetadataInv DEF CreateMetadata
<1>2. CASE /\ meta' = [meta EXCEPT ![r].at = "temp"]
           /\ phase' = [phase EXCEPT ![r] = "seal"]
           /\ UNCHANGED <<form, client, age, sample, disk, dirs, reply>>
  <2>1. phase[r] = "describe"
    BY DEF CreateMetadata
  <2>2. [meta[r] EXCEPT !.at = "temp"] \in MetaFile
    BY <2>1, PlacedFacts DEF MetaFile, Names
  <2>3. meta' \in [Request -> MetaFile]
    BY <1>2, <2>1, <2>2, PlacedFacts
  <2>4. TypeOK'
    BY <1>2, <2>3 DEF IInv, TypeOK, Phases, reply
  <2>5. meta'[r].at = "temp" /\ phase'[r] = "seal"
    BY <1>2, <2>1, PlacedFacts DEF IInv, TypeOK, MetaFile
  <2>6. RequestInv(r)'
    BY <1>2, <2>1, <2>5, PlacedFacts
       DEF reply, RequestInv, UploadInv, PlacedInv, PublishedInv, BeforeMetadata, HasStored
  <2>7. ASSUME NEW q \in Request, q # r PROVE RequestInv(q)'
    BY <1>2, <2>7, Frame DEF IInv, TypeOK, reply, Unmoved
  <2> QED
    BY <2>4, <2>6, <2>7 DEF IInv
<1> QED
  BY <1>1, <1>2 DEF CreateMetadata

\* The record is written and synced while its sample stays.
LEMMA SealMetadataInv ==
    ASSUME IInv, NEW r \in Request, SealMetadata(r)
    PROVE  IInv'
<1> DEFINE record == [platform |-> form[r].platform, digest |-> form[r].digest]
<1>1. CASE RefuseMetadata(r)
  BY <1>1, RefuseMetadataInv DEF SealMetadata
<1>2. CASE /\ meta' = [meta EXCEPT ![r].record = record, ![r].synced = TRUE]
           /\ phase' = [phase EXCEPT ![r] = "publish"]
           /\ UNCHANGED <<form, client, age, sample, disk, dirs, reply>>
  <2>1. phase[r] = "seal"
    BY DEF SealMetadata
  <2>2. record \in Record
    BY <2>1, PlacedFacts DEF Record
  <2>3. [meta[r] EXCEPT !.record = record, !.synced = TRUE] \in MetaFile
    BY <2>1, <2>2, PlacedFacts DEF MetaFile
  <2>4. meta' \in [Request -> MetaFile]
    BY <1>2, <2>1, <2>3, PlacedFacts
  <2>5. TypeOK'
    BY <1>2, <2>4 DEF IInv, TypeOK, Phases, reply
  <2>6. /\ meta'[r].at = meta[r].at /\ meta'[r].synced /\ meta'[r].record = record
        /\ phase'[r] = "publish"
    BY <1>2, <2>1, PlacedFacts DEF IInv, TypeOK, MetaFile
  <2>7. RequestInv(r)'
    BY <1>2, <2>1, <2>6, PlacedFacts
       DEF reply, RequestInv, UploadInv, PlacedInv, PublishedInv, BeforeMetadata, HasStored
  <2>8. ASSUME NEW q \in Request, q # r PROVE RequestInv(q)'
    BY <1>2, <2>8, Frame DEF IInv, TypeOK, reply, Unmoved
  <2> QED
    BY <2>5, <2>7, <2>8 DEF IInv
<1> QED
  BY <1>1, <1>2 DEF SealMetadata

\* The rename of the record publishes a whole pair.
LEMMA PublishMetadataInv ==
    ASSUME IInv, NEW r \in Request, PublishMetadata(r)
    PROVE  IInv'
<1>1. CASE RefuseMetadata(r)
  BY <1>1, RefuseMetadataInv DEF PublishMetadata
<1>2. CASE /\ meta' = [meta EXCEPT ![r].at = "final"]
           /\ phase' = [phase EXCEPT ![r] = "syncPlatform"]
           /\ UNCHANGED <<form, client, age, sample, disk, dirs, reply>>
  <2>1. phase[r] = "publish" /\ PlacedInv(r)
    BY DEF PublishMetadata, IInv, RequestInv
  <2>2. [meta[r] EXCEPT !.at = "final"] \in MetaFile
    BY <2>1, PlacedFacts DEF MetaFile, Names
  <2>3. meta' \in [Request -> MetaFile]
    BY <1>2, <2>1, <2>2, PlacedFacts
  <2>4. TypeOK'
    BY <1>2, <2>3 DEF IInv, TypeOK, Phases, reply
  <2>5. /\ meta'[r].at = "final" /\ meta'[r].synced = meta[r].synced
        /\ meta'[r].record = meta[r].record
        /\ phase'[r] = "syncPlatform"
    BY <1>2, <2>1, PlacedFacts DEF IInv, TypeOK, MetaFile
  <2>6. /\ meta[r].synced
        /\ meta[r].record = [platform |-> form[r].platform, digest |-> form[r].digest]
    BY <2>1 DEF PlacedInv
  <2>7. RequestInv(r)'
    BY <1>2, <2>1, <2>5, <2>6, PlacedFacts
       DEF reply, RequestInv, UploadInv, PlacedInv, PublishedInv, BeforeMetadata,
           HasStored, Whole
  <2>8. ASSUME NEW q \in Request, q # r PROVE RequestInv(q)'
    BY <1>2, <2>8, Frame DEF IInv, TypeOK, reply, Unmoved
  <2> QED
    BY <2>4, <2>7, <2>8 DEF IInv
<1> QED
  BY <1>1, <1>2 DEF PublishMetadata

\* Names reaching the disk, all of a request at once, disturb nothing.
LEMMA DiskFrame ==
    ASSUME NEW q \in Request, RequestInv(q),
           phase'[q] = phase[q], form'[q] = form[q], client'[q] = client[q],
           sample'[q] = sample[q], meta'[q] = meta[q], status'[q] = status[q],
           disk'[q] \in {disk[q], [sample |-> sample[q].at, meta |-> meta[q].at]}
    PROVE  RequestInv(q)'
BY DEF RequestInv, UploadInv, PlacedInv, PublishedInv, Whole, BeforeMetadata, NoMeta

\* After the publication the handler only moves on.
LEMMA PublishedFrame ==
    ASSUME NEW r \in Request, RequestInv(r), phase[r] \in HasStored,
           phase'[r] \in {"syncRoot", "respond", "done"},
           form'[r] = form[r], client'[r] = client[r],
           sample'[r] = sample[r], meta'[r] = meta[r],
           disk'[r] \in {disk[r], [sample |-> sample[r].at, meta |-> meta[r].at]}
    PROVE  RequestInv(r)'
BY DEF RequestInv, UploadInv, PlacedInv, PublishedInv, Whole, BeforeMetadata, HasStored

\* The sync of a platform directory, which takes other requests' names with it.
LEMMA SyncPlatformDirInv ==
    ASSUME IInv, NEW r \in Request, SyncPlatformDir(r)
    PROVE  IInv'
<1>1. /\ phase[r] = "syncPlatform" /\ phase' = [phase EXCEPT ![r] = "syncRoot"]
      /\ UNCHANGED <<form, client, age, sample, meta, dirs, status, answered>>
  BY DEF SyncPlatformDir, files, reply
<1>2. /\ disk' \in [Request -> [sample: Places, meta: Names]]
      /\ \A q \in Request :
            disk'[q] \in {disk[q], [sample |-> sample[q].at, meta |-> meta[q].at]}
  <2>1. \A q \in Request : [sample |-> sample[q].at, meta |-> meta[q].at]
                              \in [sample: Places, meta: Names]
    BY DEF IInv, TypeOK, SampleFile, MetaFile
  <2>2. CASE disk' = Synced(form[r].platform)
    BY <2>1, <2>2 DEF Synced, IInv, TypeOK
  <2>3. CASE UNCHANGED disk
    BY <2>3 DEF IInv, TypeOK
  <2> QED
    BY <2>2, <2>3 DEF SyncPlatformDir
<1>3. TypeOK'
  BY <1>1, <1>2 DEF IInv, TypeOK, Phases
<1>4. RequestInv(r)'
  BY <1>1, <1>2, PublishedFrame DEF IInv, TypeOK, HasStored
<1>5. ASSUME NEW q \in Request, q # r PROVE RequestInv(q)'
  BY <1>1, <1>2, <1>5, DiskFrame DEF IInv, TypeOK
<1> QED
  BY <1>3, <1>4, <1>5 DEF IInv

\* The sync of the root.
LEMMA SyncRootDirInv ==
    ASSUME IInv, NEW r \in Request, SyncRootDir(r)
    PROVE  IInv'
<1>1. /\ phase[r] = "syncRoot" /\ phase' = [phase EXCEPT ![r] = "respond"]
      /\ UNCHANGED <<form, client, age, sample, meta, disk, status, answered>>
  BY DEF SyncRootDir, files, reply
<1>2. dirs' \in Dirs
  BY DEF SyncRootDir, IInv, TypeOK, Dirs
<1>3. TypeOK'
  BY <1>1, <1>2 DEF IInv, TypeOK, Phases
<1>4. RequestInv(r)'
  BY <1>1, PublishedFrame DEF IInv, TypeOK, HasStored
<1>5. ASSUME NEW q \in Request, q # r PROVE RequestInv(q)'
  BY <1>1, <1>5, Frame DEF IInv, TypeOK, Unmoved
<1> QED
  BY <1>3, <1>4, <1>5 DEF IInv

\* The answer to a stored submission.
LEMMA RespondInv ==
    ASSUME IInv, NEW r \in Request, Respond(r)
    PROVE  IInv'
<1>1. /\ phase[r] = "respond" /\ Answer(r, "Created") /\ TypeOK
      /\ UNCHANGED <<form, client, age, sample, meta, disk, dirs>>
  BY DEF Respond, storage, IInv
<1>2. TypeOK'
  BY <1>1, AnswerType DEF TypeOK
<1>3. RequestInv(r)'
  BY <1>1, AnswerType, PublishedFrame DEF IInv, HasStored
<1>4. ASSUME NEW q \in Request, q # r PROVE RequestInv(q)'
  BY <1>1, <1>4, AnswerType, Frame DEF IInv, Unmoved
<1> QED
  BY <1>2, <1>3, <1>4 DEF IInv

-------------------------------------------------------------------------------
(* The world around the handlers                                             *)

\* Time passes.
LEMMA AgeInv ==
    ASSUME IInv, NEW r \in Request, Age(r)
    PROVE  IInv'
<1>1. UNCHANGED <<phase, form, client, sample, meta, disk, dirs, status, answered>>
  BY DEF Age, storage, reply
<1>2. age' \in [Request -> 0 .. ReadDeadline]
  <2>1. age[r] \in 0 .. ReadDeadline /\ age[r] < ReadDeadline
    BY DEF Age, IInv, TypeOK
  <2>2. age[r] + 1 \in 0 .. ReadDeadline
    BY <2>1, DeadlineAssumption
  <2> QED
    BY <2>2 DEF Age, IInv, TypeOK
<1>3. TypeOK'
  BY <1>1, <1>2 DEF IInv, TypeOK
<1>4. ASSUME NEW q \in Request PROVE RequestInv(q)'
  BY <1>1, Frame DEF IInv, Unmoved
<1> QED
  BY <1>3, <1>4 DEF IInv

\* The process dies.
LEMMA CrashInv ==
    ASSUME IInv, Crash
    PROVE  IInv'
<1>1. UNCHANGED <<form, client, age, sample, meta, disk, dirs, status, answered>>
  BY DEF Crash, storage, reply
<1>2. \A q \in Request : phase'[q] \in {phase[q], "dead"}
  BY DEF Crash
<1>3. TypeOK'
  BY <1>1 DEF Crash, IInv, TypeOK, Phases
<1>4. ASSUME NEW q \in Request PROVE RequestInv(q)'
  BY <1>1, <1>2 DEF IInv, RequestInv, UploadInv, PlacedInv, PublishedInv, Whole,
                    BeforeMetadata, HasStored
<1> QED
  BY <1>3, <1>4 DEF IInv

\* The journal is committed.
LEMMA WritebackInv ==
    ASSUME IInv, Writeback
    PROVE  IInv'
<1>1. UNCHANGED <<phase, form, client, age, sample, meta, status, answered>>
  BY DEF Writeback, handler, files, reply
<1>2. \A q \in Request : disk'[q] = [sample |-> sample[q].at, meta |-> meta[q].at]
  BY DEF Writeback
<1>3. disk' \in [Request -> [sample: Places, meta: Names]]
  BY DEF Writeback, IInv, TypeOK, SampleFile, MetaFile
<1>4. dirs' \in Dirs
  BY DEF Writeback, IInv, TypeOK, Dirs
<1>5. TypeOK'
  BY <1>1, <1>3, <1>4 DEF IInv, TypeOK
<1>6. ASSUME NEW q \in Request PROVE RequestInv(q)'
  BY <1>1, <1>2, DiskFrame DEF IInv
<1> QED
  BY <1>5, <1>6 DEF IInv

\* The power is lost: of each request both names, one or none come back.
LEMMA PowerLossInv ==
    ASSUME IInv, PowerLoss
    PROVE  IInv'
<1>1. UNCHANGED <<form, client, age, status, answered>>
  BY DEF PowerLoss, reply
<1>2. \A q \in Request :
        /\ phase'[q] = IF q \in Live THEN "dead" ELSE phase[q]
        /\ disk'[q] = Survives(q)
        /\ sample'[q] =
             IF Survives(q).sample = "none" THEN NoSample
             ELSE [at     |-> Survives(q).sample,
                   bytes  |-> IF sample[q].synced THEN sample[q].bytes ELSE Torn,
                   synced |-> sample[q].synced]
        /\ meta'[q] =
             IF Survives(q).meta = "none" THEN NoMeta
             ELSE [at     |-> Survives(q).meta,
                   record |-> IF meta[q].synced THEN meta[q].record ELSE Torn,
                   synced |-> meta[q].synced]
  BY DEF PowerLoss
<1>3. \A q \in Request : Survives(q) \in [sample: Places, meta: Names]
  BY DEF Survives, IInv, TypeOK, Places, Names
<1>a. ASSUME NEW q \in Request
      PROVE  sample'[q].at = Survives(q).sample /\ meta'[q].at = Survives(q).meta
  <2>1. NoSample.at = "none" /\ NoMeta.at = "none"
    BY DEF NoSample, NoMeta
  <2>2. sample'[q].at = Survives(q).sample
    <3>1. CASE Survives(q).sample = "none"
      BY <1>2, <2>1, <3>1
    <3>2. CASE Survives(q).sample # "none"
      <4>1. \E b, s : sample'[q] = [at |-> Survives(q).sample, bytes |-> b, synced |-> s]
        BY <1>2, <3>2
      <4> QED
        BY <4>1
    <3> QED
      BY <3>1, <3>2
  <2>3. meta'[q].at = Survives(q).meta
    <3>1. CASE Survives(q).meta = "none"
      BY <1>2, <2>1, <3>1
    <3>2. CASE Survives(q).meta # "none"
      <4>1. \E b, s : meta'[q] = [at |-> Survives(q).meta, record |-> b, synced |-> s]
        BY <1>2, <3>2
      <4> QED
        BY <4>1
    <3> QED
      BY <3>1, <3>2
  <2> QED
    BY <2>2, <2>3
<1>4. TypeOK'
  <2>1. \A q \in Request : sample[q] \in SampleFile /\ meta[q] \in MetaFile
    BY DEF IInv, TypeOK
  <2>2. ASSUME NEW q \in Request PROVE sample'[q] \in SampleFile
    <3>1. NoSample \in SampleFile
      BY DEF NoSample, SampleFile, Places
    <3>2. [at     |-> Survives(q).sample,
           bytes  |-> IF sample[q].synced THEN sample[q].bytes ELSE Torn,
           synced |-> sample[q].synced] \in SampleFile
      BY <1>3, <2>1 DEF SampleFile
    <3> QED
      BY <1>2, <3>1, <3>2
  <2>3. ASSUME NEW q \in Request PROVE meta'[q] \in MetaFile
    <3>1. NoMeta \in MetaFile
      BY DEF NoMeta, MetaFile, Names
    <3>2. [at     |-> Survives(q).meta,
           record |-> IF meta[q].synced THEN meta[q].record ELSE Torn,
           synced |-> meta[q].synced] \in MetaFile
      BY <1>3, <2>1 DEF MetaFile
    <3> QED
      BY <1>2, <3>1, <3>2
  <2>4. sample' \in [Request -> SampleFile] /\ meta' \in [Request -> MetaFile]
    <3>1. /\ sample' = [q \in Request |-> sample'[q]]
          /\ meta' = [q \in Request |-> meta'[q]]
      BY DEF PowerLoss
    <3> QED
      BY <2>2, <2>3, <3>1
  <2>5. disk' \in [Request -> [sample: Places, meta: Names]]
    BY <1>3 DEF PowerLoss
  <2>6. phase' \in [Request -> Phases]
    BY DEF PowerLoss, IInv, TypeOK, Phases
  <2>7. dirs' \in Dirs
    BY DEF PowerLoss, IInv, TypeOK, Dirs
  <2> QED
    BY <1>1, <2>4, <2>5, <2>6, <2>7 DEF IInv, TypeOK
<1>5. ASSUME NEW q \in Request PROVE RequestInv(q)'
  <2>1. RequestInv(q) /\ TypeOK
    BY DEF IInv
  <2>2. phase'[q] \in {"idle", "done", "dead"} /\ (phase'[q] = "idle" => phase[q] = "idle")
    BY <1>2, <2>1 DEF Live, TypeOK
  <2>3. UploadInv(q)'
    <3>1. CASE phase'[q] = "idle"
      <4>1. /\ Survives(q).meta = "none" /\ Survives(q).sample \in Unplaced
        <5>1. disk[q].meta = "none" /\ disk[q].sample \in Unplaced
          BY <2>1, <2>2, <3>1 DEF RequestInv, UploadInv, BeforeMetadata
        <5> QED
          BY <5>1, PlatformAssumption DEF Survives, Unplaced
      <4>2. meta'[q] = NoMeta /\ sample'[q].at \in Unplaced /\ disk'[q].sample \in Unplaced
            /\ disk'[q].meta = "none"
        BY <1>2, <1>a, <4>1
      <4> QED
        BY <1>1, <2>1, <2>2, <3>1, <4>2 DEF RequestInv, UploadInv
    <3>2. CASE phase'[q] # "idle"
      BY <2>2, <3>2 DEF UploadInv, BeforeMetadata
    <3> QED
      BY <3>1, <3>2
  <2>4. PlacedInv(q)'
    BY <2>2 DEF PlacedInv, HasStored
  <2>5. PublishedInv(q)'
    <3>1. CASE Survives(q).meta = "final"
      <4>1. /\ disk[q].meta = "final" /\ Survives(q) = disk[q]
        BY <3>1 DEF Survives
      <4>2. /\ meta[q].at = "final" /\ disk[q].sample = sample[q].at
            /\ Whole(q) /\ form[q].consent /\ ~form[q].temp
            /\ phase[q] \notin BeforeMetadata
        BY <2>1, <4>1 DEF RequestInv, PublishedInv
      <4>3. sample[q].at # "none"
        BY <2>1, <4>2, PlatformAssumption DEF Whole, TypeOK, Form
      <4>4. /\ sample'[q].at = sample[q].at /\ sample'[q].bytes = sample[q].bytes
            /\ sample'[q].synced
            /\ meta'[q].at = "final" /\ meta'[q].record = meta[q].record /\ meta'[q].synced
            /\ disk'[q] = disk[q]
        <5>1. Survives(q).sample # "none" /\ Survives(q).meta # "none"
          BY <3>1, <4>1, <4>2, <4>3
        <5>2. /\ sample'[q] = [at     |-> Survives(q).sample,
                               bytes  |-> IF sample[q].synced THEN sample[q].bytes ELSE Torn,
                               synced |-> sample[q].synced]
              /\ meta'[q] = [at     |-> Survives(q).meta,
                             record |-> IF meta[q].synced THEN meta[q].record ELSE Torn,
                             synced |-> meta[q].synced]
          BY <1>2, <5>1
        <5>3. sample[q].synced /\ meta[q].synced /\ disk'[q] = Survives(q)
          BY <1>2, <4>2 DEF Whole
        <5> QED
          BY <3>1, <4>1, <4>2, <5>2, <5>3
      <4>5. phase'[q] \notin BeforeMetadata
        BY <1>2, <4>2 DEF BeforeMetadata
      <4>6. Whole(q)'
        BY <1>1, <4>2, <4>4 DEF Whole
      <4> QED
        BY <1>1, <4>1, <4>2, <4>4, <4>5, <4>6 DEF PublishedInv
    <3>2. CASE Survives(q).meta # "final"
      <4>1. meta'[q].at # "final" /\ disk'[q].meta # "final"
        BY <1>2, <1>a, <3>2
      <4> QED
        BY <4>1 DEF PublishedInv
    <3> QED
      BY <3>1, <3>2
  <2> QED
    BY <2>3, <2>4, <2>5 DEF RequestInv
<1> QED
  BY <1>4, <1>5 DEF IInv

-------------------------------------------------------------------------------
(* The theorems                                                              *)

\* The invariant is inductive.
LEMMA NextInv == IInv /\ [Next]_vars => IInv'
<1> SUFFICES ASSUME IInv, [Next]_vars PROVE IInv'
  OBVIOUS
<1>1. ASSUME NEW r \in Request, BodyStep(r) PROVE IInv'
  <2>1. CASE Begin(r)
    BY <2>1, BeginInv
  <2>2. CASE PlatformPart(r)
    BY <2>2, PlatformPartInv
  <2>3. CASE ConsentPart(r)
    BY <2>3, ConsentPartInv
  <2>4. CASE SamplePart(r)
    BY <2>4, SamplePartInv
  <2>5. CASE UnknownPart(r) \/ BodyFails(r)
    BY <2>5, RefuseInv
       DEF UnknownPart, BodyFails, Reading, IInv, TypeOK, Refusal, BeforeMetadata
  <2>6. CASE CopyEnds(r)
    BY <2>6, CopyEndsInv
  <2>7. CASE CopyTooLarge(r) \/ CopyFails(r)
    BY <2>7, DropCopyInv DEF CopyTooLarge, CopyFails, Refusal
  <2>8. CASE EndOfBody(r)
    BY <2>8, EndOfBodyInv
  <2> QED
    BY <1>1, <2>1, <2>2, <2>3, <2>4, <2>5, <2>6, <2>7, <2>8 DEF BodyStep
<1>2. ASSUME NEW r \in Request, StoreStep(r) PROVE IInv'
  BY <1>2, PlaceSampleInv, CreateMetadataInv, SealMetadataInv, PublishMetadataInv,
     SyncPlatformDirInv, SyncRootDirInv, RespondInv DEF StoreStep
<1>3. ASSUME NEW r \in Request, Age(r) PROVE IInv'
  BY <1>3, AgeInv
<1>4. CASE Crash \/ Writeback \/ PowerLoss
  BY <1>4, CrashInv, WritebackInv, PowerLossInv
<1>5. CASE UNCHANGED vars
  <2>1. UNCHANGED <<phase, form, client, sample, meta, disk, dirs, age, status, answered>>
    BY <1>5 DEF vars
  <2>2. \A q \in Request : RequestInv(q)'
    BY <2>1, Frame DEF IInv, Unmoved
  <2> QED
    BY <2>1, <2>2 DEF IInv, TypeOK
<1> QED
  BY <1>1, <1>2, <1>3, <1>4, <1>5 DEF Next

\* The inductive invariant that the theorems about published pairs rest on.
THEOREM Invariance == Spec => []IInv
<1> QED
  BY InitInv, NextInv, PTL DEF Spec

\* Every variable keeps its type (the handler's locals, both files, their names on
\* the disk), in particular a digest is recorded only of a complete copy.
THEOREM TypeCorrect == Spec => []TypeOK
<1>1. IInv => TypeOK
  BY DEF IInv
<1> QED
  BY <1>1, Invariance, PTL

\* Wherever a record is published, its whole sample is beside it: with any number
\* of concurrent requests, crashes and power losses, failing syncs and removals.
THEOREM PublishedPairs == Spec => []PublishedPairIsWhole
<1>1. IInv => PublishedPairIsWhole
  BY DEF IInv, RequestInv, PublishedInv, PublishedPairIsWhole
<1> QED
  BY <1>1, Invariance, PTL

\* Nothing is published of a client whose last word on consent was not "true".
THEOREM PublishedConsent == Spec => []PublishedWithConsent
<1>1. IInv => PublishedWithConsent
  BY DEF IInv, RequestInv, PublishedInv, PublishedWithConsent
<1> QED
  BY <1>1, Invariance, PTL

-------------------------------------------------------------------------------
(* Durability of receipts                                                    *)

\* A step of one request leaves the locals of the others alone; the names of the
\* others on the disk may catch up with the running system; directories stay.
Elsewhere(r) ==
    /\ \A q \in Request \ {r} :
          /\ phase'[q] = phase[q] /\ form'[q] = form[q] /\ status'[q] = status[q]
          /\ disk'[q] \in {disk[q], [sample |-> sample[q].at, meta |-> meta[q].at]}
    /\ dirs.now \subseteq dirs'.now /\ dirs.disk \subseteq dirs'.disk

\* Durability of a request that a step leaves alone.
LEMMA DurableFrame ==
    ASSUME NEW q \in Request, RequestInv(q), RequestDurable(q),
           phase'[q] = phase[q], form'[q] = form[q], status'[q] = status[q],
           disk'[q] \in {disk[q], [sample |-> sample[q].at, meta |-> meta[q].at]},
           dirs.now \subseteq dirs'.now, dirs.disk \subseteq dirs'.disk
    PROVE  RequestDurable(q)'
<1>1. ASSUME DurablePair(q) PROVE DurablePair(q)'
  BY <1>1 DEF DurablePair, RequestInv, PublishedInv, Whole
<1> QED
  BY <1>1 DEF RequestDurable

\* Steps before the pair is placed say nothing about its durability.
LEMMA BodyDurable ==
    ASSUME TypeOK, DurableInv, NEW r \in Request, BodyStep(r)
    PROVE  Elsewhere(r) /\ RequestDurable(r)'
<1>1. ASSUME NEW code \in Refusal, Refuse(r, code), UNCHANGED dirs
      PROVE  Elsewhere(r) /\ RequestDurable(r)'
  BY <1>1, AnswerType DEF Refuse, Elsewhere, RequestDurable, Refusal, HasStored
<1>2. ASSUME NEW code \in Refusal, Answer(r, code),
             UNCHANGED <<form, client, age, meta, disk, dirs>>
      PROVE  Elsewhere(r) /\ RequestDurable(r)'
  BY <1>2, AnswerType DEF Elsewhere, RequestDurable, Refusal, HasStored
<1>3. ASSUME phase[r] \in {"idle", "parse", "copy"},
             UNCHANGED <<disk, dirs, status>>,
             \/ UNCHANGED phase
             \/ \E n \in {"parse", "copy", "place"} : phase' = [phase EXCEPT ![r] = n],
             \A q \in Request \ {r} : form'[q] = form[q]
      PROVE  Elsewhere(r) /\ RequestDurable(r)'
  <2>1. phase'[r] \in {"idle", "parse", "copy", "place"} /\ status'[r] = "none"
    BY <1>3 DEF TypeOK, DurableInv, RequestDurable
  <2>2. RequestDurable(r)'
    BY <2>1 DEF RequestDurable, HasStored
  <2>3. Elsewhere(r)
    BY <1>3 DEF Elsewhere, TypeOK
  <2> QED
    BY <2>2, <2>3
<1>4. CASE Begin(r)
  BY <1>1, <1>3, <1>4 DEF Begin, Refusal, storage, reply
<1>5. CASE PlatformPart(r)
  BY <1>1, <1>3, <1>5 DEF PlatformPart, Reading, Refusal, storage, reply, TypeOK
<1>6. CASE ConsentPart(r)
  BY <1>3, <1>6 DEF ConsentPart, Reading, storage, reply, TypeOK
<1>7. CASE SamplePart(r)
  BY <1>1, <1>3, <1>7 DEF SamplePart, Reading, Refusal, reply, TypeOK
<1>8. CASE UnknownPart(r) \/ BodyFails(r)
  BY <1>1, <1>8 DEF UnknownPart, BodyFails, Refusal
<1>9. CASE CopyEnds(r)
  BY <1>3, <1>9 DEF CopyEnds, reply, TypeOK
<1>10. CASE CopyTooLarge(r) \/ CopyFails(r)
  BY <1>2, <1>10 DEF CopyTooLarge, CopyFails, Refusal
<1>11. CASE EndOfBody(r)
  BY <1>1, <1>3, <1>11 DEF EndOfBody, Reading, Refusal, storage, reply
<1> QED
  BY <1>4, <1>5, <1>6, <1>7, <1>8, <1>9, <1>10, <1>11 DEF BodyStep

\* The steps of the commit order keep the durable part of the invariant.
LEMMA StoreDurable ==
    ASSUME IInv, DurableInv, ~DirSyncMayFail, NEW r \in Request, StoreStep(r)
    PROVE  Elsewhere(r) /\ RequestDurable(r)'
<1>0. TypeOK /\ RequestDurable(r) /\ RequestInv(r)
  BY DEF IInv, DurableInv
<1>1. ASSUME NEW code \in Refusal, Answer(r, code),
             UNCHANGED <<form, disk>>,
             dirs.now \subseteq dirs'.now, dirs.disk \subseteq dirs'.disk
      PROVE  Elsewhere(r) /\ RequestDurable(r)'
  BY <1>0, <1>1, AnswerType DEF Elsewhere, RequestDurable, Refusal, HasStored
<1>2. CASE PlaceSample(r)
  <2>1. dirs \in Dirs
    BY <1>0 DEF TypeOK
  <2>2. CASE Refuse(r, "Failed")
    <3>1. dirs.now \subseteq dirs'.now /\ dirs.disk \subseteq dirs'.disk
      BY <1>2, <2>1 DEF PlaceSample, Dirs
    <3> QED
      BY <1>1, <2>2, <3>1 DEF Refuse, Refusal
  <2>3. CASE /\ dirs' = [dirs EXCEPT !.now = @ \cup {form[r].platform}]
             /\ form' = [form EXCEPT ![r].temp = FALSE]
             /\ phase' = [phase EXCEPT ![r] = "describe"]
             /\ UNCHANGED <<disk, reply>>
    <3>1. /\ dirs'.now = dirs.now \cup {form[r].platform} /\ dirs'.disk = dirs.disk
          /\ phase'[r] = "describe" /\ form'[r].platform = form[r].platform
          /\ status'[r] = status[r]
      BY <1>0, <2>1, <2>3 DEF Dirs, TypeOK, Form, reply
    <3>2. status[r] = "none"
      BY <1>0, <1>2 DEF PlaceSample, RequestDurable
    <3>3. RequestDurable(r)'
      BY <3>1, <3>2 DEF RequestDurable, HasStored
    <3>4. Elsewhere(r)
      BY <1>0, <2>3, <3>1 DEF Elsewhere, TypeOK, reply
    <3> QED
      BY <3>3, <3>4
  <2> QED
    BY <1>2, <2>2, <2>3 DEF PlaceSample
<1>3. CASE CreateMetadata(r) \/ SealMetadata(r) \/ PublishMetadata(r)
  <2>1. CASE RefuseMetadata(r)
    BY <1>1, <2>1 DEF RefuseMetadata, Refusal
  <2>2. CASE /\ phase[r] \in {"describe", "seal", "publish"}
             /\ \E n \in {"seal", "publish", "syncPlatform"} :
                   phase' = [phase EXCEPT ![r] = n]
             /\ UNCHANGED <<form, disk, dirs, status>>
    <3>1. phase'[r] \in {"seal", "publish", "syncPlatform"} /\ status[r] = "none"
      BY <1>0, <2>2 DEF TypeOK, RequestDurable
    <3>2. RequestDurable(r)'
      BY <1>0, <2>2, <3>1 DEF RequestDurable, HasStored
    <3>3. Elsewhere(r)
      BY <1>0, <2>2 DEF Elsewhere, TypeOK
    <3> QED
      BY <3>2, <3>3
  <2> QED
    BY <1>3, <2>1, <2>2 DEF CreateMetadata, SealMetadata, PublishMetadata, reply
<1>4. CASE SyncPlatformDir(r)
  <2>1. /\ phase[r] = "syncPlatform" /\ phase' = [phase EXCEPT ![r] = "syncRoot"]
        /\ disk' = Synced(form[r].platform)
        /\ UNCHANGED <<form, sample, meta, dirs, status>>
    BY <1>4 DEF SyncPlatformDir, files, reply
  <2>2. meta[r].at = "final" /\ sample[r].at = form[r].platform
    BY <1>0, <2>1 DEF RequestInv, PlacedInv, PublishedInv, HasStored, Whole
  <2>3. disk'[r] = [sample |-> form[r].platform, meta |-> "final"]
    BY <2>1, <2>2 DEF Synced
  <2>4. RequestDurable(r)'
    BY <1>0, <2>1, <2>3 DEF TypeOK, RequestDurable, DurablePair, HasStored
  <2>5. Elsewhere(r)
    BY <1>0, <2>1 DEF Elsewhere, Synced, TypeOK
  <2> QED
    BY <2>4, <2>5
<1>5. CASE SyncRootDir(r)
  <2>1. /\ phase[r] = "syncRoot" /\ phase' = [phase EXCEPT ![r] = "respond"]
        /\ dirs' = [dirs EXCEPT !.disk = dirs.now]
        /\ UNCHANGED <<form, disk, status>>
    BY <1>5 DEF SyncRootDir, files, reply
  <2>2. dirs'.now = dirs.now /\ dirs'.disk = dirs.now /\ dirs.disk \subseteq dirs.now
    BY <1>0, <2>1 DEF TypeOK, Dirs, DurableInv
  <2>3. RequestDurable(r)'
    BY <1>0, <2>1, <2>2 DEF TypeOK, RequestDurable, DurablePair, HasStored
  <2>4. Elsewhere(r)
    BY <1>0, <2>1, <2>2 DEF Elsewhere, TypeOK
  <2> QED
    BY <2>3, <2>4
<1>6. CASE Respond(r)
  <2>1. /\ phase[r] = "respond" /\ Answer(r, "Created")
        /\ UNCHANGED <<form, disk, dirs>>
    BY <1>6 DEF Respond, storage
  <2> QED
    BY <1>0, <2>1, AnswerType DEF RequestDurable, DurablePair, HasStored, Elsewhere
<1> QED
  BY <1>2, <1>3, <1>4, <1>5, <1>6 DEF StoreStep

\* The directories on the disk are among those that exist.
LEMMA DirsInv == IInv /\ DurableInv /\ [Next]_vars => dirs'.disk \subseteq dirs'.now
<1> SUFFICES ASSUME IInv, DurableInv, [Next]_vars PROVE dirs'.disk \subseteq dirs'.now
  OBVIOUS
<1>1. dirs \in Dirs /\ dirs.disk \subseteq dirs.now
  BY DEF IInv, TypeOK, DurableInv
<1>2. \/ UNCHANGED dirs
      \/ \E p \in Platform : dirs' = [dirs EXCEPT !.now = @ \cup {p}]
      \/ dirs' = [dirs EXCEPT !.disk = dirs.now]
      \/ dirs' = [dirs EXCEPT !.now = dirs.disk]
  <2>1. ASSUME NEW r \in Request, BodyStep(r) PROVE UNCHANGED dirs
    BY <2>1 DEF BodyStep, Begin, PlatformPart, ConsentPart, SamplePart, UnknownPart,
                BodyFails, CopyEnds, CopyTooLarge, CopyFails, EndOfBody, storage
  <2>2. ASSUME NEW r \in Request, PlaceSample(r)
        PROVE  \/ UNCHANGED dirs
               \/ \E p \in Platform : dirs' = [dirs EXCEPT !.now = @ \cup {p}]
    <3>1. form[r].platform \in Platform
      BY DEF IInv, TypeOK, Form
    <3> QED
      BY <2>2, <3>1 DEF PlaceSample
  <2>3. ASSUME NEW r \in Request,
               \/ CreateMetadata(r) \/ SealMetadata(r) \/ PublishMetadata(r)
               \/ SyncPlatformDir(r) \/ SyncRootDir(r) \/ Respond(r)
        PROVE  UNCHANGED dirs \/ dirs' = [dirs EXCEPT !.disk = dirs.now]
    BY <2>3 DEF CreateMetadata, SealMetadata, PublishMetadata, RefuseMetadata,
                SyncPlatformDir, SyncRootDir, Respond, storage
  <2>4. ASSUME NEW r \in Request, Age(r) PROVE UNCHANGED dirs
    BY <2>4 DEF Age, storage
  <2>5. CASE Crash \/ Writeback \/ PowerLoss \/ UNCHANGED vars
    BY <2>5 DEF Crash, Writeback, PowerLoss, vars, storage
  <2> QED
    BY <2>1, <2>2, <2>3, <2>4, <2>5 DEF Next, StoreStep
<1> QED
  BY <1>1, <1>2 DEF Dirs

\* Without failing syncs, durability is inductive beside IInv.
LEMMA NextDurable ==
    ~DirSyncMayFail /\ IInv /\ DurableInv /\ [Next]_vars => DurableInv'
<1> SUFFICES ASSUME ~DirSyncMayFail, IInv, DurableInv, [Next]_vars,
                    NEW q \in Request
             PROVE  RequestDurable(q)'
  BY DirsInv DEF DurableInv
<1>0. TypeOK /\ RequestInv(q) /\ RequestDurable(q)
  BY DEF IInv, DurableInv
<1>1. ASSUME NEW r \in Request, BodyStep(r) \/ StoreStep(r) PROVE RequestDurable(q)'
  <2>1. Elsewhere(r) /\ RequestDurable(r)'
    BY <1>0, <1>1, BodyDurable, StoreDurable
  <2> QED
    BY <1>0, <2>1, DurableFrame DEF Elsewhere
<1>2. ASSUME NEW r \in Request, Age(r) PROVE RequestDurable(q)'
  BY <1>0, <1>2, DurableFrame DEF Age, storage, reply
<1>3. CASE Crash
  <2>1. phase'[q] \in {phase[q], "dead"} /\ (phase'[q] = "dead" => phase[q] # "done")
    BY <1>3 DEF Crash, Live
  <2>2. UNCHANGED <<form, disk, dirs, status>>
    BY <1>3 DEF Crash, storage, reply
  <2> QED
    BY <1>0, <2>1, <2>2 DEF RequestDurable, DurablePair, HasStored
<1>4. CASE Writeback
  <2>1. dirs'.now = dirs.now /\ dirs'.disk = dirs.now
    BY <1>0, <1>4 DEF Writeback, TypeOK, Dirs
  <2> QED
    BY <1>0, <1>4, <2>1, DurableFrame DEF Writeback, handler, reply, DurableInv
<1>5. CASE PowerLoss
  <2>1. /\ phase'[q] \in {"idle", "done", "dead"}
        /\ phase'[q] = "done" <=> phase[q] = "done"
        /\ UNCHANGED <<form, status>> /\ disk'[q] = Survives(q)
        /\ dirs'.disk = dirs.disk
    BY <1>0, <1>5 DEF PowerLoss, Live, TypeOK, Phases, reply, Dirs
  <2>2. ASSUME status[q] = "Created" PROVE DurablePair(q)' /\ form'[q].platform \in dirs'.disk
    BY <1>0, <2>1, <2>2 DEF RequestDurable, DurablePair, Survives
  <2>3. phase'[q] # "done" => status'[q] = "none"
    BY <1>0, <2>1 DEF RequestDurable
  <2> QED
    BY <2>1, <2>2, <2>3 DEF RequestDurable, HasStored
<1>6. CASE UNCHANGED vars
  BY <1>0, <1>6, DurableFrame DEF vars
<1> QED
  BY <1>1, <1>2, <1>3, <1>4, <1>5, <1>6 DEF Next

\* What a receipt says stays true: where the two directory syncs succeed, no crash
\* and no power loss after the 201 takes the pair away.
THEOREM DurableReceipts == ~DirSyncMayFail => (Spec => []ReceiptIsDurable)
<1> SUFFICES ASSUME ~DirSyncMayFail PROVE Spec => []ReceiptIsDurable
  OBVIOUS
<1>1. Init => DurableInv
  BY DEF Init, DurableInv, RequestDurable, HasStored
<1>2. IInv /\ DurableInv /\ [Next]_vars => DurableInv'
  BY NextDurable
<1>3. DurableInv => ReceiptIsDurable
  BY DEF DurableInv, RequestDurable, ReceiptIsDurable
<1> QED
  BY <1>1, <1>2, <1>3, Invariance, PTL DEF Spec
===============================================================================
