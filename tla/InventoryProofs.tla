---------------------------- MODULE InventoryProofs ----------------------------
(***************************************************************************)
(* Proofs about Inventory, for any set of requests, any platforms, failing *)
(* removals and power losses.                                              *)
(***************************************************************************)
EXTENDS Inventory, TLAPS

-------------------------------------------------------------------------------
(* The quarantine                                                            *)

\* A sample in a platform directory keeps that directory; a request nobody has
\* received has no file; a record has its sample beside it.
QuarantineInv ==
    /\ TypeOK
    /\ \A r \in Request :
          /\ place[r] \in {"none", ".incoming"} \cup spaces
          /\ life[r] = "fresh" => place[r] = "none"
          /\ r \in published => place[r] \in Platform

\* What a step of the intake leaves of what is settled.
Kept(r) ==
    /\ r \in published => r \in published' /\ place'[r] = place[r]
    /\ life[r] = "over" =>
          life'[r] = "over" /\ place'[r] = place[r] /\ (r \in published' => r \in published)
    /\ place[r] \in Platform =>
          place'[r] = place[r] \/ (place'[r] = "none" /\ life'[r] = "over")

\* The steps of one request.
LEMMA StepKeeps ==
    ASSUME QuarantineInv, NEW q \in Request, Step(q)
    PROVE  QuarantineInv' /\ \A r \in Request : Kept(r)
<1>0. TypeOK /\ Platform \cap {"none", ".incoming"} = {}
  BY PlacesAssumption DEF QuarantineInv
<1>1. CASE Arrive(q)
  BY <1>0, <1>1 DEF Arrive, QuarantineInv, TypeOK, Kept
<1>2. CASE Spool(q)
  BY <1>0, <1>2 DEF Spool, Working, QuarantineInv, TypeOK, Kept
<1>3. CASE Publish(q)
  BY <1>0, <1>3 DEF Publish, Working, QuarantineInv, TypeOK, Kept
<1>4. CASE Fail(q)
  BY <1>0, <1>4 DEF Fail, Working, QuarantineInv, TypeOK, Kept
<1>5. CASE Acknowledge(q)
  BY <1>0, <1>5 DEF Acknowledge, Working, QuarantineInv, TypeOK, Kept
<1>6. ASSUME NEW p \in Platform, MoveIn(q, p)
      PROVE  QuarantineInv' /\ \A r \in Request : Kept(r)
  BY <1>0, <1>6 DEF MoveIn, Working, QuarantineInv, TypeOK, Kept
<1> QED
  BY <1>1, <1>2, <1>3, <1>4, <1>5, <1>6 DEF Step

\* The death of the process.
LEMMA CrashKeeps ==
    ASSUME QuarantineInv, Crash
    PROVE  QuarantineInv' /\ \A r \in Request : Kept(r)
BY PlacesAssumption DEF Crash, CutShort, Working, QuarantineInv, TypeOK, Kept

\* The loss of the power.
LEMMA PowerLossKeeps ==
    ASSUME QuarantineInv, PowerLoss
    PROVE  QuarantineInv'
<1>1. /\ spaces' \subseteq spaces /\ published' \subseteq published
      /\ life' = [r \in Request |-> IF r \in Working THEN "over" ELSE life[r]]
      /\ place' \in [Request -> {"none", ".incoming"} \cup spaces']
      /\ \A r \in Request : life[r] = "fresh" => place'[r] = "none"
      /\ \A r \in published' : place'[r] = place[r]
  BY DEF PowerLoss, CutShort
<1>2. TypeOK'
  BY <1>1 DEF QuarantineInv, TypeOK
<1> QED
  BY <1>1, <1>2 DEF QuarantineInv, Working, TypeOK

-------------------------------------------------------------------------------
(* The reader                                                                *)

\* The walk: which fields go with which step.
WalkInv ==
    /\ InventoryTypeOK
    /\ scan.kind = "inventory" => scan.wanted = Request
    /\ scan.step \in {"names", "sample"} => scan.here \in Platform \ scan.places
    /\ scan.step = "sample" => scan.looks = {}
    /\ \A q, r \in scan.loaded : q = r
    /\ scan.step \in {"idle", "places"} => scan.looks = {} /\ scan.ids = {}
    /\ scan.step = "done" /\ scan.kind = "inventory" =>
          scan.places = {} /\ scan.looks = {} /\ scan.ids = {}
    /\ scan.step = "idle" =>
          /\ report = NoReport /\ start = [sound |-> {}, damaged |-> {}]
          /\ scan.kind = "list"
    /\ scan.kind = "list" => ~report.residue

\* The reader has still to come to request r, or is at it.
Ahead(r) ==
    \/ place[r] \in scan.places
    \/ place[r] = scan.here /\ r \in scan.looks \cup scan.ids \cup scan.loaded

\* What was listed in a directory stays there, or is gone for good.
ListedInv(r) ==
    /\ r \in scan.ids \cup scan.loaded \cup report.good \cup report.bad =>
          \/ /\ place[r] \in Platform \ scan.places
             /\ place[r] = scan.here => r \notin scan.looks
          \/ place[r] = "none" /\ life[r] = "over"
    /\ r \in scan.ids \cup scan.loaded => r \notin report.good \cup report.bad
    /\ r \in scan.ids => r \notin scan.loaded

\* What a reader holds, and what it said.
FoundInv(r) ==
    /\ r \in scan.loaded => r \in published /\ place[r] = scan.here
    /\ r \in scan.ids =>
          \/ r \in published /\ place[r] = scan.here
          \/ scan.kind = "inventory" /\ r \in stirred
    /\ r \in report.good => r \in published
    /\ r \in report.bad =>
          r \in report.unread \/ (scan.kind = "inventory" /\ r \in stirred)

\* What was sound is verified or ahead, or cannot be read.
SoundInv(r) ==
    scan.kind = "inventory" /\ r \in start.sound \ rotten =>
        r \in published /\ (r \in report.good \cup report.unread \/ Ahead(r))

\* What was damaged stays so, and is rejected, ahead, or in .incoming.
DamageInv(r) ==
    scan.kind = "inventory" /\ r \in start.damaged =>
        /\ r \notin report.good
        /\ \/ r \in published \cap rotten
           \/ life[r] = "over" /\ r \notin published /\ place[r] # "none"
        /\ \/ r \in report.bad
           \/ Ahead(r)
           \/ place[r] = ".incoming" /\ (scan.step = "done" => report.residue)

\* Whatever is unsettled has been noted.
CauseInv ==
    /\ scan.step # "idle" => Unsettled \subseteq stirred
    /\ report.residue => stirred # {}

RecordInv(r) == ListedInv(r) /\ FoundInv(r) /\ SoundInv(r) /\ DamageInv(r)

IInv ==
    /\ QuarantineInv /\ WalkInv /\ CauseInv
    /\ \A r \in Request : RecordInv(r)

\* The reader begins within the invariant.
LEMMA InitInv == InventoryInit => IInv
<1> SUFFICES ASSUME InventoryInit PROVE IInv
  OBVIOUS
<1> USE DEF InventoryInit, Init, NoScan, NoReport
<1>1. QuarantineInv
  BY PlacesAssumption DEF QuarantineInv, TypeOK
<1>2. InventoryTypeOK
  BY <1>1 DEF InventoryTypeOK, QuarantineInv, Scan, Report
<1>3. WalkInv
  BY <1>2 DEF WalkInv
<1>4. CauseInv
  BY DEF CauseInv
<1>5. \A r \in Request : RecordInv(r)
  BY DEF RecordInv, ListedInv, FoundInv, SoundInv, DamageInv
<1> QED
  BY <1>1, <1>3, <1>4, <1>5 DEF IInv

\* A reader at work changes nothing of the quarantine, and what the quarantine is
\* to have kept is kept.
LEMMA ReadFrame ==
    ASSUME IInv, UNCHANGED <<vars, rotten>>
    PROVE  QuarantineInv' /\ Unsettled' = Unsettled
<1>1. UNCHANGED <<life, place, published, spaces, rotten>>
  BY DEF vars
<1> QED
  BY <1>1 DEF IInv, QuarantineInv, TypeOK, Unsettled, Damaged, Leftovers, Working

\* The reader starts.
LEMMA StartInv ==
    ASSUME IInv, Start
    PROVE  IInv'
<1>1. /\ UNCHANGED <<life, place, published, spaces, rotten>>
      /\ report' = NoReport /\ stirred' = Unsettled
      /\ start' = [sound |-> published \ rotten, damaged |-> Damaged]
  BY DEF Start, vars
<1>2. PICK kind \in {"inventory", "list"}, wanted \in {Request} \cup {{r} : r \in Request} :
         /\ kind = "inventory" => wanted = Request
         /\ scan' = [NoScan EXCEPT !.step = "places", !.kind = kind,
                                   !.wanted = wanted, !.places = Platform]
  BY DEF Start
<1>3. scan' = [step |-> "places", kind |-> kind, wanted |-> wanted, places |-> Platform,
               here |-> "none", looks |-> {}, ids |-> {}, loaded |-> {}]
  BY <1>2 DEF NoScan
<1>4. QuarantineInv' /\ Unsettled' = Unsettled
  BY ReadFrame DEF Start
<1>5. Unsettled \subseteq Request /\ Damaged \subseteq Request /\ published \subseteq Request
  BY DEF Unsettled, Damaged, Leftovers, Working, IInv, QuarantineInv, TypeOK
<1>6. InventoryTypeOK'
  <2>1. scan' \in Scan
    BY <1>3 DEF Scan
  <2>2. report' \in Report /\ report'.good = {} /\ report'.unread = {}
    BY <1>1 DEF Report, NoReport
  <2>3. start' \in [sound: SUBSET Request, damaged: SUBSET Request]
    BY <1>1, <1>5
  <2>4. scan'.step # "sample" /\ scan'.loaded = {}
    BY <1>3
  <2> QED
    BY <1>1, <1>4, <1>5, <2>1, <2>2, <2>3, <2>4
       DEF IInv, WalkInv, InventoryTypeOK, QuarantineInv
<1>7. WalkInv'
  <2>1. ~report'.residue
    BY <1>1, Zenon DEF NoReport
  <2>2. /\ scan'.step = "places" /\ scan'.looks = {} /\ scan'.ids = {}
        /\ scan'.loaded = {} /\ scan'.kind = kind /\ scan'.wanted = wanted
    BY <1>3
  <2>3. kind = "inventory" => wanted = Request
    BY <1>2
  <2> QED
    BY <1>6, <2>1, <2>2, <2>3 DEF WalkInv
<1>8. CauseInv'
  BY <1>1, <1>4 DEF CauseInv, NoReport
<1>9. ASSUME NEW r \in Request PROVE RecordInv(r)'
  <2>1. ListedInv(r)' /\ FoundInv(r)'
    BY <1>1, <1>3 DEF ListedInv, FoundInv, NoReport
  <2>2. SoundInv(r)'
    BY <1>1, <1>3 DEF SoundInv, Ahead, IInv, QuarantineInv
  <2>3. DamageInv(r)'
    BY <1>1, <1>3, PlacesAssumption
       DEF DamageInv, Ahead, NoReport, Damaged, Leftovers, Working, IInv, QuarantineInv, TypeOK
  <2> QED
    BY <2>1, <2>2, <2>3 DEF RecordInv
<1> QED
  BY <1>4, <1>7, <1>8, <1>9 DEF IInv

\* It comes to a namespace.
LEMMA EnterPlatformInv ==
    ASSUME IInv, NEW p \in Platform, EnterPlatform(p)
    PROVE  IInv'
<1>1. /\ UNCHANGED <<life, place, published, spaces, rotten, report, start, stirred>>
      /\ scan.step = "places" /\ p \in scan.places /\ scan \in Scan
      /\ scan.looks = {} /\ scan.ids = {} /\ scan.loaded = {}
  BY DEF EnterPlatform, vars, IInv, WalkInv, InventoryTypeOK
<1>2. /\ scan' \in Scan
      /\ scan'.kind = scan.kind /\ scan'.wanted = scan.wanted
      /\ scan'.places = scan.places \ {p}
      /\ scan'.ids = {} /\ scan'.loaded = {}
      /\ p \in spaces => scan'.step = "names" /\ scan'.here = p /\ scan'.looks = scan.wanted
      /\ p \notin spaces =>
           scan'.step = "places" /\ scan'.here = scan.here /\ scan'.looks = {}
  BY <1>1 DEF EnterPlatform, Skip, Scan
<1>3. QuarantineInv' /\ Unsettled' = Unsettled
  BY ReadFrame DEF EnterPlatform
<1>4. WalkInv'
  BY <1>1, <1>2, <1>3 DEF IInv, WalkInv, InventoryTypeOK, QuarantineInv
<1>5. CauseInv'
  BY <1>1, <1>2, <1>3 DEF IInv, CauseInv
<1>6. ASSUME NEW r \in Request PROVE RecordInv(r)'
  <2>0. RecordInv(r) /\ QuarantineInv /\ WalkInv
    BY DEF IInv
  <2>1. ListedInv(r)' /\ FoundInv(r)'
    BY <1>1, <1>2, <2>0 DEF RecordInv, ListedInv, FoundInv
  <2>2. Ahead(r) /\ place[r] \in {"none", ".incoming"} \cup spaces
          /\ scan.kind = "inventory" => Ahead(r)'
    <3>1. scan.kind = "inventory" => scan.wanted = Request
      BY <2>0 DEF WalkInv
    <3>2. scan.places \subseteq Platform
      BY <1>1 DEF Scan
    <3> QED
      BY <1>1, <1>2, <3>1, <3>2, PlacesAssumption DEF Ahead
  <2>3. SoundInv(r)' /\ DamageInv(r)'
    BY <1>1, <1>2, <2>0, <2>2 DEF RecordInv, SoundInv, DamageInv, QuarantineInv
  <2> QED
    BY <2>1, <2>3 DEF RecordInv
<1> QED
  BY <1>3, <1>4, <1>5, <1>6 DEF IInv

\* It reads a name.
LEMMA LookForNameInv ==
    ASSUME IInv, NEW q \in Request, LookForName(q)
    PROVE  IInv'
<1>1. /\ UNCHANGED <<life, place, published, spaces, rotten, report, start, stirred>>
      /\ scan.step = "names" /\ q \in scan.looks /\ scan \in Scan /\ scan.loaded = {}
      /\ scan.here \in Platform \ scan.places
  BY DEF LookForName, vars, IInv, WalkInv, InventoryTypeOK
<1>2. /\ scan' \in Scan
      /\ scan'.step = scan.step /\ scan'.kind = scan.kind /\ scan'.wanted = scan.wanted
      /\ scan'.places = scan.places /\ scan'.here = scan.here
      /\ scan'.looks = scan.looks \ {q} /\ scan'.loaded = {}
      /\ scan'.ids = IF Named(q) THEN scan.ids \cup {q} ELSE scan.ids
  BY <1>1 DEF LookForName, Scan
<1>3. QuarantineInv' /\ Unsettled' = Unsettled
  BY ReadFrame DEF LookForName
<1>4. WalkInv'
  BY <1>1, <1>2, <1>3 DEF IInv, WalkInv, InventoryTypeOK, QuarantineInv
<1>5. CauseInv'
  BY <1>1, <1>2, <1>3 DEF IInv, CauseInv
<1>6. ASSUME NEW r \in Request PROVE RecordInv(r)'
  <2>0. RecordInv(r) /\ CauseInv /\ QuarantineInv
    BY DEF IInv
  <2>1. CASE r # q \/ ~Named(q)
    <3>1. r \in scan'.ids <=> r \in scan.ids
      BY <1>2, <2>1
    <3>2. scan.kind = "inventory" /\ Ahead(r) => Ahead(r)'
      <4>1. CASE r # q
        BY <1>1, <1>2, <4>1 DEF Ahead
      <4>2. CASE r = q /\ ~Named(q)
        BY <1>1, <1>2, <4>2 DEF Ahead, Named, HasSample
      <4> QED
        BY <2>1, <4>1, <4>2
    <3> QED
      BY <1>1, <1>2, <2>0, <3>1, <3>2
         DEF RecordInv, ListedInv, FoundInv, SoundInv, DamageInv
  <2>2. CASE r = q /\ Named(q)
    <3>1. place[q] = scan.here /\ (scan.kind = "list" => q \in published)
      BY <1>1, <2>2 DEF Named, HasSample, HasRecord, Scan
    <3>2. q \in published \/ q \in stirred
      <4>1. q \in published \/ q \in Unsettled
        BY <1>1, <3>1, PlacesAssumption DEF Unsettled, Damaged, Leftovers
      <4> QED
        BY <1>1, <2>0, <4>1 DEF CauseInv
    <3>3. q \notin scan.ids \cup report.good \cup report.bad
      BY <1>1, <2>0, <2>2, <3>1, PlacesAssumption DEF RecordInv, ListedInv
    <3> QED
      BY <1>1, <1>2, <2>0, <2>2, <3>1, <3>2, <3>3
         DEF RecordInv, ListedInv, FoundInv, SoundInv, DamageInv, Ahead, Scan
  <2> QED
    BY <2>1, <2>2
<1> QED
  BY <1>3, <1>4, <1>5, <1>6 DEF IInv

\* It rejects a record it was at.
LEMMA RejectInv ==
    ASSUME IInv, UNCHANGED <<vars, rotten, start, stirred>>,
           NEW q \in Request, NEW unread \in {{}, {q}}, Reject(q, unread),
           q \in scan.ids \cup scan.loaded,
           scan.step \in {"names", "sample"}, scan.looks = {}, scan.loaded \subseteq {q},
           unread = {} =>
             scan.kind = "inventory" /\ q \in stirred /\ q \notin start.sound \ rotten
    PROVE  IInv'
<1>1. /\ UNCHANGED <<life, place, published, spaces, rotten, start, stirred>>
      /\ scan \in Scan /\ report \in Report
  BY DEF vars, IInv, WalkInv, InventoryTypeOK
<1>2. /\ scan' \in Scan
      /\ scan'.step = IF scan.kind = "inventory" THEN "names" ELSE "done"
      /\ scan'.kind = scan.kind /\ scan'.wanted = scan.wanted
      /\ scan'.places = scan.places /\ scan'.here = scan.here /\ scan'.looks = {}
      /\ scan'.ids = scan.ids \ {q} /\ scan'.loaded = {}
  BY <1>1 DEF Reject, Scan
<1>3. /\ report' \in Report
      /\ report'.good = report.good /\ report'.bad = report.bad \cup {q}
      /\ report'.unread = report.unread \cup unread
      /\ report'.residue = report.residue
  BY <1>1 DEF Reject, Report
<1>4. QuarantineInv' /\ Unsettled' = Unsettled
  BY ReadFrame
<1>5. q \notin report.good
  BY DEF IInv, RecordInv, ListedInv
<1>6. WalkInv'
  <2>1. InventoryTypeOK'
    BY <1>1, <1>2, <1>3, <1>4, <1>5 DEF IInv, WalkInv, InventoryTypeOK, QuarantineInv
  <2> QED
    BY <1>1, <1>2, <1>3, <2>1 DEF IInv, WalkInv
<1>7. CauseInv'
  BY <1>1, <1>2, <1>3, <1>4 DEF IInv, CauseInv
<1>8. ASSUME NEW r \in Request PROVE RecordInv(r)'
  <2>0. RecordInv(r)
    BY DEF IInv
  <2>1. Ahead(r) => Ahead(r)' \/ r = q
    BY <1>1, <1>2 DEF Ahead
  <2> QED
    BY <1>1, <1>2, <1>3, <2>0, <2>1
       DEF RecordInv, ListedInv, FoundInv, SoundInv, DamageInv
<1> QED
  BY <1>4, <1>6, <1>7, <1>8 DEF IInv

\* It loads a record.
LEMMA LoadRecordInv ==
    ASSUME IInv, NEW q \in Request, LoadRecord(q)
    PROVE  IInv'
<1>1. /\ UNCHANGED <<life, place, published, spaces, rotten, start, stirred>>
      /\ scan.step = "names" /\ scan.looks = {} /\ q \in scan.ids /\ scan.loaded = {}
      /\ scan \in Scan
  BY DEF LoadRecord, vars, IInv, WalkInv, InventoryTypeOK
<1>2. QuarantineInv' /\ Unsettled' = Unsettled
  BY ReadFrame DEF LoadRecord
<1>q. RecordInv(q) /\ CauseInv
  BY DEF IInv
<1>3. CASE HasRecord(q)
  <2>1. /\ scan' \in Scan /\ report' = report
        /\ scan'.step = "sample" /\ scan'.kind = scan.kind /\ scan'.wanted = scan.wanted
        /\ scan'.places = scan.places /\ scan'.here = scan.here /\ scan'.looks = {}
        /\ scan'.ids = scan.ids \ {q} /\ scan'.loaded = {q}
    <3>1. /\ scan' = [scan EXCEPT !.step = "sample", !.ids = @ \ {q}, !.loaded = {q}]
          /\ report' = report
      BY <1>3 DEF LoadRecord
    <3> QED
      BY <1>1, <3>1 DEF Scan
  <2>2. WalkInv'
    <3>1. InventoryTypeOK'
      BY <1>1, <1>2, <2>1 DEF IInv, WalkInv, InventoryTypeOK, QuarantineInv
    <3> QED
      BY <1>1, <2>1, <3>1 DEF IInv, WalkInv
  <2>3. CauseInv'
    BY <1>1, <1>2, <2>1 DEF IInv, CauseInv
  <2>4. ASSUME NEW r \in Request PROVE RecordInv(r)'
    <3>1. Ahead(r) => Ahead(r)'
      BY <1>1, <2>1 DEF Ahead
    <3>2. RecordInv(r)
      BY DEF IInv
    <3>3. q \in published /\ place[q] = scan.here
      BY <1>3 DEF HasRecord, HasSample
    <3> QED
      BY <1>1, <1>q, <2>1, <3>1, <3>2, <3>3
         DEF RecordInv, ListedInv, FoundInv, SoundInv, DamageInv
  <2> QED
    BY <1>2, <2>2, <2>3, <2>4 DEF IInv
<1>4. CASE ~HasRecord(q)
  <2>1. scan.kind = "inventory" /\ q \in stirred
    BY <1>1, <1>4, <1>q DEF RecordInv, FoundInv, HasRecord, HasSample
  <2>2. q \notin start.sound \ rotten
    <3>1. SUFFICES ASSUME q \in start.sound \ rotten PROVE FALSE
      OBVIOUS
    <3>2. q \in published /\ place[q] # scan.here
      BY <1>4, <1>q, <2>1, <3>1 DEF RecordInv, SoundInv, HasRecord, HasSample
    <3>3. q \notin report.good /\ place[q] \notin scan.places
      BY <1>1, <1>q, <3>2, PlacesAssumption
         DEF RecordInv, ListedInv, IInv, QuarantineInv
    <3>4. q \notin report.unread
      BY <1>1, <1>q DEF RecordInv, ListedInv, IInv, WalkInv, InventoryTypeOK
    <3> QED
      BY <1>q, <2>1, <3>1, <3>2, <3>3, <3>4 DEF RecordInv, SoundInv, Ahead
  <2>3. Reject(q, {})
    BY <1>4 DEF LoadRecord
  <2> QED
    BY <1>1, <2>1, <2>2, <2>3, RejectInv DEF LoadRecord
<1> QED
  BY <1>3, <1>4

\* It looks at the sample of the record.
LEMMA CheckSampleInv ==
    ASSUME IInv, NEW q \in Request, CheckSample(q)
    PROVE  IInv'
<1>1. /\ UNCHANGED <<life, place, published, spaces, rotten, start, stirred>>
      /\ scan.step = "sample" /\ scan.looks = {} /\ q \in scan.loaded /\ scan.loaded = {q}
      /\ scan \in Scan /\ report \in Report
  BY DEF CheckSample, vars, IInv, WalkInv, InventoryTypeOK
<1>2. QuarantineInv' /\ Unsettled' = Unsettled
  BY ReadFrame DEF CheckSample
<1>q. RecordInv(q) /\ CauseInv /\ q \in published /\ place[q] = scan.here
  BY <1>1 DEF IInv, RecordInv, FoundInv
<1>3. CASE SampleFits(q)
  <2>1. /\ scan' \in Scan
        /\ scan'.step = "names" /\ scan'.kind = scan.kind /\ scan'.wanted = scan.wanted
        /\ scan'.places = scan.places /\ scan'.here = scan.here /\ scan'.looks = {}
        /\ scan'.ids = scan.ids /\ scan'.loaded = {}
    BY <1>1, <1>3 DEF CheckSample, Scan
  <2>2. /\ report' \in Report
        /\ report'.good = report.good \cup {q} /\ report'.bad = report.bad
        /\ report'.unread = report.unread /\ report'.residue = report.residue
    BY <1>1, <1>3 DEF CheckSample, Report
  <2>3. q \notin report.bad
    BY <1>1, <1>q DEF RecordInv, ListedInv
  <2>4. WalkInv'
    BY <1>1, <1>2, <2>1, <2>2, <2>3 DEF IInv, WalkInv, InventoryTypeOK, QuarantineInv
  <2>5. CauseInv'
    BY <1>1, <1>2, <2>1, <2>2 DEF IInv, CauseInv
  <2>6. ASSUME NEW r \in Request PROVE RecordInv(r)'
    <3>1. Ahead(r) => Ahead(r)' \/ r = q
      BY <1>1, <2>1 DEF Ahead
    <3>2. RecordInv(r)
      BY DEF IInv
    <3>3. scan.kind = "inventory" => q \notin start.damaged
      BY <1>3, <1>q DEF SampleFits, RecordInv, DamageInv
    <3> QED
      BY <1>1, <1>q, <2>1, <2>2, <3>1, <3>2, <3>3
         DEF RecordInv, ListedInv, FoundInv, SoundInv, DamageInv
  <2> QED
    BY <1>2, <2>4, <2>5, <2>6 DEF IInv
<1>4. CASE ~SampleFits(q)
  <2>1. scan.kind = "inventory" /\ q \in rotten
    BY <1>4, <1>q DEF SampleFits, HasSample
  <2>2. q \in stirred
    BY <1>1, <1>q, <2>1 DEF CauseInv, Unsettled, Damaged
  <2>3. Reject(q, {})
    BY <1>4 DEF CheckSample
  <2> QED
    BY <1>1, <2>1, <2>2, <2>3, RejectInv DEF CheckSample
<1> QED
  BY <1>3, <1>4

\* It cannot read what it is at.
LEMMA FailToReadInv ==
    ASSUME IInv, NEW q \in Request, FailToRead(q)
    PROVE  IInv'
<1>1. /\ UNCHANGED <<vars, rotten, start, stirred>> /\ Reject(q, {q})
      /\ q \in scan.ids \cup scan.loaded /\ scan.step \in {"names", "sample"}
  BY DEF FailToRead
<1>2. scan.looks = {} /\ scan.loaded \subseteq {q}
  BY DEF FailToRead, IInv, WalkInv, InventoryTypeOK
<1>3. {q} # {}
  OBVIOUS
<1> QED
  BY <1>1, <1>2, <1>3, RejectInv

\* It is through with a namespace.
LEMMA LeavePlatformInv ==
    ASSUME IInv, LeavePlatform
    PROVE  IInv'
<1>1. /\ UNCHANGED <<life, place, published, spaces, rotten, report, start, stirred>>
      /\ scan.step = "names" /\ scan.looks = {} /\ scan.ids = {} /\ scan.loaded = {}
      /\ scan \in Scan
  BY DEF LeavePlatform, vars, IInv, WalkInv, InventoryTypeOK
<1>2. /\ scan' \in Scan
      /\ scan'.step = "places" /\ scan'.kind = scan.kind /\ scan'.wanted = scan.wanted
      /\ scan'.places = scan.places /\ scan'.here = scan.here
      /\ scan'.looks = {} /\ scan'.ids = {} /\ scan'.loaded = {}
  BY <1>1 DEF LeavePlatform, Scan
<1>3. QuarantineInv' /\ Unsettled' = Unsettled
  BY ReadFrame DEF LeavePlatform
<1>4. WalkInv'
  BY <1>1, <1>2, <1>3 DEF IInv, WalkInv, InventoryTypeOK, QuarantineInv
<1>5. CauseInv'
  BY <1>1, <1>2, <1>3 DEF IInv, CauseInv
<1>6. ASSUME NEW r \in Request PROVE RecordInv(r)'
  BY <1>1, <1>2 DEF IInv, RecordInv, ListedInv, FoundInv, SoundInv, DamageInv, Ahead
<1> QED
  BY <1>3, <1>4, <1>5, <1>6 DEF IInv

\* It is through with all, and looks into .incoming.
LEMMA FinishInv ==
    ASSUME IInv, Finish
    PROVE  IInv'
<1> DEFINE spooled == \E r \in Request : place[r] = ".incoming"
<1>1. /\ UNCHANGED <<life, place, published, spaces, rotten, start, stirred>>
      /\ scan.step = "places" /\ scan.places = {}
      /\ scan.looks = {} /\ scan.ids = {} /\ scan.loaded = {}
      /\ scan \in Scan /\ report \in Report
  BY DEF Finish, vars, IInv, WalkInv, InventoryTypeOK
<1>2. /\ scan' \in Scan
      /\ scan'.step = "done" /\ scan'.kind = scan.kind /\ scan'.wanted = scan.wanted
      /\ scan'.places = {} /\ scan'.here = scan.here
      /\ scan'.looks = {} /\ scan'.ids = {} /\ scan'.loaded = {}
  BY <1>1 DEF Finish, Scan
<1>3. /\ report' \in Report /\ report'.good = report.good /\ report'.bad = report.bad
      /\ report'.unread = report.unread
      /\ report'.residue <=> scan.kind = "inventory" /\ spooled
  BY <1>1 DEF Finish, Report
<1>4. QuarantineInv' /\ Unsettled' = Unsettled
  BY ReadFrame DEF Finish
<1>5. WalkInv'
  BY <1>1, <1>2, <1>3, <1>4 DEF IInv, WalkInv, InventoryTypeOK, QuarantineInv, Scan
<1>6. CauseInv'
  <2>1. ASSUME NEW r \in Request, place[r] = ".incoming" PROVE r \in Unsettled
    BY <2>1, PlacesAssumption
       DEF Unsettled, Damaged, Leftovers, Working, IInv, QuarantineInv, TypeOK
  <2>2. spooled => stirred # {}
    BY <1>1, <2>1 DEF IInv, CauseInv
  <2> QED
    BY <1>1, <1>2, <1>3, <1>4, <2>2 DEF IInv, CauseInv
<1>7. ASSUME NEW r \in Request PROVE RecordInv(r)'
  <2>1. RecordInv(r) /\ ~Ahead(r)
    BY <1>1 DEF IInv, Ahead
  <2>2. place[r] = ".incoming" => spooled
    OBVIOUS
  <2> HIDE DEF spooled
  <2> QED
    BY <1>1, <1>2, <1>3, <2>1, <2>2
       DEF RecordInv, ListedInv, FoundInv, SoundInv, DamageInv
<1> QED
  BY <1>4, <1>5, <1>6, <1>7 DEF IInv

\* The service goes on meanwhile.
LEMMA IntakeInv ==
    ASSUME IInv, Intake
    PROVE  IInv'
<1>1. /\ UNCHANGED <<rotten, scan, report, start>>
      /\ stirred' = stirred \cup Unsettled'
  BY DEF Intake, reader
<1>2. QuarantineInv' /\ \A r \in Request : Kept(r)
  BY StepKeeps, CrashKeeps DEF Intake, IInv
<1>3. (Unsettled)' \subseteq Request
  BY <1>2 DEF QuarantineInv, TypeOK, Unsettled, Damaged, Leftovers, Working
<1>4. WalkInv'
  BY <1>1, <1>2, <1>3 DEF IInv, WalkInv, InventoryTypeOK, QuarantineInv
<1>5. CauseInv'
  BY <1>1 DEF IInv, CauseInv
<1>6. ASSUME NEW r \in Request PROVE RecordInv(r)'
  <2>0. RecordInv(r) /\ Kept(r) /\ scan \in Scan /\ (r \in published => place[r] \in Platform)
    BY <1>2 DEF IInv, WalkInv, InventoryTypeOK, QuarantineInv
  <2>1. place'[r] = place[r] => (Ahead(r)' <=> Ahead(r))
    BY <1>1 DEF Ahead
  <2>2. ListedInv(r)'
    BY <1>1, <2>0, PlacesAssumption DEF RecordInv, ListedInv, Kept
  <2>3. FoundInv(r)'
    BY <1>1, <2>0 DEF RecordInv, FoundInv, Kept
  <2>4. SoundInv(r)' /\ DamageInv(r)'
    BY <1>1, <2>0, <2>1 DEF RecordInv, SoundInv, DamageInv, Kept
  <2> QED
    BY <2>2, <2>3, <2>4 DEF RecordInv
<1> QED
  BY <1>2, <1>4, <1>5, <1>6 DEF IInv

\* A stored sample changes.
LEMMA RotInv ==
    ASSUME IInv, NEW q \in Request, Rot(q)
    PROVE  IInv'
<1>1. /\ UNCHANGED <<life, place, published, spaces, scan, report, start>>
      /\ rotten' = rotten \cup {q} /\ stirred' = stirred \cup {q}
  BY DEF Rot, reader, vars
<1>2. QuarantineInv'
  BY <1>1 DEF IInv, QuarantineInv, TypeOK
<1>3. (Unsettled)' \subseteq Unsettled \cup {q}
  BY <1>1 DEF Unsettled, Damaged, Leftovers, Working
<1>4. WalkInv'
  BY <1>1, <1>2 DEF IInv, WalkInv, InventoryTypeOK, QuarantineInv
<1>5. CauseInv'
  BY <1>1, <1>3 DEF IInv, CauseInv
<1>6. ASSUME NEW r \in Request PROVE RecordInv(r)'
  BY <1>1 DEF IInv, RecordInv, ListedInv, FoundInv, SoundInv, DamageInv, Ahead
<1> QED
  BY <1>2, <1>4, <1>5, <1>6 DEF IInv

\* The power is lost, and the reader with it.
LEMMA PowerOffInv ==
    ASSUME IInv, PowerOff
    PROVE  IInv'
<1>1. QuarantineInv'
  BY PowerLossKeeps DEF PowerOff, IInv
<1>2. /\ scan' = NoScan /\ report' = NoReport /\ rotten' = rotten
      /\ start' = [sound |-> {}, damaged |-> {}] /\ stirred' = {}
  BY DEF PowerOff
<1>3. InventoryTypeOK'
  BY <1>1, <1>2
     DEF IInv, WalkInv, InventoryTypeOK, QuarantineInv, Scan, Report, NoScan, NoReport
<1>4. ~report'.residue
  BY <1>2, Zenon DEF NoReport
<1>5. WalkInv'
  BY <1>2, <1>3, <1>4 DEF WalkInv, NoScan
<1>6. CauseInv'
  BY <1>2, <1>4 DEF CauseInv, NoScan
<1>7. ASSUME NEW r \in Request PROVE RecordInv(r)'
  BY <1>2 DEF RecordInv, ListedInv, FoundInv, SoundInv, DamageInv, NoScan, NoReport
<1> QED
  BY <1>1, <1>5, <1>6, <1>7 DEF IInv

-------------------------------------------------------------------------------
(* The theorems                                                              *)

\* The invariant is inductive.
LEMMA NextInv == IInv /\ [InventoryNext]_scanVars => IInv'
<1> SUFFICES ASSUME IInv, [InventoryNext]_scanVars PROVE IInv'
  OBVIOUS
<1>1. CASE Read
  BY <1>1, StartInv, EnterPlatformInv, LookForNameInv, LoadRecordInv, CheckSampleInv,
     FailToReadInv, LeavePlatformInv, FinishInv DEF Read
<1>2. CASE Intake \/ PowerOff
  BY <1>2, IntakeInv, PowerOffInv
<1>3. ASSUME NEW r \in Request, Rot(r) PROVE IInv'
  BY <1>3, RotInv
<1>4. CASE UNCHANGED scanVars
  <2>1. UNCHANGED <<life, place, published, spaces, rotten, scan, report, start, stirred>>
    BY <1>4 DEF scanVars, vars, reader
  <2>2. QuarantineInv' /\ WalkInv' /\ CauseInv'
    BY <2>1 DEF IInv, QuarantineInv, TypeOK, WalkInv, InventoryTypeOK, CauseInv, Unsettled,
                Damaged, Leftovers, Working
  <2>3. ASSUME NEW r \in Request PROVE RecordInv(r)'
    BY <2>1 DEF IInv, RecordInv, ListedInv, FoundInv, SoundInv, DamageInv, Ahead
  <2> QED
    BY <2>2, <2>3 DEF IInv
<1> QED
  BY <1>1, <1>2, <1>3, <1>4 DEF InventoryNext

\* The inductive invariant of the readers.
THEOREM Invariance == InventorySpec => []IInv
<1> QED
  BY InitInv, NextInv, PTL DEF InventorySpec

\* Type correctness of the readers; of no request it says both that it is good and
\* that it is bad, as no id is met in two directories.
THEOREM ReaderTypes == InventorySpec => []InventoryTypeOK
<1>1. IInv => InventoryTypeOK
  BY DEF IInv, WalkInv
<1> QED
  BY <1>1, Invariance, PTL

\* What a reader accepts is published, and stays so until the power is lost.
THEOREM AcceptedArePublished == InventorySpec => []AcceptedIsPublished
<1>1. IInv => AcceptedIsPublished
  BY DEF IInv, RecordInv, FoundInv, AcceptedIsPublished, WalkInv, InventoryTypeOK, Report
<1> QED
  BY <1>1, Invariance, PTL

\* An inventory verifies every pair that was there when it began, is sound and can be
\* read.
THEOREM SoundAreVerified == InventorySpec => []SoundIsVerified
<1>1. ASSUME IInv PROVE SoundIsVerified
  <2>1. Inventoried => scan.kind = "inventory" /\ \A r \in Request : ~Ahead(r)
    BY <1>1 DEF Inventoried, Ahead, IInv, WalkInv, InventoryTypeOK
  <2> QED
    BY <1>1, <2>1 DEF SoundIsVerified, IInv, RecordInv, SoundInv, WalkInv, InventoryTypeOK
<1> QED
  BY <1>1, Invariance, PTL

\* An inventory reports all the damage that was there when it began.
THEOREM DamagesAreReported == InventorySpec => []DamageIsReported
<1>1. ASSUME IInv PROVE DamageIsReported
  <2>1. Inventoried => scan.kind = "inventory" /\ scan.step = "done" /\ \A r \in Request : ~Ahead(r)
    BY <1>1 DEF Inventoried, Ahead, IInv, WalkInv, InventoryTypeOK
  <2>2. \A r \in Request : DamageInv(r)
    BY <1>1 DEF IInv, RecordInv
  <2>3. start.damaged \subseteq Request
    BY <1>1 DEF IInv, WalkInv, InventoryTypeOK
  <2> QED
    BY <2>1, <2>2, <2>3 DEF DamageIsReported, DamageInv, Passes
<1> QED
  BY <1>1, Invariance, PTL

\* An inventory fails only over what was in flight or damaged while it ran, or could
\* not be read.
THEOREM FailuresHaveCauses == InventorySpec => []FailureHasACause
<1>1. ASSUME IInv PROVE FailureHasACause
  <2>1. report.bad \subseteq Request /\ \A r \in Request : FoundInv(r)
    BY <1>1 DEF IInv, RecordInv, WalkInv, InventoryTypeOK, Report
  <2>2. report.bad \subseteq stirred \cup report.unread
    BY <2>1 DEF FoundInv
  <2>3. report.residue => stirred # {}
    BY <1>1 DEF IInv, CauseInv
  <2> QED
    BY <2>2, <2>3 DEF FailureHasACause, Passes
<1> QED
  BY <1>1, Invariance, PTL

\* A listing is never spoiled by requests on their way, or cut short: what it fails on
\* could not be read.
THEOREM ListingsSucceed == InventorySpec => []ListingNeverFails
<1>1. ASSUME IInv PROVE ListingNeverFails
  BY <1>1 DEF ListingNeverFails, IInv, RecordInv, FoundInv, WalkInv, InventoryTypeOK, Report
<1> QED
  BY <1>1, Invariance, PTL

===============================================================================
