----------------------------- MODULE RoutingProofs -----------------------------
(***************************************************************************)
(* Proofs about Routing, for any submissions, any number of operators and  *)
(* any of the commands.                                                    *)
(*                                                                         *)
(* The argument is one of ownership.  From its exclusive creation until    *)
(* the command reports or removes it, a sample belongs to one process, and *)
(* so does the manifest beside it, which is only ever created by the owner *)
(* of the sample.  Nobody else writes to either.                           *)
(***************************************************************************)
EXTENDS Routing, TLAPS

Owning == Step \ {"check", "create"}

\* Process o has created the sample of command c for submission s.
Owns(o, c, s) == WorksOn(o, c, s) /\ op[o].step \in Owning

\* Only route looks at a manifest.
RoutesOnly ==
    \A o \in Operator :
        op[o] # Idle /\ op[o].step \in {"check", "describe", "encode", "sync"}
            => op[o].command = "route"

\* A command works on what has a record.
JobHasSource == \A o \in Operator : op[o] # Idle => quarantine[op[o].id] # "none"

\* A sample has one owner at most.
OwnersExclude ==
    \A o1, o2 \in Operator, c \in Command, s \in Submission :
        Owns(o1, c, s) /\ Owns(o2, c, s) => o1 = o2

\* What an owner knows of its files.
OwnerInv(o, c, s) ==
    /\ sample[c][s] # "none" /\ reported[c][s] = 0
    /\ op[o].step \in {"describe", "encode", "sync"} => sample[c][s] = "genuine"
    /\ c = "route" =>
         manifest[s] = CASE op[o].step = "encode" -> "partial"
                         [] op[o].step = "sync"   -> "complete"
                         [] OTHER                 -> "none"

OwnersKnow ==
    \A o \in Operator, c \in Command, s \in Submission :
        Owns(o, c, s) => OwnerInv(o, c, s)

\* What there is without an owner was reported, or left by a killed command.
Accounted(c, s) ==
    \/ reported[c][s] = 1
    \/ s \in left
    \/ \E o \in Operator : Owns(o, c, s)

FilesAccounted ==
    \A c \in Command, s \in Submission : sample[c][s] # "none" => Accounted(c, s)

\* No manifest is there without the genuine sample, in whatever state it is itself.
ManifestHasSample ==
    \A c \in Command, s \in Submission :
        c = "route" /\ manifest[s] # "none" => sample[c][s] = "genuine"

RInv ==
    /\ TypeOK /\ RoutesOnly /\ JobHasSource /\ OwnersExclude /\ OwnersKnow
    /\ FilesAccounted /\ ManifestHasSample /\ ReportedIsKept /\ ReportedOnce

\* The command of process o takes a step in which it touches the files of its own
\* pair only, and those only as their owner: an owner before the step, or one that
\* found no sample there.
OwnStep(o, c, s) ==
    /\ op[o] # Idle /\ op[o].command = c /\ op[o].id = s
    /\ \A p \in Operator \ {o} : op'[p] = op[p]
    /\ op'[o] # Idle => op'[o].command = c /\ op'[o].id = s
    /\ \A d \in Command, t \in Submission :
         d # c \/ t # s => sample'[d][t] = sample[d][t] /\ reported'[d][t] = reported[d][t]
    /\ \A t \in Submission : c # "route" \/ t # s => manifest'[t] = manifest[t]
    /\ quarantine' = quarantine /\ left \subseteq left'
    /\ Owns(o, c, s)' => Owns(o, c, s) \/ sample[c][s] = "none"
    /\ ~Owns(o, c, s) /\ ~Owns(o, c, s)' =>
         /\ sample'[c][s] = sample[c][s]
         /\ reported'[c][s] = reported[c][s]
         /\ manifest'[s] = manifest[s]

\* What such a step has to establish for its own pair.
PairKept(o, c, s) ==
    /\ op'[o] # Idle /\ op'[o].step \in {"check", "describe", "encode", "sync"}
         => c = "route"
    /\ Owns(o, c, s)' => OwnerInv(o, c, s)'
    /\ Owns(o, c, s) /\ ~Owns(o, c, s)' /\ sample'[c][s] # "none"
         => reported'[c][s] = 1 \/ s \in left'
    /\ c = "route" /\ manifest'[s] # "none" => sample'[c][s] = "genuine"
    /\ reported'[c][s] > 0 =>
         /\ reported'[c][s] = 1
         /\ sample'[c][s] = "genuine"
         /\ c = "route" => manifest'[s] = "complete"

-------------------------------------------------------------------------------

\* A step on its own pair that keeps that pair right keeps all of the invariant.
LEMMA OwnStepInv ==
    ASSUME RInv, TypeOK', NEW o \in Operator, NEW c \in Command, NEW s \in Submission,
           OwnStep(o, c, s), PairKept(o, c, s)
    PROVE  RInv'
<1>1. ASSUME NEW p \in Operator \ {o}, NEW d \in Command, NEW t \in Submission
      PROVE  Owns(p, d, t)' <=> Owns(p, d, t)
  BY <1>1 DEF OwnStep, Owns, WorksOn
<1>2. ASSUME NEW d \in Command, NEW t \in Submission, Owns(o, d, t) \/ Owns(o, d, t)'
      PROVE  d = c /\ t = s
  BY <1>2 DEF OwnStep, Owns, WorksOn
<1>3. RoutesOnly' /\ JobHasSource'
  BY DEF RInv, RoutesOnly, JobHasSource, OwnStep, PairKept
<1>4. OwnersExclude'
  <2>1. SUFFICES ASSUME NEW p \in Operator \ {o}, Owns(p, c, s), Owns(o, c, s)'
                 PROVE  FALSE
    BY <1>1, <1>2 DEF RInv, OwnersExclude
  <2>2. sample[c][s] # "none"
    BY <2>1 DEF RInv, OwnersKnow, OwnerInv
  <2>3. Owns(o, c, s)
    BY <2>1, <2>2 DEF OwnStep
  <2> QED
    BY <2>1, <2>3 DEF RInv, OwnersExclude
<1>5. OwnersKnow'
  <2>1. SUFFICES ASSUME NEW p \in Operator \ {o}, NEW d \in Command, NEW t \in Submission,
                        Owns(p, d, t)
                 PROVE  OwnerInv(p, d, t)'
    BY <1>1, <1>2 DEF OwnersKnow, PairKept
  <2>2. OwnerInv(p, d, t) /\ op'[p] = op[p]
    BY <2>1 DEF RInv, OwnersKnow, OwnStep
  <2>3. CASE d # c \/ t # s
    <3>1. sample'[d][t] = sample[d][t] /\ reported'[d][t] = reported[d][t]
      BY <2>3 DEF OwnStep
    <3>2. d = "route" => manifest'[t] = manifest[t]
      BY <2>3 DEF OwnStep
    <3> QED
      BY <2>2, <3>1, <3>2 DEF OwnerInv
  <2>4. CASE d = c /\ t = s
    <3>1. ~Owns(o, c, s)
      BY <2>1, <2>4 DEF RInv, OwnersExclude
    <3>2. ~Owns(o, c, s)'
      BY <2>2, <2>4, <3>1 DEF OwnStep, OwnerInv
    <3> QED
      BY <2>2, <2>4, <3>1, <3>2 DEF OwnStep, OwnerInv
  <2> QED
    BY <2>3, <2>4
<1>6. FilesAccounted'
  <2>1. SUFFICES ASSUME NEW d \in Command, NEW t \in Submission, sample'[d][t] # "none"
                 PROVE  Accounted(d, t)'
    BY DEF FilesAccounted
  <2>2. CASE \E p \in Operator \ {o} : Owns(p, d, t)
    BY <1>1, <2>2 DEF Accounted
  <2>3. CASE Owns(o, d, t) \/ Owns(o, d, t)'
    <3>1. d = c /\ t = s
      BY <1>2, <2>3
    <3> QED
      BY <2>1, <2>3, <3>1 DEF PairKept, Accounted
  <2>4. CASE /\ \A p \in Operator \ {o} : ~Owns(p, d, t)
             /\ ~Owns(o, d, t) /\ ~Owns(o, d, t)'
    <3>1. sample'[d][t] = sample[d][t] /\ reported'[d][t] = reported[d][t]
      BY <2>4 DEF OwnStep
    <3>2. Accounted(d, t)
      BY <2>1, <3>1 DEF RInv, FilesAccounted
    <3> QED
      BY <2>4, <3>1, <3>2 DEF Accounted, OwnStep
  <2> QED
    BY <2>2, <2>3, <2>4
<1>7. ManifestHasSample'
  BY DEF RInv, ManifestHasSample, OwnStep, PairKept
<1>8. ReportedIsKept'
  <2>1. SUFFICES ASSUME NEW d \in Command, NEW t \in Submission, d # c \/ t # s,
                        reported'[d][t] > 0
                 PROVE  sample'[d][t] = "genuine" /\ (d = "route" => manifest'[t] = "complete")
    BY DEF ReportedIsKept, PairKept
  <2> QED
    BY <2>1 DEF RInv, ReportedIsKept, OwnStep
<1>9. ReportedOnce'
  <2>1. ASSUME NEW d \in Command, NEW t \in Submission PROVE reported'[d][t] \in Nat
    BY DEF TypeOK
  <2> QED
    BY <2>1 DEF RInv, ReportedOnce, OwnStep, PairKept
<1> QED
  BY <1>3, <1>4, <1>5, <1>6, <1>7, <1>8, <1>9 DEF RInv
-------------------------------------------------------------------------------
(* The steps of a command                                                    *)

\* Where a command stands, its fields, and the types of its files.
LEMMA JobType ==
    ASSUME TypeOK, NEW o \in Operator, op[o] # Idle
    PROVE  /\ op[o] \in Job
           /\ op[o].command \in Command /\ op[o].id \in Submission /\ op[o].step \in Step
           /\ op[o].step # "idle"
BY DEF TypeOK, Job, Step

\* A command that moves on within its job.
LEMMA GoToType ==
    ASSUME TypeOK, NEW o \in Operator, op[o] # Idle, NEW step \in Step, GoTo(o, step)
    PROVE  /\ op' \in [Operator -> Job \cup {Idle}]
           /\ op'[o] # Idle /\ op'[o].step = step
           /\ op'[o].command = op[o].command /\ op'[o].id = op[o].id
           /\ \A p \in Operator \ {o} : op'[p] = op[p]
<1>1. op[o] \in Job
  BY JobType
<1>2. op'[o] = [op[o] EXCEPT !.step = step]
  BY DEF GoTo, TypeOK
<1>3. op'[o] \in Job /\ op'[o].step = step
      /\ op'[o].command = op[o].command /\ op'[o].id = op[o].id
  BY <1>1, <1>2 DEF Job
<1>4. op'[o] # Idle
  BY <1>3 DEF Idle, Step
<1> QED
  BY <1>3, <1>4 DEF GoTo, TypeOK

\* A command that ends.
LEMMA ExitType ==
    ASSUME TypeOK, NEW o \in Operator, Exit(o)
    PROVE  /\ op' \in [Operator -> Job \cup {Idle}]
           /\ op'[o] = Idle
           /\ \A p \in Operator \ {o} : op'[p] = op[p]
BY DEF Exit, TypeOK

\* The sample of a command is written or removed; no other is.
LEMMA SetSampleType ==
    ASSUME TypeOK, NEW o \in Operator, op[o] # Idle, NEW content \in Content,
           SetSample(o, content)
    PROVE  /\ sample' \in [Command -> [Submission -> Content]]
           /\ sample'[op[o].command][op[o].id] = content
           /\ \A d \in Command, t \in Submission :
                d # op[o].command \/ t # op[o].id => sample'[d][t] = sample[d][t]
BY JobType DEF SetSample, TypeOK

\* The same for its manifest.
LEMMA SetManifestType ==
    ASSUME TypeOK, NEW o \in Operator, op[o] # Idle,
           NEW content \in {"none", "partial", "complete"}, SetManifest(o, content)
    PROVE  /\ manifest' \in [Submission -> {"none", "partial", "complete"}]
           /\ manifest'[op[o].id] = content
           /\ \A t \in Submission : t # op[o].id => manifest'[t] = manifest[t]
BY JobType DEF SetManifest, TypeOK

\* And for what it reports.
LEMMA ReportType ==
    ASSUME TypeOK, NEW o \in Operator, op[o] # Idle, Report(o)
    PROVE  /\ reported' \in [Command -> [Submission -> Nat]]
           /\ reported'[op[o].command][op[o].id] = reported[op[o].command][op[o].id] + 1
           /\ \A d \in Command, t \in Submission :
                d # op[o].command \/ t # op[o].id => reported'[d][t] = reported[d][t]
           /\ Exit(o)
BY JobType DEF Report, TypeOK

\* An idle process begins a command; it owns nothing yet.
LEMMA BeginInv ==
    ASSUME RInv, NEW o \in Operator, NEW c \in Command, NEW s \in Submission,
           Begin(o, c, s)
    PROVE  RInv'
<1>1. PICK step \in {"check", "create"} :
         /\ step = "check" => c = "route"
         /\ op' = [op EXCEPT ![o] = [step |-> step, command |-> c, id |-> s]]
  BY DEF Begin
<1>2. op'[o] = [step |-> step, command |-> c, id |-> s] /\ op'[o] \in Job
      /\ \A p \in Operator \ {o} : op'[p] = op[p]
  BY <1>1 DEF RInv, TypeOK, Job, Step
<1>3. TypeOK'
  BY <1>1, <1>2 DEF Begin, RInv, TypeOK
<1>4. \A p \in Operator, d \in Command, t \in Submission : Owns(p, d, t)' <=> Owns(p, d, t)
  BY <1>2 DEF Begin, Owns, WorksOn, Owning
<1>5. RoutesOnly' /\ JobHasSource'
  BY <1>1, <1>2 DEF Begin, RInv, RoutesOnly, JobHasSource
<1>6. OwnersExclude' /\ FilesAccounted'
  BY <1>4 DEF Begin, RInv, OwnersExclude, FilesAccounted, Accounted
<1>7. OwnersKnow'
  <2>1. SUFFICES ASSUME NEW p \in Operator, NEW d \in Command, NEW t \in Submission,
                        Owns(p, d, t)
                 PROVE  OwnerInv(p, d, t)'
    BY <1>4 DEF OwnersKnow
  <2>2. p # o /\ OwnerInv(p, d, t)
    BY <2>1 DEF Begin, Owns, WorksOn, RInv, OwnersKnow
  <2> QED
    BY <1>2, <2>2 DEF Begin, OwnerInv
<1> QED
  BY <1>3, <1>5, <1>6, <1>7
     DEF Begin, RInv, ManifestHasSample, ReportedIsKept, ReportedOnce

\* A command that ends or moves on without touching a file, or owning one later.
LEMMA CheckManifestInv ==
    ASSUME RInv, NEW o \in Operator, CheckManifest(o)
    PROVE  RInv'
<1> DEFINE c == op[o].command  s == op[o].id
<1>1. /\ op[o] # Idle /\ op[o].step = "check" /\ c = "route"
      /\ c \in Command /\ s \in Submission
  BY JobType DEF RInv, RoutesOnly, CheckManifest, At
<1>2. /\ op' \in [Operator -> Job \cup {Idle}]
      /\ \A p \in Operator \ {o} : op'[p] = op[p]
      /\ op'[o] # Idle => op'[o].step = "create" /\ op'[o].command = c /\ op'[o].id = s
  BY <1>1, GoToType, ExitType DEF RInv, CheckManifest, Step
<1>3. TypeOK'
  BY <1>2 DEF CheckManifest, RInv, TypeOK
<1>4. ~Owns(o, c, s) /\ ~Owns(o, c, s)'
  BY <1>1, <1>2 DEF Owns, WorksOn, Owning
<1>5. OwnStep(o, c, s)
  BY <1>1, <1>2, <1>4 DEF CheckManifest, OwnStep
<1>6. PairKept(o, c, s)
  BY <1>1, <1>2, <1>4 DEF CheckManifest, PairKept, RInv, ManifestHasSample,
                          ReportedIsKept, ReportedOnce, TypeOK
<1> QED
  BY <1>1, <1>3, <1>5, <1>6, OwnStepInv

\* The exclusive creation makes an owner; a pair without a sample has neither a
\* manifest nor a report.
LEMMA CreateSampleInv ==
    ASSUME RInv, NEW o \in Operator, CreateSample(o)
    PROVE  RInv'
<1> DEFINE c == op[o].command  s == op[o].id
<1>1. op[o] # Idle /\ op[o].step = "create" /\ c \in Command /\ s \in Submission
  BY JobType DEF RInv, CreateSample, At
<1>2. ~Owns(o, c, s)
  BY <1>1 DEF Owns, Owning
<1>3. CASE Exit(o) /\ UNCHANGED sample
  <2>1. /\ op' \in [Operator -> Job \cup {Idle}]
        /\ op'[o] = Idle /\ \A p \in Operator \ {o} : op'[p] = op[p]
    BY <1>3, ExitType DEF RInv
  <2>2. TypeOK' /\ ~Owns(o, c, s)'
    BY <1>3, <2>1 DEF CreateSample, RInv, TypeOK, Owns, WorksOn
  <2>3. OwnStep(o, c, s)
    BY <1>1, <1>2, <1>3, <2>1, <2>2 DEF CreateSample, OwnStep
  <2>4. PairKept(o, c, s)
    BY <1>1, <1>2, <1>3, <2>1, <2>2 DEF CreateSample, PairKept, RInv, ManifestHasSample,
                                        ReportedIsKept, ReportedOnce, TypeOK
  <2> QED
    BY <1>1, <2>2, <2>3, <2>4, OwnStepInv
<1>4. CASE SampleOf(o) = "none" /\ SetSample(o, "partial") /\ GoTo(o, "copy")
  <2>1. /\ op' \in [Operator -> Job \cup {Idle}]
        /\ op'[o] # Idle /\ op'[o].step = "copy"
        /\ op'[o].command = c /\ op'[o].id = s
        /\ \A p \in Operator \ {o} : op'[p] = op[p]
    BY <1>1, <1>4, GoToType DEF RInv, Step
  <2>2. /\ sample' \in [Command -> [Submission -> Content]]
        /\ sample'[c][s] = "partial"
        /\ \A d \in Command, u \in Submission :
             d # c \/ u # s => sample'[d][u] = sample[d][u]
    BY <1>1, <1>4, SetSampleType DEF RInv, Content
  <2>3. TypeOK'
    BY <2>1, <2>2 DEF CreateSample, RInv, TypeOK
  <2>4. sample[c][s] = "none"
    BY <1>4 DEF SampleOf
  <2>5. OwnStep(o, c, s)
    BY <1>1, <1>2, <2>1, <2>2, <2>4 DEF CreateSample, OwnStep, Owns, WorksOn, Owning, Step
  <2>6. reported[c][s] = 0 /\ (c = "route" => manifest[s] = "none")
    BY <1>1, <2>4 DEF RInv, ReportedIsKept, ManifestHasSample, TypeOK
  <2>7. PairKept(o, c, s)
    BY <1>2, <2>1, <2>2, <2>6 DEF CreateSample, PairKept, OwnerInv
  <2> QED
    BY <1>1, <2>3, <2>5, <2>7, OwnStepInv
<1> QED
  BY <1>3, <1>4 DEF CreateSample

\* A process at one of the owning steps owns its pair, and knows what an owner knows.
LEMMA AtOwner ==
    ASSUME RInv, NEW o \in Operator, NEW step \in Owning, At(o, step)
    PROVE  /\ op[o] # Idle /\ op[o].step = step
           /\ op[o].command \in Command /\ op[o].id \in Submission
           /\ Owns(o, op[o].command, op[o].id)
           /\ OwnerInv(o, op[o].command, op[o].id)
           /\ step \in {"describe", "encode", "sync"} => op[o].command = "route"
<1>1. op[o] # Idle /\ op[o].step = step
      /\ op[o].command \in Command /\ op[o].id \in Submission
  BY JobType DEF RInv, At
<1>2. Owns(o, op[o].command, op[o].id)
  BY <1>1 DEF Owns, WorksOn
<1> QED
  BY <1>1, <1>2 DEF RInv, OwnersKnow, RoutesOnly

\* The copy: the sample is whatever was streamed.
LEMMA CopySampleInv ==
    ASSUME RInv, NEW o \in Operator, CopySample(o)
    PROVE  RInv'
<1> DEFINE c == op[o].command  s == op[o].id
<1>1. /\ op[o] # Idle /\ op[o].step = "copy" /\ c \in Command /\ s \in Submission
      /\ Owns(o, c, s) /\ OwnerInv(o, c, s)
  BY AtOwner DEF CopySample, Owning, Step
<1>2. quarantine[s] \in {"genuine", "altered"}
  BY <1>1 DEF RInv, TypeOK, JobHasSource
<1>3. PICK step \in {"rehash", "undo"} : GoTo(o, step)
  BY DEF CopySample
<1>4. /\ op' \in [Operator -> Job \cup {Idle}]
      /\ op'[o] # Idle /\ op'[o].step = step
      /\ op'[o].command = c /\ op'[o].id = s
      /\ \A p \in Operator \ {o} : op'[p] = op[p]
  BY <1>1, <1>3, GoToType DEF RInv, Step
<1>5. /\ sample' \in [Command -> [Submission -> Content]]
      /\ sample'[c][s] # "none"
      /\ \A d \in Command, u \in Submission :
           d # c \/ u # s => sample'[d][u] = sample[d][u]
  <2>1. CASE UNCHANGED sample
    BY <1>1, <2>1 DEF RInv, TypeOK, OwnerInv
  <2>2. CASE \E written \in {quarantine[s], "altered"} : SetSample(o, written)
    BY <1>1, <1>2, <2>2, SetSampleType DEF RInv, Content
  <2> QED
    BY <2>1, <2>2 DEF CopySample
<1>6. TypeOK'
  BY <1>4, <1>5 DEF CopySample, RInv, TypeOK
<1>7. OwnStep(o, c, s)
  BY <1>1, <1>4, <1>5 DEF CopySample, OwnStep
<1>8. reported[c][s] = 0 /\ (c = "route" => manifest[s] = "none")
  BY <1>1 DEF OwnerInv
<1>9. PairKept(o, c, s)
  BY <1>4, <1>5, <1>8 DEF CopySample, PairKept, OwnerInv, Owns, WorksOn, Owning, Step
<1> QED
  BY <1>1, <1>6, <1>7, <1>9, OwnStepInv

\* Reading back: what goes on is genuine, and an export of it is reported.
LEMMA RehashInv ==
    ASSUME RInv, NEW o \in Operator, Rehash(o)
    PROVE  RInv'
<1> DEFINE c == op[o].command  s == op[o].id
<1>1. /\ op[o] # Idle /\ op[o].step = "rehash" /\ c \in Command /\ s \in Submission
      /\ Owns(o, c, s) /\ OwnerInv(o, c, s)
  BY AtOwner DEF Rehash, Owning, Step
<1>2. reported[c][s] = 0 /\ sample[c][s] # "none" /\ (c = "route" => manifest[s] = "none")
  BY <1>1 DEF OwnerInv
<1>3. CASE sample[c][s] = "genuine" /\ c = "export" /\ Report(o)
  <2>1. /\ op' \in [Operator -> Job \cup {Idle}]
        /\ op'[o] = Idle /\ \A p \in Operator \ {o} : op'[p] = op[p]
    BY <1>1, <1>3, ReportType, ExitType DEF RInv
  <2>2. /\ reported' \in [Command -> [Submission -> Nat]]
        /\ reported'[c][s] = 1
        /\ \A d \in Command, u \in Submission :
             d # c \/ u # s => reported'[d][u] = reported[d][u]
    BY <1>1, <1>2, <1>3, ReportType DEF RInv
  <2>3. TypeOK'
    BY <2>1, <2>2 DEF Rehash, RInv, TypeOK
  <2>4. OwnStep(o, c, s)
    BY <1>1, <2>1, <2>2 DEF Rehash, OwnStep
  <2>5. PairKept(o, c, s)
    BY <1>2, <1>3, <2>1, <2>2 DEF Rehash, PairKept, Owns, WorksOn
  <2> QED
    BY <1>1, <2>3, <2>4, <2>5, OwnStepInv
<1>4. CASE /\ UNCHANGED reported
           /\ \/ sample[c][s] = "genuine" /\ c = "route" /\ GoTo(o, "describe")
              \/ GoTo(o, "undo")
  <2>1. /\ op' \in [Operator -> Job \cup {Idle}]
        /\ op'[o] # Idle /\ op'[o].step \in {"describe", "undo"}
        /\ op'[o].command = c /\ op'[o].id = s
        /\ op'[o].step = "describe" => c = "route" /\ sample[c][s] = "genuine"
        /\ \A p \in Operator \ {o} : op'[p] = op[p]
    BY <1>1, <1>4, GoToType DEF RInv, Step
  <2>2. TypeOK'
    BY <1>4, <2>1 DEF Rehash, RInv, TypeOK
  <2>3. OwnStep(o, c, s)
    BY <1>1, <1>4, <2>1 DEF Rehash, OwnStep
  <2>4. PairKept(o, c, s)
    BY <1>2, <1>4, <2>1 DEF Rehash, PairKept, OwnerInv, Owns, WorksOn, Owning, Step
  <2> QED
    BY <1>1, <2>2, <2>3, <2>4, OwnStepInv
<1> QED
  BY <1>3, <1>4 DEF Rehash, SampleOf

\* A step of writing the manifest: its content is what the next statement expects.
LEMMA ManifestStepInv ==
    ASSUME RInv, NEW o \in Operator, NEW step \in {"describe", "encode", "sync"}, At(o, step),
           NEW next \in {"encode", "sync", "undo"},
           NEW content \in {"none", "partial", "complete"},
           GoTo(o, next), SetManifest(o, content),
           content = (CASE next = "encode" -> "partial"
                        [] next = "sync" -> "complete" [] OTHER -> "none"),
           UNCHANGED <<quarantine, sample, reported, left>>
    PROVE  RInv'
<1> DEFINE c == op[o].command  s == op[o].id
<1>1. /\ op[o] # Idle /\ c = "route" /\ c \in Command /\ s \in Submission
      /\ Owns(o, c, s) /\ reported[c][s] = 0 /\ sample[c][s] = "genuine"
  BY AtOwner DEF OwnerInv, Owning, Step
<1>2. /\ op' \in [Operator -> Job \cup {Idle}]
      /\ op'[o] # Idle /\ op'[o].step = next
      /\ op'[o].command = c /\ op'[o].id = s
      /\ \A p \in Operator \ {o} : op'[p] = op[p]
  BY <1>1, GoToType DEF RInv, Step
<1>3. /\ manifest' \in [Submission -> {"none", "partial", "complete"}]
      /\ manifest'[s] = content
      /\ \A u \in Submission : u # s => manifest'[u] = manifest[u]
  BY <1>1, SetManifestType DEF RInv
<1>4. TypeOK'
  BY <1>2, <1>3 DEF RInv, TypeOK
<1>5. OwnStep(o, c, s)
  BY <1>1, <1>2, <1>3 DEF OwnStep
<1>6. OwnerInv(o, c, s)'
  BY <1>1, <1>2, <1>3 DEF OwnerInv
<1>7. PairKept(o, c, s)
  BY <1>1, <1>2, <1>6 DEF PairKept, Owns, WorksOn, Owning, Step
<1> QED
  BY <1>1, <1>4, <1>5, <1>7, OwnStepInv

\* The manifest is created where there was none, or the command turns back.
LEMMA CreateManifestInv ==
    ASSUME RInv, NEW o \in Operator, CreateManifest(o)
    PROVE  RInv'
<1>1. /\ op[o] # Idle /\ op[o].step = "describe" /\ op[o].command = "route"
      /\ op[o].id \in Submission /\ OwnerInv(o, op[o].command, op[o].id)
  BY AtOwner DEF CreateManifest, Owning, Step
<1>2. manifest[op[o].id] = "none"
  BY <1>1 DEF OwnerInv
<1>3. CASE SetManifest(o, "partial") /\ GoTo(o, "encode")
  BY <1>3, ManifestStepInv DEF CreateManifest
<1>4. CASE GoTo(o, "undo") /\ UNCHANGED manifest
  <2>1. SetManifest(o, "none")
    BY <1>1, <1>2, <1>4 DEF SetManifest, RInv, TypeOK
  <2> QED
    BY <1>4, <2>1, ManifestStepInv DEF CreateManifest
<1> QED
  BY <1>3, <1>4 DEF CreateManifest

\* The manifest is written, or removed.
LEMMA EncodeManifestInv ==
    ASSUME RInv, NEW o \in Operator, EncodeManifest(o)
    PROVE  RInv'
<1>1. CASE SetManifest(o, "complete") /\ GoTo(o, "sync")
  BY <1>1, ManifestStepInv DEF EncodeManifest
<1>2. CASE SetManifest(o, "none") /\ GoTo(o, "undo")
  BY <1>2, ManifestStepInv DEF EncodeManifest
<1> QED
  BY <1>1, <1>2 DEF EncodeManifest

\* The manifest is there to stay, and the route is reported; or it is removed.
LEMMA SyncManifestInv ==
    ASSUME RInv, NEW o \in Operator, SyncManifest(o)
    PROVE  RInv'
<1> DEFINE c == op[o].command  s == op[o].id
<1>1. CASE SetManifest(o, "none") /\ GoTo(o, "undo") /\ UNCHANGED reported
  BY <1>1, ManifestStepInv DEF SyncManifest
<1>2. CASE Report(o) /\ UNCHANGED manifest
  <2>1. /\ op[o] # Idle /\ op[o].step = "sync"
        /\ c = "route" /\ c \in Command /\ s \in Submission
        /\ Owns(o, c, s) /\ OwnerInv(o, c, s)
    BY AtOwner DEF SyncManifest, Owning, Step
  <2>2. reported[c][s] = 0 /\ sample[c][s] = "genuine" /\ manifest[s] = "complete"
    BY <2>1 DEF OwnerInv
  <2>3. /\ op' \in [Operator -> Job \cup {Idle}]
        /\ op'[o] = Idle /\ \A p \in Operator \ {o} : op'[p] = op[p]
    BY <1>2, <2>1, ReportType, ExitType DEF RInv
  <2>4. /\ reported' \in [Command -> [Submission -> Nat]]
        /\ reported'[c][s] = 1
        /\ \A d \in Command, u \in Submission :
             d # c \/ u # s => reported'[d][u] = reported[d][u]
    BY <1>2, <2>1, <2>2, ReportType DEF RInv
  <2>5. TypeOK'
    BY <1>2, <2>3, <2>4 DEF SyncManifest, RInv, TypeOK
  <2>6. OwnStep(o, c, s)
    BY <1>2, <2>1, <2>3, <2>4 DEF SyncManifest, OwnStep
  <2>7. PairKept(o, c, s)
    BY <1>2, <2>2, <2>3, <2>4 DEF SyncManifest, PairKept, Owns, WorksOn
  <2> QED
    BY <2>1, <2>5, <2>6, <2>7, OwnStepInv
<1> QED
  BY <1>1, <1>2 DEF SyncManifest

\* The removal: the pair is as if the command had never run.
LEMMA UndoInv ==
    ASSUME RInv, NEW o \in Operator, Undo(o)
    PROVE  RInv'
<1> DEFINE c == op[o].command  s == op[o].id
<1>1. /\ op[o] # Idle /\ op[o].step = "undo" /\ c \in Command /\ s \in Submission
      /\ Owns(o, c, s) /\ OwnerInv(o, c, s)
  BY AtOwner DEF Undo, Owning, Step
<1>2. reported[c][s] = 0 /\ (c = "route" => manifest[s] = "none")
  BY <1>1 DEF OwnerInv
<1>3. /\ op' \in [Operator -> Job \cup {Idle}]
      /\ op'[o] = Idle /\ \A p \in Operator \ {o} : op'[p] = op[p]
  BY ExitType DEF Undo, RInv
<1>4. /\ sample' \in [Command -> [Submission -> Content]]
      /\ sample'[c][s] = "none"
      /\ \A d \in Command, u \in Submission :
           d # c \/ u # s => sample'[d][u] = sample[d][u]
  BY <1>1, SetSampleType DEF Undo, RInv, Content
<1>5. TypeOK'
  BY <1>3, <1>4 DEF Undo, RInv, TypeOK
<1>6. OwnStep(o, c, s)
  BY <1>1, <1>3, <1>4 DEF Undo, OwnStep
<1>7. PairKept(o, c, s)
  BY <1>2, <1>3, <1>4 DEF Undo, PairKept, Owns, WorksOn
<1> QED
  BY <1>1, <1>5, <1>6, <1>7, OwnStepInv

\* A killed command leaves its files, and its submission is marked.
LEMMA KillInv ==
    ASSUME RInv, NEW o \in Operator, Kill(o)
    PROVE  RInv'
<1> DEFINE c == op[o].command  s == op[o].id
<1>1. op[o] # Idle /\ c \in Command /\ s \in Submission
  BY JobType DEF Kill, RInv
<1>2. /\ op' \in [Operator -> Job \cup {Idle}]
      /\ op'[o] = Idle /\ \A p \in Operator \ {o} : op'[p] = op[p]
  BY ExitType DEF Kill, RInv
<1>3. TypeOK' /\ s \in left'
  BY <1>1, <1>2 DEF Kill, RInv, TypeOK
<1>4. OwnStep(o, c, s)
  BY <1>1, <1>2 DEF Kill, OwnStep, Owns, WorksOn
<1>5. PairKept(o, c, s)
  BY <1>1, <1>2, <1>3 DEF Kill, PairKept, Owns, WorksOn, RInv, ManifestHasSample,
                          ReportedIsKept, ReportedOnce, TypeOK
<1> QED
  BY <1>1, <1>3, <1>4, <1>5, OwnStepInv

\* A sample that changes in the quarantine changes nothing outside it.
LEMMA AlterInv ==
    ASSUME RInv, NEW s \in Submission, Alter(s)
    PROVE  RInv'
<1>1. /\ quarantine' \in [Submission -> {"none", "genuine", "altered"}]
      /\ \A u \in Submission : quarantine[u] # "none" => quarantine'[u] # "none"
  BY DEF Alter, RInv, TypeOK
<1>2. JobHasSource'
  <2>1. SUFFICES ASSUME NEW o \in Operator, op[o] # Idle
                 PROVE  quarantine'[op[o].id] # "none"
    BY DEF Alter, JobHasSource
  <2> QED
    BY <1>1, <2>1, JobType DEF RInv, JobHasSource
<1>3. TypeOK'
  BY <1>1 DEF Alter, RInv, TypeOK
<1>4. OwnersExclude' /\ OwnersKnow' /\ FilesAccounted'
  BY DEF Alter, RInv, OwnersExclude, OwnersKnow, OwnerInv, FilesAccounted, Accounted,
         Owns, WorksOn
<1> QED
  BY <1>2, <1>3, <1>4
     DEF Alter, RInv, RoutesOnly, ManifestHasSample, ReportedIsKept, ReportedOnce

-------------------------------------------------------------------------------
(* Theorems                                                                  *)

\* Routing keeps the ownership of samples and manifests, and with it the promises
\* below, whatever the number of commands and whichever are killed.
THEOREM RoutingInvariance == Spec => []RInv
<1>1. Init => RInv
  BY DEF Init, RInv, TypeOK, RoutesOnly, JobHasSource, OwnersExclude, OwnersKnow,
         FilesAccounted, ManifestHasSample, ReportedIsKept, ReportedOnce, Owns, WorksOn,
         Content
<1>2. RInv /\ [Next]_vars => RInv'
  <2> SUFFICES ASSUME RInv, [Next]_vars PROVE RInv'
    OBVIOUS
  <2>1. ASSUME UNCHANGED vars PROVE RInv'
    BY <2>1 DEF vars, RInv, TypeOK, RoutesOnly, JobHasSource, OwnersExclude, OwnersKnow,
                OwnerInv, FilesAccounted, Accounted, ManifestHasSample, ReportedIsKept,
                ReportedOnce, Owns, WorksOn
  <2>2. ASSUME NEW o \in Operator, NEW s \in Submission, Refuse(o, s) PROVE RInv'
    BY <2>1, <2>2 DEF Refuse
  <2>3. ASSUME NEW o \in Operator, OperatorStep(o) PROVE RInv'
    BY <2>2, <2>3, BeginInv, CheckManifestInv, CreateSampleInv, CopySampleInv, RehashInv,
       CreateManifestInv, EncodeManifestInv, SyncManifestInv, UndoInv, KillInv
       DEF OperatorStep
  <2> QED
    BY <2>1, <2>3, AlterInv DEF Next
<1> QED
  BY <1>1, <1>2, PTL DEF Spec

\* Type correctness of route and export.
THEOREM RoutingTypes == Spec => []TypeOK
<1>1. RInv => TypeOK
  BY DEF RInv
<1> QED
  BY <1>1, RoutingInvariance, PTL

\* A complete manifest never appears in the inbox without the sample that was
\* verified in the quarantine.
THEOREM RoutedPairs == Spec => []RoutedPairIsWhole
<1>1. RInv => RoutedPairIsWhole
  BY DEF RInv, ManifestHasSample, RoutedPairIsWhole
<1> QED
  BY <1>1, RoutingInvariance, PTL

\* What a command reported is never overwritten or removed by another.
THEOREM ReportsAreKept == Spec => []ReportedIsKept
<1>1. RInv => ReportedIsKept
  BY DEF RInv
<1> QED
  BY <1>1, RoutingInvariance, PTL

\* However many operators hand a submission out at the same time, one succeeds.
THEOREM ReportsAreUnique == Spec => []ReportedOnce
<1>1. RInv => ReportedOnce
  BY DEF RInv
<1> QED
  BY <1>1, RoutingInvariance, PTL

\* A command that fails leaves nothing, unless it is killed.
THEOREM FailuresLeaveNothing == Spec => []NothingHalfDone
<1>1. RInv => NothingHalfDone
  <2> SUFFICES ASSUME RInv, NEW c \in Command, NEW s \in Submission, s \notin left,
                      \A o \in Operator : ~WorksOn(o, c, s)
               PROVE  IF reported[c][s] = 0
                      THEN sample[c][s] = "none" /\ (c = "route" => manifest[s] = "none")
                      ELSE sample[c][s] = "genuine"
                           /\ (c = "route" => manifest[s] = "complete")
    BY DEF NothingHalfDone
  <2>1. reported[c][s] \in Nat
    BY DEF RInv, TypeOK
  <2>2. CASE reported[c][s] = 0
    <3>1. sample[c][s] = "none"
      BY <2>2 DEF RInv, FilesAccounted, Accounted, Owns
    <3> QED
      BY <2>2, <3>1 DEF RInv, ManifestHasSample
  <2>3. CASE reported[c][s] > 0
    BY <2>3 DEF RInv, ReportedIsKept
  <2> QED
    BY <2>1, <2>2, <2>3
<1> QED
  BY <1>1, RoutingInvariance, PTL
===============================================================================
