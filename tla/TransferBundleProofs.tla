------------------------- MODULE TransferBundleProofs --------------------------
(***************************************************************************)
(* Proofs about TransferBundle, for any submissions, operators, commands   *)
(* and namespaces: whatever the routing does while a bundle is prepared    *)
(* and the transport after it.                                             *)
(***************************************************************************)
EXTENDS TransferBundle, RoutingProofs

bundleVars == <<vars, bundle, history>>

\* The bundle only reads what the routing writes, so all that was proved of the
\* routing holds while bundles are prepared.
LEMMA RoutingUnderBundle == BundleSpec => []RInv
<1>1. BundleInit => Init
  BY DEF BundleInit
<1>2. [BundleNext]_bundleVars => [Next]_vars
  BY DEF BundleNext, RoutingStep, bundleVars
<1>3. BundleSpec => Spec
  BY <1>1, <1>2, PTL DEF BundleSpec, Spec, bundleVars
<1> QED
  BY <1>3, RoutingInvariance, PTL

\* A report is never taken back.
LEMMA ReportsGrow ==
    ASSUME RInv, Next, NEW s \in Submission, reported["route"][s] > 0
    PROVE  reported'["route"][s] > 0
<1>1. TypeOK /\ reported["route"][s] \in Nat
  BY RouteAssumption DEF RInv, TypeOK
<1>2. ASSUME NEW o \in Operator, op[o] # Idle, Report(o)
      PROVE  reported'["route"][s] > 0
  <2>1. /\ reported'[op[o].command][op[o].id] = reported[op[o].command][op[o].id] + 1
        /\ \A d \in Command, t \in Submission :
              d # op[o].command \/ t # op[o].id => reported'[d][t] = reported[d][t]
    BY <1>1, <1>2, ReportType
  <2> QED
    BY <1>1, <2>1, RouteAssumption
<1>3. ASSUME NEW o \in Operator, OperatorStep(o), ~(op[o] # Idle /\ Report(o))
      PROVE  UNCHANGED reported
  BY <1>3 DEF OperatorStep, Refuse, Begin, CheckManifest, CreateSample, CopySample, Rehash,
              CreateManifest, EncodeManifest, SyncManifest, Undo, Kill, At, vars
<1>4. ASSUME NEW t \in Submission, Alter(t) PROVE UNCHANGED reported
  BY <1>4 DEF Alter
<1> QED
  BY <1>2, <1>3, <1>4 DEF Next

-------------------------------------------------------------------------------
(* Types                                                                     *)

\* What a copy can find in the handoff.
LEMMA HandoffType ==
    ASSUME TypeOK, NEW s \in Submission
    PROVE  sample["route"][s] \in Content /\ manifest[s] \in Route
BY RouteAssumption DEF TypeOK, Content, Route

\* A file of the bundle is written.
LEMMA OutType ==
    ASSUME BundleTypeOK, NEW s \in Submission, NEW content
    PROVE  /\ content \in Content => [out EXCEPT ![s].sample = content] \in Files
           /\ content \in Route => [out EXCEPT ![s].route = content] \in Files
<1>1. out \in Files /\ out[s] \in [sample: Content, route: Route]
  BY DEF BundleTypeOK, Files
<1>2. /\ content \in Content =>
           [out[s] EXCEPT !.sample = content] \in [sample: Content, route: Route]
      /\ content \in Route =>
           [out[s] EXCEPT !.route = content] \in [sample: Content, route: Route]
  BY <1>1
<1> QED
  BY <1>1, <1>2 DEF Files

\* Every step keeps the types.
LEMMA BundleTypeStep ==
    TypeOK /\ BundleTypeOK /\ [BundleNext]_bundleVars => BundleTypeOK'
<1> SUFFICES ASSUME TypeOK, BundleTypeOK, [BundleNext]_bundleVars PROVE BundleTypeOK'
  OBVIOUS
<1>1. CASE RoutingStep \/ UNCHANGED bundleVars
  BY <1>1 DEF RoutingStep, bundleVars, bundle, history, BundleTypeOK
<1>2. CASE MakeRoot \/ RefuseRoot \/ PreparerDies
  BY <1>2 DEF MakeRoot, RefuseRoot, PreparerDies, bundle, history, BundleTypeOK, Working, Ended
<1>3. ASSUME NEW n \in Namespace, ListNamespace(n) PROVE BundleTypeOK'
  BY <1>3 DEF ListNamespace, history, BundleTypeOK
<1>4. ASSUME NEW s \in Submission, ValidateRoute(s) PROVE BundleTypeOK'
  BY <1>4 DEF ValidateRoute, Fail, history, BundleTypeOK, Ended
<1>5. ASSUME NEW s \in Submission, BundleSample(s) \/ BundleRoute(s) PROVE BundleTypeOK'
  <2>1. sample["route"][s] \in Content /\ manifest[s] \in Route /\ out \in Files
    BY HandoffType DEF BundleTypeOK
  <2>2. /\ [out EXCEPT ![s].sample = sample["route"][s]] \in Files
        /\ [out EXCEPT ![s].route = manifest[s]] \in Files
    BY <2>1, OutType
  <2>3. out' \in Files
    BY <1>5, <2>1, <2>2 DEF BundleSample, BundleRoute
  <2> QED
    BY <1>5, <2>3 DEF BundleSample, BundleRoute, Fail, history, BundleTypeOK, Ended
<1>6. ASSUME NEW s \in Submission, EnterPair(s) PROVE BundleTypeOK'
  <2>1. out[s].route \in Route
    BY DEF BundleTypeOK, Files
  <2>2. entry' \in [Submission -> Route]
    BY <1>6, <2>1 DEF EnterPair, BundleTypeOK
  <2> QED
    BY <1>6, <2>2 DEF EnterPair, Fail, history, BundleTypeOK, Ended
<1>7. CASE EndCollect \/ CreateListing \/ WriteListing \/ VerifyPrepared
  BY <1>7 DEF EndCollect, CreateListing, WriteListing, VerifyPrepared, Fail, history,
              BundleTypeOK, Working, Ended
<1> QED
  BY <1>1, <1>2, <1>3, <1>4, <1>5, <1>6, <1>7 DEF BundleNext, BundleStep

\* The types of the bundle, whatever the routing does.
LEMMA BundleTyped == BundleSpec => [](RInv /\ BundleTypeOK)
<1>1. BundleInit => BundleTypeOK
  <2>1. NoFiles \in Files
    BY DEF NoFiles, Files, Content, Route
  <2> QED
    BY <2>1 DEF BundleInit, BundleTypeOK, Route
<1>2. RInv /\ BundleTypeOK /\ [BundleNext]_bundleVars => BundleTypeOK'
  BY BundleTypeStep DEF RInv
<1> QED
  BY <1>1, <1>2, RoutingUnderBundle, PTL DEF BundleSpec, bundleVars

-------------------------------------------------------------------------------
(* What becomes of the submissions that were routed before                   *)

\* A submission reported before prepare began is never dropped: it is in a
\* namespace still to be listed, in the loop, among the routes taken, and in the
\* end in the list.
Followed ==
    /\ \A s \in before : reported["route"][s] > 0
    /\ stage = "collect" => \A s \in before : NamespaceOf[s] \in unlisted \/ s \in todo \cup taken
    /\ stage = "copy" => before \subseteq todo \cup Listed
    /\ stage = "write" \/ listing = "complete" => before \subseteq Listed

\* The manifest of the bundle is complete from the last look of prepare on.
ListingOrder ==
    /\ stage \in {"start", "collect", "copy"} => listing = "none"
    /\ stage = "write" => listing = "partial"
    /\ stage \in {"verify", "prepared"} => listing = "complete"

BundleInv == Followed /\ ListingOrder /\ PreparedIsWhole

\* An entry of what prepare wrote is verified for a whole pair only.
LEMMA VerifiedPairIsWhole ==
    ASSUME BundleTypeOK, NEW s \in Submission, NEW pair \in Delivered(s),
           NEW e \in Route \cup {"rewritten"}, VerifiedEntry(pair, e)
    PROVE  \/ pair = Whole
           \/ e = pair.route /\ e = "rewritten"
<1>1. pair = [sample |-> pair.sample, route |-> pair.route]
  BY DEF Delivered
<1> QED
  BY <1>1 DEF VerifiedEntry, ValidRoute, Whole

\* What prepare reads back is what it prepared.
LEMMA VerifiedIsWhole ==
    ASSUME BundleTypeOK, Verified(out, listing)
    PROVE  /\ Listed # {}
           /\ \A s \in Listed : out[s] = Whole
<1>1. \A s \in Submission : out[s] \in [sample: Content, route: Route]
  BY DEF BundleTypeOK, Files
<1>2. \A s \in Submission : entry[s] \in Route
  BY DEF BundleTypeOK
<1> QED
  BY <1>1, <1>2 DEF Verified, VerifiedEntry, ValidRoute, Whole, Listed, Route

\* Under the manifest that prepare wrote only what is whole is accepted, and all of it;
\* under any other, a rewritten entry needs a rewritten route.
LEMMA AcceptedInv ==
    ASSUME BundleTypeOK, Followed
    PROVE  AcceptedIsGenuine
<1>1. ASSUME NEW files \in Deliveries, Verified(files, listing)
      PROVE  /\ before \subseteq Listed
             /\ \A s \in Listed : files[s] = Whole
  <2>1. listing = "complete" /\ \A s \in Listed : VerifiedEntry(files[s], entry[s])
    BY <1>1 DEF Verified
  <2>2. \A s \in Listed : s \in Submission /\ files[s] \in Delivered(s) /\ entry[s] \in Route
    BY DEF Deliveries, Listed, BundleTypeOK
  <2>3. ASSUME NEW s \in Listed
        PROVE  files[s] = Whole
    BY <2>1, <2>2, VerifiedPairIsWhole DEF Route
  <2> QED
    BY <2>1, <2>3 DEF Followed
<1>2. ASSUME NEW s \in Submission, NEW pair \in Delivered(s),
             NEW e \in {entry[s], "complete", "rewritten"}, VerifiedEntry(pair, e)
      PROVE  \/ pair = Whole
             \/ e = pair.route /\ e = "rewritten"
  <2>1. e \in Route \cup {"rewritten"}
    BY DEF BundleTypeOK, Route
  <2> QED
    BY <1>2, <2>1, VerifiedPairIsWhole
<1> QED
  BY <1>1, <1>2 DEF AcceptedIsGenuine

\* A step of prepare before its last: nothing was reported.
LEMMA EarlyStepInv ==
    ASSUME stage' # "prepared", Followed', ListingOrder'
    PROVE  BundleInv'
BY DEF BundleInv, PreparedIsWhole

\* prepare, step by step.
LEMMA PrepareInv ==
    ASSUME RInv, BundleTypeOK, BundleInv, BundleStep, UNCHANGED vars
    PROVE  BundleInv'
<1>0. reported' = reported /\ before \subseteq Submission
  BY DEF vars, BundleTypeOK
<1>1. CASE MakeRoot
  <2>1. stage = "start" /\ listing = "none"
    BY <1>1 DEF MakeRoot, BundleInv, ListingOrder
  <2>2. Followed'
    BY <1>0, <1>1, <2>1, NamespaceAssumption DEF MakeRoot, Followed
  <2>3. ListingOrder'
    BY <1>1, <2>1 DEF MakeRoot, ListingOrder
  <2> QED
    BY <1>0, <1>1, <2>1, <2>2, <2>3, EarlyStepInv DEF MakeRoot
<1>2. CASE RefuseRoot
  BY <1>0, <1>2 DEF RefuseRoot, bundle, history, BundleInv, Followed, ListingOrder,
                    PreparedIsWhole, Listed
<1>3. ASSUME NEW n \in Namespace, ListNamespace(n) PROVE BundleInv'
  <2>1. \A s \in before : manifest[s] # "none"
    BY <1>0, RouteAssumption DEF BundleInv, Followed, RInv, ReportedIsKept
  <2>2. Followed'
    BY <1>0, <1>3, <2>1 DEF ListNamespace, history, BundleInv, Followed, Listed, ListingOrder
  <2>3. ListingOrder'
    BY <1>3 DEF ListNamespace, BundleInv, ListingOrder
  <2> QED
    BY <1>0, <1>3, <2>2, <2>3, EarlyStepInv DEF ListNamespace
<1>4. ASSUME NEW s \in Submission, ValidateRoute(s) PROVE BundleInv'
  <2>1. Followed'
    BY <1>0, <1>4 DEF ValidateRoute, Fail, history, BundleInv, Followed, Listed, ListingOrder
  <2>2. ListingOrder'
    BY <1>4 DEF ValidateRoute, Fail, BundleInv, ListingOrder
  <2> QED
    BY <1>0, <1>4, <2>1, <2>2, EarlyStepInv DEF ValidateRoute, Fail
<1>5. CASE EndCollect
  <2>1. Followed'
    BY <1>0, <1>5 DEF EndCollect, Fail, history, BundleInv, Followed, Listed, ListingOrder
  <2>2. ListingOrder'
    BY <1>5 DEF EndCollect, Fail, BundleInv, ListingOrder
  <2> QED
    BY <1>0, <1>5, <2>1, <2>2, EarlyStepInv DEF EndCollect, Fail
<1>6. ASSUME NEW s \in Submission, BundleSample(s) \/ BundleRoute(s) PROVE BundleInv'
  <2>1. /\ stage = "copy" /\ stage' \in {"copy", "failed"}
        /\ UNCHANGED <<unlisted, todo, taken, entry, listing, before>>
    BY <1>6 DEF BundleSample, BundleRoute, Fail, history
  <2>2. Followed' /\ ListingOrder'
    BY <1>0, <2>1 DEF BundleInv, Followed, Listed, ListingOrder
  <2> QED
    BY <1>0, <2>1, <2>2, EarlyStepInv
<1>7. ASSUME NEW s \in Submission, EnterPair(s) PROVE BundleInv'
  <2>1. /\ stage = "copy" /\ stage' \in {"copy", "failed"}
        /\ UNCHANGED <<unlisted, taken, listing, before>>
    BY <1>7 DEF EnterPair, Fail, history
  <2>2. ListingOrder'
    BY <2>1 DEF BundleInv, ListingOrder
  <2>3. stage' = "copy" => before \subseteq todo' \cup Listed'
    <3>1. stage' = "copy" =>
            entry' = [entry EXCEPT ![s] = out[s].route] /\ todo' = todo \ {s}
      BY <1>7 DEF EnterPair, Fail
    <3>2. out[s].route # "none" /\ entry \in [Submission -> Route]
      BY <1>7 DEF EnterPair, BundleTypeOK
    <3> QED
      BY <1>0, <2>1, <3>1, <3>2 DEF BundleInv, Followed, Listed
  <2>4. Followed'
    BY <1>0, <2>1, <2>2, <2>3 DEF BundleInv, Followed, ListingOrder
  <2> QED
    BY <1>0, <2>1, <2>2, <2>4, EarlyStepInv
<1>8. CASE CreateListing \/ WriteListing
  <2>1. Followed' /\ ListingOrder'
    BY <1>0, <1>8 DEF CreateListing, WriteListing, history, BundleInv, Followed, Listed,
                      ListingOrder
  <2> QED
    BY <1>0, <1>8, <2>1, EarlyStepInv DEF CreateListing, WriteListing
<1>9. CASE VerifyPrepared
  <2>1. /\ stage = "verify" /\ listing = "complete"
        /\ UNCHANGED <<unlisted, todo, taken, out, entry, listing, before>>
        /\ stage' = IF Verified(out, listing) THEN "prepared" ELSE "failed"
    BY <1>9 DEF VerifyPrepared, history, BundleInv, ListingOrder
  <2>2. Listed' = Listed
    BY <2>1 DEF Listed
  <2>3. Followed' /\ ListingOrder'
    BY <1>0, <2>1, <2>2 DEF BundleInv, Followed, ListingOrder
  <2>4. PreparedIsWhole'
    BY <2>1, <2>2, VerifiedIsWhole DEF PreparedIsWhole
  <2> QED
    BY <2>3, <2>4 DEF BundleInv
<1>10. CASE PreparerDies
  <2>1. /\ stage \in Working /\ stage' = "dead"
        /\ UNCHANGED <<unlisted, todo, taken, out, entry, listing, before>>
    BY <1>10 DEF PreparerDies, history
  <2>2. Listed' = Listed
    BY <2>1 DEF Listed, BundleInv, ListingOrder, Working
  <2> QED
    BY <1>0, <2>1, <2>2
       DEF BundleInv, Followed, ListingOrder, PreparedIsWhole
<1> QED
  BY <1>1, <1>2, <1>3, <1>4, <1>5, <1>6, <1>7, <1>8, <1>9, <1>10 DEF BundleStep

\* Beside the routing, which adds to what was reported.
LEMMA BundleInvStep ==
    RInv /\ BundleTypeOK /\ BundleInv /\ [BundleNext]_bundleVars => BundleInv'
<1> SUFFICES ASSUME RInv, BundleTypeOK, BundleInv, [BundleNext]_bundleVars PROVE BundleInv'
  OBVIOUS
<1>1. CASE BundleStep /\ UNCHANGED vars
  BY <1>1, PrepareInv
<1>2. CASE RoutingStep \/ UNCHANGED bundleVars
  <2>1. \A s \in before : reported'["route"][s] > 0
    <3>1. \A s \in Submission : reported["route"][s] > 0 => reported'["route"][s] > 0
      BY <1>2, ReportsGrow DEF RoutingStep, bundleVars, vars
    <3> QED
      BY <3>1 DEF BundleTypeOK, BundleInv, Followed
  <2>2. /\ UNCHANGED <<stage, unlisted, todo, taken, out, entry, listing, before>>
        /\ Listed' = Listed
    BY <1>2 DEF RoutingStep, bundleVars, bundle, history, Listed
  <2> QED
    BY <2>1, <2>2
       DEF BundleInv, Followed, ListingOrder, PreparedIsWhole
<1> QED
  BY <1>1, <1>2 DEF BundleNext

\* The inductive invariant of bundles.
LEMMA BundleInvariance == BundleSpec => [](RInv /\ BundleTypeOK /\ BundleInv)
<1>1. BundleInit => BundleInv
  BY DEF BundleInit, BundleInv, Followed, ListingOrder, PreparedIsWhole
<1> QED
  BY <1>1, BundleInvStep, BundleTyped, PTL DEF BundleSpec, bundleVars

-------------------------------------------------------------------------------
(* A handoff nobody writes to                                                *)

\* What the handoff is while it is quiet.
Still ==
    /\ \A o \in Operator : op[o] = Idle
    /\ \A s \in Submission : manifest[s] \in {"none", "complete"}
    /\ \E s \in Submission : manifest[s] = "complete"

\* What prepare has of the handoff then: nothing that its checks could refuse.
Expected ==
    /\ stage # "failed"
    /\ \A s \in todo \cup taken : manifest[s] = "complete"
    /\ stage = "collect" =>
         \A s \in Submission : manifest[s] = "complete" =>
            NamespaceOf[s] \in unlisted \/ s \in todo \cup taken
    /\ stage = "copy" => todo \cup Listed # {}
    /\ stage \in {"write", "verify"} => Listed # {}
    /\ \A s \in Submission :
         /\ out[s].sample \in {"none", "genuine"}
         /\ out[s].route \in {"none", "complete"}
         /\ out[s].route # "none" => out[s].sample = "genuine"
         /\ entry[s] \in {"none", out[s].route}

\* Before prepare nothing is there.
NotBegun ==
    stage = "start" =>
        /\ ~quiet /\ todo = {} /\ taken = {} /\ out = NoFiles
        /\ \A s \in Submission : entry[s] = "none"

QuietInv == NotBegun /\ (quiet => Still /\ Expected)

\* While it is quiet no command can begin unnoticed.
LEMMA QuietRouting ==
    ASSUME RInv, BundleTypeOK, QuietInv, RoutingStep
    PROVE  QuietInv'
<1>1. UNCHANGED <<stage, unlisted, todo, taken, out, entry, listing, before>>
  BY DEF RoutingStep, bundle
<1>2. quiet' = (quiet /\ op' = op)
  BY DEF RoutingStep
<1>3. NotBegun'
  BY <1>1, <1>2 DEF QuietInv, NotBegun
<1>4. ASSUME quiet' PROVE Still' /\ Expected'
  <2>1. quiet /\ op' = op /\ Still /\ Expected
    BY <1>2, <1>4 DEF QuietInv
  <2>2. ASSUME NEW o \in Operator, NEW c \in Command, NEW s \in Submission PROVE ~Begin(o, c, s)
    <3>1. SUFFICES ASSUME Begin(o, c, s) PROVE FALSE
      OBVIOUS
    <3>2. op[o].step = "idle" /\ op \in [Operator -> Job \cup {Idle}]
      BY <2>1 DEF Still, Idle, RInv, TypeOK
    <3>3. op'[o].step \in {"check", "create"}
      BY <3>1, <3>2 DEF Begin
    <3> QED
      BY <2>1, <3>2, <3>3
  <2>3. ASSUME NEW o \in Operator, OperatorStep(o) PROVE UNCHANGED manifest
    <3>1. op[o] = Idle
      BY <2>1 DEF Still
    <3> QED
      BY <2>2, <2>3, <3>1
         DEF OperatorStep, Refuse, CheckManifest, CreateSample, CopySample, Rehash,
             CreateManifest, EncodeManifest, SyncManifest, Undo, Kill, At, vars
  <2>4. UNCHANGED manifest
    BY <2>3 DEF RoutingStep, Next, Alter
  <2>5. Still'
    BY <2>1, <2>4 DEF Still
  <2>6. Listed' = Listed
    BY <1>1 DEF Listed
  <2> QED
    BY <1>1, <2>1, <2>4, <2>5, <2>6 DEF Expected
<1> QED
  BY <1>3, <1>4 DEF QuietInv

\* In a quiet handoff each of prepare's checks succeeds.
LEMMA QuietPrepare ==
    ASSUME RInv, BundleTypeOK, BundleInv, QuietInv, BundleStep, UNCHANGED vars
    PROVE  QuietInv'
<1>0. /\ UNCHANGED <<manifest, op, sample>>
      /\ out \in Files /\ entry \in [Submission -> Route]
      /\ todo \subseteq Submission /\ taken \subseteq Submission
  BY DEF vars, BundleTypeOK
<1>w. \A s \in Submission : manifest[s] # "none" => sample["route"][s] = "genuine"
  BY RouteAssumption DEF RInv, ManifestHasSample
<1>1. CASE MakeRoot
  <2>1. NotBegun'
    BY <1>1 DEF MakeRoot, NotBegun
  <2>2. /\ stage' = "collect" /\ unlisted' = Namespace /\ todo = {} /\ taken = {}
        /\ out = NoFiles /\ \A s \in Submission : entry[s] = "none"
        /\ UNCHANGED <<todo, taken, out, entry>>
    BY <1>1 DEF MakeRoot, QuietInv, NotBegun
  <2>3. ASSUME quiet' PROVE Still'
    <3>1. /\ \A o \in Operator : op[o] = Idle
          /\ \A s \in Submission : manifest[s] # "partial"
          /\ \E s \in Submission : manifest[s] = "complete"
      BY <1>1, <2>3 DEF MakeRoot
    <3> QED
      BY <1>0, <3>1 DEF Still, RInv, TypeOK
  <2>4. Expected'
    BY <2>2, NamespaceAssumption DEF Expected, NoFiles
  <2> QED
    BY <2>1, <2>3, <2>4 DEF QuietInv
<1>2. CASE ~MakeRoot /\ stage = "start"
  BY <1>2 DEF BundleStep, RefuseRoot, ListNamespace, ValidateRoute, EndCollect, BundleSample,
              BundleRoute, EnterPair, CreateListing, WriteListing, VerifyPrepared,
              PreparerDies, Working, bundle, history, vars,
              QuietInv, NotBegun, Still, Expected, Listed
<1>3. CASE ~MakeRoot /\ stage # "start"
  <2>1. stage' # "start" /\ quiet' = quiet
    BY <1>3 DEF BundleStep, RefuseRoot, ListNamespace, ValidateRoute, EndCollect, Fail,
                BundleSample, BundleRoute, EnterPair, CreateListing, WriteListing,
                VerifyPrepared, PreparerDies, bundle, history
  <2> SUFFICES ASSUME quiet PROVE Expected'
    BY <1>0, <1>3, <2>1 DEF QuietInv, NotBegun, Still
  <2>2. Still /\ Expected
    BY DEF QuietInv
  <2>3. CASE RefuseRoot \/ PreparerDies
    <3>1. stage' \in {stage, "dead"} /\ UNCHANGED <<unlisted, todo, taken, out, entry>>
      BY <2>3 DEF RefuseRoot, PreparerDies, bundle, history
    <3>2. Listed' = Listed
      BY <3>1 DEF Listed
    <3> QED
      BY <1>0, <2>2, <3>1, <3>2 DEF Expected
  <2>4. ASSUME NEW n \in Namespace, ListNamespace(n) PROVE Expected'
    BY <1>0, <2>2, <2>4 DEF ListNamespace, Expected, Still, Listed
  <2>5. ASSUME NEW s \in Submission, ValidateRoute(s) PROVE Expected'
    <3>1. manifest[s] = "complete" /\ sample["route"][s] = "genuine"
      BY <1>w, <2>2, <2>5 DEF ValidateRoute, Expected
    <3>2. ValidRoute([sample |-> sample["route"][s], route |-> manifest[s]])
      BY <3>1 DEF ValidRoute
    <3>3. todo' = todo \ {s} /\ taken' = taken \cup {s}
          /\ UNCHANGED <<stage, unlisted, out, entry>> /\ stage = "collect"
          /\ s \in todo
      BY <2>5, <3>2 DEF ValidateRoute
    <3>4. todo' \cup taken' = todo \cup taken
      BY <3>3
    <3> QED
      BY <1>0, <2>2, <3>3, <3>4 DEF Expected, Listed
  <2>6. CASE EndCollect
    BY <1>0, <2>2, <2>6 DEF EndCollect, Expected, Still, Listed
  <2>7. ASSUME NEW s \in Submission, BundleSample(s) PROVE Expected'
    <3>1. stage' = "copy" /\ UNCHANGED <<unlisted, todo, taken, entry>>
          /\ out' = [out EXCEPT ![s].sample = "genuine"] /\ stage = "copy"
      BY <1>w, <2>2, <2>7 DEF BundleSample, Expected
    <3>2. /\ out'[s].sample = "genuine" /\ out'[s].route = out[s].route
          /\ \A t \in Submission \ {s} : out'[t] = out[t]
      BY <1>0, <3>1 DEF Files
    <3> QED
      BY <1>0, <2>2, <3>1, <3>2 DEF Expected, Listed
  <2>8. ASSUME NEW s \in Submission, BundleRoute(s) PROVE Expected'
    <3>1. /\ stage = "copy" /\ stage' = "copy" /\ UNCHANGED <<unlisted, todo, taken, entry>>
          /\ out' = [out EXCEPT ![s].route = "complete"]
          /\ out[s].sample # "none" /\ out[s].route = "none"
      BY <2>2, <2>8 DEF BundleRoute, Expected
    <3>2. /\ out'[s].route = "complete" /\ out'[s].sample = out[s].sample
          /\ \A t \in Submission \ {s} : out'[t] = out[t]
      BY <1>0, <3>1 DEF Files
    <3> QED
      BY <1>0, <2>2, <3>1, <3>2 DEF Expected, Listed
  <2>9. ASSUME NEW s \in Submission, EnterPair(s) PROVE Expected'
    <3>1. out[s].route # "none" /\ out[s].sample = "genuine" /\ out[s].route = "complete"
      BY <2>2, <2>9 DEF EnterPair, Expected
    <3>2. /\ stage = "copy" /\ stage' = "copy" /\ todo' = todo \ {s}
          /\ entry' = [entry EXCEPT ![s] = "complete"]
          /\ UNCHANGED <<unlisted, taken, out>>
      BY <2>9, <3>1 DEF EnterPair
    <3>3. /\ entry'[s] = "complete" /\ \A t \in Submission \ {s} : entry'[t] = entry[t]
      BY <1>0, <3>2
    <3>4. s \in Listed'
      BY <3>3 DEF Listed
    <3> QED
      BY <1>0, <2>2, <3>1, <3>2, <3>3, <3>4 DEF Expected
  <2>10. CASE CreateListing \/ WriteListing
    BY <1>0, <2>2, <2>10 DEF CreateListing, WriteListing, Expected, Listed
  <2>11. CASE VerifyPrepared
    <3>1. /\ stage = "verify" /\ listing = "complete" /\ Listed # {}
          /\ \A s \in Listed : out[s].route = "complete" /\ out[s].sample = "genuine"
                               /\ out[s].route = entry[s]
      BY <2>2, <2>11 DEF VerifyPrepared, BundleInv, ListingOrder, Expected, Listed
    <3>2. Verified(out, listing)
      BY <3>1 DEF Verified, VerifiedEntry, ValidRoute
    <3> QED
      BY <1>0, <2>2, <2>11, <3>2 DEF VerifyPrepared, Expected, Listed
  <2> QED
    BY <1>3, <2>3, <2>4, <2>5, <2>6, <2>7, <2>8, <2>9, <2>10, <2>11 DEF BundleStep
<1> QED
  BY <1>1, <1>2, <1>3

-------------------------------------------------------------------------------
(* The theorems                                                              *)

\* Everything below holds together.
THEOREM QuietInvariance == BundleSpec => [](RInv /\ BundleTypeOK /\ BundleInv /\ QuietInv)
<1>1. BundleInit => QuietInv
  BY DEF BundleInit, QuietInv, NotBegun
<1>2. RInv /\ BundleTypeOK /\ BundleInv /\ QuietInv /\ [BundleNext]_bundleVars => QuietInv'
  <2> SUFFICES ASSUME RInv, BundleTypeOK, BundleInv, QuietInv, [BundleNext]_bundleVars
               PROVE  QuietInv'
    OBVIOUS
  <2>1. CASE RoutingStep
    BY <2>1, QuietRouting
  <2>2. CASE BundleStep /\ UNCHANGED vars
    BY <2>2, QuietPrepare
  <2>3. CASE UNCHANGED bundleVars
    BY <2>3 DEF bundleVars, vars, bundle, history, QuietInv, NotBegun, Still, Expected, Listed
  <2> QED
    BY <2>1, <2>2, <2>3 DEF BundleNext
<1> QED
  BY <1>1, <1>2, BundleInvariance, PTL DEF BundleSpec, bundleVars

\* The bundle and its manifest keep their types.
THEOREM BundleTypes == BundleSpec => []BundleTypeOK
BY QuietInvariance, PTL

\* A bundle that prepare reports is whole, whatever commands ran or were killed
\* between its look at the handoff and its copies.
THEOREM PreparedBundlesAreWhole == BundleSpec => []PreparedIsWhole
<1>1. BundleInv => PreparedIsWhole
  BY DEF BundleInv
<1> QED
  BY <1>1, QuietInvariance, PTL

\* It leaves out nothing that was routed when prepare began.
THEOREM PreparedBundlesAreComplete == BundleSpec => []PreparedIsComplete
<1>1. BundleInv => PreparedIsComplete
  BY DEF BundleInv, Followed, ListingOrder, PreparedIsComplete
<1> QED
  BY <1>1, QuietInvariance, PTL

\* Over a handoff in which no manifest was left half written, and which nobody writes
\* to meanwhile, none of prepare's checks fails.
THEOREM QuietPreparesSucceed == BundleSpec => []QuietPrepareSucceeds
<1>1. BundleTypeOK /\ QuietInv => QuietPrepareSucceeds
  BY DEF QuietInv, Expected, QuietPrepareSucceeds
<1> QED
  BY <1>1, QuietInvariance, PTL

\* Whatever files a transport loses or alters: what is accepted under the manifest that
\* prepare wrote is all that was routed before, as the quarantine held it; under another
\* manifest a sample that is not genuine needs a rewritten entry and a rewritten route.
THEOREM AcceptedBundlesAreGenuine == BundleSpec => []AcceptedIsGenuine
<1>1. BundleTypeOK /\ BundleInv => AcceptedIsGenuine
  BY AcceptedInv DEF BundleInv
<1> QED
  BY <1>1, QuietInvariance, PTL
===============================================================================
