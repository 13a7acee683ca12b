---------------------------- MODULE TransferBundle ----------------------------
(***************************************************************************)
(* asw_transfer_bundle.py: prepare copies the handoff directory, the inbox *)
(* that route writes to, into a new bundle; the bundle is transported; and *)
(* verify decides on the other side whether it is what was prepared.       *)
(* Routing goes on meanwhile.  One prepare over one bundle root, and a     *)
(* last file system error or a kill at any step of it.                     *)
(*                                                                         *)
(* Equal digests are equal contents, so an entry of transfer-manifest.json *)
(* is represented by the route it lists: the digest of the sample in it    *)
(* has to be the one in that route, or verify refuses it.                  *)
(***************************************************************************)
EXTENDS Routing, FiniteSets

CONSTANTS
    Namespace,      \* the directories of the handoff root
    NamespaceOf     \* where the manifest of a submission is

ASSUME NamespaceAssumption == NamespaceOf \in [Submission -> Namespace]
ASSUME RouteAssumption == "route" \in Command

VARIABLES
    stage,      \* where prepare stands
    unlisted,   \* namespaces collect_routes has not listed
    todo,       \* submissions of the loop prepare is in
    taken,      \* what collect_routes returns
    out,        \* the files of the bundle
    entry,      \* the route that the manifest lists a submission with, "none" if unlisted
    listing,    \* transfer-manifest.json
    before,     \* history: what route had reported when prepare began
    quiet       \* history: since prepare began, no route ran and none was half done

bundle == <<stage, unlisted, todo, taken, out, entry, listing>>
history == <<before, quiet>>

Working  == {"collect", "copy", "write", "verify"}
Ended    == {"prepared", "failed", "dead"}

\* What route makes of a manifest.
Route    == {"none", "partial", "complete"}
Files    == [Submission -> [sample: Content, route: Route]]
NoFiles  == [s \in Submission |-> [sample |-> "none", route |-> "none"]]
Whole    == [sample |-> "genuine", route |-> "complete"]

BundleTypeOK ==
    /\ stage \in {"start"} \cup Working \cup Ended
    /\ unlisted \subseteq Namespace
    /\ todo \subseteq Submission /\ taken \subseteq Submission
    /\ out \in Files
    /\ entry \in [Submission -> Route]
    /\ listing \in {"none", "partial", "complete"}
    /\ before \subseteq Submission
    /\ quiet \in BOOLEAN

BundleInit ==
    /\ Init
    /\ stage = "start"
    /\ unlisted = {} /\ todo = {} /\ taken = {}
    /\ out = NoFiles
    /\ entry = [s \in Submission |-> "none"]
    /\ listing = "none"
    /\ before = {} /\ quiet = FALSE

Listed == {s \in Submission : entry[s] # "none"}

\* validate_route: a manifest that is complete, and beside it the sample it describes.
\* One that was rewritten on the way is for whichever sample comes with it.
ValidRoute(pair) ==
    \/ pair.route = "complete" /\ pair.sample = "genuine"
    \/ pair.route = "rewritten" /\ pair.sample # "none"

\* An exception ends prepare; the bundle root stays.
Fail == stage' = "failed"

-------------------------------------------------------------------------------
(* prepare                                                                   *)

\* The bundle root is created, and must not have been there.
MakeRoot ==
    /\ stage = "start"
    /\ stage' = "collect"
    /\ unlisted' = Namespace
    /\ before' = {s \in Submission : reported["route"][s] > 0}
    /\ quiet' = /\ \A o \in Operator : op[o] = Idle
                /\ \A s \in Submission : manifest[s] # "partial"
                /\ \E s \in Submission : manifest[s] = "complete"
    /\ UNCHANGED <<todo, taken, out, entry, listing>>

\* So a second prepare, after whatever end of the first, is refused.
RefuseRoot ==
    /\ stage # "start"
    /\ UNCHANGED <<bundle, history>>

\* Mutant of ListNamespace: samples are listed instead of manifests.
ListNamespaceBySample(n) ==
    /\ stage = "collect" /\ todo = {}
    /\ n \in unlisted
    /\ unlisted' = unlisted \ {n}
    /\ todo' = {s \in Submission : NamespaceOf[s] = n /\ sample["route"][s] # "none"}
    /\ UNCHANGED <<stage, taken, out, entry, listing, history>>

\* collect_routes goes through the namespaces and lists each when it comes to it.
ListNamespace(n) ==
    /\ stage = "collect" /\ todo = {}
    /\ n \in unlisted
    /\ unlisted' = unlisted \ {n}
    /\ todo' = {s \in Submission : NamespaceOf[s] = n /\ manifest[s] # "none"}
    /\ UNCHANGED <<stage, taken, out, entry, listing, history>>

\* A pair that is not valid, or was removed since it was listed, ends prepare.
ValidateRoute(s) ==
    /\ stage = "collect"
    /\ s \in todo
    /\ IF ValidRoute([sample |-> sample["route"][s], route |-> manifest[s]])
         THEN todo' = todo \ {s} /\ taken' = taken \cup {s} /\ UNCHANGED stage
         ELSE Fail /\ UNCHANGED <<todo, taken>>
    /\ UNCHANGED <<unlisted, out, entry, listing, history>>

\* Mutant of EndCollect: the loop ends with the first namespace that has a route.
EndCollectEarly ==
    /\ stage = "collect" /\ todo = {} /\ (unlisted = {} \/ taken # {})
    /\ IF taken = {} THEN Fail ELSE stage' = "copy"
    /\ todo' = taken
    /\ UNCHANGED <<unlisted, taken, out, entry, listing, history>>

EndCollect ==
    /\ stage = "collect" /\ todo = {} /\ unlisted = {}
    /\ IF taken = {} THEN Fail ELSE stage' = "copy"
    /\ todo' = taken
    /\ UNCHANGED <<unlisted, taken, out, entry, listing, history>>

\* copy_exclusive links a finished copy into place, so it appears at once.  The
\* handoff may have changed since it was validated, and may no longer be there.
BundleSample(s) ==
    /\ stage = "copy"
    /\ s \in todo /\ \A t \in todo : out[t] = NoFiles[t]
    /\ IF sample["route"][s] = "none"
         THEN Fail /\ UNCHANGED out
         ELSE out' = [out EXCEPT ![s].sample = sample["route"][s]] /\ UNCHANGED stage
    /\ UNCHANGED <<unlisted, todo, taken, entry, listing, history>>

\* Mutant of BundleRoute: the sample is copied twice.
BundleRouteFromSample(s) ==
    /\ stage = "copy"
    /\ s \in todo /\ out[s].sample # "none" /\ out[s].route = "none"
    /\ out' = [out EXCEPT ![s].route = sample["route"][s]]
    /\ UNCHANGED <<stage, unlisted, todo, taken, entry, listing, history>>

BundleRoute(s) ==
    /\ stage = "copy"
    /\ s \in todo /\ out[s].sample # "none" /\ out[s].route = "none"
    /\ IF manifest[s] = "none"
         THEN Fail /\ UNCHANGED out
         ELSE out' = [out EXCEPT ![s].route = manifest[s]] /\ UNCHANGED stage
    /\ UNCHANGED <<unlisted, todo, taken, entry, listing, history>>

\* The copied sample is compared with the route as it was validated; the copied
\* route is taken as it is.
EnterPair(s) ==
    /\ stage = "copy"
    /\ s \in todo /\ out[s].route # "none"
    /\ IF out[s].sample = "genuine"
         THEN entry' = [entry EXCEPT ![s] = out[s].route] /\ todo' = todo \ {s}
              /\ UNCHANGED stage
         ELSE Fail /\ UNCHANGED <<entry, todo>>
    /\ UNCHANGED <<unlisted, taken, out, listing, history>>

\* write_text creates the file and then fills it.
CreateListing ==
    /\ stage = "copy" /\ todo = {}
    /\ listing' = "partial" /\ stage' = "write"
    /\ UNCHANGED <<unlisted, todo, taken, out, entry, history>>

WriteListing ==
    /\ stage = "write"
    /\ listing' = "complete" /\ stage' = "verify"
    /\ UNCHANGED <<unlisted, todo, taken, out, entry, history>>

-------------------------------------------------------------------------------
(* verify                                                                    *)

\* Mutants of VerifiedEntry: only the digests are compared, and those of the sample
\* are the ones prepare entered; a pair that agrees with itself is enough.
VerifiedEntryByDigests(pair, e) ==
    /\ pair.sample = "genuine" \/ e = "rewritten"
    /\ pair.route = e

VerifiedEntryByRoute(pair, e) == ValidRoute(pair)

\* The loop of verify: a valid pair, with the digests that the entry lists.
VerifiedEntry(pair, e) == ValidRoute(pair) /\ pair.route = e

\* A complete manifest with entries, each of them verified.  What is not listed is not
\* looked at.
Verified(files, list) ==
    /\ list = "complete" /\ Listed # {}
    /\ \A s \in Listed : VerifiedEntry(files[s], entry[s])

\* prepare ends with a look at its own work.
VerifyPrepared ==
    /\ stage = "verify"
    /\ stage' = IF Verified(out, listing) THEN "prepared" ELSE "failed"
    /\ UNCHANGED <<unlisted, todo, taken, out, entry, listing, history>>

\* prepare is killed, or the file system returns an error.
PreparerDies ==
    /\ stage \in Working
    /\ stage' = "dead"
    /\ UNCHANGED <<unlisted, todo, taken, out, entry, listing, history>>

BundleStep ==
    \/ MakeRoot \/ RefuseRoot
    \/ \E n \in Namespace : ListNamespace(n)
    \/ \E s \in Submission :
          ValidateRoute(s) \/ BundleSample(s) \/ BundleRoute(s) \/ EnterPair(s)
    \/ EndCollect \/ CreateListing \/ WriteListing \/ VerifyPrepared
    \/ PreparerDies

\* Routing goes on, and takes no notice of the bundle.
RoutingStep ==
    /\ Next
    /\ quiet' = (quiet /\ op' = op)
    /\ UNCHANGED <<bundle, before>>

BundleNext == RoutingStep \/ (BundleStep /\ UNCHANGED vars)

BundleSpec == BundleInit /\ [][BundleNext]_<<vars, bundle, history>>

-------------------------------------------------------------------------------
(* Properties                                                                *)

\* A bundle that prepare reports holds only whole pairs, although routes may have
\* been undone, repeated or killed between its look at them and its copy.
PreparedIsWhole ==
    stage = "prepared" =>
        /\ Listed # {}
        /\ \A s \in Listed : out[s] = Whole

\* It holds every submission that was routed when it was begun.
PreparedIsComplete == stage = "prepared" => before \subseteq Listed

\* Over a handoff nobody writes to, prepare does not fail: what killed commands left
\* there does not hinder it unless they were killed within a manifest.  (Errors of
\* the file system are PreparerDies.)
QuietPrepareSucceeds == quiet => stage # "failed"

\* An operator transports what is in the bundle root after prepare ended, however it
\* ended.  Each file of it may be lost or altered on the way, a route also into another
\* well-formed one.  Of what is delivered verify looks at the pairs that are listed.
Delivered(s) ==
    [sample: {out[s].sample, "none", "altered"},
     route: {out[s].route, "none", "altered", "rewritten"}]

Deliveries ==
    {files \in [Listed -> UNION {Delivered(s) : s \in Listed}] :
        \A s \in Listed : files[s] \in Delivered(s)}

\* What verify accepts on the other side, of whatever prepare left and whatever the
\* transport did to it.  Under the transfer manifest that prepare wrote: all that was
\* routed before, as the quarantine held it.  Nothing authenticates that manifest: with
\* an entry dropped it is accepted without that pair, and where both the entry and the
\* route were rewritten, with any sample.  To rewrite only one of the two is not enough.
AcceptedIsGenuine ==
    stage \in Ended =>
        /\ \A files \in Deliveries :
              Verified(files, listing) =>
                 before \subseteq Listed /\ \A s \in Listed : files[s] = Whole
        /\ \A s \in Submission :
           \A pair \in Delivered(s), e \in {entry[s], "complete", "rewritten"} :
              VerifiedEntry(pair, e) => pair = Whole \/ (e = pair.route /\ e = "rewritten")
===============================================================================
