------------------------------- MODULE Inventory -------------------------------
(***************************************************************************)
(* The readers of the quarantine, at work while requests are stored in it: *)
(* inventory_quarantine.py, and the listing of amiguard-admin (loadRecords *)
(* for dashboard and list, loadRecord for the commands that name one id).  *)
(*                                                                         *)
(* Neither takes a lock: a directory is read name by name, then the files  *)
(* one by one.  What distinguishes them is which names they start from and *)
(* what a bad record does to the rest.  Legacy records at the root are not *)
(* written by the intake and are left out; and as a request has its files  *)
(* in one platform directory, so are the checks for duplicate ids.         *)
(***************************************************************************)
EXTENDS Quarantine

VARIABLES
    rotten,     \* samples whose bytes changed on their medium
    scan,       \* where the reader stands
    report,     \* what it found
    start,      \* history: the sound and the damaged requests when it began
    stirred     \* history: requests that were unsettled at some moment since

reader   == <<scan, report, start>>
scanVars == <<vars, rotten, reader, stirred>>

Scan ==
    [step: {"idle", "places", "names", "sample", "done"},
     kind: {"inventory", "list"},
     wanted: SUBSET Request,            \* the ids that matter to it
     places: SUBSET Platform,           \* namespaces it has not come to
     here: Platform \cup {"none"},      \* the one it is in
     looks: SUBSET Request,             \* names it has not read in it
     ids: SUBSET Request,               \* records it has not loaded
     loaded: SUBSET Request]            \* the record whose sample comes next

NoScan ==
    [step |-> "idle", kind |-> "list", wanted |-> {}, places |-> {},
     here |-> "none", looks |-> {}, ids |-> {}, loaded |-> {}]

\* What it calls good and bad (unread, if the reason is a failing read), and whether
\* it found something in .incoming.
Report ==
    [good: SUBSET Request, bad: SUBSET Request, unread: SUBSET Request, residue: BOOLEAN]

NoReport == [good |-> {}, bad |-> {}, unread |-> {}, residue |-> FALSE]

InventoryTypeOK ==
    /\ TypeOK
    /\ rotten \subseteq Request
    /\ scan \in Scan
    /\ report \in Report
    /\ start \in [sound: SUBSET Request, damaged: SUBSET Request]
    /\ stirred \subseteq Request
    /\ scan.step = "sample" <=> scan.loaded # {}
    /\ report.good \cap report.bad = {}
    /\ report.unread \subseteq report.bad

InventoryInit ==
    /\ Init
    /\ rotten = {}
    /\ scan = NoScan /\ report = NoReport
    /\ start = [sound |-> {}, damaged |-> {}] /\ stirred = {}

\* What a failure or a death left beside the pairs.
Leftovers == {r \in Request \ (Working \cup published) : place[r] # "none"}
Damaged   == Leftovers \cup (published \cap rotten)
Unsettled == Working \cup Damaged

-------------------------------------------------------------------------------
(* The reader                                                                *)

\* All ids, or (in admin's commands) the one that is asked for.
Start ==
    /\ scan.step = "idle"
    /\ \E kind \in {"inventory", "list"}, wanted \in {Request} \cup {{r} : r \in Request} :
          /\ kind = "inventory" => wanted = Request
          /\ scan' = [NoScan EXCEPT !.step = "places", !.kind = kind,
                                    !.wanted = wanted, !.places = Platform]
    /\ report' = NoReport
    /\ start' = [sound |-> published \ rotten, damaged |-> Damaged]
    /\ stirred' = Unsettled
    /\ UNCHANGED <<vars, rotten>>

\* Mutant of Skip: a missing namespace ends the walk.
SkipAll(p) == [scan EXCEPT !.places = {}]

Skip(p) == [scan EXCEPT !.places = @ \ {p}]

\* One namespace after the other (in an order of the map's choosing in Go); one
\* that does not exist is skipped.
EnterPlatform(p) ==
    /\ scan.step = "places" /\ p \in scan.places
    /\ scan' = IF p \in spaces
                 THEN [Skip(p) EXCEPT !.step = "names", !.here = p, !.looks = scan.wanted]
                 ELSE Skip(p)
    /\ UNCHANGED <<vars, rotten, report, start, stirred>>

HasSample(r) == place[r] = scan.here
HasRecord(r) == r \in published /\ HasSample(r)

\* Mutants of Named: samples count for the listing too; only records count.
NamedByEither(r) == HasSample(r)
NamedByRecord(r) == HasRecord(r)

\* The inventory starts from the names of both files, the listing from records'.
\* Names that begin with a dot, the metadata on its way, are skipped by both.
Named(r) == IF scan.kind = "inventory" THEN HasSample(r) ELSE HasRecord(r)

\* A directory is not read at one moment: each name is there when it is come to.
LookForName(r) ==
    /\ scan.step = "names" /\ r \in scan.looks
    /\ scan' = [scan EXCEPT !.looks = @ \ {r},
                            !.ids = IF Named(r) THEN @ \cup {r} ELSE @]
    /\ UNCHANGED <<vars, rotten, report, start, stirred>>

\* Mutant of Reject: the reader stays with the rejected record.
RejectKeepingLoaded(r, unread) ==
    /\ report' = [report EXCEPT !.bad = @ \cup {r}, !.unread = @ \cup unread]
    /\ scan' = [scan EXCEPT !.step = IF scan.kind = "inventory" THEN "names" ELSE "done",
                            !.ids = @ \ {r}]

\* A bad record is counted by the inventory, and ends the listing.
Reject(r, unread) ==
    /\ report' = [report EXCEPT !.bad = @ \cup {r}, !.unread = @ \cup unread]
    /\ scan' = [scan EXCEPT !.step = IF scan.kind = "inventory" THEN "names" ELSE "done",
                            !.ids = @ \ {r}, !.loaded = {}]

LoadRecord(r) ==
    /\ scan.step = "names" /\ scan.looks = {} /\ r \in scan.ids
    /\ IF HasRecord(r)
         THEN /\ scan' = [scan EXCEPT !.step = "sample", !.ids = @ \ {r}, !.loaded = {r}]
              /\ UNCHANGED report
         ELSE Reject(r, {})
    /\ UNCHANGED <<vars, rotten, start, stirred>>

\* The inventory hashes the sample; the listing looks whether it is a regular file.
SampleFits(r) == HasSample(r) /\ (scan.kind = "inventory" => r \notin rotten)

CheckSample(r) ==
    /\ scan.step = "sample" /\ r \in scan.loaded
    /\ IF SampleFits(r)
         THEN /\ report' = [report EXCEPT !.good = @ \cup {r}]
              /\ scan' = [scan EXCEPT !.step = "names", !.loaded = {}]
         ELSE Reject(r, {})
    /\ UNCHANGED <<vars, rotten, start, stirred>>

\* A record or a sample that cannot be read, for whatever reason, is a bad record.
FailToRead(r) ==
    /\ \/ scan.step = "names" /\ scan.looks = {} /\ r \in scan.ids
       \/ scan.step = "sample" /\ r \in scan.loaded
    /\ Reject(r, {r})
    /\ UNCHANGED <<vars, rotten, start, stirred>>

\* Mutant of LeavePlatform: records are loaded when all names have been read, from
\* the directory that came last.
LeavePlatformEarly ==
    /\ scan.step = "names" /\ scan.looks = {}
    /\ scan' = [scan EXCEPT !.step = "places"]
    /\ UNCHANGED <<vars, rotten, report, start, stirred>>

LeavePlatform ==
    /\ scan.step = "names" /\ scan.looks = {} /\ scan.ids = {}
    /\ scan' = [scan EXCEPT !.step = "places"]
    /\ UNCHANGED <<vars, rotten, report, start, stirred>>

\* The inventory looks into .incoming at last.
Finish ==
    /\ scan.step = "places" /\ scan.places = {}
    /\ scan' = [scan EXCEPT !.step = "done"]
    /\ report' = [report EXCEPT !.residue =
          scan.kind = "inventory" /\ \E r \in Request : place[r] = ".incoming"]
    /\ UNCHANGED <<vars, rotten, start, stirred>>

Read ==
    \/ Start
    \/ \E p \in Platform : EnterPlatform(p)
    \/ \E r \in Request :
          LookForName(r) \/ LoadRecord(r) \/ CheckSample(r) \/ FailToRead(r)
    \/ LeavePlatform
    \/ Finish

-------------------------------------------------------------------------------
(* What goes on around it                                                    *)

Intake ==
    /\ (\E r \in Request : Step(r)) \/ Crash
    /\ UNCHANGED <<rotten, reader>>
    /\ stirred' = stirred \cup Unsettled'

\* The reader dies with the machine.
PowerOff ==
    /\ PowerLoss
    /\ scan' = NoScan /\ report' = NoReport
    /\ start' = [sound |-> {}, damaged |-> {}] /\ stirred' = {}
    /\ UNCHANGED rotten

\* A stored sample changes on its medium, or is tampered with.
Rot(r) ==
    /\ r \in published \ rotten
    /\ rotten' = rotten \cup {r}
    /\ stirred' = stirred \cup {r}
    /\ UNCHANGED <<vars, reader>>

InventoryNext ==
    \/ Read
    \/ Intake
    \/ PowerOff
    \/ \E r \in Request : Rot(r)

InventorySpec == InventoryInit /\ [][InventoryNext]_scanVars

-------------------------------------------------------------------------------
(* Properties                                                                *)

Inventoried == scan.step = "done" /\ scan.kind = "inventory"
Passes == report.bad = {} /\ ~report.residue

\* What a reader accepts is a published pair, and stays one for as long as the power
\* does: a request that may still fail, or that a crash cut short, is never counted
\* among the verified records, whatever moment its names were read at
\* (inventory_quarantine.py:97-101, amiguard-admin main.go:199-207).  Until the
\* directories are synced (amiguard-submit main.go:383-384) a loss of the power may
\* take the pair, and ends the reader with it.
AcceptedIsPublished == report.good \subseteq published

\* No published pair is overlooked: one that was there when the inventory began,
\* and is still sound and could be read, is among the verified records at the end,
\* however many requests come and go meanwhile (inventory_quarantine.py:192-207).
SoundIsVerified ==
    Inventoried => start.sound \ (rotten \cup report.unread) \subseteq report.good

\* A PASS means something: if, when the inventory began, a crash or a failure had
\* left a sample without its record, in .incoming or in a platform directory, or
\* a published sample had changed, then it does not pass and does not count that
\* one as verified (M6_6_QUARANTINE_INVENTORY.md:42-50).
DamageIsReported ==
    Inventoried =>
        /\ start.damaged \cap report.good = {}
        /\ start.damaged # {} => ~Passes

\* A FAIL has a cause: what the inventory calls a bad record was in flight, or was
\* damaged, at some moment of it, or could not be read, and it never fails over a
\* quarantine that was quiet, sound and readable meanwhile
\* (M6_6_QUARANTINE_INVENTORY.md:52).
FailureHasACause ==
    /\ scan.kind = "inventory" => report.bad \subseteq stirred \cup report.unread
    /\ Inventoried /\ ~Passes => stirred \cup report.unread # {}

\* The listing never fails because requests are on their way, or because some were
\* cut short: one bad record would take the whole dashboard from the operator
\* (amiguard-admin main.go:144).  Only a failing read ends it.
ListingNeverFails == scan.kind = "list" => report.bad \subseteq report.unread

===============================================================================
