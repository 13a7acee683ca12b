# AmiGuard intake and quarantine: TLA+ models and proofs

This directory holds a formal model of AmiGuard-Infrastructure: the public intake of
samples (`submit/cmd/amiguard-submit`), the quarantine it fills, and the operator's tools that hand
samples on from it. The modules are checked with TLC on small instances;
the theorems are proved with TLAPS for every value of the constants. Paths below are
relative to the repository; line numbers refer to the same commit.

## 1. The system

| component | source | state it keeps | operations |
|---|---|---|---|
| submission handler | `main.go:249-479` | locals of one request; `<root>/.incoming/.incoming-<id>`, `<root>/<platform>/<id>.sample`, `.metadata-<id>`, `<id>.json` | read the multipart body, copy, place, describe, publish, sync, answer |
| upload abuse guard | `abuse.go` | slot channel, buckets per client, byte window; in memory | `begin`, `done` |
| capacity guard | `main.go:230-247` | none: reads the file system | one check per request |
| intake routes | `main.go:182-228` | none | enabled and method checks, guard, capacity, handler, deferred `done` |
| configuration | `main.go:76-116`, `abuse.go:66-92` | constants of a process | read once at start |
| landing page, receipt, health | `landing.go`, `main.go:185-192, 214-226` | none | formatted output |
| admin command line | `amiguard-admin/main.go` | files of the ASW inbox and of exports | `dashboard`, `list`, `show`, `verify`, `export`, `route` |
| inventory | `scripts/inventory_quarantine.py` | none, but its report | one read-only scan |
| transfer bundle | `scripts/asw_transfer_bundle.py` | a bundle directory | `prepare`, `verify` |
| validators, qualification, deployment | `scripts/validate_*.py`, `deploy/`, `infrastructure/` | none | checks of documents and configuration |

How they interact. Every `POST /api/v1/submissions` runs in a goroutine of its own:
`begin` takes one of two slots, reads the clock and accounts under a mutex;
`quarantineHasCapacity` looks at the file system once; `handleSubmission` then writes
for up to 30 s (the read deadline) while the other slot's request does the same. The
deferred `done` gives the slot back. Requests share the guard's memory and the file
system, never a path, as every id is random. The admin tools, the inventory and the
bundle tool are separate processes that know the intake only through its files; they
may look at any moment, which is why the order of the renames is the contract between
them: **a record `<id>.json` exists only beside its whole sample**.

What is hard here: a commit of two files by renames and directory syncs, with a crash
or a power loss between any two steps; clean-up spread over three places
(`main.go:269`, `:379`, `:407`/`:440`); ignored errors of `Remove` and `syncDir`; parts
that come in any order and number; two deadlines; clock readings that are older than
the windows they are applied to; slots that must come back on every path; a capacity
check whose answer is stale as soon as it is given. `PROJECT.json` lists each hazard at
its line together with the properties aimed at it.

What makes each component correct:

- handler: a published pair is whole, consented to and never changed; a receipt means
  the pair is on the disk; a refusal leaves nothing; only a death leaves orphans; a
  request ends.
- guard: slots are exactly those of requests in flight; no window is overdrawn; what
  a window has consumed was consumed by requests it admitted, and every admitted request has paid,
  one that is refused later included; the traffic over *any* stretch of a window's length is
  bounded; an invalid configuration admits nobody; slots come back.
- capacity guard: the file system stays within a known distance of floor and watermark.
- route of a submission: the guards in this order give each other what they assume (never more
  writers than slots, never more bytes than were paid for), and the slot is given back on
  every way out.
- inventory and listing: what they accept is published; nothing published is overlooked; what
  is damaged is reported, and only what was unsettled is; the listing never fails over
  what the intake does.
- route and export: a complete manifest has the verified sample beside it; a submission is
  handed out once; nothing that was reported is touched again; a failure leaves nothing.
- transfer bundle: what is prepared is whole and complete, whatever route does meanwhile; so is
  what is accepted after the transport under the transfer manifest that was prepared.

## 2. Modules

| module | role |
|---|---|
| `Submission` | the handler over one quarantine file system, its properties and its inductive invariant |
| `QuarantineLedger` | abstract specification: what a submitter is promised |
| `Quarantine` | abstract specification: what those who read the quarantine may see of it |
| `SubmissionProofs`, `SubmissionFilesProofs` | theorems about `Submission`; the second has the clean-up and the refinements of `Quarantine` and `QuarantineLedger` |
| `AbuseGuard`, `AbuseGuardProofs` | the guard and the theorems about it |
| `CapacityGuard`, `CapacityGuardProofs` | the capacity check against the writes it allows, and the theorems about it |
| `IntakeService`, `IntakeServiceProofs` | the submission route: `AbuseGuard` extended, `CapacityGuard` as an instance behind it, and the theorems about both together |
| `Inventory`, `InventoryProofs` | the readers of the quarantine, beside `Quarantine`, which it extends, and the theorems about them |
| `Routing`, `RoutingProofs` | `route` and `export` of several operators, and the theorems about them |
| `TransferBundle`, `TransferBundleProofs` | extends `Routing` by `prepare` over the same inbox, what a transport can make of the bundle, and `verify`; the theorems about it |
| `MCSubmission`, `MCAbuseGuard`, `MCCapacityGuard`, `MCIntakeService`, `MCInventory`, `MCRouting`, `MCTransferBundle` | symmetry sets and small values for TLC; one `.cfg` per run |

Some definitions say "Mutant of" in their comment. They are used by no specification:
each is a plausible slip in the code (a forgotten clean-up, an off-by-one) that the
property named beside it in `PROJECT.json` detects when it takes the place of the
definition it is a mutant of.

### Submission

A request is identified with its random id. The variables:

- `phase`: the statement the handler stands at. One action per operation of the code that
  changes state, so that a crash or a step of another request can come between any two:
  open, copy+sync+close, rename of the sample, creation, write+sync and rename of the
  record, the two directory syncs, the answer.
- `form`: the handler's locals (`platform`, `platformSeen`, `consent`, `sampleSeen`,
  `tempPath # ""`, `digest`).
- `client`: what the client sent, kept to compare with what was stored.
- `sample`, `meta`: the request's two files as the running system sees them: where
  they are, their contents, and whether they were synced.
- `disk`, `dirs`: the names and platform directories that are on the disk.
- `age`, `status`, `answered`: ticks since the header was read; the status the handler
  wrote; whether it could still be sent.

The file system, in `Writeback`, `Survives` and `PowerLoss`: renames are atomic in
memory; they reach the disk when the file system commits (all of them at once, a
journal being ordered, as on the ext4 volume of
`docs/M4_PRODUCTION_VPS_QUALIFICATION.md:47`) or when their directory is synced; a file that
was not synced loses its contents. `Torn` stands for such contents.
A process crash loses only the handlers. A sync of a
platform directory takes along whatever other requests have in it.

A part of the body may be of any kind at any time, any number of times. The size
limit is the code's: `LimitReader(max+1)` and a comparison. A digest is modelled by the
contents it was taken of: equal digests mean equal bytes. An I/O error is an alternative
of the action it can occur in, with the clean-up the code does there.
`MaxBytesReader`, malformed bodies and disconnecting clients are all `BodyFails`, or
`CopyFails` during the copy.

### QuarantineLedger and the refinement

The ledger stores an entry in one step and remembers per submission whether it is open,
acknowledged, refused or abandoned. `ImplementsLedger` maps `stored` to the sample of a
published record, and `outcome` to the status (`abandoned` for a handler that died).
It states in one formula that publication is atomic although it takes two files,
that acknowledged entries survive every failure, and that a refusal is final.

### Quarantine

The contract between the intake and its readers: of each request whether it is fresh, at work or
over (`life`), the directory its sample is in (`place`), whether its record is beside it
(`published`), and which platform directories exist (`spaces`). `Submission!ImplementsQuarantine`
says that the handler keeps to it in each of its steps, crashes and power losses; so the
readers can be checked and proved against this small module instead of the handler.

### AbuseGuard

A process starts under some environment (`configured`). `MaxGlobalBytes` is what
`newUploadAbuseGuard` makes of it: zero, which admits nobody, if budget or window is out of range
(`BudgetInvalid`). `begin` is split where other goroutines get in between: the slot, the clock reading (before
the mutex), the critical section with its three outcomes, and the return of the slot
after a refusal. Ticks of an arbitrary length stand for the clock; 0 is Go's zero time.
`recentBytes` and `recentUploads` are history: they are read by no guard and count, for each
k below the window's length, what was admitted in the current tick and the k before it, so that
a property can speak of *any* stretch of a window's length, not of the guard's own fixed windows.

### CapacityGuard

Sizes are in blocks. A request is let through by the check, then writes block by block up
to `max+1`, then its record; files stay or are removed. The initial file system is
filled in every possible way, and `cfg` is any of the configured floors and watermarks. The code
ignores errors of its removals, so a `Discard` may leave the space taken (`LeftTaken`). That
no more requests ask than there are slots is its assumption about the caller (`Ask`).

### IntakeService

The actions of `AbuseGuard` and those of the instance `Capacity` are conjoined along the route;
`stage` is where the route stands in a request: in `begin`, before the capacity check, in
the handler, on its way out. `NotServed` is the 404 and the 405, `Enter` and `PassBegin` are
`begin`, `AskCapacity` the check, `Receive`, `Describe` and `EndHandler` what the handler does to
the free space, `Return` the deferred `done`. `BodyLimit` is what can be read of a body: its
declared length, or what `MaxBytesReader` allows. `ServiceRestart` starts the next process under
another configuration, uploads enabled or not.

### Inventory

One reader beside the intake, the inventory or the admin tool's listing (`scan.kind`); `loadRecord` is
a listing of one id (`scan.wanted`). It enters one namespace after the other (`EnterPlatform`),
comes to each name (`LookForName`), then loads each record (`LoadRecord`) and looks at its sample
(`CheckSample`), and leaves; the inventory looks into `.incoming` at the end (`Finish`). The two
differ in the names they start from, in whether they hash the sample, and in what a bad record does: the
inventory counts it, the listing ends (`Reject`). A record or a sample that cannot be read, or is
no longer there, is a bad one as well (`FailToRead`, kept in `report.unread`: what the properties say of failures is
said of what could be read). `Rot` changes a stored sample. `start` and
`stirred` are history: what was sound and damaged when the reader began, and which requests
were in flight or damaged at any moment since.

### Routing

Each operator's command is a process, `op[o]`, that stands at a `step` and works for one
`command` on one `id`. `sample[c][s]` is the file that command `c` writes for `s`: in the
inbox for `route`, in the export directory for `export`; `manifest[s]` is the route manifest. Contents
are what the hashes tell apart: absent, being written, genuine, altered.

`loadRecord` with `verifyRecord` is one step, as it only reads (`Begin`). From there every call
that creates, writes or removes a file is a step of its own: `CheckManifest`, the exclusive
`CreateSample`, `CopySample` (the source is read again, and may have changed; the copy may
differ from the stream), `Rehash`, `CreateManifest`, `EncodeManifest` (under the
final name), `SyncManifest`, `Undo`. Each may fail, and then removes what the code removes.
`Kill` ends a command anywhere; `left` remembers what it worked on. A removal that
is reached is assumed to succeed (the code ignores its errors); one that fails for good is,
for the sample, what a kill at that step leaves.

### TransferBundle

One `prepare` (its `stage`) beside the operators of `Routing`, with the loops of
`collect_routes` (`unlisted`, `todo`, `taken`) and of the copying. Each namespace is listed
when its turn comes; a pair is validated, its sample copied and its route copied in three
steps, between any of which a route may be undone or made again. `copy_exclusive`
links a finished copy, so a file of the bundle appears at once; the transfer manifest
(`listing`) does not. `verify` is a predicate (`Verified`, with `VerifiedEntry` for one turn of its
loop): it writes nothing, and `prepare` ends with it too. `Deliveries` is what a transport can
make of the bundle root after `prepare` ended, in success or not: each file delivered, missing,
damaged, or, a route, rewritten into another well-formed one. `AcceptedIsGenuine` quantifies over all of
them, in two parts. Under the transfer manifest that `prepare` wrote, `verify` accepts only what is whole, and
all that was routed before. But nothing authenticates the transfer manifest, so under another one it
accepts more, and the second part says how much: a pair that is not the quarantine's is accepted only if its
route and its entry were rewritten to match, and an entry that was dropped is not missed.
`before` and `quiet` are history variables for the properties.

## 3. Runs

| run | instance | what it shows |
|---|---|---|
| `SubmissionPower` | 2 requests, 2 platforms, files that fit and that do not, crashes, power losses at any moment, syncs succeed | `PublishedPairIsWhole`, `PublishedWithConsent`, `ReceiptIsDurable`, and the refinements `ImplementsLedger` and `ImplementsQuarantine` |
| `SubmissionCrash` | 2 requests, 2 contents, 3 sizes (up to twice over the limit), 2 deadlines, crashes, failing directory syncs | `RefusedLeavesNothing`, `OrphansOnlyFromCrashes`, `PublishedIsImmutable` |
| `SubmissionEnds` | 1 request, failing syncs and removals, fair | `EveryRequestEnds` |
| `AbuseGuardWindows` | 3 goroutines, 2 slots, 1 client, rate 2, a narrow budget, small and excessive lengths, restarts, 5 ticks (two and a half windows) | `SlotsAreHeld`, `WithinQuota`, `BytesOverAnyWindow`, `UploadsOverAnyWindow`, `FreshWindowServesAnyone` |
| `IntakeService` | 2 goroutines, 1 slot, unknown, small and excessive lengths, valid, invalid and default budgets, restarts, any free space, fair | `StoredIsCharged`, `InvalidBudgetClosesIntake`, `OnlyAdmittedPay`, `SlotsComeBack`, and the refinement `ImplementsCapacityGuard` |
| `CapacityMargins` | 3 requests, 2 slots, 2 floors and 2 watermarks | `FloorMargin`, `WatermarkMargin` |
| `Routing` | 2 operators, 2 submissions, `route` and `export` | `RoutedPairIsWhole`, `ReportedIsKept`, `ReportedOnce`, `NothingHalfDone` |
| `TransferBundle` | 1 operator, 2 submissions in 2 namespaces, any delivery of the bundle | `PreparedIsWhole`, `PreparedIsComplete`, `QuietPrepareSucceeds`, `AcceptedIsGenuine` |
| `Inventory` | 2 requests, 2 platforms, failing removals, crashes, power losses, rot, failing reads | `AcceptedIsPublished`, `SoundIsVerified`, `DamageIsReported`, `FailureHasACause`, `ListingNeverFails` |

Bounds, and why they are enough. Two requests suffice for `Submission`: they meet only in
directories (a sync of one carries the names of the other; a directory created
by one is synced by the other), and a third does nothing a second does not; the theorems
of section 5 hold for any number. Two platforms are one that is the default and one that
is not, and two directories of which one may be missing on the disk. A limit of 1 with sizes
1, 2 and 3 has files that fit, that are one over, and that `max+1` truncates. The clock of
`AbuseGuard` stops at `MaxTime`, after at least two and a half windows, so that a renewal, a stale
reading across it and the purge of old buckets all happen; the two window bounds were
also found to be tight (one less is violated) in these instances. Of its three goroutines two hold the slots and
the third is refused one; an unknown length costs what an excessive one does there, and is told apart
in `IntakeService`. `CapacityGuard` needs
one more request than slots to refill a slot. `IntakeService` has one more goroutine than slots,
so that one is turned away while the other is on any of its stages, a budget of two uploads,
and a file system on which the check fails by the floor and by the watermark; what time does to the
windows is the matter of `AbuseGuardWindows`, so two ticks do. One reader with two requests in `Inventory`: a
reader looks at each request by itself, and a second request is one that keeps a directory in
being, or comes and goes, while the first is looked at. Two operators of `Routing` collide on one
submission, and on one submission by different commands; a third finds what the second
finds (and `RoutingProofs` has no bound). In `TransferBundle` one operator does all that
`prepare` can notice of several, one command after the other and each as often as it
likes: routing once more needs the first to be undone.

`CHECK_DEADLOCK FALSE` is said for `Submission` and `Inventory`: there the number of requests is
finite, and the system may stop when all of them are done (and the reader too).

Three runs show where the documents say more than the code does; each is a finding in
`PROJECT.json`:

- `SubmissionAnswered`: `WriteTimeout` (15 s) passes before `ReadTimeout` (30 s), so a slow
  upload is stored and published but its receipt cannot be sent any more.
- `SubmissionDeclined`: several `consent` parts are accepted and the last one wins.
- `CapacityFloorKept`: two uploads that are checked one after the other reserve the same
  room. `FloorMargin` says by how much the floor can be missed.

Three more observations of the same kind are not runs of their own, as the properties that
hold say it: `docs/M6_9_VPS_TO_ASW_TRANSFER.md:15` lists "fail-closed behavior on missing, duplicate,
tampered, malformed, or mismatched transfer artifacts", but a transfer manifest that was itself
tampered with, an entry dropped or rewritten to match a rewritten route and its sample, is accepted
(`asw_transfer_bundle.py:194-217`; `AcceptedIsGenuine` is stated accordingly, and the channel that
the operator chooses has to be the authenticated one of `docs/M6_9_ASW_TRANSFER.md:13`); the watermark reserves nothing, so that one upload can pass it
(`WatermarkMargin`), and the rate window is fixed, so that about twice the documented "6
upload attempts per minute" fit around its end (`UploadsOverAnyWindow`).

## 4. Fairness

`Submission!Fairness`: time passes (`Age`); a request whose body is complete keeps running
(`StoreStep`: no step waits for another request); and once the read deadline has
passed, reading the body returns an error (`http.Server.ReadTimeout`, `main.go:66`). No
fairness is assumed of the client, who may stop sending for good.
`IntakeService!ServiceFairness`: a goroutine that holds a slot takes its next step. The mutex is held
for bounded time, and the handler that `done` follows ends by `EveryRequestEnds`. A goroutine that
holds no slot need not run.

## 5. Proofs

All proofs are of the specifications that TLC runs, for any values of the constants
that satisfy the assumptions stated with them.

`SubmissionProofs`:

- `Invariance`: `IInv` is inductive. Neither of the two safety properties is so by itself:
  `PublishedPairIsWhole` speaks of requests that are published, and to know that the
  rename of the record makes it true, one needs for every earlier phase what the handler's
  locals say about the files. `UploadInv` covers the time in `.incoming` (a set
  `tempPath` names a complete, synced copy of the client's file), `PlacedInv` the time between
  the renames, and `PublishedInv` adds that a record whose name is on the disk has
  its sample's name there too, which makes the invariant survive `PowerLoss`. The
  arithmetic of the limit is the lemma `FittingFileIsCopiedWhole`.
- `TypeCorrect`, `PublishedPairs`, `PublishedConsent` follow from it. They hold with failing
  syncs and removals and for any number of requests.
- `DurableReceipts`: where directory syncs do not fail, an acknowledged pair is on the
  disk. Its strengthening `DurableInv` holds beside `IInv`: it follows the two syncs.
  The code ignores their errors (`main.go:383-384`), hence the hypothesis.

`SubmissionFilesProofs`:

- `Spooling` strengthens `IInv` by what a handler has of its files at each phase (`SpoolInv`):
  that nothing is left before the sample part and after a refused one is what the error returns
  need. With it, where removals succeed and the power stays, every request ends with both files or with
  none (`EndInv`): `RefusedLeaveNothing`, `OrphansFromCrashes`. `PublishedStay` needs only that
  the power stays.
- `SubmissionImplementsQuarantine`: each action is first classified by what it does to the request's
  place, record and life (`StepsWell`: arrives, spools, moves in, publishes, fails, acknowledges, or
  nothing), then each class is matched with the abstract action once. Holds with all
  failures of the environment.
- `SubmissionImplementsLedger`: the same classes, matched with the ledger. It takes `DurableInv`
  (what is acknowledged is on the disk, so a power loss takes only entries the ledger lets go),
  `SpoolsInv` (the status comes last, so an answer is a receipt exactly if the pair is published)
  and `EntryInv` (what is stored is an entry), and, as for `DurableReceipts`, directory syncs that
  do not fail. `ReceiptsAreForGood` reads off the ledger what a submitter cares for: an
  acknowledged request stays acknowledged, its entry unchanged.

`AbuseGuardProofs`, for any finite number of goroutines: `GuardInv` (types, slots, quotas)
is inductive; `SlotAccounting`, `QuotaAccounting` and the type theorem follow, then
`UnspentWindowServes`, `InvalidConfigurationCloses` (with a strengthening of its
own: nobody is admitted).

`AdmittedAndNobodyElsePay` compares the guard's counters with the history of admissions. An
admission always goes into `recentBytes[0]`, but is accounted to the window its clock reading falls in, and
a window is renewed from a reading that may be old already; so what is needed is that a renewal
leaves every admission before it outside, which `NotAhead` (an admitted request was accounted
to the window in force or to an earlier one) and `StartsPast` give (`PaidInv`).

The bounds over any stretch of a window, `AnyWindowBytes` and `AnyWindowUploads`, need more
(`WindowInv`). For each time `a` within a window's length of now it bounds what was admitted since
`a` by the state of the window in force: one that ended by `a` was drawn on since then by *late*
requests only, those whose clock reading is older than `a`; each late request holds a slot for a
single admission, so there are at most as many as there are slots, and one that has gone leaves
its worth to the `Allowance`. A window that started before `a` has itself counted all but those; one that
started since `a` follows at most one other. `Bounded` says this in plain arithmetic,
and the four lemmas about it (`BoundedLoosened`, `BoundedAccounted`, `BoundedRenewed`,
`BoundedForgotten`) are used for bytes and uploads alike. The slot that the renewing request holds itself is
why the bound has one request less than slots.

`CapacityGuardProofs`, for any number of requests and slots, any sizes and any free space to begin
with: what is in flight is a sum over the requests, which is out of the provers' reach, so it
is counted instead. `BlocksOf` is the set of the blocks written, each numbered by its request, and
`BlocksOfStep` shows that a step changes its size by what the one request wrote or gave back.
`MarginInv` then is a potential argument: `MostTaken` is the most that can have been taken since a
request was last let through (one request's writes for each slot that is free by now, what has been
written for each that is in use), and with that much added back, the check would still pass.
`FloorMargins` and `WatermarkMargins` follow.

`RoutingProofs`, for any submissions and any number of operators: the argument is
ownership. From its exclusive creation to its report or removal a sample belongs to one
process, and the manifest is only ever created by the owner of the sample beside it. `RInv`
states that owners exclude each other, what an owner knows at each step (`OwnerInv`), and
that a file without an owner was reported or left by a kill. The lemma `OwnStepInv` proves
once that a step which touches only its own pair keeps all of it; each action then has to
show what it does to that pair (`PairKept`). `RoutedPairs`, `ReportsAreKept`, `ReportsAreUnique`
and `FailuresLeaveNothing` follow. None of the four is inductive: a second command
could be about to remove, or to overwrite, the file that the first reported.

`TransferBundleProofs`, for any submissions, operators and namespaces: the bundle only reads what the
routing writes, so `RInv` carries over. `BundleInv` follows a submission from the
listing into the bundle (`Followed`: what was routed before and is not in the bundle yet is
still ahead) and knows what may be in the transfer manifest at each stage; `PreparedBundlesAreWhole`,
`PreparedBundlesAreComplete` and `AcceptedBundlesAreGenuine` follow from it, the last with
`VerifiedPairIsWhole`: what a delivery can make of a pair is whole, refused, or rewritten in entry and route alike. `QuietInv` says
what a handoff that nobody writes to looks like to `prepare` (`QuietPreparesSucceed`).

`IntakeServiceProofs`: every step of the route is a step of the guard or none
(`ServiceImplementsGuard`), so all theorems of `AbuseGuardProofs` hold of the service
(`ServiceTrafficIsBounded`, `ServiceChargesTheAdmitted`, `InvalidServiceCloses`).
`RouteInv` ties the stage of a request to its slot and its writes; with `SlotsAreHeld` it gives
`ServiceImplementsCapacityGuard`: what `CapacityGuard` assumes is met. So `CapacityGuardProofs`
is instantiated with the requests of the service, and its types and margins are theorems about the
running service (`ServiceTypeCorrectness`, `ServiceKeepsFloorMargin`, `ServiceKeepsWatermarkMargin`).
`StoredBytesAreCharged` needs that the overhead the handler allows is not beyond the one the guard
charges (`ServiceAssumption`; both are 128 KiB in the code), as a file that is being written may
be a byte over the limit.

`InventoryProofs`, for any requests and platforms: `QuarantineInv` gives what a step of the intake
keeps of what is settled (`Kept`: a published pair stays; what is over and unpublished stays
unpublished). `IInv` follows each request through the walk: `Ahead` (its namespace or
name is still to come), `ListedInv`, `FoundInv` (what is known of it once it was listed and
loaded), and for each property what is known of a request that is not ahead any more
(`SoundInv`, `DamageInv`, `CauseInv`). All five properties follow; that they hold needs the order of the
handler's renames, which comes in through `Quarantine`.

Only model-checked: liveness (`EveryRequestEnds`, `SlotsComeBack`), as the prover cannot reason
about fairness. Every other property that a passing run checks is also a theorem. Three theorems
are weaker than one might wish, because the code is: `DurableReceipts`, `SubmissionImplementsLedger`
and `ReceiptsAreForGood` take directory syncs that succeed.

## 6. Not modelled

- Of the configuration: parsing, the address, and a process that does not start. The values
  that a process may run under are the constants of the modules; that a budget or window out of
  range closes the intake is modelled.
- Of the readers: legacy records at the root (the intake writes none), files that are not the
  intake's, and the checks for one id in two places, which the intake cannot bring about (an
  id is random and its files are in one directory). What `show`, `list` and `dashboard` print.
- Power losses in the inbox and in a bundle: the tools sync files but no directories, and
  no document promises that a handoff survives one.
- What the analysis side does with the inbox (its importer is not in this repository).
- Formatting (landing page, receipt, JSON), parsing of addresses and of multipart
  syntax: abstracted to their results. Modes, symlink checks and path joins appear as
  the error alternative of the step they guard.
- Validators, the container qualification script and the deployment files: no state.

## 7. Plan

Done: `Submission` with `QuarantineLedger`; `AbuseGuard`; `CapacityGuard`; `Routing` and
`TransferBundle`; `Quarantine`, `Inventory` and `IntakeService`; the findings; the theorems of section 5.

Left, in this order:

1. An abstract `Handoff` (a submission is handed off at most once, and whole) that `Routing` and
   `TransferBundle` implement.
2. Several readers of `Inventory` with the operators of `Routing` behind them, in one module.
