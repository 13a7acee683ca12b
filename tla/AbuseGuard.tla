------------------------------ MODULE AbuseGuard ------------------------------
(***************************************************************************)
(* uploadAbuseGuard (abuse.go): the upload slots, the request rate of each *)
(* client and the byte budget that all clients share.                      *)
(*                                                                         *)
(* begin is not one step.  The slot is taken on a channel, the clock is    *)
(* read after that and before the mutex, and a refusal gives its slot back *)
(* after the mutex was released; the steps of other goroutines fall in     *)
(* between, so a goroutine may account with a clock reading that is older  *)
(* than the windows it finds.                                              *)
(***************************************************************************)
EXTENDS Integers, FiniteSets

CONSTANTS
    Goroutine,          \* request handlers; each serves one request after another
    Client,             \* values of trustedClientIP
    Declared,           \* values of r.ContentLength (-1 when unknown)
    MaxConcurrent,      \* defaultMaxConcurrentUploads
    MaxRequests,        \* g.maxRequests
    Window,             \* g.window, in ticks
    ByteWindow,         \* g.byteWindow, in ticks
    MaxUpload,          \* cfg.maxUploadBytes
    Overhead,           \* multipartRequestOverhead
    Environment,        \* what the environment may say of budget and window
    Unset,              \* the value of a variable that is not set
    DefaultBudget,      \* defaultGlobalUploadBytes
    BudgetCeiling,      \* maxConfigGlobalUploadBytes
    MaxTime,            \* bound: the clock stops there
    RestartPossible     \* the process may be restarted

ASSUME GuardAssumption ==
    /\ IsFiniteSet(Goroutine)
    /\ Declared \subseteq Int
    /\ {MaxConcurrent, MaxRequests, Window, ByteWindow} \subseteq Nat \ {0}
    /\ MaxUpload \in Nat \ {0} /\ Overhead \in Nat
    /\ Environment \subseteq [budget: Int \cup {Unset}, windowInRange: BOOLEAN]
    /\ Environment # {} /\ Unset \notin Int
    /\ DefaultBudget \in Nat /\ BudgetCeiling \in Nat
    /\ MaxTime \in Nat \ {0}
    /\ RestartPossible \in BOOLEAN

\* newUploadAbuseGuard: what one request can cost at most.
MaxRequestCharge == MaxUpload + Overhead

VARIABLES
    configured,     \* the environment of the running process
    now,            \* the clock; it starts at 1, as 0 stands for the zero time
    pc,             \* where each goroutine stands
    stamp,          \* the clock reading of its request
    client,         \* the client of its request
    declared,       \* the declared length of its request
    slots,          \* len(g.slots)
    buckets,        \* g.buckets; the zero bucket stands for a missing key
    globalBytes,
    globalBytesStarted,
    recentBytes,    \* history of this process: for each k < ByteWindow, the bytes
                    \* admitted in the current tick and in the k ticks before it
    recentUploads   \* history: the requests of each client, likewise

request == <<stamp, client, declared>>
budget  == <<buckets, globalBytes, globalBytesStarted>>
history == <<recentBytes, recentUploads>>
vars    == <<configured, now, pc, stamp, client, declared, slots, buckets,
             globalBytes, globalBytesStarted, recentBytes, recentUploads>>

NoBucket == [started |-> 0, count |-> 0]
Steps    == {"idle", "slot", "stamped", "refused", "admitted"}
Holders  == {g \in Goroutine : pc[g] # "idle"}

TypeOK ==
    /\ configured \in Environment
    /\ now \in 1 .. MaxTime
    /\ pc \in [Goroutine -> Steps]
    /\ stamp \in [Goroutine -> 0 .. MaxTime]
    /\ client \in [Goroutine -> Client]
    /\ declared \in [Goroutine -> Declared]
    /\ slots \in Nat
    /\ buckets \in [Client -> [started: 0 .. MaxTime, count: Nat]]
    /\ globalBytes \in Nat
    /\ globalBytesStarted \in 0 .. MaxTime
    /\ recentBytes \in [0 .. ByteWindow - 1 -> Nat]
    /\ recentUploads \in [Client -> [0 .. Window - 1 -> Nat]]

Init ==
    /\ configured \in Environment
    /\ now = 1
    /\ pc = [g \in Goroutine |-> "idle"]
    /\ stamp = [g \in Goroutine |-> 0]
    /\ client \in {[g \in Goroutine |-> c] : c \in Client}
    /\ declared \in {[g \in Goroutine |-> d] : d \in Declared}
    /\ slots = 0
    /\ buckets = [c \in Client |-> NoBucket]
    /\ globalBytes = 0
    /\ globalBytesStarted = 0
    /\ recentBytes = [k \in 0 .. ByteWindow - 1 |-> 0]
    /\ recentUploads = [c \in Client |-> [k \in 0 .. Window - 1 |-> 0]]

\* What globalUploadBudgetConfig refuses: a budget that does not cover one request
\* or is beyond the ceiling, a window out of range.
BudgetInvalid ==
    \/ DefaultBudget < MaxRequestCharge
    \/ configured.budget # Unset /\ configured.budget \notin MaxRequestCharge .. BudgetCeiling
    \/ ~configured.windowInRange

\* Mutant of MaxGlobalBytes: what is out of range falls back to the default.
MaxGlobalBytesOrDefault ==
    IF BudgetInvalid \/ configured.budget = Unset THEN DefaultBudget
    ELSE configured.budget

\* g.maxGlobalBytes: newUploadAbuseGuard closes the intake rather than fall back.
MaxGlobalBytes ==
    IF BudgetInvalid THEN 0
    ELSE IF configured.budget = Unset THEN DefaultBudget
    ELSE configured.budget

-------------------------------------------------------------------------------
(* begin                                                                     *)

TakeSlot(g) ==
    /\ pc[g] = "idle"
    /\ slots < MaxConcurrent
    /\ slots' = slots + 1
    /\ pc' = [pc EXCEPT ![g] = "slot"]
    /\ UNCHANGED <<configured, now, request, budget, history>>

\* Mutant of Busy: every refusal gives a slot back, taken or not.
BusyGivingBack(g) ==
    /\ pc[g] = "idle"
    /\ slots >= MaxConcurrent
    /\ slots' = slots - 1
    /\ UNCHANGED <<configured, now, pc, request, budget, history>>

\* No slot is free: 429 at once, before anything is accounted.
Busy(g) ==
    /\ pc[g] = "idle"
    /\ slots >= MaxConcurrent
    /\ UNCHANGED vars

\* now := time.Now(); client := trustedClientIP(r)
ReadClock(g) ==
    /\ pc[g] = "slot"
    /\ stamp' = [stamp EXCEPT ![g] = now]
    /\ \E c \in Client : client' = [client EXCEPT ![g] = c]
    /\ \E d \in Declared : declared' = [declared EXCEPT ![g] = d]
    /\ pc' = [pc EXCEPT ![g] = "stamped"]
    /\ UNCHANGED <<configured, now, slots, budget, history>>

\* The buckets that are left when those two windows old at time t were deleted.
Purged(t) ==
    [c \in Client |->
       IF t - buckets[c].started >= 2 * Window THEN NoBucket ELSE buckets[c]]

\* The bucket a request of client c accounts to at time t.
BucketAt(c, t) ==
    LET b == Purged(t)[c] IN
    IF b.started = 0 \/ t - b.started >= Window
      THEN [started |-> t, count |-> 0]
      ELSE b

\* Mutants of Charge: an unknown length costs what it says; a length beyond the
\* limit costs itself; the overhead is not charged.
ChargeAsDeclared(length) ==
    IF length > MaxRequestCharge THEN MaxRequestCharge ELSE length

ChargeUncapped(length) ==
    IF length <= 0 THEN MaxRequestCharge ELSE length

ChargeSampleOnly(length) ==
    IF length <= 0 \/ length > MaxUpload THEN MaxUpload ELSE length

Charge(length) ==
    IF length <= 0 \/ length > MaxRequestCharge THEN MaxRequestCharge ELSE length

\* Mutant of WindowAt: any reading but the one that started it renews the window.
WindowAtEachReading(t) ==
    IF globalBytesStarted # t
      THEN [started |-> t, bytes |-> 0]
      ELSE [started |-> globalBytesStarted, bytes |-> globalBytes]

\* What the byte window has consumed at time t, and when it started.
WindowAt(t) ==
    IF globalBytesStarted = 0 \/ t - globalBytesStarted >= ByteWindow
      THEN [started |-> t, bytes |-> 0]
      ELSE [started |-> globalBytesStarted, bytes |-> globalBytes]

\* Mutant of RateExceeded: one request too many.
RateExceededLate(g) == BucketAt(client[g], stamp[g]).count > MaxRequests

\* Mutant of BudgetExceeded: only what is already spent is looked at.
BudgetSpent(g) == WindowAt(stamp[g]).bytes >= MaxGlobalBytes

RateExceeded(g) == BucketAt(client[g], stamp[g]).count >= MaxRequests
BudgetExceeded(g) ==
    Charge(declared[g]) > MaxGlobalBytes - WindowAt(stamp[g]).bytes

\* The critical section, for a client over its rate: only the purge stays.
RefuseRate(g) ==
    /\ pc[g] = "stamped"
    /\ RateExceeded(g)
    /\ buckets' = Purged(stamp[g])
    /\ pc' = [pc EXCEPT ![g] = "refused"]
    /\ UNCHANGED <<configured, now, request, slots, globalBytes, globalBytesStarted, history>>

\* Mutant of RefuseBudget: the request is counted before the budget is looked at.
RefuseBudgetCounting(g) ==
    /\ pc[g] = "stamped"
    /\ ~RateExceeded(g)
    /\ MaxGlobalBytes <= 0 \/ BudgetExceeded(g)
    /\ buckets' = [Purged(stamp[g]) EXCEPT
                     ![client[g]] = [BucketAt(client[g], stamp[g]) EXCEPT !.count = @ + 1]]
    /\ globalBytes' = WindowAt(stamp[g]).bytes
    /\ globalBytesStarted' = WindowAt(stamp[g]).started
    /\ pc' = [pc EXCEPT ![g] = "refused"]
    /\ UNCHANGED <<configured, now, request, slots, history>>

\* The critical section, for a charge the budget does not cover.  The byte window
\* may have been renewed; the client's bucket is not.
RefuseBudget(g) ==
    /\ pc[g] = "stamped"
    /\ ~RateExceeded(g)
    /\ MaxGlobalBytes <= 0 \/ BudgetExceeded(g)
    /\ buckets' = Purged(stamp[g])
    /\ globalBytes' = WindowAt(stamp[g]).bytes
    /\ globalBytesStarted' = WindowAt(stamp[g]).started
    /\ pc' = [pc EXCEPT ![g] = "refused"]
    /\ UNCHANGED <<configured, now, request, slots, history>>

Admit(g) ==
    /\ pc[g] = "stamped"
    /\ ~RateExceeded(g)
    /\ MaxGlobalBytes > 0 /\ ~BudgetExceeded(g)
    /\ buckets' = [Purged(stamp[g]) EXCEPT
                     ![client[g]] = [BucketAt(client[g], stamp[g]) EXCEPT !.count = @ + 1]]
    /\ globalBytes' = WindowAt(stamp[g]).bytes + Charge(declared[g])
    /\ globalBytesStarted' = WindowAt(stamp[g]).started
    /\ pc' = [pc EXCEPT ![g] = "admitted"]
    /\ recentBytes' = [k \in 0 .. ByteWindow - 1 |-> recentBytes[k] + Charge(declared[g])]
    /\ recentUploads' =
         [recentUploads EXCEPT ![client[g]] = [k \in 0 .. Window - 1 |-> @[k] + 1]]
    /\ UNCHANGED <<configured, now, request, slots>>

\* Mutant of GiveBack and of Done: the slot is forgotten.
ReturnWithSlot(g) ==
    /\ pc[g] \in {"refused", "admitted"}
    /\ pc' = [pc EXCEPT ![g] = "idle"]
    /\ UNCHANGED <<configured, now, request, slots, budget, history>>

\* <-g.slots after a refusal.
GiveBack(g) ==
    /\ pc[g] = "refused"
    /\ slots' = slots - 1
    /\ pc' = [pc EXCEPT ![g] = "idle"]
    /\ UNCHANGED <<configured, now, request, budget, history>>

\* The deferred done of the submission route, on every way out of the handler.
Done(g) ==
    /\ pc[g] = "admitted"
    /\ slots' = slots - 1
    /\ pc' = [pc EXCEPT ![g] = "idle"]
    /\ UNCHANGED <<configured, now, request, budget, history>>

-------------------------------------------------------------------------------

Tick ==
    /\ now < MaxTime
    /\ now' = now + 1
    /\ recentBytes' = [k \in 0 .. ByteWindow - 1 |-> IF k = 0 THEN 0 ELSE recentBytes[k - 1]]
    /\ recentUploads' =
         [c \in Client |->
            [k \in 0 .. Window - 1 |-> IF k = 0 THEN 0 ELSE recentUploads[c][k - 1]]]
    /\ UNCHANGED <<configured, pc, request, slots, budget>>

\* The guard lives in memory: a restarted process starts from nothing, and has
\* admitted nothing yet.  It reads its environment again.
Restart ==
    /\ RestartPossible
    /\ configured' \in Environment
    /\ pc' = [g \in Goroutine |-> "idle"]
    /\ slots' = 0
    /\ buckets' = [c \in Client |-> NoBucket]
    /\ globalBytes' = 0
    /\ globalBytesStarted' = 0
    /\ recentBytes' = [k \in 0 .. ByteWindow - 1 |-> 0]
    /\ recentUploads' = [c \in Client |-> [k \in 0 .. Window - 1 |-> 0]]
    /\ UNCHANGED <<now, request>>

Begin(g) ==
    \/ TakeSlot(g) \/ Busy(g) \/ ReadClock(g)
    \/ RefuseRate(g) \/ RefuseBudget(g) \/ Admit(g) \/ GiveBack(g)

Next ==
    \/ \E g \in Goroutine : Begin(g) \/ Done(g)
    \/ Tick
    \/ Restart

Spec == Init /\ [][Next]_vars

-------------------------------------------------------------------------------
(* Properties                                                                *)

\* Every taken slot belongs to exactly one request that is on its way to give it
\* back, on all three refusals as on success, and there are never more than
\* MaxConcurrent of them (abuse.go:98-104, 125, 151, 163).
SlotsAreHeld ==
    /\ slots = Cardinality(Holders)
    /\ slots <= MaxConcurrent

\* The shared window never holds more than the budget, and a client's bucket never
\* more than its rate, whatever clock readings the requests account with.
WithinQuota ==
    /\ globalBytes <= MaxGlobalBytes
    /\ \A c \in Client : buckets[c].count <= MaxRequests

\* What was admitted within ByteWindow ticks, and from a client within Window ticks.
RecentBytes == recentBytes[ByteWindow - 1]
RecentUploads(c) == recentUploads[c][Window - 1]

\* How many bytes the guard lets through in any stretch of ByteWindow ticks: two
\* windows' worth at their common boundary, and beyond that only what requests
\* that already held a slot with an older clock reading can add.
BytesOverAnyWindow ==
    RecentBytes <= 2 * MaxGlobalBytes + (MaxConcurrent - 1) * MaxRequestCharge

\* The same for the requests of one client in any stretch of Window ticks.
UploadsOverAnyWindow ==
    \A c \in Client : RecentUploads(c) <= 2 * MaxRequests + MaxConcurrent - 1

\* What the byte window in force has consumed was all charged since it started...
BytesAreOfAdmitted ==
    now - globalBytesStarted < ByteWindow =>
        globalBytes <= recentBytes[now - globalBytesStarted]

\* ...and what a client's bucket counts are requests admitted since that was.
UploadsAreOfAdmitted ==
    \A c \in Client :
        now - buckets[c].started < Window =>
            buckets[c].count <= recentUploads[c][now - buckets[c].started]

\* An admitted request has paid its charge to the window its clock reading is in.
AdmittedHavePaid ==
    \A g \in Goroutine :
        pc[g] = "admitted" /\ globalBytesStarted <= stamp[g] =>
            Charge(declared[g]) <= globalBytes

\* Rate and budget are drawn on by the requests that begin admits, and by no others:
\* a refusal for want of a slot, of rate or of budget costs nobody anything, in
\* whichever order requests with older and newer clock readings account
\* (abuse.go:95-161; M5_8_UPLOAD_BUDGET_ACCOUNTING.md:23).  Those do pay, and nothing
\* is paid back as long as they are in flight: an admitted request that the capacity
\* check answers 503 (main.go:206-211), or whose body is refused, costs as much as one
\* that is stored (abuse.go:135-136; M5_8_UPLOAD_BUDGET_ACCOUNTING.md:25).
OnlyAdmittedPay == BytesAreOfAdmitted /\ UploadsAreOfAdmitted /\ AdmittedHavePaid

\* As long as the intake is configured, no single request is too dear for it: a
\* request that finds an unspent window is covered, whatever length it declares
\* (abuse.go:47, 77-80, 141-145).
FreshWindowServesAnyone ==
    \A g \in Goroutine :
        pc[g] = "stamped" /\ WindowAt(stamp[g]).bytes = 0 /\ MaxGlobalBytes > 0
            => ~BudgetExceeded(g)

\* A process whose budget or window is out of range admits nobody, whatever the
\* process before it did: invalid configuration never weakens the intake
\* (abuse.go:49-54, 74-90, 145).
InvalidBudgetClosesIntake ==
    BudgetInvalid =>
        /\ \A g \in Goroutine : pc[g] # "admitted"
        /\ globalBytes = 0

\* Slots come back: however requests interleave and however they end, again and
\* again there is room for another upload.
SlotsComeBack == []<>(slots < MaxConcurrent)
===============================================================================
