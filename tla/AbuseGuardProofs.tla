--------------------------- MODULE AbuseGuardProofs ---------------------------
(***************************************************************************)
(* Proofs about AbuseGuard, for any finite number of goroutines, any       *)
(* clients, lengths, limits and windows, under every configuration, with   *)
(* or without restarts.                                                    *)
(***************************************************************************)
EXTENDS AbuseGuard, FiniteSetTheorems, TLAPS

GuardInv == TypeOK /\ SlotsAreHeld /\ WithinQuota

\* A request is charged at least one byte and at most one request's maximum.
LEMMA ChargeType ==
    ASSUME NEW d \in Declared
    PROVE  Charge(d) \in 1 .. MaxRequestCharge /\ MaxRequestCharge \in Nat
BY GuardAssumption DEF Charge, MaxRequestCharge

\* The budget is a number: 0 when the configuration is invalid, and enough for one
\* request otherwise.
LEMMA BudgetType ==
    ASSUME TypeOK
    PROVE  /\ MaxGlobalBytes \in Nat
           /\ MaxGlobalBytes > 0 => MaxGlobalBytes >= MaxRequestCharge
<1>1. /\ configured.budget \in Int \/ configured.budget = Unset
      /\ DefaultBudget \in Nat /\ BudgetCeiling \in Nat /\ MaxRequestCharge \in Nat
  BY GuardAssumption DEF TypeOK, MaxRequestCharge
<1>2. CASE BudgetInvalid
  BY <1>2 DEF MaxGlobalBytes
<1>3. CASE ~BudgetInvalid
  <2>1. DefaultBudget >= MaxRequestCharge
    BY <1>1, <1>3 DEF BudgetInvalid
  <2>2. CASE configured.budget = Unset
    BY <1>1, <1>3, <2>1, <2>2 DEF MaxGlobalBytes
  <2>3. CASE configured.budget # Unset
    <3>1. configured.budget \in MaxRequestCharge .. BudgetCeiling
      BY <1>3, <2>3 DEF BudgetInvalid
    <3>2. MaxGlobalBytes = configured.budget
      BY <1>3, <2>3 DEF MaxGlobalBytes
    <3> QED
      BY <1>1, <3>1, <3>2
  <2> QED
    BY <2>2, <2>3
<1> QED
  BY <1>2, <1>3

\* It changes with the configuration only.
LEMMA BudgetKept ==
    ASSUME configured' = configured
    PROVE  MaxGlobalBytes' = MaxGlobalBytes /\ BudgetInvalid' = BudgetInvalid
BY DEF MaxGlobalBytes, BudgetInvalid

\* The purge leaves buckets, and none fuller than before.
LEMMA PurgeType ==
    ASSUME TypeOK, WithinQuota, NEW t \in 0 .. MaxTime
    PROVE  /\ Purged(t) \in [Client -> [started: 0 .. MaxTime, count: Nat]]
           /\ \A c \in Client : Purged(t)[c].count <= buckets[c].count
           /\ \A c \in Client : Purged(t)[c].count <= MaxRequests
<1>1. NoBucket \in [started: 0 .. MaxTime, count: Nat] /\ NoBucket.count = 0
  BY GuardAssumption DEF NoBucket
<1>2. ASSUME NEW c \in Client
      PROVE  /\ Purged(t)[c] \in {NoBucket, buckets[c]}
             /\ buckets[c] \in [started: 0 .. MaxTime, count: Nat]
  BY DEF Purged, TypeOK
<1>3. Purged(t) = [c \in Client |-> Purged(t)[c]]
  BY DEF Purged
<1>4. Purged(t) \in [Client -> [started: 0 .. MaxTime, count: Nat]]
  BY <1>1, <1>2, <1>3
<1>5. ASSUME NEW c \in Client
      PROVE  /\ Purged(t)[c].count <= buckets[c].count
             /\ Purged(t)[c].count <= MaxRequests
  <2>1. buckets[c].count \in Nat /\ buckets[c].count <= MaxRequests /\ MaxRequests \in Nat
    BY <1>2, GuardAssumption DEF WithinQuota
  <2> QED
    BY <1>1, <1>2, <2>1
<1> QED
  BY <1>4, <1>5

\* The bucket a request accounts to is one.
LEMMA BucketType ==
    ASSUME TypeOK, WithinQuota, NEW t \in 0 .. MaxTime, NEW c \in Client
    PROVE  BucketAt(c, t) \in [started: 0 .. MaxTime, count: Nat]
BY PurgeType DEF BucketAt

\* The window a request accounts to is within the budget.
LEMMA WindowType ==
    ASSUME TypeOK, WithinQuota, NEW t \in 0 .. MaxTime
    PROVE  /\ WindowAt(t).started \in 0 .. MaxTime
           /\ WindowAt(t).bytes \in 0 .. MaxGlobalBytes
BY BudgetType DEF WindowAt, TypeOK, WithinQuota

-------------------------------------------------------------------------------
(* Slots                                                                     *)

\* Only finitely many requests hold a slot.
LEMMA HoldersFinite ==
    IsFiniteSet(Holders) /\ Cardinality(Holders) \in Nat
<1>1. Holders \subseteq Goroutine
  BY DEF Holders
<1> QED
  BY <1>1, GuardAssumption, FS_Subset, FS_CardinalityType

\* One goroutine takes a slot.
LEMMA HolderAdded ==
    ASSUME TypeOK, NEW g \in Goroutine, pc[g] = "idle",
           NEW s \in Steps \ {"idle"}, pc' = [pc EXCEPT ![g] = s]
    PROVE  Cardinality(Holders') = Cardinality(Holders) + 1
<1>1. Holders' = Holders \cup {g} /\ g \notin Holders
  BY DEF Holders, TypeOK
<1> QED
  BY <1>1, HoldersFinite, FS_AddElement

\* One goroutine gives its slot back.
LEMMA HolderRemoved ==
    ASSUME TypeOK, NEW g \in Goroutine, pc[g] # "idle", pc' = [pc EXCEPT ![g] = "idle"]
    PROVE  Cardinality(Holders') = Cardinality(Holders) - 1 /\ Cardinality(Holders) # 0
<1>1. Holders' = Holders \ {g} /\ g \in Holders
  BY DEF Holders, TypeOK
<1>2. Cardinality(Holders) # 0
  BY <1>1, HoldersFinite, FS_EmptySet
<1> QED
  BY <1>1, <1>2, HoldersFinite, FS_RemoveElement

\* One goroutine goes on with the slot it has.
LEMMA HolderKept ==
    ASSUME TypeOK, NEW g \in Goroutine, pc[g] # "idle",
           NEW s \in Steps \ {"idle"}, pc' = [pc EXCEPT ![g] = s]
    PROVE  Holders' = Holders
BY DEF Holders, TypeOK

-------------------------------------------------------------------------------
(* The inductive invariant                                                   *)

\* The guard starts within the invariant.
LEMMA GuardInit == Init => GuardInv
<1> SUFFICES ASSUME Init PROVE GuardInv
  OBVIOUS
<1>1. TypeOK
  BY GuardAssumption DEF Init, TypeOK, Steps, NoBucket
<1>2. Holders = {}
  BY DEF Init, Holders
<1>3. SlotsAreHeld
  BY <1>2, FS_EmptySet, GuardAssumption DEF Init, SlotsAreHeld
<1>4. WithinQuota
  BY <1>1, GuardAssumption, BudgetType DEF Init, WithinQuota, NoBucket
<1> QED
  BY <1>1, <1>3, <1>4 DEF GuardInv

\* A slot is taken by a request that had none.
LEMMA TakeSlotInv ==
    ASSUME GuardInv, NEW g \in Goroutine, TakeSlot(g)
    PROVE  GuardInv'
<1>1. /\ pc[g] = "idle" /\ pc' = [pc EXCEPT ![g] = "slot"]
      /\ slots < MaxConcurrent /\ slots' = slots + 1
      /\ UNCHANGED <<configured, now, stamp, client, declared, buckets, globalBytes,
                     globalBytesStarted, recentBytes, recentUploads>>
  BY DEF TakeSlot, request, budget, history
<1>2. Cardinality(Holders') = Cardinality(Holders) + 1
  BY <1>1, HolderAdded DEF GuardInv, Steps
<1>3. TypeOK'
  BY <1>1 DEF GuardInv, TypeOK, Steps
<1>4. SlotsAreHeld'
  BY <1>1, <1>2, GuardAssumption DEF GuardInv, TypeOK, SlotsAreHeld
<1>5. WithinQuota'
  BY <1>1, BudgetKept DEF GuardInv, WithinQuota
<1> QED
  BY <1>3, <1>4, <1>5 DEF GuardInv

\* A step from one holding position to another changes nothing about slots.
LEMMA SlotKept ==
    ASSUME GuardInv, NEW g \in Goroutine, pc[g] # "idle",
           NEW s \in Steps \ {"idle"}, pc' = [pc EXCEPT ![g] = s], slots' = slots
    PROVE  SlotsAreHeld' /\ pc' \in [Goroutine -> Steps]
<1>1. Holders' = Holders
  BY HolderKept DEF GuardInv
<1>2. SlotsAreHeld'
  BY <1>1 DEF GuardInv, SlotsAreHeld
<1> QED
  BY <1>2 DEF GuardInv, TypeOK

\* The clock is read outside the mutex.
LEMMA ReadClockInv ==
    ASSUME GuardInv, NEW g \in Goroutine, ReadClock(g)
    PROVE  GuardInv'
<1>1. /\ pc[g] # "idle" /\ pc' = [pc EXCEPT ![g] = "stamped"]
      /\ UNCHANGED <<configured, now, slots, buckets, globalBytes,
                     globalBytesStarted, recentBytes, recentUploads>>
  BY DEF ReadClock, budget, history
<1>2. /\ stamp' \in [Goroutine -> 0 .. MaxTime]
      /\ client' \in [Goroutine -> Client]
      /\ declared' \in [Goroutine -> Declared]
  BY GuardAssumption DEF ReadClock, GuardInv, TypeOK
<1>3. SlotsAreHeld' /\ pc' \in [Goroutine -> Steps]
  BY <1>1, SlotKept DEF Steps
<1>4. TypeOK'
  BY <1>1, <1>2, <1>3 DEF GuardInv, TypeOK
<1>5. WithinQuota'
  BY <1>1, BudgetKept DEF GuardInv, WithinQuota
<1> QED
  BY <1>3, <1>4, <1>5 DEF GuardInv

\* A refusal by rate only purges.
LEMMA RefuseRateInv ==
    ASSUME GuardInv, NEW g \in Goroutine, RefuseRate(g)
    PROVE  GuardInv'
<1>1. /\ pc[g] # "idle" /\ pc' = [pc EXCEPT ![g] = "refused"]
      /\ buckets' = Purged(stamp[g])
      /\ UNCHANGED <<configured, now, stamp, client, declared, slots, globalBytes,
                     globalBytesStarted, recentBytes, recentUploads>>
  BY DEF RefuseRate, request, history
<1>2. stamp[g] \in 0 .. MaxTime
  BY DEF GuardInv, TypeOK
<1>3. SlotsAreHeld' /\ pc' \in [Goroutine -> Steps]
  BY <1>1, SlotKept DEF Steps
<1>4. TypeOK'
  BY <1>1, <1>2, <1>3, PurgeType DEF GuardInv, TypeOK
<1>5. WithinQuota'
  BY <1>1, <1>2, PurgeType, BudgetKept DEF GuardInv, WithinQuota
<1> QED
  BY <1>3, <1>4, <1>5 DEF GuardInv

\* A refusal by budget purges, and may renew the window.
LEMMA RefuseBudgetInv ==
    ASSUME GuardInv, NEW g \in Goroutine, RefuseBudget(g)
    PROVE  GuardInv'
<1>1. /\ pc[g] # "idle" /\ pc' = [pc EXCEPT ![g] = "refused"]
      /\ buckets' = Purged(stamp[g])
      /\ globalBytes' = WindowAt(stamp[g]).bytes
      /\ globalBytesStarted' = WindowAt(stamp[g]).started
      /\ UNCHANGED <<configured, now, stamp, client, declared, slots, recentBytes, recentUploads>>
  BY DEF RefuseBudget, request, history
<1>2. stamp[g] \in 0 .. MaxTime
  BY DEF GuardInv, TypeOK
<1>3. SlotsAreHeld' /\ pc' \in [Goroutine -> Steps]
  BY <1>1, SlotKept DEF Steps
<1>4. /\ globalBytes' \in 0 .. MaxGlobalBytes /\ globalBytesStarted' \in 0 .. MaxTime
  BY <1>1, <1>2, WindowType DEF GuardInv
<1>5. TypeOK'
  <2>1. buckets' \in [Client -> [started: 0 .. MaxTime, count: Nat]]
    BY <1>1, <1>2, PurgeType DEF GuardInv
  <2>2. globalBytes' \in Nat
    BY <1>4, BudgetType DEF GuardInv
  <2> QED
    BY <1>1, <1>3, <1>4, <2>1, <2>2 DEF GuardInv, TypeOK
<1>6. WithinQuota'
  BY <1>1, <1>2, <1>4, PurgeType, BudgetType, BudgetKept DEF GuardInv, WithinQuota
<1> QED
  BY <1>3, <1>5, <1>6 DEF GuardInv

\* An admission charges no more than what is left of rate and budget.
LEMMA AdmitInv ==
    ASSUME GuardInv, NEW g \in Goroutine, Admit(g)
    PROVE  GuardInv'
<1> DEFINE t == stamp[g]
           c == client[g]
           charge == Charge(declared[g])
           b == BucketAt(c, t)
<1>1. /\ pc[g] # "idle" /\ pc' = [pc EXCEPT ![g] = "admitted"]
      /\ b.count < MaxRequests
      /\ charge <= MaxGlobalBytes - WindowAt(t).bytes
      /\ buckets' = [Purged(t) EXCEPT ![c] = [b EXCEPT !.count = @ + 1]]
      /\ globalBytes' = WindowAt(t).bytes + charge
      /\ globalBytesStarted' = WindowAt(t).started
      /\ recentBytes' = [k \in 0 .. ByteWindow - 1 |-> recentBytes[k] + charge]
      /\ recentUploads' =
           [recentUploads EXCEPT ![c] = [k \in 0 .. Window - 1 |-> @[k] + 1]]
      /\ UNCHANGED <<configured, now, stamp, client, declared, slots>>
  <2>1. b.count \in Nat /\ MaxRequests \in Nat
    BY BucketType, GuardAssumption DEF GuardInv, TypeOK
  <2>2. charge \in Int /\ MaxGlobalBytes - WindowAt(t).bytes \in Int
    BY ChargeType, WindowType, BudgetType DEF GuardInv, TypeOK
  <2> QED
    BY <2>1, <2>2 DEF Admit, RateExceeded, BudgetExceeded, request
<1>2. t \in 0 .. MaxTime /\ c \in Client /\ charge \in Nat
  BY ChargeType DEF GuardInv, TypeOK
<1>3. SlotsAreHeld' /\ pc' \in [Goroutine -> Steps]
  BY <1>1, SlotKept DEF Steps
<1>4. b \in [started: 0 .. MaxTime, count: Nat]
  BY <1>2, BucketType DEF GuardInv
<1>5. /\ Purged(t) \in [Client -> [started: 0 .. MaxTime, count: Nat]]
      /\ \A x \in Client : Purged(t)[x].count <= MaxRequests
  BY <1>2, PurgeType DEF GuardInv
<1>6. WindowAt(t).bytes \in 0 .. MaxGlobalBytes /\ WindowAt(t).started \in 0 .. MaxTime
  BY <1>2, WindowType DEF GuardInv
<1> HIDE DEF t, c, charge, b
<1>7. globalBytes' \in 0 .. MaxGlobalBytes
  BY <1>1, <1>2, <1>6, BudgetType DEF GuardInv
<1>8. /\ [b EXCEPT !.count = @ + 1] \in [started: 0 .. MaxTime, count: Nat]
      /\ [b EXCEPT !.count = @ + 1].count <= MaxRequests
  BY <1>1, <1>4, GuardAssumption
<1>9. /\ buckets' \in [Client -> [started: 0 .. MaxTime, count: Nat]]
      /\ \A x \in Client : buckets'[x].count <= MaxRequests
  BY <1>1, <1>2, <1>5, <1>8
<1>10. recentBytes' \in [0 .. ByteWindow - 1 -> Nat]
  <2>1. \A k \in 0 .. ByteWindow - 1 : recentBytes[k] \in Nat
    BY DEF GuardInv, TypeOK
  <2>2. \A k \in 0 .. ByteWindow - 1 : recentBytes[k] + charge \in Nat
    BY <1>2, <2>1
  <2> QED
    BY <1>1, <2>2
<1>11. recentUploads' \in [Client -> [0 .. Window - 1 -> Nat]]
  <2>1. recentUploads \in [Client -> [0 .. Window - 1 -> Nat]]
    BY DEF GuardInv, TypeOK
  <2>2. \A k \in 0 .. Window - 1 : recentUploads[c][k] \in Nat
    BY <1>2, <2>1
  <2>3. [k \in 0 .. Window - 1 |-> recentUploads[c][k] + 1] \in [0 .. Window - 1 -> Nat]
    BY <2>2
  <2> QED
    BY <1>1, <1>2, <2>1, <2>3
<1>12. TypeOK'
  <2>1. globalBytes' \in Nat
    BY <1>7, BudgetType DEF GuardInv
  <2>2. /\ globalBytesStarted' \in 0 .. MaxTime
        /\ UNCHANGED <<configured, now, stamp, client, declared, slots>>
    BY <1>1, <1>6
  <2> QED
    BY <1>3, <1>9, <1>10, <1>11, <2>1, <2>2 DEF GuardInv, TypeOK
<1>13. WithinQuota'
  BY <1>1, <1>7, <1>9, BudgetType, BudgetKept DEF GuardInv, WithinQuota
<1> QED
  BY <1>3, <1>12, <1>13 DEF GuardInv

\* GiveBack and Done.
LEMMA SlotReturned ==
    ASSUME GuardInv, NEW g \in Goroutine, pc[g] # "idle",
           slots' = slots - 1, pc' = [pc EXCEPT ![g] = "idle"],
           UNCHANGED <<configured, now, request, budget, history>>
    PROVE  GuardInv'
<1>1. UNCHANGED <<configured, now, stamp, client, declared, buckets, globalBytes,
                  globalBytesStarted, recentBytes, recentUploads>>
  BY DEF request, budget, history
<1>2. /\ Cardinality(Holders') = Cardinality(Holders) - 1
      /\ Cardinality(Holders) # 0 /\ Cardinality(Holders) \in Nat
  BY HolderRemoved, HoldersFinite DEF GuardInv
<1>3. slots = Cardinality(Holders) /\ slots <= MaxConcurrent /\ MaxConcurrent \in Nat
  BY GuardAssumption DEF GuardInv, SlotsAreHeld
<1>4. slots' \in Nat /\ slots' <= MaxConcurrent /\ slots' = Cardinality(Holders')
  BY <1>2, <1>3
<1>5. TypeOK'
  BY <1>1, <1>4 DEF GuardInv, TypeOK, Steps
<1>6. SlotsAreHeld'
  BY <1>4 DEF SlotsAreHeld
<1>7. WithinQuota'
  BY <1>1, BudgetKept DEF GuardInv, WithinQuota
<1> QED
  BY <1>5, <1>6, <1>7 DEF GuardInv

\* Time passes.
LEMMA TickInv ==
    ASSUME GuardInv, Tick
    PROVE  GuardInv'
<1>1. UNCHANGED <<configured, pc, stamp, client, declared, slots, buckets,
                  globalBytes, globalBytesStarted>>
  BY DEF Tick, request, budget
<1>2. now' \in 1 .. MaxTime
  BY GuardAssumption DEF Tick, GuardInv, TypeOK
<1>3. recentBytes' \in [0 .. ByteWindow - 1 -> Nat]
  BY GuardAssumption DEF Tick, GuardInv, TypeOK
<1>4. recentUploads' \in [Client -> [0 .. Window - 1 -> Nat]]
  <2>1. ASSUME NEW c \in Client
        PROVE  [k \in 0 .. Window - 1 |-> IF k = 0 THEN 0 ELSE recentUploads[c][k - 1]]
                 \in [0 .. Window - 1 -> Nat]
    <3>1. recentUploads[c] \in [0 .. Window - 1 -> Nat]
      BY DEF GuardInv, TypeOK
    <3>2. ASSUME NEW k \in 0 .. Window - 1, k # 0
          PROVE  recentUploads[c][k - 1] \in Nat
      <4>1. k - 1 \in 0 .. Window - 1
        BY <3>2, GuardAssumption
      <4> QED
        BY <3>1, <4>1
    <3> QED
      BY <3>2
  <2>2. recentUploads' =
          [c \in Client |->
            [k \in 0 .. Window - 1 |-> IF k = 0 THEN 0 ELSE recentUploads[c][k - 1]]]
    BY DEF Tick
  <2> QED
    BY <2>1, <2>2
<1>5. TypeOK'
  BY <1>1, <1>2, <1>3, <1>4 DEF GuardInv, TypeOK
<1>6. SlotsAreHeld' /\ WithinQuota'
  BY <1>1, BudgetKept DEF GuardInv, SlotsAreHeld, WithinQuota, Holders
<1> QED
  BY <1>5, <1>6 DEF GuardInv

\* A restarted guard has no holders and nothing spent.
LEMMA RestartInv ==
    ASSUME GuardInv, Restart
    PROVE  GuardInv'
<1>1. Holders' = {}
  BY DEF Restart, Holders
<1>2. SlotsAreHeld'
  BY <1>1, FS_EmptySet, GuardAssumption DEF Restart, SlotsAreHeld
<1>3. WithinQuota'
  <2>1. /\ configured'.budget \in Int \/ configured'.budget = Unset
        /\ DefaultBudget \in Nat /\ MaxRequestCharge \in Nat
    BY GuardAssumption DEF Restart, MaxRequestCharge
  <2>2. MaxGlobalBytes' \in Nat
    BY <2>1 DEF MaxGlobalBytes, BudgetInvalid
  <2> QED
    BY <2>2, GuardAssumption DEF Restart, WithinQuota, NoBucket
<1>4. TypeOK'
  BY GuardAssumption DEF Restart, GuardInv, TypeOK, Steps, NoBucket, request
<1> QED
  BY <1>2, <1>3, <1>4 DEF GuardInv

\* The invariant is inductive.
LEMMA GuardNext == GuardInv /\ [Next]_vars => GuardInv'
<1> SUFFICES ASSUME GuardInv, [Next]_vars PROVE GuardInv'
  OBVIOUS
<1>1. CASE UNCHANGED vars
  BY <1>1, BudgetKept DEF vars, GuardInv, TypeOK, SlotsAreHeld, WithinQuota, Holders
<1>2. ASSUME NEW g \in Goroutine, Begin(g) \/ Done(g) PROVE GuardInv'
  <2>1. CASE GiveBack(g) \/ Done(g)
    BY <2>1, SlotReturned DEF GiveBack, Done
  <2>2. CASE Busy(g)
    BY <1>1, <2>2 DEF Busy
  <2> QED
    BY <1>2, <2>1, <2>2, TakeSlotInv, ReadClockInv, RefuseRateInv, RefuseBudgetInv,
       AdmitInv DEF Begin
<1> QED
  BY <1>1, <1>2, TickInv, RestartInv DEF Next

\* The strengthening all of the following rest on: the windows alone are not
\* inductive without the types, nor the slots without knowing who holds one.
THEOREM GuardInvariance == Spec => []GuardInv
BY GuardInit, GuardNext, PTL DEF Spec

\* Types of the guard's fields and of what the requests carry.
THEOREM GuardTypes == Spec => []TypeOK
<1>1. GuardInv => TypeOK
  BY DEF GuardInv
<1> QED
  BY <1>1, GuardInvariance, PTL

\* No slot is ever leaked or given back twice, however many goroutines there are
\* and however their steps interleave.
THEOREM SlotAccounting == Spec => []SlotsAreHeld
<1>1. GuardInv => SlotsAreHeld
  BY DEF GuardInv
<1> QED
  BY <1>1, GuardInvariance, PTL

\* Neither the byte window nor a client's bucket is ever overdrawn, although the
\* requests account with clock readings that may be arbitrarily old.
THEOREM QuotaAccounting == Spec => []WithinQuota
<1>1. GuardInv => WithinQuota
  BY DEF GuardInv
<1> QED
  BY <1>1, GuardInvariance, PTL
-------------------------------------------------------------------------------
(* What the guard lets through                                               *)

\* A valid budget covers the dearest request, so a window in which nothing was
\* spent turns nobody away, whatever length a request declares.
THEOREM UnspentWindowServes == Spec => []FreshWindowServesAnyone
<1>1. GuardInv => FreshWindowServesAnyone
  <2> SUFFICES ASSUME GuardInv, NEW g \in Goroutine,
                      WindowAt(stamp[g]).bytes = 0, MaxGlobalBytes > 0
               PROVE  ~BudgetExceeded(g)
    BY DEF FreshWindowServesAnyone
  <2>1. MaxGlobalBytes \in Nat /\ MaxGlobalBytes >= MaxRequestCharge
    BY BudgetType DEF GuardInv
  <2>2. Charge(declared[g]) \in 1 .. MaxRequestCharge /\ MaxRequestCharge \in Nat
    BY ChargeType DEF GuardInv, TypeOK
  <2>3. ~(Charge(declared[g]) > MaxGlobalBytes - 0)
    BY <2>1, <2>2
  <2> QED
    BY <2>3 DEF BudgetExceeded
<1> QED
  BY <1>1, GuardInvariance, PTL

\* An invalid budget or window configuration admits nobody, ever.
THEOREM InvalidConfigurationCloses == Spec => []InvalidBudgetClosesIntake
<1> DEFINE NoneAdmitted == BudgetInvalid => \A g \in Goroutine : pc[g] # "admitted"
<1>1. BudgetInvalid => MaxGlobalBytes = 0
  BY DEF MaxGlobalBytes
<1>2. Init => NoneAdmitted
  BY DEF Init
<1>3. GuardInv /\ NoneAdmitted /\ [Next]_vars => NoneAdmitted'
  <2> SUFFICES ASSUME GuardInv, NoneAdmitted, [Next]_vars, BudgetInvalid',
                      NEW h \in Goroutine
               PROVE  pc'[h] # "admitted"
    OBVIOUS
  <2>0. CASE Restart
    BY <2>0 DEF Restart
  <2> SUFFICES ASSUME ~Restart PROVE pc'[h] # "admitted"
    BY <2>0
  <2>c. configured' = configured
    BY DEF Next, Begin, Done, TakeSlot, Busy, ReadClock, RefuseRate, RefuseBudget, Admit,
           GiveBack, Tick, vars
  <2>1. pc \in [Goroutine -> Steps] /\ pc[h] # "admitted" /\ MaxGlobalBytes = 0
    BY <1>1, <2>c, BudgetKept DEF GuardInv, TypeOK
  <2>2. ASSUME NEW g \in Goroutine, NEW s \in Steps \ {"admitted"},
               pc' = [pc EXCEPT ![g] = s]
        PROVE  pc'[h] # "admitted"
    BY <2>1, <2>2
  <2>3. CASE UNCHANGED pc
    BY <2>1, <2>3
  <2>4. ASSUME NEW g \in Goroutine, Admit(g) PROVE FALSE
    BY <2>1, <2>4 DEF Admit
  <2>5. ASSUME NEW g \in Goroutine, Begin(g) \/ Done(g) PROVE pc'[h] # "admitted"
    <3>1. \/ UNCHANGED pc
          \/ \E s \in Steps \ {"admitted"} : pc' = [pc EXCEPT ![g] = s]
      BY <2>4, <2>5
         DEF Begin, Done, TakeSlot, Busy, ReadClock, RefuseRate, RefuseBudget, GiveBack,
             Steps, vars
    <3> QED
      BY <2>2, <2>3, <3>1
  <2> QED
    BY <2>3, <2>5 DEF Next, Tick, vars
<1>4. GuardInv /\ NoneAdmitted => InvalidBudgetClosesIntake
  <2> SUFFICES ASSUME GuardInv, NoneAdmitted, BudgetInvalid
               PROVE  globalBytes = 0 /\ \A g \in Goroutine : pc[g] # "admitted"
    BY DEF InvalidBudgetClosesIntake
  <2>1. globalBytes \in Nat /\ globalBytes <= 0
    BY <1>1 DEF GuardInv, TypeOK, WithinQuota
  <2> QED
    BY <2>1
<1> HIDE DEF NoneAdmitted
<1> QED
  BY <1>2, <1>3, <1>4, GuardInvariance, PTL DEF Spec
-------------------------------------------------------------------------------
(* Any stretch of a window's length                                          *)
(*                                                                           *)
(* What was admitted since time a is compared with the window in force.  A   *)
(* window that ended by a was drawn on since then by late requests only, and *)
(* each of those holds one of MaxConcurrent slots for one admission.  One    *)
(* that started before a has itself counted the rest.  One that started      *)
(* since a follows at most one other, which is where the second quota of the *)
(* bounds comes from.                                                        *)

\* The requests on their way into the critical section with a clock reading more
\* than k ticks old.
Late(k) == {g \in Goroutine : pc[g] = "stamped" /\ stamp[g] < now - k}

\* What the slots that late requests do not hold were worth to those that are gone.
Allowance(k, dearest) == (MaxConcurrent - Cardinality(Late(k))) * dearest

\* The bound on what was admitted since time a, given a window that has used so much
\* of its quota.
Bounded(recent, started, used, quota, dearest, width, a, allowance) ==
    /\ started = 0 \/ started + width <= a => recent <= allowance
    /\ started # 0 =>
         \/ recent <= used
         \/ /\ recent <= quota + used + allowance - dearest
            /\ started < a => recent <= used + allowance - dearest

ByteBound(k) ==
    Bounded(recentBytes[k], globalBytesStarted, globalBytes, MaxGlobalBytes,
            MaxRequestCharge, ByteWindow, now - k, Allowance(k, MaxRequestCharge))

UploadBound(c, k) ==
    Bounded(recentUploads[c][k], buckets[c].started, buckets[c].count, MaxRequests,
            1, Window, now - k, Allowance(k, 1))

StampsPast   == \A g \in Goroutine : pc[g] = "stamped" => stamp[g] \in 1 .. now
BytesBounded == \A k \in 0 .. ByteWindow - 1 :
                    /\ ByteBound(k)
                    /\ globalBytesStarted = 0 => recentBytes[k] = 0
UploadsBounded == \A c \in Client : \A k \in 0 .. Window - 1 : UploadBound(c, k)

WindowInv == GuardInv /\ StampsPast /\ BytesBounded /\ UploadsBounded

\* A larger allowance bounds less.
LEMMA BoundedLoosened ==
    ASSUME NEW recent \in Nat, NEW started \in Nat, NEW used \in Nat, NEW quota \in Nat,
           NEW dearest \in Nat, NEW width \in Nat, NEW a \in Int, NEW allowance \in Nat,
           NEW next \in Nat, next >= allowance,
           Bounded(recent, started, used, quota, dearest, width, a, allowance)
    PROVE  Bounded(recent, started, used, quota, dearest, width, a, next)
BY DEF Bounded

\* An admission the window still covers; if its clock reading is late, a slot's worth
\* is added to the allowance.
LEMMA BoundedAccounted ==
    ASSUME NEW recent \in Nat, NEW started \in Nat, NEW used \in Nat, NEW quota \in Nat,
           NEW dearest \in Nat, NEW width \in Nat, NEW a \in Int, NEW allowance \in Nat,
           NEW t \in Nat, NEW charge \in 0 .. dearest, NEW next \in Nat,
           next = IF t < a THEN allowance + dearest ELSE allowance,
           started # 0, t - started < width,
           Bounded(recent, started, used, quota, dearest, width, a, allowance)
    PROVE  Bounded(recent + charge, started, used + charge, quota, dearest, width, a, next)
BY DEF Bounded

\* An admission that starts a new window.  The one before it ended before time a, for
\* a is less than a width ago.
LEMMA BoundedRenewed ==
    ASSUME NEW recent \in Nat, NEW started \in Nat, NEW used \in Nat, NEW quota \in Nat,
           NEW dearest \in Nat, NEW width \in Nat, NEW a \in Int, NEW allowance \in Nat,
           NEW t \in Nat \ {0}, NEW charge \in 0 .. dearest, NEW next \in Nat,
           next = IF t < a THEN allowance + dearest ELSE allowance,
           t >= a => allowance >= dearest,
           started = 0 \/ t - started >= width, t < a + width,
           used <= quota, started = 0 => recent = 0 \/ dearest <= quota,
           Bounded(recent, started, used, quota, dearest, width, a, allowance)
    PROVE  Bounded(recent + charge, t, charge, quota, dearest, width, a, next)
<1>1. CASE t < a
  BY <1>1 DEF Bounded
<1>2. CASE t >= a
  <2>1. recent <= quota + allowance - dearest
    <3>1. CASE started = 0
      BY <1>2, <3>1 DEF Bounded
    <3>2. CASE started # 0
      <4>1. started < a
        BY <3>2
      <4> QED
        BY <1>2, <3>2, <4>1 DEF Bounded
    <3> QED
      BY <3>1, <3>2
  <2> QED
    BY <1>2, <2>1 DEF Bounded
<1> QED
  BY <1>1, <1>2

\* A window that ended by time a is forgotten.
LEMMA BoundedForgotten ==
    ASSUME NEW recent \in Nat, NEW started \in Nat, NEW used \in Nat, NEW quota \in Nat,
           NEW dearest \in Nat, NEW width \in Nat, NEW a \in Int, NEW allowance \in Nat,
           started + width <= a,
           Bounded(recent, started, used, quota, dearest, width, a, allowance)
    PROVE  Bounded(recent, 0, 0, quota, dearest, width, a, allowance)
BY DEF Bounded

\* What a slot more is worth.
LEMMA SlotsWorth ==
    ASSUME NEW n \in Nat, NEW dearest \in Nat
    PROVE  /\ n * dearest \in Nat
           /\ (n + 1) * dearest = n * dearest + dearest
           /\ n >= 1 => n * dearest >= dearest
<1>1. (n + 1) * dearest = n * dearest + dearest
  OBVIOUS
<1>2. n * dearest \in Nat
  OBVIOUS
<1>3. n >= 1 => n * dearest >= dearest
  <2> SUFFICES ASSUME n >= 1 PROVE n * dearest >= dearest
    OBVIOUS
  <2>1. PICK m \in Nat : n = m + 1
    BY n - 1 \in Nat
  <2>2. n * dearest = m * dearest + dearest /\ m * dearest \in Nat
    BY <2>1
  <2> QED
    BY <2>2
<1> QED
  BY <1>1, <1>2, <1>3

-------------------------------------------------------------------------------
(* Late requests                                                             *)

\* Every late request holds a slot, and so does one that is not late.
LEMMA LateHold ==
    ASSUME GuardInv, NEW k \in Nat
    PROVE  /\ IsFiniteSet(Late(k)) /\ Cardinality(Late(k)) \in 0 .. MaxConcurrent
           /\ \A g \in Holders : g \notin Late(k) =>
                Cardinality(Late(k)) + 1 <= MaxConcurrent
<1>1. Late(k) \subseteq Holders
  BY DEF Late, Holders
<1>2. IsFiniteSet(Holders) /\ Cardinality(Holders) <= MaxConcurrent /\ MaxConcurrent \in Nat
  BY HoldersFinite, GuardAssumption DEF GuardInv, SlotsAreHeld
<1>3. IsFiniteSet(Late(k)) /\ Cardinality(Late(k)) \in Nat
      /\ Cardinality(Late(k)) <= Cardinality(Holders)
  BY <1>1, <1>2, FS_Subset, FS_CardinalityType
<1>4. ASSUME NEW g \in Holders, g \notin Late(k)
      PROVE  Cardinality(Late(k)) + 1 <= MaxConcurrent
  <2>1. Late(k) \cup {g} \subseteq Holders
    BY <1>1, <1>4
  <2>2. Cardinality(Late(k) \cup {g}) = Cardinality(Late(k)) + 1
    BY <1>3, <1>4, FS_AddElement
  <2>3. Cardinality(Late(k) \cup {g}) <= Cardinality(Holders)
    BY <1>2, <2>1, FS_Subset
  <2> QED
    BY <1>2, <1>3, <2>2, <2>3, HoldersFinite
<1> QED
  BY <1>2, <1>3, <1>4, HoldersFinite

\* The allowance is a number.
LEMMA AllowanceType ==
    ASSUME GuardInv, NEW k \in Nat, NEW dearest \in Nat
    PROVE  Allowance(k, dearest) \in Nat
<1>1. MaxConcurrent - Cardinality(Late(k)) \in Nat
  BY LateHold, GuardAssumption
<1> QED
  BY <1>1, SlotsWorth DEF Allowance

\* It is at most what all the slots are worth.
LEMMA AllowanceAtMost ==
    ASSUME GuardInv, NEW k \in Nat, NEW dearest \in Nat
    PROVE  Allowance(k, dearest) <= (MaxConcurrent - 1) * dearest + dearest
<1> DEFINE late == Cardinality(Late(k))
           n == MaxConcurrent - late
<1>1. late \in Nat /\ n \in Nat /\ MaxConcurrent \in Nat \ {0} /\ MaxConcurrent = n + late
  BY LateHold, GuardAssumption
<1>2. n * dearest \in Nat /\ late * dearest \in Nat
  BY <1>1, SlotsWorth
<1>3. (n + late) * dearest = n * dearest + late * dearest
  BY <1>1
<1>4. MaxConcurrent * dearest = (MaxConcurrent - 1) * dearest + dearest
  BY <1>1
<1> DEFINE all == MaxConcurrent * dearest
           some == n * dearest
           rest == late * dearest
<1>5. all = some + rest /\ some \in Nat /\ rest \in Nat
  BY <1>1, <1>2, <1>3
<1>6. Allowance(k, dearest) = some
  BY DEF Allowance
<1> HIDE DEF all, some, rest
<1>7. Allowance(k, dearest) <= all
  BY <1>5, <1>6
<1> QED
  BY <1>4, <1>7 DEF all

\* A request that leaves the critical section adds a slot's worth to it if it was
\* late; if not, it holds a slot no late request does.
LEMMA AllowanceStep ==
    ASSUME GuardInv, NEW k \in Nat, NEW dearest \in Nat, NEW g \in Goroutine,
           pc[g] = "stamped", NEW s \in Steps \ {"stamped"}, pc' = [pc EXCEPT ![g] = s],
           UNCHANGED <<now, stamp>>
    PROVE  /\ Allowance(k, dearest)' =
                IF stamp[g] < now - k THEN Allowance(k, dearest) + dearest
                                      ELSE Allowance(k, dearest)
           /\ stamp[g] >= now - k => Allowance(k, dearest) >= dearest
<1> DEFINE n == MaxConcurrent - Cardinality(Late(k))
<1>1. /\ IsFiniteSet(Late(k)) /\ Cardinality(Late(k)) \in 0 .. MaxConcurrent
      /\ MaxConcurrent \in Nat /\ n \in Nat
  BY LateHold, GuardAssumption
<1>2. Late(k)' = Late(k) \ {g}
  BY DEF Late, GuardInv, TypeOK
<1>3. CASE stamp[g] < now - k
  <2>1. g \in Late(k)
    BY <1>3 DEF Late
  <2>2. Cardinality(Late(k)') = Cardinality(Late(k)) - 1
    BY <1>1, <1>2, <2>1, FS_RemoveElement
  <2>3. MaxConcurrent - Cardinality(Late(k)') = n + 1
    BY <1>1, <2>2
  <2>4. Allowance(k, dearest)' = (n + 1) * dearest /\ Allowance(k, dearest) = n * dearest
    BY <2>3 DEF Allowance
  <2>5. Allowance(k, dearest)' = Allowance(k, dearest) + dearest
    BY <1>1, <2>4, SlotsWorth
  <2>6. ~(stamp[g] >= now - k)
    BY <1>3 DEF GuardInv, TypeOK
  <2> QED
    BY <1>3, <2>5, <2>6
<1>4. CASE ~(stamp[g] < now - k)
  <2>1. g \notin Late(k) /\ g \in Holders
    BY <1>4 DEF Late, Holders
  <2>2. Late(k)' = Late(k)
    BY <1>2, <2>1
  <2>3. Allowance(k, dearest)' = Allowance(k, dearest)
    BY <2>2 DEF Allowance
  <2>4. n >= 1
    BY <1>1, <2>1, LateHold
  <2>5. Allowance(k, dearest) >= dearest
    BY <1>1, <2>4, SlotsWorth DEF Allowance
  <2> QED
    BY <1>4, <2>3, <2>5
<1> QED
  BY <1>3, <1>4

-------------------------------------------------------------------------------
(* The windows step by step                                                  *)

\* The numbers the bounds on bytes are about.
LEMMA ByteNumbers ==
    ASSUME GuardInv, NEW k \in 0 .. ByteWindow - 1
    PROVE  /\ recentBytes[k] \in Nat /\ globalBytes \in Nat /\ globalBytesStarted \in Nat
           /\ MaxGlobalBytes \in Nat /\ MaxRequestCharge \in Nat /\ ByteWindow \in Nat
           /\ k \in Nat /\ now \in Nat /\ now - k \in Int /\ now < (now - k) + ByteWindow
           /\ globalBytes <= MaxGlobalBytes /\ Allowance(k, MaxRequestCharge) \in Nat
<1>1. MaxRequestCharge \in Nat /\ k \in Nat /\ ByteWindow \in Nat
  BY GuardAssumption DEF MaxRequestCharge
<1>2. now \in Nat /\ now < (now - k) + ByteWindow
  BY <1>1, GuardAssumption DEF GuardInv, TypeOK
<1>3. recentBytes[k] \in Nat /\ globalBytes \in Nat /\ globalBytesStarted \in Nat
  BY GuardAssumption DEF GuardInv, TypeOK
<1>4. MaxGlobalBytes \in Nat /\ globalBytes <= MaxGlobalBytes
  BY BudgetType DEF GuardInv, WithinQuota
<1>5. Allowance(k, MaxRequestCharge) \in Nat
  BY <1>1, AllowanceType
<1> QED
  BY <1>1, <1>2, <1>3, <1>4, <1>5

\* A request that comes as far as the byte window: whether it is admitted, or only
\* finds the window over.
LEMMA BytesStep ==
    ASSUME WindowInv, NEW g \in Goroutine, pc[g] = "stamped",
           NEW s \in Steps \ {"stamped"}, pc' = [pc EXCEPT ![g] = s],
           UNCHANGED <<configured, now, stamp>>,
           NEW charge \in 0 .. MaxRequestCharge,
           globalBytes' = WindowAt(stamp[g]).bytes + charge,
           globalBytesStarted' = WindowAt(stamp[g]).started,
           \A k \in 0 .. ByteWindow - 1 : recentBytes'[k] = recentBytes[k] + charge
    PROVE  BytesBounded'
<1> SUFFICES ASSUME NEW k \in 0 .. ByteWindow - 1
             PROVE  ByteBound(k)' /\ globalBytesStarted' # 0
  BY DEF BytesBounded
<1> DEFINE t == stamp[g]
           a == now - k
           quota == MaxGlobalBytes
           dearest == MaxRequestCharge
           allowance == Allowance(k, dearest)
           next == IF t < a THEN allowance + dearest ELSE allowance
<1>1. /\ recentBytes[k] \in Nat /\ globalBytes \in Nat /\ globalBytesStarted \in Nat
      /\ quota \in Nat /\ dearest \in Nat /\ ByteWindow \in Nat
      /\ k \in Nat /\ now \in Nat /\ a \in Int /\ now < a + ByteWindow
      /\ globalBytes <= quota /\ allowance \in Nat
  BY ByteNumbers DEF WindowInv
<1>2. t \in Nat \ {0} /\ t <= now
  BY DEF WindowInv, StampsPast, GuardInv, TypeOK
<1>3. now' = now /\ recentBytes'[k] = recentBytes[k] + charge
  OBVIOUS
<1>4. t >= a => allowance >= dearest
  BY <1>1, AllowanceStep DEF WindowInv
<1>5. /\ Bounded(recentBytes[k], globalBytesStarted, globalBytes, quota, dearest,
                 ByteWindow, a, allowance)
      /\ globalBytesStarted = 0 => recentBytes[k] = 0
  BY DEF WindowInv, BytesBounded, ByteBound
<1>6. quota' = quota
  BY BudgetKept
<1>7. allowance' = next /\ next \in Nat
  <2>1. GuardInv /\ k \in Nat /\ dearest \in Nat /\ UNCHANGED <<now, stamp>>
    BY <1>1 DEF WindowInv
  <2>2. \A d \in Nat : Allowance(k, d)' = IF t < a THEN Allowance(k, d) + d
                                                   ELSE Allowance(k, d)
    BY <2>1, AllowanceStep
  <2>3. dearest' = dearest
    BY DEF MaxRequestCharge
  <2>4. allowance' = next
    BY <2>1, <2>2, <2>3 DEF Allowance
  <2>5. next \in Nat
    BY <1>1
  <2> QED
    BY <2>4, <2>5
<1> HIDE DEF t, a, quota, dearest, allowance, next
<1>8. SUFFICES /\ globalBytesStarted' # 0
               /\ Bounded(recentBytes[k] + charge, globalBytesStarted', globalBytes', quota,
                          dearest, ByteWindow, a, next)
  BY <1>3, <1>6, <1>7 DEF ByteBound, Bounded, a, quota, dearest, allowance, MaxRequestCharge
<1>9. CASE globalBytesStarted = 0 \/ t - globalBytesStarted >= ByteWindow
  <2>1. globalBytesStarted' = t /\ globalBytes' = charge
    BY <1>9 DEF WindowAt, t, dearest
  <2>2. Bounded(recentBytes[k] + charge, t, charge, quota, dearest, ByteWindow, a, next)
    <3>1. t < a + ByteWindow
      BY <1>1, <1>2
    <3>2. charge \in 0 .. dearest /\ next = IF t < a THEN allowance + dearest ELSE allowance
      BY DEF dearest, next
    <3> QED
      BY <1>1, <1>2, <1>4, <1>5, <1>7, <1>9, <3>1, <3>2, BoundedRenewed
  <2> QED
    BY <1>2, <2>1, <2>2
<1>10. CASE ~(globalBytesStarted = 0 \/ t - globalBytesStarted >= ByteWindow)
  <2>1. globalBytesStarted' = globalBytesStarted /\ globalBytes' = globalBytes + charge
    BY <1>10 DEF WindowAt, t
  <2>2. Bounded(recentBytes[k] + charge, globalBytesStarted, globalBytes + charge, quota,
                dearest, ByteWindow, a, next)
    <3>1. globalBytesStarted # 0 /\ t - globalBytesStarted < ByteWindow
      BY <1>1, <1>2, <1>10
    <3>2. charge \in 0 .. dearest /\ next = IF t < a THEN allowance + dearest ELSE allowance
      BY DEF dearest, next
    <3> QED
      BY <1>1, <1>2, <1>5, <1>7, <3>1, <3>2, BoundedAccounted
  <2> QED
    BY <1>10, <2>1, <2>2
<1> QED
  BY <1>9, <1>10

\* A request refused before the byte window leaves it as it was, with a slot less that
\* may be late.
LEMMA BytesUntouched ==
    ASSUME WindowInv, UNCHANGED <<configured, now, globalBytes, globalBytesStarted, recentBytes>>,
           \A k \in Nat : /\ Allowance(k, MaxRequestCharge)' \in Nat
                          /\ Allowance(k, MaxRequestCharge)' >= Allowance(k, MaxRequestCharge)
    PROVE  BytesBounded'
<1> SUFFICES ASSUME NEW k \in 0 .. ByteWindow - 1
             PROVE  ByteBound(k)' /\ (globalBytesStarted' = 0 => recentBytes'[k] = 0)
  BY DEF BytesBounded
<1> DEFINE next == Allowance(k, MaxRequestCharge)'
<1>1. MaxGlobalBytes' = MaxGlobalBytes
  BY BudgetKept
<1>2. ByteBound(k) /\ (globalBytesStarted = 0 => recentBytes[k] = 0)
  BY DEF WindowInv, BytesBounded
<1>3. next \in Nat /\ next >= Allowance(k, MaxRequestCharge)
  OBVIOUS
<1> HIDE DEF next
<1>4. Bounded(recentBytes[k], globalBytesStarted, globalBytes, MaxGlobalBytes,
              MaxRequestCharge, ByteWindow, now - k, next)
  BY <1>2, <1>3, ByteNumbers, BoundedLoosened DEF ByteBound, WindowInv
<1>5. ByteBound(k)'
  BY <1>1, <1>4 DEF ByteBound, Bounded, next, MaxRequestCharge
<1> QED
  BY <1>2, <1>5

\* The numbers the bounds on uploads are about.
LEMMA UploadNumbers ==
    ASSUME GuardInv, NEW c \in Client, NEW k \in 0 .. Window - 1
    PROVE  /\ recentUploads[c][k] \in Nat
           /\ buckets[c].started \in Nat /\ buckets[c].count \in Nat
           /\ MaxRequests \in Nat \ {0} /\ Window \in Nat /\ buckets[c].count <= MaxRequests
           /\ k \in Nat /\ now \in Nat /\ now - k \in Int /\ now < (now - k) + Window
           /\ Allowance(k, 1) \in Nat
<1>1. k \in Nat /\ Window \in Nat /\ MaxRequests \in Nat \ {0}
  BY GuardAssumption
<1>2. now \in Nat /\ now < (now - k) + Window
  BY <1>1, GuardAssumption DEF GuardInv, TypeOK
<1>3. recentUploads[c][k] \in Nat
  <2>1. recentUploads[c] \in [0 .. Window - 1 -> Nat]
    BY DEF GuardInv, TypeOK
  <2> QED
    BY <2>1
<1>4. buckets[c].started \in Nat /\ buckets[c].count \in Nat
  <2>1. buckets[c] \in [started: 0 .. MaxTime, count: Nat]
    BY DEF GuardInv, TypeOK
  <2> QED
    BY <2>1, GuardAssumption
<1>5. buckets[c].count <= MaxRequests
  BY DEF GuardInv, WithinQuota
<1>6. Allowance(k, 1) \in Nat
  BY <1>1, AllowanceType
<1> QED
  BY <1>1, <1>2, <1>3, <1>4, <1>5, <1>6

\* A bucket that the purge keeps or deletes.
LEMMA UploadsPurged ==
    ASSUME WindowInv, NEW c \in Client, NEW k \in 0 .. Window - 1,
           NEW t \in Nat, t <= now, NEW next \in Nat, next >= Allowance(k, 1)
    PROVE  Bounded(recentUploads[c][k], Purged(t)[c].started, Purged(t)[c].count,
                   MaxRequests, 1, Window, now - k, next)
<1> DEFINE b == buckets[c]
           a == now - k
           recent == recentUploads[c][k]
<1>1. /\ recent \in Nat /\ b.started \in Nat /\ b.count \in Nat /\ MaxRequests \in Nat
      /\ Window \in Nat /\ a \in Int /\ now \in Nat /\ now < a + Window
      /\ Allowance(k, 1) \in Nat
  BY UploadNumbers DEF WindowInv
<1>2. Bounded(recent, b.started, b.count, MaxRequests, 1, Window, a, Allowance(k, 1))
  BY DEF WindowInv, UploadsBounded, UploadBound
<1> HIDE DEF a, recent
<1>3. Bounded(recent, b.started, b.count, MaxRequests, 1, Window, a, next)
  BY <1>1, <1>2, BoundedLoosened
<1>4. CASE t - b.started >= 2 * Window
  <2>1. b.started + Window <= a
    BY <1>1, <1>4
  <2>2. Bounded(recent, 0, 0, MaxRequests, 1, Window, a, next)
    BY <1>1, <1>3, <2>1, BoundedForgotten
  <2>3. Purged(t)[c].started = 0 /\ Purged(t)[c].count = 0
    BY <1>4 DEF Purged, NoBucket
  <2> QED
    BY <2>2, <2>3 DEF a, recent
<1>5. CASE ~(t - b.started >= 2 * Window)
  <2>1. Purged(t)[c] = b
    BY <1>5 DEF Purged
  <2> QED
    BY <1>3, <2>1 DEF a, recent
<1> QED
  BY <1>4, <1>5

\* The bucket the admitted request accounts to.
LEMMA UploadsAdmitted ==
    ASSUME WindowInv, NEW c \in Client, NEW k \in 0 .. Window - 1,
           NEW t \in Nat \ {0}, t <= now, NEW next \in Nat,
           next = IF t < now - k THEN Allowance(k, 1) + 1 ELSE Allowance(k, 1),
           t >= now - k => Allowance(k, 1) >= 1
    PROVE  Bounded(recentUploads[c][k] + 1, BucketAt(c, t).started, BucketAt(c, t).count + 1,
                   MaxRequests, 1, Window, now - k, next)
<1> DEFINE b == buckets[c]
           a == now - k
           recent == recentUploads[c][k]
           allowance == Allowance(k, 1)
<1>1. /\ recent \in Nat /\ b.started \in Nat /\ b.count \in Nat /\ MaxRequests \in Nat \ {0}
      /\ Window \in Nat /\ a \in Int /\ now \in Nat /\ now < a + Window
      /\ allowance \in Nat /\ b.count <= MaxRequests
  BY UploadNumbers DEF WindowInv
<1>2. Bounded(recent, b.started, b.count, MaxRequests, 1, Window, a, allowance)
  BY DEF WindowInv, UploadsBounded, UploadBound
<1>3. /\ next = IF t < a THEN allowance + 1 ELSE allowance
      /\ t >= a => allowance >= 1
  OBVIOUS
<1> HIDE DEF a, recent, allowance
<1>4. CASE b.started = 0 \/ t - b.started >= Window
  <2>1. BucketAt(c, t).started = t /\ BucketAt(c, t).count = 0
    BY <1>4 DEF BucketAt, Purged, NoBucket
  <2>2. t < a + Window /\ 1 <= MaxRequests /\ 1 \in 0 .. 1 /\ 1 \in Nat
    BY <1>1
  <2>3. Bounded(recent + 1, t, 1, MaxRequests, 1, Window, a, next)
    BY <1>1, <1>2, <1>3, <1>4, <2>2, BoundedRenewed
  <2> QED
    BY <2>1, <2>3 DEF a, recent
<1>5. CASE ~(b.started = 0 \/ t - b.started >= Window)
  <2>1. BucketAt(c, t) = b
    BY <1>1, <1>5 DEF BucketAt, Purged
  <2>2. b.started # 0 /\ t - b.started < Window /\ 1 \in 0 .. 1 /\ 1 \in Nat
    BY <1>1, <1>5
  <2>3. Bounded(recent + 1, b.started, b.count + 1, MaxRequests, 1, Window, a, next)
    BY <1>1, <1>2, <1>3, <2>2, BoundedAccounted
  <2> QED
    BY <2>1, <2>3 DEF a, recent
<1> QED
  BY <1>4, <1>5

-------------------------------------------------------------------------------
(* The bounds are inductive                                                  *)

\* What every way out of the critical section has in common.
LEMMA SectionLeft ==
    ASSUME WindowInv, NEW g \in Goroutine, pc[g] = "stamped",
           NEW s \in Steps \ {"stamped"}, pc' = [pc EXCEPT ![g] = s],
           UNCHANGED <<now, stamp>>
    PROVE  /\ StampsPast'
           /\ stamp[g] \in Nat \ {0} /\ stamp[g] <= now
           /\ \A k \in Nat, d \in Nat :
                /\ Allowance(k, d)' \in Nat /\ Allowance(k, d)' >= Allowance(k, d)
                /\ Allowance(k, d)' = IF stamp[g] < now - k THEN Allowance(k, d) + d
                                                            ELSE Allowance(k, d)
                /\ stamp[g] >= now - k => Allowance(k, d) >= d
<1>1. StampsPast'
  BY DEF StampsPast, WindowInv, GuardInv, TypeOK
<1>2. stamp[g] \in Nat \ {0} /\ stamp[g] <= now
  BY DEF StampsPast, WindowInv, GuardInv, TypeOK
<1>3. ASSUME NEW k \in Nat, NEW d \in Nat
      PROVE  /\ Allowance(k, d)' \in Nat /\ Allowance(k, d)' >= Allowance(k, d)
             /\ Allowance(k, d)' = IF stamp[g] < now - k THEN Allowance(k, d) + d
                                                         ELSE Allowance(k, d)
             /\ stamp[g] >= now - k => Allowance(k, d) >= d
  <2>1. Allowance(k, d) \in Nat
    BY AllowanceType DEF WindowInv
  <2>2. /\ Allowance(k, d)' = IF stamp[g] < now - k THEN Allowance(k, d) + d
                                                    ELSE Allowance(k, d)
        /\ stamp[g] >= now - k => Allowance(k, d) >= d
    BY AllowanceStep DEF WindowInv
  <2> QED
    BY <2>1, <2>2
<1> QED
  BY <1>1, <1>2, <1>3

\* A refusal leaves every bucket purged or as it was.
LEMMA UploadsAfterRefusal ==
    ASSUME WindowInv, NEW t \in Nat, t <= now, now' = now,
           buckets' = Purged(t), recentUploads' = recentUploads,
           \A k \in Nat : Allowance(k, 1)' \in Nat /\ Allowance(k, 1)' >= Allowance(k, 1)
    PROVE  UploadsBounded'
<1> SUFFICES ASSUME NEW c \in Client, NEW k \in 0 .. Window - 1 PROVE UploadBound(c, k)'
  BY DEF UploadsBounded
<1> DEFINE next == Allowance(k, 1)'
<1>1. next \in Nat /\ next >= Allowance(k, 1)
  BY UploadNumbers DEF WindowInv
<1> HIDE DEF next
<1>2. Bounded(recentUploads[c][k], Purged(t)[c].started, Purged(t)[c].count,
              MaxRequests, 1, Window, now - k, next)
  BY <1>1, UploadsPurged
<1> QED
  BY <1>2 DEF UploadBound, Bounded, next

\* Over the rate: no bytes, no uploads, a purge.
LEMMA RefuseRateBounds ==
    ASSUME WindowInv, NEW g \in Goroutine, RefuseRate(g)
    PROVE  StampsPast' /\ BytesBounded' /\ UploadsBounded'
<1>1. /\ pc[g] = "stamped" /\ pc' = [pc EXCEPT ![g] = "refused"]
      /\ "refused" \in Steps \ {"stamped"} /\ buckets' = Purged(stamp[g])
      /\ UNCHANGED <<configured, now, stamp, globalBytes, globalBytesStarted,
                     recentBytes, recentUploads>>
  BY DEF RefuseRate, request, history, Steps
<1>2. /\ StampsPast' /\ stamp[g] \in Nat \ {0} /\ stamp[g] <= now
      /\ \A k \in Nat, d \in Nat :
           Allowance(k, d)' \in Nat /\ Allowance(k, d)' >= Allowance(k, d)
  BY <1>1, SectionLeft
<1>3. MaxRequestCharge \in Nat
  BY GuardAssumption DEF MaxRequestCharge
<1>4. BytesBounded'
  BY <1>1, <1>2, <1>3, BytesUntouched
<1>5. UploadsBounded'
  BY <1>1, <1>2, UploadsAfterRefusal
<1> QED
  BY <1>2, <1>4, <1>5

\* Over the budget: nothing is charged, but the window may be a new one.
LEMMA RefuseBudgetBounds ==
    ASSUME WindowInv, NEW g \in Goroutine, RefuseBudget(g)
    PROVE  StampsPast' /\ BytesBounded' /\ UploadsBounded'
<1>1. /\ pc[g] = "stamped" /\ pc' = [pc EXCEPT ![g] = "refused"]
      /\ "refused" \in Steps \ {"stamped"} /\ buckets' = Purged(stamp[g])
      /\ globalBytes' = WindowAt(stamp[g]).bytes
      /\ globalBytesStarted' = WindowAt(stamp[g]).started
      /\ UNCHANGED <<configured, now, stamp, recentBytes, recentUploads>>
  BY DEF RefuseBudget, request, history, Steps
<1>2. /\ StampsPast' /\ stamp[g] \in Nat \ {0} /\ stamp[g] <= now
      /\ \A k \in Nat, d \in Nat :
           Allowance(k, d)' \in Nat /\ Allowance(k, d)' >= Allowance(k, d)
  BY <1>1, SectionLeft
<1>3. 0 \in 0 .. MaxRequestCharge
  BY GuardAssumption DEF MaxRequestCharge
<1>4. BytesBounded'
  <2> PICK charge \in 0 .. MaxRequestCharge : charge = 0
    BY <1>3
  <2>1. globalBytes' = WindowAt(stamp[g]).bytes + charge
    <3>1. WindowAt(stamp[g]).bytes \in Nat
      BY DEF WindowAt, WindowInv, GuardInv, TypeOK
    <3> QED
      BY <1>1, <3>1
  <2>2. \A k \in 0 .. ByteWindow - 1 : recentBytes'[k] = recentBytes[k] + charge
    <3>1. \A k \in 0 .. ByteWindow - 1 : recentBytes[k] \in Nat
      BY DEF WindowInv, GuardInv, TypeOK
    <3>2. recentBytes' = recentBytes
      BY <1>1
    <3> QED
      BY <3>1, <3>2
  <2> QED
    BY <1>1, <2>1, <2>2, BytesStep
<1>5. UploadsBounded'
  BY <1>1, <1>2, UploadsAfterRefusal
<1> QED
  BY <1>2, <1>4, <1>5

\* An admission counts in the byte window and in its client's bucket; the buckets of
\* the others are purged.
LEMMA AdmitBounds ==
    ASSUME WindowInv, NEW g \in Goroutine, Admit(g)
    PROVE  StampsPast' /\ BytesBounded' /\ UploadsBounded'
<1> DEFINE t == stamp[g]
           c == client[g]
           b == BucketAt(c, t)
<1>1. /\ pc[g] = "stamped" /\ pc' = [pc EXCEPT ![g] = "admitted"]
      /\ "admitted" \in Steps \ {"stamped"}
      /\ buckets' = [Purged(t) EXCEPT ![c] = [b EXCEPT !.count = @ + 1]]
      /\ globalBytes' = WindowAt(t).bytes + Charge(declared[g])
      /\ globalBytesStarted' = WindowAt(t).started
      /\ recentBytes' = [k \in 0 .. ByteWindow - 1 |-> recentBytes[k] + Charge(declared[g])]
      /\ recentUploads' =
           [recentUploads EXCEPT ![c] = [k \in 0 .. Window - 1 |-> @[k] + 1]]
      /\ UNCHANGED <<configured, now, stamp>>
  BY DEF Admit, request, Steps
<1>2. /\ StampsPast' /\ t \in Nat \ {0} /\ t <= now
      /\ \A k \in Nat, d \in Nat :
           /\ Allowance(k, d)' \in Nat /\ Allowance(k, d)' >= Allowance(k, d)
           /\ Allowance(k, d)' = IF t < now - k THEN Allowance(k, d) + d ELSE Allowance(k, d)
           /\ t >= now - k => Allowance(k, d) >= d
  BY <1>1, SectionLeft
<1>3. Charge(declared[g]) \in 0 .. MaxRequestCharge
  BY ChargeType DEF WindowInv, GuardInv, TypeOK
<1>4. BytesBounded'
  <2>1. \A k \in 0 .. ByteWindow - 1 : recentBytes'[k] = recentBytes[k] + Charge(declared[g])
    BY <1>1
  <2> QED
    BY <1>1, <1>3, <2>1, BytesStep
<1>5. UploadsBounded'
  <2> SUFFICES ASSUME NEW x \in Client, NEW k \in 0 .. Window - 1 PROVE UploadBound(x, k)'
    BY DEF UploadsBounded
  <2> DEFINE next == Allowance(k, 1)'
  <2>1. /\ k \in Nat /\ next \in Nat /\ next >= Allowance(k, 1)
        /\ next = IF t < now - k THEN Allowance(k, 1) + 1 ELSE Allowance(k, 1)
        /\ t >= now - k => Allowance(k, 1) >= 1
    BY <1>2
  <2>2. /\ c \in Client /\ b \in [started: 0 .. MaxTime, count: Nat]
        /\ Purged(t) \in [Client -> [started: 0 .. MaxTime, count: Nat]]
        /\ recentUploads \in [Client -> [0 .. Window - 1 -> Nat]]
    <3>1. TypeOK /\ WithinQuota /\ t \in 0 .. MaxTime /\ c \in Client
      BY DEF WindowInv, GuardInv, TypeOK
    <3> QED
      BY <3>1, BucketType, PurgeType DEF TypeOK
  <2> HIDE DEF t, c, b, next
  <2>3. CASE x = c
    <3>1. /\ buckets'[c].started = b.started /\ buckets'[c].count = b.count + 1
          /\ recentUploads'[c][k] = recentUploads[c][k] + 1
      BY <1>1, <2>2
    <3>2. Bounded(recentUploads[c][k] + 1, b.started, b.count + 1, MaxRequests, 1, Window,
                  now - k, next)
      BY <1>2, <2>1, <2>2, UploadsAdmitted DEF b
    <3> QED
      BY <1>1, <2>3, <3>1, <3>2 DEF UploadBound, Bounded, next
  <2>4. CASE x # c
    <3>1. buckets'[x] = Purged(t)[x] /\ recentUploads'[x] = recentUploads[x]
      BY <1>1, <2>2, <2>4
    <3>2. Bounded(recentUploads[x][k], Purged(t)[x].started, Purged(t)[x].count,
                  MaxRequests, 1, Window, now - k, next)
      BY <1>2, <2>1, UploadsPurged
    <3> QED
      BY <1>1, <3>1, <3>2 DEF UploadBound, Bounded, next
  <2> QED
    BY <2>3, <2>4
<1> QED
  BY <1>2, <1>4, <1>5

\* A step outside the critical section, in which no request becomes late.
LEMMA OutsideBounds ==
    ASSUME WindowInv, StampsPast', \A k \in Nat : Late(k)' = Late(k),
           UNCHANGED <<configured, now, budget, history>>
    PROVE  BytesBounded' /\ UploadsBounded'
<1>1. UNCHANGED <<configured, now, buckets, globalBytes, globalBytesStarted, recentBytes,
                  recentUploads>>
  BY DEF budget, history
<1>2. \A k \in Nat, d \in Nat : Allowance(k, d)' = Allowance(k, d) /\ Allowance(k, d) \in Nat
  BY AllowanceType DEF Allowance, WindowInv
<1>3. BytesBounded'
  <2>1. MaxRequestCharge \in Nat
    BY GuardAssumption DEF MaxRequestCharge
  <2>2. \A k \in Nat : /\ Allowance(k, MaxRequestCharge)' \in Nat
                       /\ Allowance(k, MaxRequestCharge)' >= Allowance(k, MaxRequestCharge)
    BY <1>2, <2>1
  <2> QED
    BY <1>1, <2>2, BytesUntouched
<1>4. UploadsBounded'
  <2> SUFFICES ASSUME NEW c \in Client, NEW k \in 0 .. Window - 1 PROVE UploadBound(c, k)'
    BY DEF UploadsBounded
  <2>1. UploadBound(c, k) /\ k \in Nat
    BY DEF WindowInv, UploadsBounded
  <2>2. Allowance(k, 1)' = Allowance(k, 1)
    BY <1>2, <2>1
  <2> QED
    BY <1>1, <2>1, <2>2 DEF UploadBound, Bounded
<1> QED
  BY <1>3, <1>4

\* A tick: what was admitted in the last k+1 ticks is now that of the last k+2, and
\* a request that was k ticks late is k+1 late.
LEMMA TickBounds ==
    ASSUME WindowInv, Tick
    PROVE  StampsPast' /\ BytesBounded' /\ UploadsBounded'
<1>1. /\ now \in Nat /\ now' = now + 1
      /\ UNCHANGED <<configured, pc, stamp, buckets, globalBytes, globalBytesStarted>>
      /\ recentBytes' = [k \in 0 .. ByteWindow - 1 |-> IF k = 0 THEN 0 ELSE recentBytes[k - 1]]
      /\ recentUploads' =
           [c \in Client |->
              [k \in 0 .. Window - 1 |-> IF k = 0 THEN 0 ELSE recentUploads[c][k - 1]]]
  BY DEF Tick, request, budget, WindowInv, GuardInv, TypeOK
<1>2. StampsPast'
  BY <1>1 DEF StampsPast, WindowInv, GuardInv, TypeOK
<1>3. GuardInv'
  BY TickInv DEF WindowInv
<1>4. ASSUME NEW k \in Nat \ {0}, NEW d \in Nat
      PROVE  Allowance(k, d)' = Allowance(k - 1, d) /\ now' - k = now - (k - 1)
  <2>1. now' - k = now - (k - 1)
    BY <1>1
  <2>2. Late(k)' = Late(k - 1)
    BY <1>1, <2>1 DEF Late
  <2> QED
    BY <2>1, <2>2 DEF Allowance
<1>5. ASSUME NEW d \in Nat PROVE Allowance(0, d)' \in Nat
  <2>1. Late(0)' \subseteq Holders /\ IsFiniteSet(Holders)
    BY <1>1, HoldersFinite DEF Late, Holders
  <2>2. Cardinality(Late(0)') \in Nat /\ Cardinality(Late(0)') <= Cardinality(Holders)
    BY <2>1, FS_Subset, FS_CardinalityType
  <2>3. Cardinality(Holders) \in Nat /\ Cardinality(Holders) <= MaxConcurrent
    BY HoldersFinite DEF WindowInv, GuardInv, SlotsAreHeld
  <2>4. MaxConcurrent - Cardinality(Late(0)') \in Nat
    BY <2>2, <2>3, GuardAssumption
  <2> QED
    BY <2>4, SlotsWorth DEF Allowance
<1>6. MaxGlobalBytes' = MaxGlobalBytes
  BY <1>1, BudgetKept
<1>7. BytesBounded'
  <2> SUFFICES ASSUME NEW k \in 0 .. ByteWindow - 1
               PROVE  ByteBound(k)' /\ (globalBytesStarted' = 0 => recentBytes'[k] = 0)
    BY DEF BytesBounded
  <2>1. k \in Nat /\ MaxRequestCharge \in Nat /\ MaxRequestCharge' = MaxRequestCharge
    BY GuardAssumption DEF MaxRequestCharge
  <2>2. CASE k = 0
    <3>1. recentBytes'[k] = 0 /\ Allowance(k, MaxRequestCharge)' \in Nat
      BY <1>1, <1>5, <2>1, <2>2
    <3>2. globalBytes' \in Nat
      BY <1>3 DEF GuardInv, TypeOK
    <3> QED
      BY <3>1, <3>2 DEF ByteBound, Bounded
  <2>3. CASE k # 0
    <3>1. k \in Nat \ {0} /\ k - 1 \in 0 .. ByteWindow - 1
      BY <2>1, <2>3, GuardAssumption
    <3>2. recentBytes'[k] = recentBytes[k - 1]
      BY <1>1, <2>3
    <3>3. ByteBound(k - 1) /\ (globalBytesStarted = 0 => recentBytes[k - 1] = 0)
      BY <3>1 DEF WindowInv, BytesBounded
    <3>4. /\ Allowance(k, MaxRequestCharge)' = Allowance(k - 1, MaxRequestCharge)
          /\ now' - k = now - (k - 1)
      BY <1>4, <2>1, <3>1
    <3> QED
      BY <1>1, <1>6, <3>2, <3>3, <3>4 DEF ByteBound, Bounded, MaxRequestCharge
  <2> QED
    BY <2>2, <2>3
<1>8. UploadsBounded'
  <2> SUFFICES ASSUME NEW c \in Client, NEW k \in 0 .. Window - 1 PROVE UploadBound(c, k)'
    BY DEF UploadsBounded
  <2>1. k \in Nat
    OBVIOUS
  <2>2. CASE k = 0
    <3>1. recentUploads'[c][k] = 0 /\ Allowance(k, 1)' \in Nat
      BY <1>1, <1>5, <2>1, <2>2
    <3>2. buckets'[c].count \in Nat
      BY <1>3 DEF GuardInv, TypeOK
    <3> QED
      BY <3>1, <3>2 DEF UploadBound, Bounded
  <2>3. CASE k # 0
    <3>1. k \in Nat \ {0} /\ k - 1 \in 0 .. Window - 1
      BY <2>1, <2>3, GuardAssumption
    <3>2. recentUploads'[c][k] = recentUploads[c][k - 1]
      BY <1>1, <2>3
    <3>3. UploadBound(c, k - 1)
      BY <3>1 DEF WindowInv, UploadsBounded
    <3>4. Allowance(k, 1)' = Allowance(k - 1, 1) /\ now' - k = now - (k - 1)
      BY <1>4, <2>1, <3>1
    <3> QED
      BY <1>1, <3>2, <3>3, <3>4 DEF UploadBound, Bounded
  <2> QED
    BY <2>2, <2>3
<1> QED
  BY <1>2, <1>7, <1>8

\* The guard starts with nothing admitted.
LEMMA WindowInit == Init => WindowInv
<1> SUFFICES ASSUME Init PROVE WindowInv
  OBVIOUS
<1>1. GuardInv
  BY GuardInit
<1>2. StampsPast
  BY DEF StampsPast, Init
<1>3. BytesBounded
  <2> SUFFICES ASSUME NEW k \in 0 .. ByteWindow - 1
               PROVE  ByteBound(k) /\ recentBytes[k] = 0
    BY DEF BytesBounded
  <2>1. Allowance(k, MaxRequestCharge) \in Nat
    BY <1>1, ByteNumbers
  <2> QED
    BY <2>1 DEF ByteBound, Bounded, Init
<1>4. UploadsBounded
  <2> SUFFICES ASSUME NEW c \in Client, NEW k \in 0 .. Window - 1 PROVE UploadBound(c, k)
    BY DEF UploadsBounded
  <2>1. Allowance(k, 1) \in Nat
    BY <1>1, UploadNumbers
  <2> QED
    BY <2>1 DEF UploadBound, Bounded, NoBucket, Init
<1> QED
  BY <1>1, <1>2, <1>3, <1>4 DEF WindowInv

\* A restarted one has admitted nothing yet.
LEMMA RestartBounds ==
    ASSUME WindowInv, Restart
    PROVE  WindowInv'
<1>1. GuardInv'
  BY RestartInv DEF WindowInv
<1>2. /\ \A g \in Goroutine : pc'[g] = "idle"
      /\ globalBytesStarted' = 0 /\ globalBytes' = 0
      /\ recentBytes' = [k \in 0 .. ByteWindow - 1 |-> 0]
      /\ \A c \in Client : buckets'[c] = NoBucket
      /\ recentUploads' = [c \in Client |-> [k \in 0 .. Window - 1 |-> 0]]
  BY DEF Restart
<1>3. ASSUME NEW k \in Nat, NEW d \in Nat PROVE Allowance(k, d)' \in Nat
  <2>1. Late(k)' = {}
    BY <1>2 DEF Late
  <2>2. MaxConcurrent - Cardinality(Late(k)') \in Nat
    BY <2>1, FS_EmptySet, GuardAssumption
  <2> QED
    BY <2>2, SlotsWorth DEF Allowance
<1>4. StampsPast'
  BY <1>2 DEF StampsPast
<1>5. BytesBounded'
  <2> SUFFICES ASSUME NEW k \in 0 .. ByteWindow - 1
               PROVE  ByteBound(k)' /\ recentBytes'[k] = 0
    BY DEF BytesBounded
  <2>1. k \in Nat /\ MaxRequestCharge \in Nat
    BY GuardAssumption DEF MaxRequestCharge
  <2>2. Allowance(k, MaxRequestCharge)' \in Nat
    BY <1>3, <2>1
  <2> QED
    BY <1>2, <2>2 DEF ByteBound, Bounded
<1>6. UploadsBounded'
  <2> SUFFICES ASSUME NEW c \in Client, NEW k \in 0 .. Window - 1 PROVE UploadBound(c, k)'
    BY DEF UploadsBounded
  <2>1. Allowance(k, 1)' \in Nat
    BY <1>3
  <2> QED
    BY <1>2, <2>1 DEF UploadBound, Bounded, NoBucket
<1> QED
  BY <1>1, <1>4, <1>5, <1>6 DEF WindowInv

\* No step outside the critical section makes a request late: one that reads the clock
\* reads the present.
LEMMA LateKept ==
    ASSUME WindowInv, NEW g \in Goroutine,
           TakeSlot(g) \/ ReadClock(g) \/ GiveBack(g) \/ Done(g)
    PROVE  StampsPast' /\ \A k \in Nat : Late(k)' = Late(k)
<1>1. /\ now' = now /\ now \in Nat \ {0} /\ pc \in [Goroutine -> Steps] /\ pc[g] # "stamped"
      /\ stamp \in [Goroutine -> 0 .. MaxTime] /\ StampsPast
  BY DEF TakeSlot, ReadClock, GiveBack, Done, WindowInv, GuardInv, TypeOK
<1>2. CASE ReadClock(g)
  BY <1>1, <1>2 DEF ReadClock, StampsPast, Late
<1>3. ASSUME NEW s \in Steps \ {"stamped"}, pc' = [pc EXCEPT ![g] = s], stamp' = stamp
      PROVE  StampsPast' /\ \A k \in Nat : Late(k)' = Late(k)
  BY <1>1, <1>3 DEF StampsPast, Late
<1>4. CASE TakeSlot(g) \/ GiveBack(g) \/ Done(g)
  <2>1. stamp' = stamp /\ \E s \in Steps \ {"stamped"} : pc' = [pc EXCEPT ![g] = s]
    BY <1>4 DEF TakeSlot, GiveBack, Done, request, Steps
  <2> QED
    BY <1>3, <2>1
<1> QED
  BY <1>2, <1>4

\* The bounds are kept by every step.
LEMMA WindowNext == WindowInv /\ [Next]_vars => WindowInv'
<1> SUFFICES ASSUME WindowInv, [Next]_vars PROVE WindowInv'
  OBVIOUS
<1>1. GuardInv'
  BY GuardNext DEF WindowInv
<1>2. CASE UNCHANGED vars
  <2>1. UNCHANGED <<configured, now, pc, stamp, budget, history>>
    BY <1>2 DEF vars, budget, history
  <2>2. StampsPast' /\ \A k \in Nat : Late(k)' = Late(k)
    BY <2>1 DEF StampsPast, Late, WindowInv
  <2> QED
    BY <1>1, <2>1, <2>2, OutsideBounds DEF WindowInv
<1>3. ASSUME NEW g \in Goroutine, Begin(g) \/ Done(g) PROVE WindowInv'
  <2>1. CASE TakeSlot(g) \/ ReadClock(g) \/ GiveBack(g) \/ Done(g)
    <3>1. StampsPast' /\ \A k \in Nat : Late(k)' = Late(k)
      BY <2>1, LateKept
    <3>2. UNCHANGED <<configured, now, budget, history>>
      BY <2>1 DEF TakeSlot, ReadClock, GiveBack, Done
    <3> QED
      BY <1>1, <3>1, <3>2, OutsideBounds DEF WindowInv
  <2>2. CASE RefuseRate(g) \/ RefuseBudget(g) \/ Admit(g)
    BY <1>1, <2>2, RefuseRateBounds, RefuseBudgetBounds, AdmitBounds DEF WindowInv
  <2>3. CASE Busy(g)
    BY <1>2, <2>3 DEF Busy
  <2> QED
    BY <1>3, <2>1, <2>2, <2>3 DEF Begin
<1>4. CASE Tick
  BY <1>1, <1>4, TickBounds DEF WindowInv
<1> QED
  BY <1>2, <1>3, <1>4, RestartBounds DEF Next

\* The bounds hold at all times, for every stretch up to a window's length.
THEOREM WindowInvariance == Spec => []WindowInv
BY WindowInit, WindowNext, PTL DEF Spec

\* In any stretch of ByteWindow ticks, wherever it lies, the guard admits at most two
\* budgets, and one request's worth for each slot but one: the requests that read the
\* clock long before they reached the mutex cost no more than that.
THEOREM AnyWindowBytes == Spec => []BytesOverAnyWindow
<1>1. WindowInv => BytesOverAnyWindow
  <2> SUFFICES ASSUME WindowInv PROVE BytesOverAnyWindow
    OBVIOUS
  <2> DEFINE k == ByteWindow - 1
             dearest == MaxRequestCharge
             others == (MaxConcurrent - 1) * dearest
  <2>1. k \in 0 .. ByteWindow - 1 /\ MaxConcurrent - 1 \in Nat
    BY GuardAssumption
  <2>2. /\ recentBytes[k] \in Nat /\ globalBytes \in Nat /\ globalBytesStarted \in Nat
        /\ MaxGlobalBytes \in Nat /\ dearest \in Nat /\ globalBytes <= MaxGlobalBytes
        /\ Allowance(k, dearest) \in Nat
    BY <2>1, ByteNumbers DEF WindowInv
  <2>3. ByteBound(k) /\ (globalBytesStarted = 0 => recentBytes[k] = 0)
    BY <2>1 DEF WindowInv, BytesBounded
  <2>4. Allowance(k, dearest) <= others + dearest /\ others \in Nat
    BY <2>1, <2>2, AllowanceAtMost, SlotsWorth DEF WindowInv
  <2> HIDE DEF k, dearest, others
  <2>5. recentBytes[k] <= 2 * MaxGlobalBytes + others
    BY <2>2, <2>3, <2>4 DEF ByteBound, Bounded, dearest
  <2> QED
    BY <2>5 DEF BytesOverAnyWindow, RecentBytes, k, others, dearest
<1> QED
  BY <1>1, WindowInvariance, PTL

\* Of one client it admits at most two rates' worth and one request for each slot but
\* one, in any stretch of Window ticks.
THEOREM AnyWindowUploads == Spec => []UploadsOverAnyWindow
<1>1. WindowInv => UploadsOverAnyWindow
  <2> SUFFICES ASSUME WindowInv, NEW c \in Client
               PROVE  recentUploads[c][Window - 1] <= 2 * MaxRequests + MaxConcurrent - 1
    BY DEF UploadsOverAnyWindow, RecentUploads
  <2> DEFINE k == Window - 1
  <2>1. k \in 0 .. Window - 1 /\ k \in Nat /\ MaxConcurrent \in Nat \ {0}
    BY GuardAssumption
  <2>2. /\ recentUploads[c][k] \in Nat /\ buckets[c].started \in Nat /\ buckets[c].count \in Nat
        /\ MaxRequests \in Nat \ {0} /\ buckets[c].count <= MaxRequests
        /\ Allowance(k, 1) \in Nat
    BY <2>1, UploadNumbers DEF WindowInv
  <2>3. UploadBound(c, k)
    BY <2>1 DEF WindowInv, UploadsBounded
  <2>4. Allowance(k, 1) <= MaxConcurrent
    <3>1. PICK one \in Nat : one = 1
      OBVIOUS
    <3>2. Allowance(k, one) <= (MaxConcurrent - 1) * one + one
      BY <2>1, AllowanceAtMost DEF WindowInv
    <3> QED
      BY <2>1, <2>2, <3>1, <3>2
  <2> HIDE DEF k
  <2>5. recentUploads[c][k] <= 2 * MaxRequests + MaxConcurrent - 1
    BY <2>1, <2>2, <2>3, <2>4 DEF UploadBound, Bounded
  <2> QED
    BY <2>5 DEF k
<1> QED
  BY <1>1, WindowInvariance, PTL
-------------------------------------------------------------------------------
(* Who pays                                                                  *)
(*                                                                           *)
(* A clock reading may be older than the window it finds, and then it does   *)
(* not renew it; nor does one that is less than a width newer.  So a renewal *)
(* leaves every request admitted before it outside the new window, and what  *)
(* the window counts stays what was admitted since it started.               *)

\* An admitted request accounted to the window in force, or to one before it.
NotAhead ==
    \A g \in Goroutine :
        pc[g] = "admitted" =>
            globalBytesStarted # 0 /\ stamp[g] - globalBytesStarted < ByteWindow

StartsPast ==
    /\ globalBytesStarted <= now
    /\ \A c \in Client : buckets[c].started <= now

PaidInv == StartsPast /\ NotAhead /\ OnlyAdmittedPay

\* The byte window after a request has left the critical section.
LEMMA BytesPaid ==
    ASSUME WindowInv, PaidInv, NEW g \in Goroutine, pc[g] = "stamped",
           NEW s \in Steps \ {"stamped"}, pc' = [pc EXCEPT ![g] = s],
           UNCHANGED <<now, stamp, declared>>,
           NEW charge \in Nat, s = "admitted" => charge = Charge(declared[g]),
           globalBytes' = WindowAt(stamp[g]).bytes + charge,
           globalBytesStarted' = WindowAt(stamp[g]).started,
           \A k \in 0 .. ByteWindow - 1 : recentBytes'[k] = recentBytes[k] + charge
    PROVE  /\ globalBytesStarted' <= now' /\ NotAhead'
           /\ BytesAreOfAdmitted' /\ AdmittedHavePaid'
<1> DEFINE t == stamp[g]
<1>1. /\ t \in Nat \ {0} /\ t <= now /\ now \in Nat /\ ByteWindow \in Nat \ {0}
      /\ globalBytes \in Nat /\ globalBytesStarted \in Nat /\ globalBytesStarted <= now
      /\ pc \in [Goroutine -> Steps] /\ stamp \in [Goroutine -> 0 .. MaxTime]
      /\ \A k \in 0 .. ByteWindow - 1 : recentBytes[k] \in Nat
      /\ \A h \in Goroutine : stamp[h] \in Nat /\ Charge(declared[h]) \in Nat
  <2>1. \A h \in Goroutine : Charge(declared[h]) \in Nat
    BY ChargeType DEF WindowInv, GuardInv, TypeOK
  <2>2. TypeOK /\ StampsPast /\ globalBytesStarted <= now
    BY DEF WindowInv, GuardInv, PaidInv, StartsPast
  <2>3. stamp[g] \in 1 .. now /\ now \in Nat /\ t \in Nat
    BY <2>2 DEF TypeOK, StampsPast
  <2>4. /\ globalBytes \in Nat /\ globalBytesStarted \in Nat
        /\ pc \in [Goroutine -> Steps] /\ stamp \in [Goroutine -> 0 .. MaxTime]
        /\ \A h \in Goroutine : stamp[h] \in Nat
    <3>1. MaxTime \in Nat
      BY GuardAssumption
    <3> QED
      BY <2>2, <3>1 DEF TypeOK
  <2>5. \A k \in 0 .. ByteWindow - 1 : recentBytes[k] \in Nat
    BY <2>2 DEF TypeOK
  <2>6. ByteWindow \in Nat \ {0}
    BY GuardAssumption
  <2> QED
    BY <2>1, <2>2, <2>3, <2>4, <2>5, <2>6
<1>2. \A h \in Goroutine : pc'[h] = "admitted" => h = g \/ pc[h] = "admitted"
  BY <1>1
<1>3. pc'[g] = "admitted" => charge = Charge(declared[g])
  BY <1>1
<1>4. \A h \in Goroutine : Charge(declared[h])' = Charge(declared[h])
  BY DEF Charge, MaxRequestCharge
<1>5. CASE globalBytesStarted = 0 \/ t - globalBytesStarted >= ByteWindow
  <2>1. globalBytesStarted' = t /\ globalBytes' = charge
    BY <1>5 DEF WindowAt
  <2>2. ASSUME NEW h \in Goroutine \ {g}, pc'[h] = "admitted"
        PROVE  stamp[h] < t
    <3>1. globalBytesStarted # 0 /\ stamp[h] - globalBytesStarted < ByteWindow
      BY <1>2, <2>2 DEF PaidInv, NotAhead
    <3> QED
      BY <1>1, <1>5, <3>1
  <2>3. NotAhead'
    BY <1>1, <1>2, <2>1, <2>2 DEF NotAhead
  <2>4. AdmittedHavePaid'
    BY <1>1, <1>3, <1>4, <2>1, <2>2 DEF AdmittedHavePaid
  <2>5. BytesAreOfAdmitted'
    BY <1>1, <2>1 DEF BytesAreOfAdmitted
  <2> QED
    BY <1>1, <2>1, <2>3, <2>4, <2>5
<1>6. CASE globalBytesStarted # 0 /\ t - globalBytesStarted < ByteWindow
  <2>1. globalBytesStarted' = globalBytesStarted /\ globalBytes' = globalBytes + charge
    BY <1>1, <1>6 DEF WindowAt
  <2>2. NotAhead'
    BY <1>1, <1>2, <1>6, <2>1 DEF PaidInv, NotAhead
  <2>3. AdmittedHavePaid'
    <3> SUFFICES ASSUME NEW h \in Goroutine, pc'[h] = "admitted",
                        globalBytesStarted <= stamp[h]
                 PROVE  Charge(declared[h]) <= globalBytes + charge
      BY <1>4, <2>1 DEF AdmittedHavePaid
    <3>1. CASE h = g
      BY <1>1, <1>3, <3>1
    <3>2. CASE h # g
      BY <1>1, <1>2, <3>2 DEF PaidInv, OnlyAdmittedPay, AdmittedHavePaid
    <3> QED
      BY <3>1, <3>2
  <2>4. BytesAreOfAdmitted'
    <3> SUFFICES ASSUME now - globalBytesStarted < ByteWindow
                 PROVE  globalBytes + charge <= recentBytes'[now - globalBytesStarted]
      BY <2>1 DEF BytesAreOfAdmitted
    <3> DEFINE k == now - globalBytesStarted
    <3>1. k \in 0 .. ByteWindow - 1
      BY <1>1
    <3>2. globalBytes <= recentBytes[k]
      BY DEF PaidInv, OnlyAdmittedPay, BytesAreOfAdmitted
    <3>3. recentBytes'[k] = recentBytes[k] + charge /\ recentBytes[k] \in Nat
      BY <1>1, <3>1
    <3> QED
      BY <1>1, <3>2, <3>3
  <2> QED
    BY <1>1, <2>1, <2>2, <2>3, <2>4
<1> QED
  BY <1>1, <1>5, <1>6

\* What is left of a client's bucket after a purge is paid for as before.
LEMMA PurgePaid ==
    ASSUME WindowInv, PaidInv, NEW t \in 0 .. MaxTime, NEW c \in Client
    PROVE  LET b == Purged(t)[c] IN
           /\ b.started \in Nat /\ b.started <= now /\ b.count \in Nat
           /\ now - b.started < Window => b.count <= recentUploads[c][now - b.started]
<1>1. /\ now \in Nat /\ Window \in Nat \ {0}
      /\ buckets[c].started \in Nat /\ buckets[c].count \in Nat
      /\ recentUploads[c] \in [0 .. Window - 1 -> Nat]
  BY GuardAssumption DEF WindowInv, GuardInv, TypeOK
<1>2. /\ buckets[c].started <= now
      /\ now - buckets[c].started < Window =>
            buckets[c].count <= recentUploads[c][now - buckets[c].started]
  BY DEF PaidInv, StartsPast, OnlyAdmittedPay, UploadsAreOfAdmitted
<1>3. CASE Purged(t)[c] = buckets[c]
  BY <1>1, <1>2, <1>3
<1>4. CASE Purged(t)[c] = NoBucket
  BY <1>1, <1>4 DEF NoBucket
<1> QED
  BY <1>3, <1>4 DEF Purged

\* A refusal inside the critical section: the purge is all that happens to the buckets.
LEMMA UploadsPaidOnRefusal ==
    ASSUME WindowInv, PaidInv, NEW g \in Goroutine, buckets' = Purged(stamp[g]),
           UNCHANGED <<now, recentUploads>>
    PROVE  UploadsAreOfAdmitted' /\ \A c \in Client : buckets'[c].started <= now'
<1>1. stamp[g] \in 0 .. MaxTime
  BY DEF WindowInv, GuardInv, TypeOK
<1> QED
  BY <1>1, PurgePaid DEF UploadsAreOfAdmitted

LEMMA RefusePaid ==
    ASSUME WindowInv, PaidInv, NEW g \in Goroutine, RefuseRate(g) \/ RefuseBudget(g)
    PROVE  PaidInv'
<1>1. /\ pc[g] = "stamped" /\ pc' = [pc EXCEPT ![g] = "refused"]
      /\ buckets' = Purged(stamp[g])
      /\ UNCHANGED <<now, stamp, declared, recentBytes, recentUploads>>
  BY DEF RefuseRate, RefuseBudget, request, history
<1>2. UploadsAreOfAdmitted' /\ \A c \in Client : buckets'[c].started <= now'
  BY <1>1, UploadsPaidOnRefusal
<1>3. CASE RefuseRate(g)
  <2>1. UNCHANGED <<globalBytes, globalBytesStarted>>
    BY <1>3 DEF RefuseRate
  <2>2. \A h \in Goroutine : pc'[h] = "admitted" => pc[h] = "admitted"
    BY <1>1 DEF WindowInv, GuardInv, TypeOK
  <2> QED
    BY <1>1, <1>2, <2>1, <2>2
       DEF PaidInv, StartsPast, NotAhead, OnlyAdmittedPay, BytesAreOfAdmitted,
           AdmittedHavePaid, Charge, MaxRequestCharge
<1>4. CASE RefuseBudget(g)
  <2> DEFINE bytes == WindowAt(stamp[g]).bytes
  <2>1. /\ globalBytes' = bytes /\ globalBytesStarted' = WindowAt(stamp[g]).started
        /\ bytes \in Nat
    BY <1>4 DEF RefuseBudget, WindowAt, WindowInv, GuardInv, TypeOK
  <2>2. \A k \in 0 .. ByteWindow - 1 : recentBytes[k] \in Nat
    BY DEF WindowInv, GuardInv, TypeOK
  <2> HIDE DEF bytes
  <2>3. globalBytes' = bytes + 0 /\ \A k \in 0 .. ByteWindow - 1 : recentBytes'[k] = recentBytes[k] + 0
    BY <1>1, <2>1, <2>2
  <2>4. "refused" \in Steps \ {"stamped"} /\ "refused" # "admitted" /\ 0 \in Nat
    BY DEF Steps
  <2>5. /\ globalBytesStarted' <= now' /\ NotAhead'
        /\ BytesAreOfAdmitted' /\ AdmittedHavePaid'
    BY <1>1, <2>1, <2>3, <2>4, BytesPaid DEF bytes
  <2> QED
    BY <1>2, <2>5 DEF PaidInv, StartsPast, OnlyAdmittedPay
<1> QED
  BY <1>3, <1>4

\* An admission is counted by the window, by the bucket and by the history of both.
LEMMA AdmitPaid ==
    ASSUME WindowInv, PaidInv, NEW g \in Goroutine, Admit(g)
    PROVE  PaidInv'
<1> DEFINE t == stamp[g]
           c == client[g]
           b == BucketAt(c, t)
           charge == Charge(declared[g])
<1>1. /\ pc[g] = "stamped" /\ pc' = [pc EXCEPT ![g] = "admitted"]
      /\ buckets' = [Purged(t) EXCEPT ![c] = [b EXCEPT !.count = @ + 1]]
      /\ globalBytes' = WindowAt(t).bytes + charge
      /\ globalBytesStarted' = WindowAt(t).started
      /\ recentBytes' = [k \in 0 .. ByteWindow - 1 |-> recentBytes[k] + charge]
      /\ recentUploads' =
           [recentUploads EXCEPT ![c] = [k \in 0 .. Window - 1 |-> @[k] + 1]]
      /\ UNCHANGED <<now, stamp, declared>>
  BY DEF Admit, request
<1>2. /\ t \in 0 .. MaxTime /\ t \in Nat \ {0} /\ t <= now /\ now \in Nat /\ c \in Client
      /\ charge \in Nat /\ Window \in Nat \ {0}
      /\ recentUploads \in [Client -> [0 .. Window - 1 -> Nat]]
  <2>1. charge \in Nat
    BY ChargeType DEF WindowInv, GuardInv, TypeOK
  <2>2. TypeOK /\ StampsPast
    BY DEF WindowInv, GuardInv
  <2>3. t \in 1 .. now /\ now \in Nat
    BY <1>1, <2>2 DEF TypeOK, StampsPast
  <2>4. /\ t \in 0 .. MaxTime /\ c \in Client
        /\ recentUploads \in [Client -> [0 .. Window - 1 -> Nat]]
    BY <2>2 DEF TypeOK
  <2>5. Window \in Nat \ {0}
    BY GuardAssumption
  <2> QED
    BY <2>1, <2>3, <2>4, <2>5
<1>3. /\ globalBytesStarted' <= now' /\ NotAhead'
      /\ BytesAreOfAdmitted' /\ AdmittedHavePaid'
  <2>1. "admitted" \in Steps \ {"stamped"}
    BY DEF Steps
  <2>2. \A k \in 0 .. ByteWindow - 1 : recentBytes'[k] = recentBytes[k] + charge
    BY <1>1
  <2> QED
    BY <1>1, <1>2, <2>1, <2>2, BytesPaid
<1>4. /\ b \in [started: 0 .. MaxTime, count: Nat] /\ b.started <= now
      /\ now - b.started < Window => b.count <= recentUploads[c][now - b.started]
  <2>1. b \in [started: 0 .. MaxTime, count: Nat]
    BY <1>2, BucketType DEF WindowInv, GuardInv
  <2>2. CASE b = [started |-> t, count |-> 0]
    BY <1>2, <2>1, <2>2
  <2>3. CASE b = Purged(t)[c]
    BY <1>2, <2>1, <2>3, PurgePaid
  <2> QED
    BY <2>1, <2>2, <2>3 DEF BucketAt
<1>5. Purged(t) \in [Client -> [started: 0 .. MaxTime, count: Nat]]
  BY <1>2, PurgeType DEF WindowInv, GuardInv
<1> HIDE DEF t, c, b, charge
<1>6. ASSUME NEW x \in Client
      PROVE  /\ buckets'[x].started <= now'
             /\ now' - buckets'[x].started < Window =>
                   buckets'[x].count <= recentUploads'[x][now' - buckets'[x].started]
  <2>1. CASE x = c
    <3>1. buckets'[x].started = b.started /\ buckets'[x].count = b.count + 1
      BY <1>1, <1>2, <1>4, <1>5, <2>1
    <3>2. ASSUME now - b.started < Window
          PROVE  b.count + 1 <= recentUploads'[x][now - b.started]
      <4>1. now - b.started \in 0 .. Window - 1
        BY <1>2, <1>4, <3>2
      <4>2. recentUploads'[x][now - b.started] = recentUploads[c][now - b.started] + 1
        BY <1>1, <1>2, <2>1, <4>1
      <4>3. recentUploads[c][now - b.started] \in Nat
        BY <1>2, <4>1
      <4> QED
        BY <1>4, <3>2, <4>2, <4>3
    <3> QED
      BY <1>1, <1>4, <3>1, <3>2
  <2>2. CASE x # c
    <3>1. buckets'[x] = Purged(t)[x] /\ recentUploads'[x] = recentUploads[x]
      BY <1>1, <1>2, <1>5, <2>2
    <3> QED
      BY <1>1, <1>2, <3>1, PurgePaid
  <2> QED
    BY <2>1, <2>2
<1> QED
  BY <1>3, <1>6 DEF PaidInv, StartsPast, OnlyAdmittedPay, UploadsAreOfAdmitted

\* Outside the critical section nobody is admitted, and nothing is paid or paid back.
LEMMA OutsidePaid ==
    ASSUME WindowInv, PaidInv, NEW g \in Goroutine, pc[g] # "stamped",
           NEW s \in Steps \ {"admitted"}, pc' = [pc EXCEPT ![g] = s],
           \A h \in Goroutine \ {g} : stamp'[h] = stamp[h] /\ declared'[h] = declared[h],
           UNCHANGED <<now, budget, history>>
    PROVE  PaidInv'
<1>1. \A h \in Goroutine :
        pc'[h] = "admitted" =>
            /\ pc[h] = "admitted" /\ stamp'[h] = stamp[h]
            /\ Charge(declared[h])' = Charge(declared[h])
  BY DEF WindowInv, GuardInv, TypeOK, Charge, MaxRequestCharge
<1> QED
  BY <1>1 DEF PaidInv, StartsPast, NotAhead, OnlyAdmittedPay, BytesAreOfAdmitted,
              UploadsAreOfAdmitted, AdmittedHavePaid, budget, history

\* Time moves the windows' starts and their history alike.
LEMMA TickPaid ==
    ASSUME WindowInv, PaidInv, Tick
    PROVE  PaidInv'
<1>1. /\ now \in Nat /\ now' = now + 1
      /\ UNCHANGED <<pc, stamp, declared, buckets, globalBytes, globalBytesStarted>>
      /\ ByteWindow \in Nat /\ Window \in Nat
      /\ globalBytesStarted \in Nat /\ \A c \in Client : buckets[c].started \in Nat
      /\ globalBytesStarted <= now /\ \A c \in Client : buckets[c].started <= now
  BY GuardAssumption
     DEF Tick, request, budget, WindowInv, GuardInv, TypeOK, PaidInv, StartsPast
<1>2. StartsPast' /\ NotAhead' /\ AdmittedHavePaid'
  BY <1>1 DEF StartsPast, PaidInv, NotAhead, OnlyAdmittedPay, AdmittedHavePaid, Charge,
              MaxRequestCharge
<1>3. BytesAreOfAdmitted'
  <2> SUFFICES ASSUME now + 1 - globalBytesStarted < ByteWindow
               PROVE  globalBytes <= recentBytes'[now + 1 - globalBytesStarted]
    BY <1>1 DEF BytesAreOfAdmitted
  <2> DEFINE k == now - globalBytesStarted
  <2>1. k \in Nat /\ k + 1 \in 0 .. ByteWindow - 1 /\ k + 1 = now + 1 - globalBytesStarted
    BY <1>1
  <2>2. globalBytes <= recentBytes[k]
    BY <1>1, <2>1 DEF PaidInv, OnlyAdmittedPay, BytesAreOfAdmitted
  <2> HIDE DEF k
  <2>3. recentBytes'[k + 1] = recentBytes[k]
    BY <2>1 DEF Tick
  <2> QED
    BY <2>1, <2>2, <2>3
<1>4. UploadsAreOfAdmitted'
  <2> SUFFICES ASSUME NEW c \in Client, now + 1 - buckets[c].started < Window
               PROVE  buckets[c].count <= recentUploads'[c][now + 1 - buckets[c].started]
    BY <1>1 DEF UploadsAreOfAdmitted
  <2> DEFINE k == now - buckets[c].started
  <2>1. k \in Nat /\ k + 1 \in 0 .. Window - 1 /\ k + 1 = now + 1 - buckets[c].started
    BY <1>1
  <2>2. buckets[c].count <= recentUploads[c][k]
    BY <1>1, <2>1 DEF PaidInv, OnlyAdmittedPay, UploadsAreOfAdmitted
  <2> HIDE DEF k
  <2>3. recentUploads'[c][k + 1] = recentUploads[c][k]
    BY <2>1 DEF Tick
  <2> QED
    BY <2>1, <2>2, <2>3
<1> QED
  BY <1>2, <1>3, <1>4 DEF PaidInv, OnlyAdmittedPay

\* Nothing is paid when a process starts, for the first time...
LEMMA PaidInit ==
    ASSUME Init
    PROVE  PaidInv
<1>1. /\ now \in Nat /\ ByteWindow \in Nat /\ Window \in Nat
      /\ globalBytes = 0 /\ globalBytesStarted = 0
      /\ \A c \in Client : buckets[c] = [started |-> 0, count |-> 0]
      /\ \A g \in Goroutine : pc[g] = "idle"
  BY GuardAssumption DEF Init, NoBucket
<1>2. /\ recentBytes = [k \in 0 .. ByteWindow - 1 |-> 0]
      /\ recentUploads = [c \in Client |-> [k \in 0 .. Window - 1 |-> 0]]
  BY DEF Init
<1>3. StartsPast /\ NotAhead /\ AdmittedHavePaid
  BY <1>1 DEF StartsPast, NotAhead, AdmittedHavePaid
<1>4. BytesAreOfAdmitted /\ UploadsAreOfAdmitted
  BY <1>1, <1>2 DEF BytesAreOfAdmitted, UploadsAreOfAdmitted
<1> QED
  BY <1>3, <1>4 DEF PaidInv, OnlyAdmittedPay

\* ...or again.
LEMMA RestartPaid ==
    ASSUME WindowInv, Restart
    PROVE  PaidInv'
<1>1. /\ now' \in Nat /\ ByteWindow \in Nat /\ Window \in Nat
      /\ globalBytes' = 0 /\ globalBytesStarted' = 0
      /\ \A c \in Client : buckets'[c] = [started |-> 0, count |-> 0]
      /\ \A g \in Goroutine : pc'[g] = "idle"
  BY GuardAssumption DEF Restart, NoBucket, WindowInv, GuardInv, TypeOK
<1>2. /\ recentBytes' = [k \in 0 .. ByteWindow - 1 |-> 0]
      /\ recentUploads' = [c \in Client |-> [k \in 0 .. Window - 1 |-> 0]]
  BY DEF Restart
<1>3. StartsPast' /\ NotAhead' /\ AdmittedHavePaid'
  BY <1>1 DEF StartsPast, NotAhead, AdmittedHavePaid
<1>4. BytesAreOfAdmitted' /\ UploadsAreOfAdmitted'
  BY <1>1, <1>2 DEF BytesAreOfAdmitted, UploadsAreOfAdmitted
<1> QED
  BY <1>3, <1>4 DEF PaidInv, OnlyAdmittedPay

\* Every step keeps the accounts.
LEMMA PaidNext == WindowInv /\ PaidInv /\ [Next]_vars => PaidInv'
<1> SUFFICES ASSUME WindowInv, PaidInv, [Next]_vars PROVE PaidInv'
  OBVIOUS
<1>1. CASE UNCHANGED vars
  BY <1>1 DEF vars, PaidInv, StartsPast, NotAhead, OnlyAdmittedPay, BytesAreOfAdmitted,
              UploadsAreOfAdmitted, AdmittedHavePaid, Charge, MaxRequestCharge
<1>2. ASSUME NEW g \in Goroutine, Begin(g) \/ Done(g) PROVE PaidInv'
  <2>1. CASE TakeSlot(g) \/ ReadClock(g) \/ GiveBack(g) \/ Done(g)
    <3>1. /\ pc[g] # "stamped" /\ \E s \in Steps \ {"admitted"} : pc' = [pc EXCEPT ![g] = s]
          /\ UNCHANGED <<now, budget, history>>
      BY <2>1 DEF TakeSlot, ReadClock, GiveBack, Done, Steps
    <3>2. \A h \in Goroutine \ {g} : stamp'[h] = stamp[h] /\ declared'[h] = declared[h]
      BY <2>1 DEF TakeSlot, ReadClock, GiveBack, Done, request, WindowInv, GuardInv, TypeOK
    <3> QED
      BY <3>1, <3>2, OutsidePaid
  <2>2. CASE Busy(g)
    BY <1>1, <2>2 DEF Busy
  <2> QED
    BY <1>2, <2>1, <2>2, RefusePaid, AdmitPaid DEF Begin
<1> QED
  BY <1>1, <1>2, TickPaid, RestartPaid DEF Next

\* Windows and buckets are drawn on by admitted requests only and by each of those,
\* however old the clock readings are that requests account with: no refusal of begin
\* costs anything, and no admission is forgotten while its request is in flight.
THEOREM AdmittedAndNobodyElsePay == Spec => []OnlyAdmittedPay
<1>1. PaidInv => OnlyAdmittedPay
  BY DEF PaidInv
<1> QED
  BY <1>1, PaidInit, PaidNext, WindowInvariance, PTL DEF Spec
===============================================================================
