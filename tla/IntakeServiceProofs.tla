------------------------- MODULE IntakeServiceProofs -------------------------
(***************************************************************************)
(* Proofs about IntakeService: its steps are steps of the abuse guard and  *)
(* of the capacity guard, so that what is proved of each of them holds of  *)
(* the route that is composed of them.                                     *)
(***************************************************************************)
EXTENDS IntakeService, AbuseGuardProofs

\* Where the route stands agrees with what its two guards remember of it.
RouteInv ==
    /\ stage \in [Goroutine -> {"begin", "capacity", "handle", "return"}]
    /\ handler \in [Goroutine -> {"idle", "copy", "record"}]
    /\ \A g \in Goroutine :
          /\ handler[g] # "idle" <=> stage[g] = "handle"
          /\ stage[g] # "begin" <=> pc[g] = "admitted"

\* Every step of the service is one of the guard, or none.
LEMMA ServiceNextOfGuard == [ServiceNext]_serviceVars => [Next]_vars
<1> SUFFICES ASSUME [ServiceNext]_serviceVars PROVE [Next]_vars
  OBVIOUS
<1>1. ASSUME NEW g \in Goroutine, Serve(g) PROVE Begin(g) \/ Done(g) \/ UNCHANGED vars
  BY <1>1 DEF Serve, Enter, PassBegin, AskCapacity, Receive, Describe, EndHandler, Return,
              Begin
<1> QED
  BY <1>1 DEF ServiceNext, NotServed, ServiceTick, ServiceRestart, Next, serviceVars

\* The route's slot accounting, budget and rates are those of the guard.
THEOREM ServiceImplementsGuard == ServiceSpec => Spec
<1>1. ServiceInit => Init
  BY DEF ServiceInit
<1> QED
  BY <1>1, ServiceNextOfGuard, PTL DEF ServiceSpec, Spec

-------------------------------------------------------------------------------
(* The capacity guard behind the abuse guard                                 *)

\* No request is anywhere when a process starts.
LEMMA RouteInit == ServiceInit => RouteInv
BY DEF ServiceInit, Init, Capacity!Init, RouteInv

\* A step of one request that leaves the others alone.
LEMMA RouteOwn ==
    ASSUME RouteInv, TypeOK, NEW g \in Goroutine,
           NEW s \in {"begin", "capacity", "handle", "return"},
           NEW p \in Steps, NEW h \in {"idle", "copy", "record"},
           stage' = [stage EXCEPT ![g] = s],
           pc' = [pc EXCEPT ![g] = p],
           handler' = [handler EXCEPT ![g] = h],
           h # "idle" <=> s = "handle",
           s # "begin" <=> p = "admitted"
    PROVE  RouteInv'
BY DEF RouteInv, TypeOK

\* The route keeps the stages in step.
LEMMA RouteNext == RouteInv /\ TypeOK /\ [ServiceNext]_serviceVars => RouteInv'
<1> SUFFICES ASSUME RouteInv, TypeOK, [ServiceNext]_serviceVars PROVE RouteInv'
  OBVIOUS
<1>1. CASE UNCHANGED <<stage, handler, pc>>
  BY <1>1 DEF RouteInv
<1>2. ASSUME NEW g \in Goroutine, Serve(g) PROVE RouteInv'
  <2>0. /\ stage = [stage EXCEPT ![g] = stage[g]]
        /\ pc = [pc EXCEPT ![g] = pc[g]] /\ pc[g] \in Steps
        /\ handler = [handler EXCEPT ![g] = handler[g]]
        /\ stage[g] \in {"begin", "capacity", "handle", "return"}
        /\ handler[g] \in {"idle", "copy", "record"}
        /\ handler[g] # "idle" <=> stage[g] = "handle"
        /\ stage[g] # "begin" <=> pc[g] = "admitted"
    BY DEF RouteInv, TypeOK
  <2>1. CASE Enter(g)
    <3>1. CASE Busy(g)
      BY <1>1, <2>1, <3>1 DEF Enter, Busy, vars, space
    <3>2. CASE TakeSlot(g)
      BY <2>0, <2>1, <3>2, RouteOwn DEF Enter, TakeSlot, space, Steps
    <3> QED
      BY <2>1, <3>1, <3>2 DEF Enter
  <2>2. CASE PassBegin(g)
    <3>1. CASE Admit(g)
      <4>1. stage[g] = "begin" /\ handler[g] = "idle" /\ handler' = handler
            /\ pc' = [pc EXCEPT ![g] = "admitted"]
        BY <2>0, <2>2, <3>1 DEF PassBegin, Admit, space
      <4>2. stage' = [stage EXCEPT ![g] = "capacity"]
        BY <2>2, <3>1 DEF PassBegin, EnterStage, Admit, ReadClock, RefuseRate,
                          RefuseBudget, GiveBack, TypeOK
      <4> QED
        BY <2>0, <4>1, <4>2, RouteOwn DEF Steps
    <3>2. CASE ~Admit(g)
      <4>1. stage' = stage /\ handler' = handler /\ pc[g] # "admitted"
            /\ \E p \in Steps \ {"admitted"} : pc' = [pc EXCEPT ![g] = p]
        BY <2>2, <3>2 DEF PassBegin, ReadClock, RefuseRate, RefuseBudget, GiveBack,
                          space, Steps
      <4>2. PICK p \in Steps \ {"admitted"} : pc' = [pc EXCEPT ![g] = p]
        BY <4>1
      <4>3. /\ stage' = [stage EXCEPT ![g] = "begin"] /\ handler' = [handler EXCEPT ![g] = "idle"]
            /\ p \in Steps /\ p # "admitted"
        BY <2>0, <4>1, <4>2
      <4> QED
        BY <4>2, <4>3, RouteOwn
    <3> QED
      BY <3>1, <3>2
  <2>3. CASE AskCapacity(g)
    <3>1. pc' = pc /\ stage[g] = "capacity" /\ handler[g] = "idle"
      BY <2>0, <2>3 DEF AskCapacity, vars
    <3>2. CASE Capacity!LetThrough(g) /\ EnterStage(g, "handle")
      BY <2>0, <3>1, <3>2, RouteOwn DEF Capacity!LetThrough, EnterStage
    <3>3. CASE Capacity!TurnAway(g) /\ EnterStage(g, "return")
      BY <2>0, <3>1, <3>3, RouteOwn DEF Capacity!TurnAway, Capacity!vars, EnterStage
    <3> QED
      BY <2>3, <3>2, <3>3 DEF AskCapacity
  <2>4. CASE Receive(g)
    BY <1>1, <2>4 DEF Receive, Capacity!WriteSample, vars
  <2>5. CASE Describe(g)
    <3>1. handler[g] = "copy" /\ handler' = [handler EXCEPT ![g] = "record"]
          /\ stage' = stage /\ pc' = pc
      BY <2>5 DEF Describe, Capacity!WriteRecord, vars
    <3> QED
      BY <2>0, <3>1, RouteOwn
  <2>6. CASE EndHandler(g)
    <3>1. handler[g] # "idle" /\ handler' = [handler EXCEPT ![g] = "idle"]
          /\ stage' = [stage EXCEPT ![g] = "return"] /\ pc' = pc
      BY <2>6 DEF EndHandler, Capacity!Keep, Capacity!Discard, EnterStage, vars
    <3> QED
      BY <2>0, <3>1, RouteOwn
  <2>7. CASE Return(g)
    <3>1. handler' = handler /\ handler[g] = "idle"
          /\ stage' = [stage EXCEPT ![g] = "begin"] /\ pc' = [pc EXCEPT ![g] = "idle"]
      BY <2>0, <2>7 DEF Return, Done, EnterStage, space
    <3> QED
      BY <2>0, <3>1, RouteOwn DEF Steps
  <2> QED
    BY <1>2, <2>1, <2>2, <2>3, <2>4, <2>5, <2>6, <2>7 DEF Serve
<1>3. CASE ServiceTick
  BY <1>1, <1>3 DEF ServiceTick, Tick, space
<1>4. CASE ServiceRestart
  BY <1>4 DEF ServiceRestart, Restart, Capacity!Crash, RouteInv
<1>5. ASSUME NEW g \in Goroutine, NotServed(g) PROVE RouteInv'
  BY <1>1, <1>5 DEF NotServed, serviceVars, space, vars
<1>6. CASE UNCHANGED serviceVars
  BY <1>1, <1>6 DEF serviceVars, space, vars
<1> QED
  BY <1>2, <1>3, <1>4, <1>5, <1>6 DEF ServiceNext

\* Both invariants hold of every state of the service.
LEMMA RouteInvariance == ServiceSpec => [](GuardInv /\ RouteInv)
<1>1. ServiceSpec => []GuardInv
  BY ServiceImplementsGuard, GuardInvariance, PTL
<1>2. GuardInv => TypeOK
  BY DEF GuardInv
<1> QED
  BY <1>1, <1>2, RouteInit, RouteNext, PTL DEF ServiceSpec

\* A request that is about to ask leaves room among the slots for itself: those in
\* flight hold one each, and it holds one too.
LEMMA SlotForAsker ==
    ASSUME GuardInv, RouteInv, NEW g \in Goroutine, stage[g] = "capacity"
    PROVE  Cardinality(Capacity!InFlight) < MaxConcurrent
<1>1. Capacity!InFlight \subseteq Holders \ {g} /\ g \in Holders
  BY DEF Capacity!InFlight, Holders, RouteInv
<1>2. IsFiniteSet(Holders) /\ Cardinality(Holders) \in Nat
  BY HoldersFinite
<1>3. IsFiniteSet(Holders \ {g}) /\ Cardinality(Holders \ {g}) = Cardinality(Holders) - 1
  BY <1>1, <1>2, FS_RemoveElement
<1>4. /\ Cardinality(Capacity!InFlight) <= Cardinality(Holders \ {g})
      /\ Cardinality(Capacity!InFlight) \in Nat
  BY <1>1, <1>3, FS_Subset, FS_CardinalityType
<1>5. Cardinality(Holders) <= MaxConcurrent /\ MaxConcurrent \in Nat
  BY GuardAssumption DEF GuardInv, SlotsAreHeld
<1> QED
  BY <1>2, <1>3, <1>4, <1>5

\* Every step of the service is one of the capacity guard, or none.
LEMMA ServiceNextOfCapacity ==
    GuardInv /\ RouteInv /\ [ServiceNext]_serviceVars => [Capacity!Next]_(Capacity!vars)
<1> SUFFICES ASSUME GuardInv, RouteInv, [ServiceNext]_serviceVars
             PROVE  [Capacity!Next]_(Capacity!vars)
  OBVIOUS
<1>1. CASE UNCHANGED space
  BY <1>1 DEF space, Capacity!vars
<1>2. ASSUME NEW g \in Goroutine, Serve(g) PROVE [Capacity!Next]_(Capacity!vars)
  <2>1. CASE AskCapacity(g)
    <3>1. Cardinality(Capacity!InFlight) < MaxConcurrent
      BY <2>1, SlotForAsker DEF AskCapacity
    <3>2. Capacity!LetThrough(g) \/ Capacity!TurnAway(g)
      BY <2>1 DEF AskCapacity
    <3>3. Capacity!Cardinality(Capacity!InFlight) = Cardinality(Capacity!InFlight)
      BY DEF Capacity!Cardinality, Cardinality
    <3> QED
      BY <3>1, <3>2, <3>3 DEF Capacity!Next, Capacity!Ask
  <2>2. CASE Receive(g) \/ Describe(g) \/ EndHandler(g)
    BY <2>2 DEF Receive, Describe, EndHandler, Capacity!Next
  <2> QED
    BY <1>1, <1>2, <2>1, <2>2 DEF Serve, Enter, PassBegin, Return
<1>3. CASE ServiceRestart
  BY <1>3 DEF ServiceRestart, Capacity!Next
<1> QED
  BY <1>1, <1>2, <1>3 DEF ServiceNext, NotServed, ServiceTick, serviceVars

\* What the capacity guard assumes of its caller, that nobody asks without a slot, is
\* true of the route, for any number of goroutines and slots: its margins hold of the
\* running service.
THEOREM ServiceImplementsCapacityGuard == ServiceSpec => ImplementsCapacityGuard
<1>1. ServiceInit => Capacity!Init
  BY DEF ServiceInit
<1> QED
  BY <1>1, RouteInvariance, ServiceNextOfCapacity, PTL
     DEF ServiceSpec, ImplementsCapacityGuard, Capacity!Spec

-------------------------------------------------------------------------------
(* The margins of the service                                                *)

\* What CapacityGuardProofs proves, of the limits and the requests of the service.
CapacityFacts == INSTANCE CapacityGuardProofs WITH
    Request <- Goroutine,
    Slots   <- MaxConcurrent,
    pc      <- handler

\* The service's constants are such as the capacity guard assumes.
LEMMA CapacityAssumed == CapacityFacts!CapacityAssumption
<1>1. CapacityFacts!IsFiniteSet(Goroutine) = IsFiniteSet(Goroutine)
  BY DEF CapacityFacts!IsFiniteSet, IsFiniteSet
<1> QED
  BY <1>1, GuardAssumption, ServiceAssumption

\* Both instances are the same guard: what is measured...
LEMMA SameMeasures ==
    /\ Capacity!vars = CapacityFacts!vars
    /\ \A S : Capacity!Cardinality(S) = CapacityFacts!Cardinality(S)
    /\ Capacity!InFlight = CapacityFacts!InFlight
    /\ Capacity!Available = CapacityFacts!Available
    /\ Capacity!Used = CapacityFacts!Used
    /\ Capacity!HasCapacity = CapacityFacts!HasCapacity
    /\ Capacity!PerRequest = CapacityFacts!PerRequest
<1>1. \A S : Capacity!Cardinality(S) = CapacityFacts!Cardinality(S)
  BY DEF Capacity!Cardinality, CapacityFacts!Cardinality
<1>2. /\ Capacity!Available = CapacityFacts!Available
      /\ Capacity!Used = CapacityFacts!Used
      /\ Capacity!PerRequest = CapacityFacts!PerRequest
      /\ Capacity!InFlight = CapacityFacts!InFlight
      /\ Capacity!vars = CapacityFacts!vars
  BY DEF Capacity!Available, CapacityFacts!Available, Capacity!Used, CapacityFacts!Used,
         Capacity!PerRequest, CapacityFacts!PerRequest, Capacity!InFlight,
         CapacityFacts!InFlight, Capacity!vars, CapacityFacts!vars
<1> QED
  BY <1>1, <1>2 DEF Capacity!HasCapacity, CapacityFacts!HasCapacity

\* ...what a state may be...
LEMMA SameStates ==
    /\ Capacity!Init <=> CapacityFacts!Init
    /\ Capacity!TypeOK <=> CapacityFacts!TypeOK
    /\ Capacity!FloorMargin <=> CapacityFacts!FloorMargin
    /\ Capacity!WatermarkMargin <=> CapacityFacts!WatermarkMargin
BY SameMeasures
   DEF Capacity!Init, CapacityFacts!Init, Capacity!TypeOK, CapacityFacts!TypeOK,
       Capacity!FloorMargin, CapacityFacts!FloorMargin,
       Capacity!WatermarkMargin, CapacityFacts!WatermarkMargin

\* ...and what a step may do.
LEMMA SameSteps ==
    [Capacity!Next]_(Capacity!vars) => [CapacityFacts!Next]_(CapacityFacts!vars)
<1> SUFFICES ASSUME [Capacity!Next]_(Capacity!vars)
             PROVE  CapacityFacts!Next \/ UNCHANGED CapacityFacts!vars
  OBVIOUS
<1>1. CASE UNCHANGED Capacity!vars
  BY <1>1, SameMeasures DEF Capacity!vars, CapacityFacts!vars
<1>2. ASSUME NEW g \in Goroutine, Capacity!Ask(g) PROVE CapacityFacts!Ask(g)
  BY <1>2, SameMeasures
     DEF Capacity!Ask, CapacityFacts!Ask, Capacity!LetThrough, CapacityFacts!LetThrough,
         Capacity!TurnAway, CapacityFacts!TurnAway, Capacity!vars, CapacityFacts!vars
<1>3. ASSUME NEW g \in Goroutine, Capacity!WriteSample(g) PROVE CapacityFacts!WriteSample(g)
  BY <1>3, SameMeasures DEF Capacity!WriteSample, CapacityFacts!WriteSample
<1>4. ASSUME NEW g \in Goroutine, Capacity!WriteRecord(g) PROVE CapacityFacts!WriteRecord(g)
  BY <1>4, SameMeasures DEF Capacity!WriteRecord, CapacityFacts!WriteRecord
<1>5. ASSUME NEW g \in Goroutine, Capacity!Keep(g) PROVE CapacityFacts!Keep(g)
  BY <1>5 DEF Capacity!Keep, CapacityFacts!Keep
<1>6. ASSUME NEW g \in Goroutine, Capacity!Discard(g) PROVE CapacityFacts!Discard(g)
  BY <1>6 DEF Capacity!Discard, CapacityFacts!Discard, Capacity!LeftTaken,
              CapacityFacts!LeftTaken
<1>7. CASE Capacity!Crash
  BY <1>7 DEF CapacityFacts!Next, Capacity!Crash, CapacityFacts!Crash
<1> QED
  BY <1>1, <1>2, <1>3, <1>4, <1>5, <1>6, <1>7 DEF Capacity!Next, CapacityFacts!Next

\* A behaviour of the service is one of the guard that CapacityGuardProofs is about.
LEMMA ServiceImplementsCapacityFacts == ServiceSpec => CapacityFacts!Spec
BY SameStates, SameSteps, ServiceImplementsCapacityGuard, PTL
   DEF ImplementsCapacityGuard, Capacity!Spec, CapacityFacts!Spec

\* Every variable of the composed service stays within its type: in particular no
\* counter of either guard goes wrong through what the other does.
THEOREM ServiceTypeCorrectness == ServiceSpec => []ServiceTypeOK
<1> DEFINE RouteType ==
      /\ enabled \in BOOLEAN
      /\ stage \in [Goroutine -> {"begin", "capacity", "handle", "return"}]
<1>1. ServiceSpec => []CapacityFacts!TypeOK
  <2>1. CapacityFacts!Spec => []CapacityFacts!TypeOK
    BY CapacityAssumed, CapacityFacts!CapacityTypeCorrectness
       DEF CapacityFacts!CapacityAssumption
  <2> QED
    BY <2>1, ServiceImplementsCapacityFacts, PTL
<1>2. ServiceInit => enabled \in BOOLEAN
  BY DEF ServiceInit
<1>3. enabled \in BOOLEAN /\ [ServiceNext]_serviceVars => (enabled \in BOOLEAN)'
  BY DEF ServiceNext, NotServed, Serve, Enter, PassBegin, AskCapacity, Receive, Describe,
         EndHandler, Return, ServiceTick, ServiceRestart, serviceVars
<1>4. GuardInv /\ RouteInv /\ CapacityFacts!TypeOK /\ enabled \in BOOLEAN => ServiceTypeOK
  BY SameStates DEF GuardInv, RouteInv, ServiceTypeOK
<1> QED
  BY <1>1, <1>2, <1>3, <1>4, RouteInvariance, PTL DEF ServiceSpec

\* The free-space floor is not undercut by the running service, however its requests
\* interleave and whatever lengths they declare, by more than what its upload slots
\* may take (main.go:202-210, 240).
THEOREM ServiceKeepsFloorMargin == ServiceSpec => []Capacity!FloorMargin
<1>1. CapacityFacts!Spec => []CapacityFacts!FloorMargin
  BY CapacityAssumed, CapacityFacts!FloorMargins DEF CapacityFacts!CapacityAssumption
<1> QED
  BY <1>1, SameStates, ServiceImplementsCapacityFacts, PTL

\* Nor is the watermark exceeded by more (main.go:202-210, 243).
THEOREM ServiceKeepsWatermarkMargin == ServiceSpec => []Capacity!WatermarkMargin
<1>1. CapacityFacts!Spec => []CapacityFacts!WatermarkMargin
  BY CapacityAssumed, CapacityFacts!WatermarkMargins DEF CapacityFacts!CapacityAssumption
<1> QED
  BY <1>1, SameStates, ServiceImplementsCapacityFacts, PTL

-------------------------------------------------------------------------------
(* The budget behind the bytes                                               *)

\* No body is longer than its request was charged for.
LEMMA BodyIsCharged ==
    ASSUME NEW d \in Declared
    PROVE  BodyLimit(d) \in Nat /\ BodyLimit(d) <= Charge(d) /\ Charge(d) \in Nat
<1>1. d \in Int /\ MaxUpload \in Nat /\ Overhead \in Nat /\ BodyOverhead \in 0 .. Overhead
  BY GuardAssumption, ServiceAssumption
<1> QED
  BY <1>1 DEF BodyLimit, Charge, MaxRequestCharge

\* The strengthening of StoredIsCharged: what is written is counted.
ChargedInv ==
    /\ written \in [Goroutine -> Nat]
    /\ StoredIsCharged

\* Only the copy of a sample grows, and only up to the end of the body.
LEMMA ChargedNext ==
    GuardInv /\ RouteInv /\ ChargedInv /\ [ServiceNext]_serviceVars => ChargedInv'
<1> SUFFICES ASSUME GuardInv, RouteInv, ChargedInv, [ServiceNext]_serviceVars
             PROVE  ChargedInv'
  OBVIOUS
<1>1. /\ written \in [Goroutine -> Nat] /\ handler \in [Goroutine -> {"idle", "copy", "record"}]
      /\ declared \in [Goroutine -> Declared]
      /\ \A g \in Goroutine : Charge(declared[g]) \in Nat
  BY BodyIsCharged DEF ChargedInv, RouteInv, GuardInv, TypeOK
<1>2. CASE UNCHANGED <<written, handler, declared>>
  BY <1>2 DEF ChargedInv, StoredIsCharged, Charge
<1>3. ASSUME NEW g \in Goroutine, Serve(g) PROVE ChargedInv'
  <2>1. CASE ReadClock(g)
    <3>1. pc[g] = "slot" /\ stage[g] = "begin" /\ handler[g] = "idle"
      BY <1>1, <2>1 DEF ReadClock, RouteInv
    <3>2. \A h \in Goroutine \ {g} : declared'[h] = declared[h]
      BY <1>1, <2>1 DEF ReadClock
    <3>3. UNCHANGED <<written, handler>>
      <4>1. ~AskCapacity(g) /\ ~EndHandler(g) /\ ~Receive(g) /\ ~Describe(g) /\ ~Return(g)
        BY <3>1 DEF AskCapacity, EndHandler, Receive, Describe, Return, Capacity!Keep,
                    Capacity!Discard, Capacity!WriteSample, Capacity!WriteRecord
      <4> QED
        BY <1>3, <4>1 DEF Serve, Enter, PassBegin, space
    <3> QED
      BY <1>1, <3>1, <3>2, <3>3 DEF ChargedInv, StoredIsCharged, Charge
  <2>2. CASE Receive(g)
    <3>1. /\ written[g] < BodyLimit(declared[g])
          /\ written' = [written EXCEPT ![g] = written[g] + 1]
          /\ UNCHANGED <<handler, declared>>
      BY <2>2 DEF Receive, Capacity!WriteSample, vars
    <3>2. BodyLimit(declared[g]) \in Nat /\ BodyLimit(declared[g]) <= Charge(declared[g])
      BY <1>1, BodyIsCharged
    <3>3. written[g] \in Nat /\ Charge(declared[g]) \in Nat
      BY <1>1
    <3>4. written' \in [Goroutine -> Nat] /\ written'[g] <= Charge(declared[g])
      BY <1>1, <3>1, <3>2, <3>3
    <3> QED
      BY <1>1, <3>1, <3>4 DEF ChargedInv, StoredIsCharged, Charge
  <2>3. CASE \/ AskCapacity(g) /\ UNCHANGED vars
             \/ Describe(g) \/ EndHandler(g)
    <3>1. /\ \E n \in Nat : written' = [written EXCEPT ![g] = n]
          /\ declared' = declared
          /\ \/ \E h \in {"idle", "record"} : handler' = [handler EXCEPT ![g] = h]
             \/ handler' = [handler EXCEPT ![g] = "copy"] /\ written' = [written EXCEPT ![g] = 0]
             \/ UNCHANGED <<handler, written>>
      <4>1. written[g] \in Nat /\ written[g] + RecordSize \in Nat
        BY <1>1, ServiceAssumption
      <4>2. CASE AskCapacity(g)
        <5>1. CASE Capacity!LetThrough(g)
          BY <4>2, <5>1 DEF AskCapacity, Capacity!LetThrough, vars
        <5>2. CASE Capacity!TurnAway(g)
          <6>1. UNCHANGED <<handler, written, declared>>
            BY <4>2, <5>2 DEF AskCapacity, Capacity!TurnAway, Capacity!vars, vars
          <6>2. written' = [written EXCEPT ![g] = written[g]]
            BY <1>1, <6>1
          <6> QED
            BY <4>1, <6>1, <6>2
        <5> QED
          BY <4>2, <5>1, <5>2 DEF AskCapacity
      <4>3. CASE Describe(g)
        BY <4>1, <4>3 DEF Describe, Capacity!WriteRecord, vars
      <4>4. CASE EndHandler(g)
        BY <4>4 DEF EndHandler, Capacity!Keep, Capacity!Discard, vars
      <4> QED
        BY <2>3, <4>2, <4>3, <4>4
    <3> QED
      BY <1>1, <3>1 DEF ChargedInv, StoredIsCharged, Charge
  <2>4. CASE Enter(g) \/ Return(g) \/ (PassBegin(g) /\ ~ReadClock(g))
    BY <1>2, <2>4 DEF Enter, Return, PassBegin, TakeSlot, Busy, Done, RefuseRate,
                      RefuseBudget, Admit, GiveBack, request, space, vars
  <2> QED
    BY <1>3, <2>1, <2>2, <2>3, <2>4 DEF Serve, AskCapacity
<1>4. CASE ServiceTick
  BY <1>2, <1>4 DEF ServiceTick, Tick, request, space
<1>5. CASE ServiceRestart
  BY <1>5 DEF ServiceRestart, Capacity!Crash, ChargedInv, StoredIsCharged
<1>6. ASSUME NEW g \in Goroutine, NotServed(g) PROVE ChargedInv'
  BY <1>2, <1>6 DEF NotServed, serviceVars, space, vars
<1>7. CASE UNCHANGED serviceVars
  BY <1>2, <1>7 DEF serviceVars, space, vars
<1> QED
  BY <1>3, <1>4, <1>5, <1>6, <1>7 DEF ServiceNext

\* No request ever stores more of a sample than the shared budget was charged for it,
\* whatever lengths are declared and whatever the limits are.
THEOREM StoredBytesAreCharged == ServiceSpec => []StoredIsCharged
<1>1. ServiceInit => ChargedInv
  BY DEF ServiceInit, Capacity!Init, ChargedInv, StoredIsCharged
<1>2. ChargedInv => StoredIsCharged
  BY DEF ChargedInv
<1> QED
  BY <1>1, <1>2, RouteInvariance, ChargedNext, PTL DEF ServiceSpec

\* What is proved of the guard alone is so of the service: a process whose budget is
\* invalid lets nobody in...
THEOREM InvalidServiceCloses == ServiceSpec => []InvalidBudgetClosesIntake
BY ServiceImplementsGuard, InvalidConfigurationCloses, PTL

\* ...who is admitted pays and nobody else, be it stored, refused or answered 503...
THEOREM ServiceChargesTheAdmitted == ServiceSpec => []OnlyAdmittedPay
BY ServiceImplementsGuard, AdmittedAndNobodyElsePay, PTL

\* ...and what is let through in any stretch of a window's length is bounded, in bytes
\* and in each client's requests, although a request may wait for the mutex while the
\* windows change.
THEOREM ServiceTrafficIsBounded ==
    ServiceSpec => [](BytesOverAnyWindow /\ UploadsOverAnyWindow)
BY ServiceImplementsGuard, AnyWindowBytes, AnyWindowUploads, PTL
===============================================================================
