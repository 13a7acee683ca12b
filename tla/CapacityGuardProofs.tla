-------------------------- MODULE CapacityGuardProofs --------------------------
(***************************************************************************)
(* Proofs about CapacityGuard: its types, and the two margins, which hold  *)
(* of any number of slots and any sizes.                                   *)
(*                                                                         *)
(* What the requests in flight have written is a sum, and a sum over a set *)
(* that grows is out of the provers' reach.  It is counted instead: the    *)
(* written blocks are the elements of a set, and a step of one request     *)
(* changes that request's part of it alone.                                *)
(***************************************************************************)
EXTENDS CapacityGuard, FiniteSetTheorems, TLAPS

\* The blocks that the requests of w have written, each numbered by its request.
BlocksOf(w) == {b \in Request \X (1 .. PerRequest) : b[2] <= w[b[1]]}

\* Those of the requests in flight, which Discard would give back.
Unsettled == Cardinality(BlocksOf(written))

\* The most that can have been taken from the disk since a request was last let through:
\* one request's writes for a slot that is free by now, and what has been written for a
\* slot in use.
MostTaken == (Slots - Cardinality(InFlight)) * PerRequest + Unsettled

\* A request writes one byte too much or a record, never both.
WrittenInv ==
    \A r \in Request :
        /\ pc[r] = "idle" => written[r] = 0
        /\ pc[r] = "copy" => written[r] <= MaxUpload + 1
        /\ pc[r] = "record" => written[r] \in RecordSize .. MaxUpload + RecordSize

\* What is handed back fits, and the check that let the last request through still holds,
\* but for what can have been taken since.
MarginInv ==
    /\ Cardinality(InFlight) <= Slots
    /\ bfree + Unsettled <= Total
    /\ InFlight # {} =>
          /\ Available + MostTaken >= cfg.minFree + MaxUpload
          /\ (Used - MostTaken) * 100 < Total * cfg.maxUsedPercent

CapacityInv == TypeOK /\ WrittenInv /\ MarginInv

-------------------------------------------------------------------------------
(* Counting                                                                  *)

\* What one request may write at most.
LEMMA PerRequestType ==
    /\ PerRequest \in Nat \ {0}
    /\ MaxUpload + 1 <= PerRequest /\ MaxUpload + RecordSize <= PerRequest
BY CapacityAssumption DEF PerRequest

\* The blocks are finitely many, and those of one request as many as it wrote.
LEMMA BlocksOfOne ==
    ASSUME NEW w \in [Request -> 0 .. PerRequest], NEW r \in Request
    PROVE  /\ IsFiniteSet(BlocksOf(w))
           /\ Cardinality(BlocksOf(w)) \in Nat
           /\ Cardinality({b \in BlocksOf(w) : b[1] # r}) \in Nat
           /\ Cardinality(BlocksOf(w))
                = Cardinality({b \in BlocksOf(w) : b[1] # r}) + w[r]
<1> DEFINE All    == Request \X (1 .. PerRequest)
           Own    == {r} \X (1 .. w[r])
           Others == {b \in BlocksOf(w) : b[1] # r}
<1>1. IsFiniteSet(All)
  <2>1. IsFiniteSet(1 .. PerRequest)
    BY PerRequestType, FS_Interval
  <2> QED
    BY <2>1, CapacityAssumption, FS_Product
<1>2. BlocksOf(w) \subseteq All /\ Others \subseteq All
  BY DEF BlocksOf
<1>3. /\ IsFiniteSet(BlocksOf(w)) /\ Cardinality(BlocksOf(w)) \in Nat
      /\ IsFiniteSet(Others) /\ Cardinality(Others) \in Nat
  BY <1>1, <1>2, FS_Subset, FS_CardinalityType
<1>4. w[r] \in Nat /\ w[r] <= PerRequest
  BY PerRequestType
<1>5. IsFiniteSet(1 .. w[r]) /\ Cardinality(1 .. w[r]) = w[r]
  BY <1>4, FS_Interval
<1>6. IsFiniteSet({r}) /\ Cardinality({r}) = 1
  BY FS_Singleton
<1>7. IsFiniteSet(Own) /\ Cardinality(Own) = 1 * w[r]
  BY <1>5, <1>6, FS_Product
<1>8. BlocksOf(w) = Others \cup Own
  <2>1. ASSUME NEW b \in BlocksOf(w) PROVE b \in Others \cup Own
    BY <1>4, <2>1, PerRequestType DEF BlocksOf
  <2>2. ASSUME NEW b \in Own PROVE b \in BlocksOf(w)
    BY <1>4, <2>2, PerRequestType DEF BlocksOf
  <2> QED
    BY <2>1, <2>2
<1>9. Others \cap Own = {} /\ Cardinality(Others \cap Own) = 0
  BY FS_EmptySet
<1>10. Cardinality(Others \cup Own)
         = Cardinality(Others) + Cardinality(Own) - Cardinality(Others \cap Own)
  BY <1>3, <1>7, FS_Union
<1> HIDE DEF Others, Own
<1>11. Cardinality(BlocksOf(w)) = Cardinality(Others) + w[r]
  BY <1>3, <1>4, <1>7, <1>8, <1>9, <1>10
<1> QED
  BY <1>3, <1>11 DEF Others

\* A step of one request changes the sum by what that request wrote or gave back.
LEMMA BlocksOfStep ==
    ASSUME NEW w \in [Request -> 0 .. PerRequest], NEW r \in Request,
           NEW n \in 0 .. PerRequest
    PROVE  Cardinality(BlocksOf([w EXCEPT ![r] = n]))
             = Cardinality(BlocksOf(w)) - w[r] + n
<1> DEFINE v == [w EXCEPT ![r] = n]
<1>1. v \in [Request -> 0 .. PerRequest] /\ v[r] = n
  OBVIOUS
<1>2. {b \in BlocksOf(v) : b[1] # r} = {b \in BlocksOf(w) : b[1] # r}
  BY DEF BlocksOf
<1>3. Cardinality(BlocksOf(v)) = Cardinality({b \in BlocksOf(v) : b[1] # r}) + n
  BY <1>1, BlocksOfOne
<1>4. /\ Cardinality(BlocksOf(w)) = Cardinality({b \in BlocksOf(w) : b[1] # r}) + w[r]
      /\ Cardinality({b \in BlocksOf(w) : b[1] # r}) \in Nat
  BY BlocksOfOne
<1>5. w[r] \in Nat /\ n \in Nat
  BY PerRequestType
<1> DEFINE others == Cardinality({b \in BlocksOf(w) : b[1] # r})
<1>6. Cardinality(BlocksOf(v)) = others + n /\ Cardinality(BlocksOf(w)) = others + w[r]
      /\ others \in Nat
  BY <1>2, <1>3, <1>4
<1> HIDE DEF v, others
<1>7. Cardinality(BlocksOf(v)) = Cardinality(BlocksOf(w)) - w[r] + n
  BY <1>5, <1>6
<1> QED
  BY <1>7 DEF v

\* All of the blocks belong to requests in flight, none of which wrote more than it may.
LEMMA BlocksOfInFlight ==
    ASSUME NEW w \in [Request -> 0 .. PerRequest], NEW S \in SUBSET Request,
           \A r \in Request \ S : w[r] = 0
    PROVE  /\ Cardinality(S) \in Nat
           /\ Cardinality(BlocksOf(w)) <= Cardinality(S) * PerRequest
<1>1. IsFiniteSet(S) /\ Cardinality(S) \in Nat
  BY CapacityAssumption, FS_Subset, FS_CardinalityType
<1>2. /\ IsFiniteSet(1 .. PerRequest)
      /\ Cardinality(1 .. PerRequest) = PerRequest
  BY PerRequestType, FS_Interval
<1>3. BlocksOf(w) \subseteq S \X (1 .. PerRequest)
  BY PerRequestType DEF BlocksOf
<1>4. /\ IsFiniteSet(S \X (1 .. PerRequest))
      /\ Cardinality(S \X (1 .. PerRequest)) = Cardinality(S) * PerRequest
  BY <1>1, <1>2, FS_Product
<1> QED
  BY <1>1, <1>3, <1>4, FS_Subset

-------------------------------------------------------------------------------
(* The inductive invariant                                                   *)

\* The numbers that a state of the invariant is made of.
LEMMA CapacityNumbers ==
    ASSUME CapacityInv
    PROVE  /\ Total \in Nat /\ RootReserve \in Nat /\ MaxUpload \in Nat /\ RecordSize \in Nat
           /\ Slots \in Nat /\ PerRequest \in Nat /\ bfree \in Nat
           /\ cfg.minFree \in Nat /\ cfg.maxUsedPercent \in Nat
           /\ written \in [Request -> 0 .. PerRequest]
           /\ IsFiniteSet(InFlight) /\ Cardinality(InFlight) \in Nat
           /\ Unsettled \in Nat
           /\ Unsettled <= Cardinality(InFlight) * PerRequest
           /\ (Slots - Cardinality(InFlight)) * PerRequest \in Nat
           /\ MostTaken \in Nat
<1>1. /\ Total \in Nat /\ RootReserve \in Nat /\ MaxUpload \in Nat /\ RecordSize \in Nat
      /\ Slots \in Nat /\ PerRequest \in Nat
  BY CapacityAssumption, PerRequestType
<1>2. bfree \in Nat
  BY <1>1 DEF CapacityInv, TypeOK
<1>3. cfg.minFree \in Nat /\ cfg.maxUsedPercent \in Nat
  BY CapacityAssumption DEF CapacityInv, TypeOK
<1>4. written \in [Request -> 0 .. PerRequest]
  <2>1. ASSUME NEW r \in Request PROVE written[r] \in 0 .. PerRequest
    <3>1. pc[r] \in {"idle", "copy", "record"} /\ written[r] \in Nat
      BY <1>1 DEF CapacityInv, TypeOK
    <3> QED
      BY <1>1, <3>1, PerRequestType DEF CapacityInv, WrittenInv
  <2> QED
    BY <2>1 DEF CapacityInv, TypeOK
<1>5. IsFiniteSet(InFlight) /\ Cardinality(InFlight) \in Nat
  BY CapacityAssumption, FS_Subset, FS_CardinalityType DEF InFlight
<1>6. Unsettled <= Cardinality(InFlight) * PerRequest
  <2>1. InFlight \in SUBSET Request /\ \A r \in Request \ InFlight : written[r] = 0
    BY DEF InFlight, CapacityInv, WrittenInv
  <2> QED
    BY <1>4, <2>1, BlocksOfInFlight DEF Unsettled
<1>7. Unsettled \in Nat
  <2>1. BlocksOf(written) \subseteq Request \X (1 .. PerRequest)
    BY DEF BlocksOf
  <2>2. IsFiniteSet(1 .. PerRequest)
    BY <1>1, FS_Interval
  <2>3. IsFiniteSet(Request \X (1 .. PerRequest))
    BY <2>2, CapacityAssumption, FS_Product
  <2> QED
    BY <2>1, <2>3, FS_Subset, FS_CardinalityType DEF Unsettled
<1>8. (Slots - Cardinality(InFlight)) * PerRequest \in Nat
  <2>1. Slots - Cardinality(InFlight) \in Nat
    BY <1>1, <1>5 DEF CapacityInv, MarginInv
  <2> QED
    BY <1>1, <2>1
<1>9. MostTaken \in Nat
  BY <1>7, <1>8 DEF MostTaken
<1> QED
  BY <1>1, <1>2, <1>3, <1>4, <1>5, <1>6, <1>7, <1>8, <1>9

\* Nothing is in flight at first.
LEMMA CapacityInit == Init => CapacityInv
<1> SUFFICES ASSUME Init PROVE CapacityInv
  OBVIOUS
<1>1. TypeOK /\ WrittenInv
  BY CapacityAssumption DEF Init, TypeOK, WrittenInv
<1>2. InFlight = {} /\ Cardinality(InFlight) = 0
  BY FS_EmptySet DEF Init, InFlight
<1>3. BlocksOf(written) = {} /\ Unsettled = 0
  <2>1. BlocksOf(written) = {}
    BY PerRequestType DEF BlocksOf, Init
  <2> QED
    BY <2>1, FS_EmptySet DEF Unsettled
<1>4. bfree + Unsettled <= Total /\ Cardinality(InFlight) <= Slots
  BY <1>1, <1>2, <1>3, CapacityAssumption DEF TypeOK
<1> QED
  BY <1>1, <1>2, <1>4 DEF CapacityInv, MarginInv

\* Leaving: what the request wrote stays or is handed back, and its slot is free
\* for one that may write as much as any.
LEMMA CapacityLeave ==
    ASSUME CapacityInv, NEW r \in Request, pc[r] # "idle",
           pc' = [pc EXCEPT ![r] = "idle"],
           written' = [written EXCEPT ![r] = 0],
           NEW left \in 0 .. written[r], bfree' = bfree + (written[r] - left),
           cfg' = cfg
    PROVE  CapacityInv'
<1>1. TypeOK' /\ WrittenInv' /\ bfree' <= Total /\ bfree' >= bfree
  <2>1. written[r] \in Nat /\ bfree \in Nat
    BY CapacityNumbers, PerRequestType
  <2>2. written[r] <= Unsettled
    <3>1. /\ Unsettled = Cardinality({b \in BlocksOf(written) : b[1] # r}) + written[r]
          /\ Cardinality({b \in BlocksOf(written) : b[1] # r}) \in Nat
      BY CapacityNumbers, BlocksOfOne DEF Unsettled
    <3> DEFINE others == Cardinality({b \in BlocksOf(written) : b[1] # r})
    <3>2. Unsettled = others + written[r] /\ others \in Nat
      BY <3>1
    <3> HIDE DEF others
    <3> QED
      BY <2>1, <3>2
  <2>3. bfree' \in 0 .. Total /\ bfree' >= bfree
    BY <2>1, <2>2, CapacityNumbers DEF CapacityInv, MarginInv
  <2>4. TypeOK'
    BY <2>3, CapacityAssumption DEF CapacityInv, TypeOK
  <2>5. WrittenInv'
    BY DEF CapacityInv, TypeOK, WrittenInv
  <2> QED
    BY <2>3, <2>4, <2>5
<1>2. /\ r \in InFlight /\ InFlight' = InFlight \ {r}
      /\ Cardinality(InFlight') = Cardinality(InFlight) - 1
  <2>1. r \in InFlight /\ InFlight' = InFlight \ {r}
    BY DEF InFlight, CapacityInv, TypeOK
  <2> QED
    BY <2>1, CapacityNumbers, FS_RemoveElement
<1>3. Unsettled' = Unsettled - written[r] /\ written[r] \in 0 .. PerRequest
  <2>1. Cardinality(BlocksOf([written EXCEPT ![r] = 0]))
          = Cardinality(BlocksOf(written)) - written[r] + 0
    BY CapacityNumbers, BlocksOfStep, 0 \in 0 .. PerRequest
  <2> QED
    BY <2>1, CapacityNumbers DEF Unsettled
<1>4. bfree' + Unsettled' <= Total
  BY <1>3, CapacityNumbers DEF CapacityInv, MarginInv
<1>5. MostTaken' = MostTaken + PerRequest - written[r]
  <2>1. (Slots - (Cardinality(InFlight) - 1)) * PerRequest
          = (Slots - Cardinality(InFlight)) * PerRequest + PerRequest
    BY CapacityNumbers
  <2> DEFINE free == (Slots - Cardinality(InFlight)) * PerRequest
  <2>2. MostTaken' = free + PerRequest + Unsettled' /\ MostTaken = free + Unsettled
        /\ free \in Nat
    BY <1>2, <2>1, CapacityNumbers DEF MostTaken
  <2> HIDE DEF free
  <2> QED
    BY <1>3, <2>2, CapacityNumbers
<1>6. MostTaken' >= MostTaken /\ MostTaken' \in Int
  BY <1>3, <1>5, CapacityNumbers
<1>7. /\ Available' >= Available /\ Used' <= Used
      /\ {Available, Available', Used, Used'} \subseteq Int
  BY <1>1, CapacityNumbers DEF Available, Used, TypeOK
<1>8. ASSUME InFlight' # {}
      PROVE  /\ Available' + MostTaken' >= cfg'.minFree + MaxUpload
             /\ (Used' - MostTaken') * 100 < Total * cfg'.maxUsedPercent
  <2>1. /\ Available + MostTaken >= cfg.minFree + MaxUpload
        /\ (Used - MostTaken) * 100 < Total * cfg.maxUsedPercent
    BY <1>2 DEF CapacityInv, MarginInv
  <2>2. Available' + MostTaken' >= cfg.minFree + MaxUpload
    BY <1>6, <1>7, <2>1, CapacityNumbers
  <2>3. (Used' - MostTaken') * 100 <= (Used - MostTaken) * 100
    BY <1>6, <1>7, CapacityNumbers
  <2>4. Total * cfg.maxUsedPercent \in Int
    BY CapacityNumbers
  <2>5. (Used' - MostTaken') * 100 < Total * cfg.maxUsedPercent
    BY <1>6, <1>7, <2>1, <2>3, <2>4, CapacityNumbers
  <2> QED
    BY <2>2, <2>5
<1> QED
  BY <1>1, <1>2, <1>4, <1>8, CapacityNumbers DEF CapacityInv, MarginInv

\* What is left taken of a request that failed is part of what it wrote.
LEMMA LeftTakenType ==
    ASSUME CapacityInv, NEW r \in Request
    PROVE  LeftTaken(r) \subseteq 0 .. written[r] /\ written[r] \in LeftTaken(r)
<1>1. written[r] \in Nat /\ RecordSize \in Nat /\ MaxUpload \in Nat
  BY CapacityNumbers, PerRequestType
<1> QED
  BY <1>1 DEF LeftTaken, CapacityInv, WrittenInv

\* Writing: what leaves the free blocks enters those that are written.
LEMMA CapacityWrite ==
    ASSUME CapacityInv, NEW r \in Request, NEW n \in Nat, NEW p \in {"copy", "record"},
           pc[r] = "copy", Available >= n, bfree' = bfree - n,
           pc' = [pc EXCEPT ![r] = p],
           written' = [written EXCEPT ![r] = @ + n],
           p = "copy" => written[r] + n <= MaxUpload + 1,
           p = "record" => written[r] + n \in RecordSize .. MaxUpload + RecordSize,
           cfg' = cfg
    PROVE  CapacityInv'
<1>1. /\ written[r] \in Nat /\ written[r] + n \in 0 .. PerRequest
      /\ written' = [written EXCEPT ![r] = written[r] + n]
  BY CapacityNumbers, PerRequestType
<1>2. Available \in Int /\ Available' = Available - n
      /\ Used' = Used + n /\ bfree' \in 0 .. Total
  BY CapacityNumbers, CapacityAssumption DEF Available, Used, CapacityInv, TypeOK
<1>3. written[r] + n \in 0 .. MaxUpload + 1 + RecordSize
  BY <1>1, CapacityNumbers
<1>4. TypeOK' /\ WrittenInv'
  BY <1>1, <1>2, <1>3 DEF CapacityInv, TypeOK, WrittenInv
<1>5. InFlight' = InFlight
  BY DEF InFlight, CapacityInv, TypeOK
<1>6. Unsettled' = Unsettled + n
  <2>1. Cardinality(BlocksOf([written EXCEPT ![r] = written[r] + n]))
          = Cardinality(BlocksOf(written)) - written[r] + (written[r] + n)
    BY <1>1, CapacityNumbers, BlocksOfStep
  <2>2. Unsettled' = Unsettled - written[r] + (written[r] + n)
    BY <1>1, <2>1 DEF Unsettled
  <2> QED
    BY <1>1, <2>2, CapacityNumbers
<1>7. MostTaken' = MostTaken + n
  BY <1>5, <1>6, CapacityNumbers DEF MostTaken
<1>8. /\ Available' + MostTaken' = Available + MostTaken
      /\ Used' - MostTaken' = Used - MostTaken
      /\ bfree' + Unsettled' = bfree + Unsettled
  BY <1>2, <1>6, <1>7, CapacityNumbers DEF Used
<1> QED
  BY <1>4, <1>5, <1>8 DEF CapacityInv, MarginInv

\* A request is let through only while there is room for all of an upload, and only
\* one that holds one of the slots asks.
LEMMA CapacityLetThrough ==
    ASSUME CapacityInv, NEW r \in Request, Cardinality(InFlight) < Slots, LetThrough(r)
    PROVE  CapacityInv'
<1>1. TypeOK' /\ WrittenInv'
  BY CapacityAssumption DEF LetThrough, CapacityInv, TypeOK, WrittenInv
<1>2. written' = written
  BY DEF LetThrough, CapacityInv, TypeOK, WrittenInv
<1>3. Unsettled' = Unsettled
  BY <1>2 DEF Unsettled
<1>4. InFlight' = InFlight \cup {r} /\ r \notin InFlight
  BY DEF LetThrough, InFlight, CapacityInv, TypeOK
<1>5. Cardinality(InFlight') = Cardinality(InFlight) + 1
  BY <1>4, CapacityNumbers, FS_AddElement
<1>6. Cardinality(InFlight') <= Slots
  BY <1>5, CapacityNumbers
<1>7. MostTaken' \in Nat
  <2>1. Slots - Cardinality(InFlight') \in Nat
    BY <1>5, <1>6, CapacityNumbers
  <2>2. (Slots - Cardinality(InFlight')) * PerRequest \in Nat
    BY <2>1, CapacityNumbers
  <2> QED
    BY <1>3, <2>2, CapacityNumbers DEF MostTaken
<1>8. /\ Available' = Available /\ Used' = Used /\ cfg' = cfg /\ bfree' = bfree
      /\ Available \in Int /\ Used \in Int
  BY CapacityNumbers DEF LetThrough, Available, Used
<1>9. Available >= cfg.minFree + MaxUpload /\ Used * 100 < Total * cfg.maxUsedPercent
  BY <1>8, CapacityNumbers DEF LetThrough, HasCapacity
<1>10. Available' + MostTaken' >= cfg'.minFree + MaxUpload
  BY <1>7, <1>8, <1>9, CapacityNumbers
<1>11. (Used' - MostTaken') * 100 < Total * cfg'.maxUsedPercent
  <2> DEFINE mark == Total * cfg.maxUsedPercent
  <2>1. mark \in Int
    BY CapacityNumbers
  <2>2. Used * 100 < mark
    BY <1>9
  <2>3. \A o \in Nat, u, m \in Int : u * 100 < m => (u - o) * 100 < m
    OBVIOUS
  <2> HIDE DEF mark
  <2>4. (Used - MostTaken') * 100 < mark
    BY <1>7, <1>8, <2>1, <2>2, <2>3
  <2>5. mark = Total * cfg'.maxUsedPercent /\ Used' = Used
    BY <1>8 DEF mark
  <2> QED
    BY <2>4, <2>5
<1> QED
  BY <1>1, <1>3, <1>6, <1>8, <1>10, <1>11 DEF CapacityInv, MarginInv

\* A new process has nothing in flight.
LEMMA CapacityCrash == CapacityInv /\ Crash => CapacityInv'
<1> SUFFICES ASSUME CapacityInv, Crash PROVE CapacityInv'
  OBVIOUS
<1>1. TypeOK' /\ WrittenInv'
  BY CapacityAssumption DEF Crash, CapacityInv, TypeOK, WrittenInv
<1>2. InFlight' = {} /\ Cardinality(InFlight') = 0
  BY FS_EmptySet DEF Crash, InFlight
<1>3. BlocksOf(written') = {}
  BY PerRequestType DEF BlocksOf, Crash
<1>4. Unsettled' = 0
  BY <1>3, FS_EmptySet DEF Unsettled
<1>5. bfree' + Unsettled' <= Total
  BY <1>1, <1>4, CapacityAssumption DEF TypeOK
<1> QED
  BY <1>1, <1>2, <1>5, CapacityAssumption DEF CapacityInv, MarginInv

\* The invariant is inductive.
LEMMA CapacityNext == CapacityInv /\ [Next]_vars => CapacityInv'
<1> SUFFICES ASSUME CapacityInv, [Next]_vars PROVE CapacityInv'
  OBVIOUS
<1>1. CASE UNCHANGED vars
  BY <1>1 DEF vars, CapacityInv, TypeOK, WrittenInv, MarginInv, InFlight, Available, Used,
              MostTaken, Unsettled
<1>2. ASSUME NEW r \in Request, Ask(r) PROVE CapacityInv'
  BY <1>1, <1>2, CapacityLetThrough DEF Ask, TurnAway
<1>3. ASSUME NEW r \in Request, WriteSample(r) PROVE CapacityInv'
  <2>1. /\ pc' = [pc EXCEPT ![r] = "copy"]
        /\ Available >= 1 /\ written[r] + 1 <= MaxUpload + 1
    BY <1>3, CapacityNumbers DEF WriteSample, CapacityInv, TypeOK, Available
  <2> QED
    BY <1>3, <2>1, CapacityWrite DEF WriteSample
<1>4. ASSUME NEW r \in Request, WriteRecord(r) PROVE CapacityInv'
  <2>1. written[r] \in Nat
    BY <1>4, CapacityNumbers, PerRequestType
  <2>2. RecordSize \in Nat /\ written[r] + RecordSize \in RecordSize .. MaxUpload + RecordSize
    BY <1>4, <2>1, CapacityNumbers DEF WriteRecord
  <2> QED
    BY <1>4, <2>2, CapacityWrite DEF WriteRecord
<1>5. ASSUME NEW r \in Request, Keep(r) \/ Discard(r) PROVE CapacityInv'
  <2>1. PICK left \in LeftTaken(r) : bfree' = bfree + (written[r] - left)
    <3>1. written[r] \in LeftTaken(r) /\ bfree + (written[r] - written[r]) = bfree
      BY CapacityNumbers, PerRequestType, LeftTakenType
    <3> QED
      BY <1>5, <3>1 DEF Keep, Discard
  <2>2. left \in 0 .. written[r]
    BY LeftTakenType
  <2>3. /\ pc[r] # "idle" /\ pc' = [pc EXCEPT ![r] = "idle"]
        /\ written' = [written EXCEPT ![r] = 0] /\ cfg' = cfg
    BY <1>5 DEF Keep, Discard
  <2> QED
    BY <2>1, <2>2, <2>3, CapacityLeave
<1> QED
  BY <1>1, <1>2, <1>3, <1>4, <1>5, CapacityCrash DEF Next

-------------------------------------------------------------------------------
(* What is proved                                                            *)

\* Both margins follow, as no request has written more than it may.
LEMMA CapacityMargins == CapacityInv => FloorMargin /\ WatermarkMargin
<1> SUFFICES ASSUME CapacityInv, InFlight # {}
             PROVE  /\ Available >= cfg.minFree + MaxUpload - Slots * PerRequest
                    /\ (Used - Slots * PerRequest) * 100 < Total * cfg.maxUsedPercent
  BY DEF FloorMargin, WatermarkMargin
<1>1. MostTaken <= Slots * PerRequest /\ Slots * PerRequest \in Int
  <2>1. (Slots - Cardinality(InFlight)) * PerRequest
          = Slots * PerRequest - Cardinality(InFlight) * PerRequest
    BY CapacityNumbers
  <2>2. Slots * PerRequest \in Int /\ Cardinality(InFlight) * PerRequest \in Int
    BY CapacityNumbers
  <2> QED
    BY <2>1, <2>2, CapacityNumbers DEF MostTaken
<1>2. Available \in Int /\ Used \in Int
  BY CapacityNumbers DEF Available, Used
<1>3. /\ Available + MostTaken >= cfg.minFree + MaxUpload
      /\ (Used - MostTaken) * 100 < Total * cfg.maxUsedPercent
  BY DEF CapacityInv, MarginInv
<1>4. Available >= cfg.minFree + MaxUpload - Slots * PerRequest
  <2> DEFINE margin == Slots * PerRequest
  <2>1. MostTaken <= margin /\ margin \in Int /\ MostTaken \in Int
        /\ cfg.minFree \in Int /\ MaxUpload \in Int
    BY <1>1, CapacityNumbers
  <2> HIDE DEF margin
  <2>2. Available >= cfg.minFree + MaxUpload - margin
    BY <1>2, <1>3, <2>1
  <2> QED
    BY <2>2 DEF margin
<1>5. (Used - Slots * PerRequest) * 100 < Total * cfg.maxUsedPercent
  <2> DEFINE margin == Slots * PerRequest
             mark   == Total * cfg.maxUsedPercent
  <2>1. MostTaken <= margin /\ margin \in Int /\ mark \in Int /\ MostTaken \in Int
        /\ (Used - MostTaken) * 100 < mark
    BY <1>1, <1>3, CapacityNumbers
  <2> HIDE DEF margin, mark
  <2>2. (Used - margin) * 100 < mark
    BY <1>2, <2>1
  <2> QED
    BY <2>2 DEF margin, mark
<1> QED
  BY <1>4, <1>5

LEMMA CapacityInvariance == Spec => []CapacityInv
BY CapacityInit, CapacityNext, PTL DEF Spec

\* The free blocks never exceed the file system, whatever is handed back, and no
\* request writes more than the byte that shows a sample to be too large.
THEOREM CapacityTypeCorrectness == Spec => []TypeOK
<1>1. CapacityInv => TypeOK
  BY DEF CapacityInv
<1> QED
  BY <1>1, CapacityInvariance, PTL

\* However many slots there are, whatever the sizes and however full the quarantine
\* is to begin with, the uploads in flight take the free space (main.go:240) no
\* further below the configured floor than one upload and its record for each slot,
\* less the upload for which the check leaves room.
THEOREM FloorMargins == Spec => []FloorMargin
BY CapacityInvariance, CapacityMargins, PTL

\* The same of the watermark (main.go:243): it is exceeded by less than what the
\* slots can write, as the check reserves nothing for them.
THEOREM WatermarkMargins == Spec => []WatermarkMargin
BY CapacityInvariance, CapacityMargins, PTL
===============================================================================
