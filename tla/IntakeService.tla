---------------------------- MODULE IntakeService ----------------------------
(***************************************************************************)
(* The submission route (newHandler, main.go): the abuse guard, the        *)
(* capacity guard and the handler behind it, in the order in which each    *)
(* request of the running service passes them, and the start of a process  *)
(* under the configuration it finds.                                       *)
(*                                                                         *)
(* AbuseGuard's actions are extended to the whole route; CapacityGuard is  *)
(* an instance whose requests are the goroutines of the server, and what   *)
(* it assumes of its caller is a property here.                            *)
(***************************************************************************)
EXTENDS AbuseGuard

CONSTANTS
    Total, RootReserve, MinFree, MaxUsedPercent, RecordSize,
    BodyOverhead        \* what MaxBytesReader allows beyond the sample

\* handleSubmission repeats the overhead as a number of its own; the rest is of the
\* capacity guard, whose limits loadConfig reads as unsigned numbers and whose sizes
\* are those that statfs returns.
ASSUME ServiceAssumption ==
    /\ BodyOverhead \in 0 .. Overhead
    /\ MinFree \subseteq Nat /\ MaxUsedPercent \subseteq Nat
    /\ {Total, RootReserve, RecordSize} \subseteq Nat
    /\ RootReserve <= Total

VARIABLES
    enabled,    \* cfg.uploadEnabled
    stage,      \* where the route stands in a request that was admitted
    cfg,        \* the capacity limits of the running process
    bfree,      \* free blocks of the quarantine file system
    handler,    \* the steps of handleSubmission that take or free space
    written     \* blocks each request in flight has written

Capacity == INSTANCE CapacityGuard WITH
    Request <- Goroutine,
    Slots   <- MaxConcurrent,
    pc      <- handler

space == <<cfg, bfree, handler, written>>
serviceVars == <<vars, enabled, stage, space>>

ServiceTypeOK ==
    /\ TypeOK /\ Capacity!TypeOK
    /\ enabled \in BOOLEAN
    /\ stage \in [Goroutine -> {"begin", "capacity", "handle", "return"}]

ServiceInit ==
    /\ Init /\ Capacity!Init
    /\ enabled \in BOOLEAN
    /\ stage = [g \in Goroutine |-> "begin"]

EnterStage(g, s) == stage' = [stage EXCEPT ![g] = s]

-------------------------------------------------------------------------------
(* The route                                                                 *)

\* 404 while uploads are disabled, 405 for anything but a POST: the guard is not
\* even asked.
NotServed(g) ==
    /\ stage[g] = "begin" /\ pc[g] = "idle"
    /\ UNCHANGED serviceVars

\* A slot, or 429...
Enter(g) ==
    /\ enabled
    /\ TakeSlot(g) \/ Busy(g)
    /\ UNCHANGED <<enabled, stage, space>>

\* ...then the rest of begin, which returns true only to a request it admitted.
PassBegin(g) ==
    /\ \/ /\ ReadClock(g) \/ RefuseRate(g) \/ RefuseBudget(g) \/ GiveBack(g)
          /\ UNCHANGED stage
       \/ Admit(g) /\ EnterStage(g, "capacity")
    /\ UNCHANGED <<enabled, space>>

\* Mutants of AskCapacity: done is called, not deferred; it is deferred only behind
\* the capacity check.
AskCapacityReleasing(g) ==
    /\ stage[g] = "capacity"
    /\ \/ Capacity!LetThrough(g) /\ EnterStage(g, "handle")
       \/ Capacity!TurnAway(g) /\ EnterStage(g, "begin")
    /\ Done(g)
    /\ UNCHANGED enabled

AskCapacityUndeferred(g) ==
    /\ stage[g] = "capacity"
    /\ \/ Capacity!LetThrough(g) /\ EnterStage(g, "handle") /\ UNCHANGED vars
       \/ Capacity!TurnAway(g) /\ EnterStage(g, "begin") /\ ReturnWithSlot(g)
    /\ UNCHANGED enabled

\* The slot is held and the bytes are charged when the file system is looked at; a
\* request that is answered 503 gives back the one and not the other.
AskCapacity(g) ==
    /\ stage[g] = "capacity"
    /\ \/ Capacity!LetThrough(g) /\ EnterStage(g, "handle")
       \/ Capacity!TurnAway(g) /\ EnterStage(g, "return")
    /\ UNCHANGED <<vars, enabled>>

\* No more of a body can be read than it declares, nor than MaxBytesReader allows.
BodyLimit(length) ==
    IF length < 0 \/ length > MaxUpload + BodyOverhead
      THEN MaxUpload + BodyOverhead
      ELSE length

Receive(g) ==
    /\ written[g] < BodyLimit(declared[g])
    /\ Capacity!WriteSample(g)
    /\ UNCHANGED <<vars, enabled, stage>>

Describe(g) ==
    /\ Capacity!WriteRecord(g)
    /\ UNCHANGED <<vars, enabled, stage>>

\* handleSubmission returns, with both files in place or with none.
EndHandler(g) ==
    /\ Capacity!Keep(g) \/ Capacity!Discard(g)
    /\ EnterStage(g, "return")
    /\ UNCHANGED <<vars, enabled>>

\* The deferred done.
Return(g) ==
    /\ stage[g] = "return"
    /\ Done(g)
    /\ EnterStage(g, "begin")
    /\ UNCHANGED <<enabled, space>>

ServiceTick == Tick /\ UNCHANGED <<enabled, stage, space>>

\* The process dies and is started again, perhaps under another configuration
\* (one that loadConfig rejects does not start it).
ServiceRestart ==
    /\ Restart /\ Capacity!Crash
    /\ enabled' \in BOOLEAN
    /\ stage' = [g \in Goroutine |-> "begin"]

Serve(g) ==
    \/ Enter(g) \/ PassBegin(g) \/ AskCapacity(g)
    \/ Receive(g) \/ Describe(g) \/ EndHandler(g) \/ Return(g)

ServiceNext ==
    \/ \E g \in Goroutine : NotServed(g) \/ Serve(g)
    \/ ServiceTick
    \/ ServiceRestart

ServiceSpec == ServiceInit /\ [][ServiceNext]_serviceVars

\* A goroutine that holds a slot runs.  What it waits for is the mutex, which is
\* held for a bounded time, and the body, for which it waits no longer than the
\* read deadline (Submission!EveryRequestEnds).
ServiceFairness ==
    \A g \in Goroutine : WF_serviceVars(pc[g] # "idle" /\ Serve(g))

FairServiceSpec == ServiceSpec /\ ServiceFairness

-------------------------------------------------------------------------------
(* Properties                                                                *)

\* The abuse guard gives the capacity guard what it assumes: no more requests are
\* let through and not yet over than there are slots, as done is deferred past the
\* handler (main.go:202-205).  So its margins hold of the running service.
ImplementsCapacityGuard == Capacity!Spec

\* The byte budget is a bound on what reaches the quarantine: no request writes
\* more of a sample than it was charged, with or without a declared length.  The
\* charge is what it declares or the most it can cost (abuse.go:141-144); the copy
\* ends one byte over the limit or where the body does (main.go:415).
StoredIsCharged ==
    \A g \in Goroutine : handler[g] = "copy" => written[g] <= Charge(declared[g])
===============================================================================
