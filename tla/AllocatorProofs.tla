-------------------------- MODULE AllocatorProofs ---------------------------
(***************************************************************************)
(* The theorems about Allocator: the two invariants, and the guarantees that*)
(* follow from them.                                                       *)
(***************************************************************************)
EXTENDS AllocatorSteps, AllocatorGuarantees, FiniteSetTheorems

\* The theorems about finite sets that the lemmas assume.
LEMMA Counted == Counting
<1>1. SizesAreNumbers
  BY FS_CardinalityType, Zenon DEF SizesAreNumbers
<1>2. SubsetsAreSmaller
  BY FS_Subset, Zenon DEF SubsetsAreSmaller
<1>3. AddingCounts
  BY FS_AddElement, Zenon DEF AddingCounts
<1>4. RemovingCounts
  BY FS_RemoveElement, FS_EmptySet, Zenon DEF RemovingCounts
<1>5. DifferencesCount
  BY FS_Difference, Zenon DEF DifferencesCount
<1>6. UnionsCount
  <2> SUFFICES ASSUME NEW S, NEW T, IsFiniteSet(S), IsFiniteSet(T)
               PROVE  /\ IsFiniteSet(S \cup T)
                      /\ Cardinality(S \cup T) <= Cardinality(S) + Cardinality(T)
    BY Zenon DEF UnionsCount
  <2>1. /\ IsFiniteSet(S \cup T) /\ IsFiniteSet(S \cap T)
        /\ Cardinality(S \cup T) = Cardinality(S) + Cardinality(T) - Cardinality(S \cap T)
    BY FS_Union, FS_Intersection, Zenon
  <2>2. /\ Cardinality(S) \in Nat /\ Cardinality(T) \in Nat /\ Cardinality(S \cap T) \in Nat
    BY <2>1, FS_CardinalityType, Zenon
  <2> QED
    BY <2>1, <2>2, Numbers, Zenon
<1>7. InjectionsAreFinite
  <2> SUFFICES ASSUME NEW S, NEW T, NEW f, IsFiniteSet(T), \A x \in S : f[x] \in T,
                      \A x, y \in S : f[x] = f[y] => x = y
               PROVE  IsFiniteSet(S)
    BY Zenon DEF InjectionsAreFinite
  <2> DEFINE g == [x \in S |-> f[x]]
  <2>1. g \in Injection(S, T)
    BY Zenon DEF Injection, IsInjective
  <2> QED
    BY <2>1, FS_Injection, Zenon
<1>8. IsFiniteSet(OfferIds) /\ Cardinality({}) = 0
  BY FS_Interval, FS_EmptySet, Numbers, Zenon DEF OfferIds
<1> QED
  BY <1>1, <1>2, <1>3, <1>4, <1>5, <1>6, <1>7, <1>8, Zenon DEF Counting

-----------------------------------------------------------------------------
(* What follows from IndInv.                                               *)

\* The invariant holds of every behaviour: any number of clients, messages,
\* crashes, failed saves and clock changes.
THEOREM Invariance == Spec => []IndInv
<1>1. Init => IndInv
  BY Counted, InitGood, Zenon
<1>2. IndInv /\ [Next]_vars => IndInv'
  BY Counted, NextGood, Zenon
<1> QED
  BY <1>1, <1>2, PTL DEF Spec

\* Every map, record and goroutine of the allocator keeps its type.
THEOREM TypeCorrect == Spec => []TypeOK
<1>1. IndInv => TypeOK
  BY Zenon DEF IndInv
<1> QED
  BY <1>1, Invariance, PTL

\* The capacity ledger neither leaks a slot nor returns one twice.
THEOREM CapacityIsAccounted == Spec => []CapacityAccounted
<1>1. IndInv => CapacityAccounted
  BY Zenon DEF IndInv, GoodMemory, Accounted, CapacityAccounted
<1> QED
  BY <1>1, Invariance, PTL

\* loadLocked accepts the snapshot of every instant.
THEOREM SnapshotIsLoadable == Spec => []SnapshotLoadable
<1>1. IndInv => SnapshotLoadable
  BY Zenon DEF IndInv, GoodSnapshot, Linked, SnapshotLoadable, Loadable
<1> QED
  BY <1>1, Invariance, PTL

\* The request index and the offers agree.
THEOREM RequestsAreIndexed == Spec => []RequestsIndexed
<1>1. IndInv => RequestsIndexed
  BY Zenon DEF IndInv, GoodMemory, Indexed, RequestsIndexed
<1> QED
  BY <1>1, Invariance, PTL

\* No execution is collected under a handler or an eviction that unlocked the
\* mutex around a runtime call.
THEOREM InFlightIsKept == Spec => []InFlightKept
<1>1. IndInv => InFlightKept
  <2> SUFFICES ASSUME IndInv PROVE InFlightKept
    OBVIOUS
  <2>1. ASSUME NEW m \in Messages, handler[m].at \in Calling
        PROVE  Owned(mem, m)
    <3>1. HandlerOK(m)
      BY Zenon DEF IndInv
    <3> QED
      BY <2>1, <3>1, Zenon DEF HandlerOK, Calling, Assigning, Stopping, Owned, Key
  <2>2. sweep.at \in {"stopping", "stopped", "stopFailed"} =>
            sweep.execution \in DOMAIN mem.executions
    BY Zenon DEF IndInv, SweepOK, Stopping
  <2> QED
    BY <2>1, <2>2, Zenon DEF InFlightKept
<1> QED
  BY <1>1, Invariance, PTL

\* A message in service keeps its replay entry open until its handler is done.
THEOREM IsServedOnce == Spec => []ServedOnce
<1>1. IndInv => ServedOnce
  BY Zenon DEF IndInv, HandlerOK, ServedOnce
<1> QED
  BY <1>1, Invariance, PTL
-----------------------------------------------------------------------------
(* What follows from FullInv.                                              *)

LEMMA InitFull ==
    ASSUME Counting, Init
    PROVE  FullInv
<1>1. /\ IndInv /\ mem = Empty /\ disk = Snapshot(Empty) /\ mode = "up" /\ clock = 0
      /\ handler = [m \in Messages |-> Idle] /\ sweep = SweepIdle /\ recovery = NotRecovering
      /\ launched = [o \in OfferIds |-> 0]
  BY InitGood, Zenon DEF Init, InitAt
<1>2. Sound(mem, launched) /\ mem.highWater = 0
  BY <1>1, EmptySound, Zenon
<1>3. Sound(disk, launched) /\ disk.highWater = 0
  BY <1>1, <1>2, EmptyGood, SnapshotSound, Zenon
<1>4. /\ \A m \in Messages : handler[m].at = "idle" /\ ~handler[m].was.leaseExpired
      /\ sweep.at = "idle" /\ ~sweep.was.leaseExpired /\ recovery.at = "next"
      /\ \A o \in OfferIds : launched[o] = 0
  BY <1>1, Zenon DEF Idle, NoPhase, SweepIdle, NotRecovering
<1>5. "idle" \notin Stopping /\ "idle" # "starting" /\ "next" # "stopped"
  BY Zenon DEF Stopping
<1>6. SoleStopper /\ Launching /\ Remembered
  BY <1>4, <1>5, Zenon DEF SoleStopper, Launching, Remembered
<1>7. LaunchedOnce /\ Timely
  BY <1>1, <1>2, <1>3, <1>4, <1>5, Numbers, Zenon DEF LaunchedOnce, Timely
<1> QED
  BY <1>1, <1>2, <1>3, <1>6, <1>7, Zenon DEF FullInv

\* Every step preserves the invariant, and lets every execution follow from
\* what it was.
LEMMA NextFull ==
    ASSUME Counting, FullInv, [Next]_vars
    PROVE  FullInv' /\ Orderly
<1>0. IndInv'
  BY FullBounds, NextGood, Zenon
<1>1. ASSUME NEW m \in Messages, CheckFreshness(m) \/ BeginReplay(m) \/ FinishReplay(m)
      PROVE  FullInv' /\ Orderly
  BY <1>0, <1>1, CheckFreshnessFull, BeginReplayFull, FinishReplayFull, Zenon
<1>2. ASSUME NEW m \in Messages, HandleRequest(m) \/ HandleAssign(m) \/ AssignComplete(m)
      PROVE  FullInv' /\ Orderly
  BY <1>0, <1>2, HandleRequestFull, HandleAssignFull, AssignCompleteFull, Zenon
<1>3. ASSUME NEW m \in Messages, \/ HandleCancel(m) \/ CancelComplete(m) \/ HandleLeaseRenew(m)
                                 \/ HandleOfferRelease(m) \/ HandleInspect(m)
      PROVE  FullInv' /\ Orderly
  BY <1>0, <1>3, HandleCancelFull, CancelCompleteFull, HandleLeaseRenewFull,
     HandleOfferReleaseFull, HandleInspectFull, Zenon
<1>4. ASSUME NEW m \in Messages, RuntimeStart(m) \/ RuntimeStop(m)
      PROVE  FullInv' /\ Orderly
  BY <1>0, <1>4, RuntimeStartFull, RuntimeStopFull, Zenon
<1>5. ASSUME NEW e \in ExecutionIds,
             TaskExit(e) \/ \E phase \in {"completed", "failed"} : RuntimeCompleted(e, phase)
      PROVE  FullInv' /\ Orderly
  BY <1>0, <1>5, TaskExitFull, RuntimeCompletedFull, Zenon
<1>6. CASE Sweeping
  BY <1>0, <1>6, BeginEvictionFull, EndEvictionsFull, SweepStopFull, CompleteEvictionFull,
     CollectFull, CleanupFull, Zenon DEF Sweeping
<1>7. CASE Recovering
  BY <1>0, <1>7, RestartFull, RecoverStopFull, RecoverTaskFull, RecoverCompleteFull, ServeFull, Zenon DEF
     Recovering
<1>8. CASE Crash \/ Tick \/ SetClockBack
  BY <1>0, <1>8, CrashFull, TimeFull, Zenon
<1>9. CASE UNCHANGED vars
  <2>1. UNCHANGED <<clock, mem, disk, mode, issued, handler, sweep, recovery, launched>>
    BY <1>9, Zenon DEF vars
  <2>2. Restful({})
    BY <2>1, SweepRestful, Zenon
  <2> QED
    BY <1>0, <2>1, <2>2, IdleStep, Zenon
<1> QED
  BY <1>1, <1>2, <1>3, <1>4, <1>5, <1>6, <1>7, <1>8, <1>9, Zenon DEF Next, Serving

\* The strengthened invariant holds of every behaviour.
THEOREM FullInvariance == Spec => []FullInv
<1>1. Init => FullInv
  BY Counted, InitFull, Zenon
<1>2. FullInv /\ [Next]_vars => FullInv'
  BY Counted, NextFull, Zenon
<1> QED
  BY <1>1, <1>2, PTL DEF Spec

\* The durable records stay within the budget of handleRequest, in memory and in
\* the snapshot, however Sweep turns offers and executions into tombstones.
THEOREM BudgetIsKept == Spec => []RecordsWithinBudget
<1>1. FullInv => RecordsWithinBudget
  BY Zenon DEF FullInv, Sound, WithinBudget, RecordsWithinBudget
<1> QED
  BY <1>1, FullInvariance, PTL

\* No client exceeds the quotas of admitLocked, across restarts as well.
THEOREM QuotasAreRespected == Spec => []QuotasRespected
<1>1. FullInv => QuotasRespected
  BY Zenon DEF FullInv, Sound, WithinQuotas, QuotasRespected
<1> QED
  BY <1>1, FullInvariance, PTL

\* A cancellation and an eviction never stop the same execution, and what is
\* being stopped is not live.
THEOREM StopsAlone == Spec => []OneStopper
<1>1. ASSUME FullInv, NEW e \in ExecutionIds
      PROVE  LET sweeping == sweep.at \in Stopping /\ sweep.execution = e
             IN  /\ Cardinality(Stoppers(e)) <= 1
                 /\ sweeping => Stoppers(e) = {}
                 /\ sweeping \/ Stoppers(e) # {} => ~Live(mem.executions[e].phase)
  <2>1. SoleStopper
    BY <1>1, Zenon DEF FullInv
  <2>2. Stoppers(e) = {m \in Messages : handler[m].at \in Stopping /\ m.execution = e}
    BY Zenon DEF Stoppers, Stopping
  <2>3. Stoppers(e) = {} \/ \E m \in Messages : Stoppers(e) = {m}
    BY <2>1, <2>2, Zenon DEF SoleStopper
  <2>4. Cardinality(Stoppers(e)) <= 1
    <3>1. Cardinality({}) = 0 /\ \A m : Cardinality({m}) = 1
      BY FS_EmptySet, FS_Singleton, Zenon
    <3> QED
      BY <2>3, <3>1, Numbers, Zenon
  <2> QED
    BY <2>1, <2>2, <2>4, Zenon DEF SoleStopper
<1>2. FullInv => OneStopper
  BY <1>1, Zenon DEF OneStopper, Stopping
<1> QED
  BY <1>2, FullInvariance, PTL

\* No offer starts two workloads, whatever is delivered again, collected or
\* interrupted by a crash.
THEOREM LaunchesOnce == Spec => []LaunchedOnce
<1>1. FullInv => LaunchedOnce
  BY Zenon DEF FullInv
<1> QED
  BY <1>1, FullInvariance, PTL

\* transitionExecution counts up the revision of an execution at every change of
\* its phase, and nothing turns it back.
THEOREM RevisionsOnlyGrow == Spec => RevisionsGrow
<1>1. FullInv /\ [Next]_vars =>
        [\A e \in DOMAIN mem.executions \cap DOMAIN mem'.executions :
            LET x == mem.executions[e]  y == mem'.executions[e] IN
            /\ y.revision >= x.revision
            /\ y.phase # x.phase => y.revision > x.revision]_vars
  BY Counted, NextFull, Zenon DEF Orderly, Succeeds
<1> QED
  BY <1>1, FullInvariance, PTL DEF Spec, RevisionsGrow

\* Unless the wall clock is set back, an execution is evicted only once the
\* clock has reached its lease, by Sweep and by Recover alike.
THEOREM LeaseIsHonoured ==
    ASSUME ~ClockRegresses
    PROVE  Spec => LeaseHonoured
<1>1. FullInv /\ [Next]_vars =>
        [\A e \in DOMAIN mem.executions \cap DOMAIN mem'.executions :
            /\ Live(mem.executions[e].phase)
            /\ mem'.executions[e].leaseExpired
            => mem.executions[e].leaseUntil <= clock]_vars
  <2>1. FullInv => Unmarked(mem)
    BY Zenon DEF FullInv, Sound
  <2> QED
    BY <2>1, Counted, NextFull, Zenon DEF Orderly, Succeeds, Unmarked
<1> QED
  BY <1>1, FullInvariance, PTL DEF Spec, LeaseHonoured
=============================================================================
