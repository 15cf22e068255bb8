-------------------------- MODULE AllocatorSteps ----------------------------
(***************************************************************************)
(* The handlers of the commands and the replay cache, the calls of the     *)
(* runtime, the background sweep, a crash and the recovery keep the        *)
(* inductive invariant, so that every step does.                           *)
(***************************************************************************)
EXTENDS AllocatorLemmas

-----------------------------------------------------------------------------
(* The handlers.                                                           *)

\* n keeps the open entries of s, those of M apart, every tombstone, and every
\* execution of s about the same work.
Safe(s, n, M) ==
    /\ \A m \in DOMAIN s.entries \ M : ~s.entries[m].done =>
        m \in DOMAIN n.entries /\ ~n.entries[m].done
    /\ DOMAIN s.tombstones \subseteq DOMAIN n.tombstones
    /\ \A e \in DOMAIN s.executions :
        /\ e \in DOMAIN n.executions
        /\ n.executions[e].offer = s.executions[e].offer
        /\ n.executions[e].client = s.executions[e].client
        /\ n.executions[e].request = s.executions[e].request

\* The operators that keep a memory are safe for every goroutine.
LEMMA KeepsSafe ==
    ASSUME NEW s, NEW n, Keeps(s, n)
    PROVE  Safe(s, n, {}) /\ GoodMemory(n) /\ DOMAIN n.offers = DOMAIN s.offers
  BY Zenon DEF Keeps, Safe

\* What a change of the memory leaves in the store and in the history.
LEMMA ChangedGood ==
    ASSUME IndInv, NEW n, GoodMemory(n), Changed(n)
    PROVE  /\ mem' = n
           /\ GoodSnapshot(disk')
           /\ DOMAIN disk'.offers = DOMAIN disk.offers \/ DOMAIN disk'.offers = DOMAIN n.offers
           /\ faults' \in 0 .. MaxFaults
           /\ final' \in [ExecutionIds -> {"none"} \cup TerminalPhases]
<1>1. mem' = n
  BY Zenon DEF Changed, Saved, SaveFails, Unsaved, Becomes
<1>2. /\ GoodSnapshot(disk')
      /\ DOMAIN disk'.offers = DOMAIN disk.offers \/ DOMAIN disk'.offers = DOMAIN n.offers
  <2>1. CASE disk' = disk
    BY <2>1, Zenon DEF IndInv
  <2>2. CASE disk' = Snapshot(n)
    BY <2>2, SnapshotGood, Zenon
  <2> QED
    BY <2>1, <2>2, Zenon DEF Changed, Saved, SaveFails, Unsaved
<1>3. faults' \in 0 .. MaxFaults
  BY ConstantsAssumption DEF IndInv, TypeOK, Changed, Saved, SaveFails, Unsaved, Fault
<1>4. final' \in [ExecutionIds -> {"none"} \cup TerminalPhases]
  <2>1. final' = [e \in ExecutionIds |->
            IF e \notin DOMAIN n.executions THEN "none"
            ELSE IF final[e] = "none" /\ Terminal(n.executions[e].phase)
                 THEN n.executions[e].phase ELSE final[e]]
    BY Zenon DEF Changed, Saved, SaveFails, Unsaved, Becomes
  <2>2. final \in [ExecutionIds -> {"none"} \cup TerminalPhases]
    BY Zenon DEF IndInv, TypeOK
  <2>3. ASSUME NEW e \in ExecutionIds
        PROVE  final'[e] \in {"none"} \cup TerminalPhases
    BY <2>1, <2>2, Zenon DEF Terminal
  <2> QED
    BY <2>1, <2>3, Zenon
<1> QED
  BY <1>1, <1>2, <1>3, <1>4, Zenon

\* A goroutine that does not move keeps its place in the invariant.
LEMMA FrameGood ==
    ASSUME IndInv, NEW M, Safe(mem, mem', M), mode' = mode
    PROVE  /\ \A m \in Messages \ M : handler'[m] = handler[m] => HandlerOK(m)'
           /\ sweep' = sweep => SweepOK'
           /\ recovery' = recovery => RecoveryOK'
<1>1. ASSUME NEW m \in Messages \ M, handler'[m] = handler[m]
      PROVE  HandlerOK(m)'
  <2>1. HandlerOK(m)
    BY Zenon DEF IndInv
  <2> QED
    BY <1>1, <2>1, Zenon DEF HandlerOK, Safe, Key
<1>2. sweep' = sweep => SweepOK'
  BY Zenon DEF IndInv, SweepOK, Safe
<1>3. recovery' = recovery => RecoveryOK'
  BY Zenon DEF IndInv, RecoveryOK, Safe
<1> QED
  BY <1>1, <1>2, <1>3, Zenon

\* A step that keeps the daemon up or recovering.
LEMMA StepGood ==
    ASSUME IndInv, GoodMemory(mem'), NEW M, Safe(mem, mem', M), GoodSnapshot(disk'),
           clock' \in 0 .. MaxTime, mode' = mode,
           issued' \in 0 .. MaxOffers,
           DOMAIN mem'.offers \subseteq 1 .. issued', DOMAIN disk'.offers \subseteq 1 .. issued',
           checked' \in SUBSET Messages, checked' # {} => mode = "up",
           handler' \in [Messages -> HandlerState],
           \A m \in Messages : (m \notin M /\ handler'[m] = handler[m]) \/ HandlerOK(m)',
           sweep' \in SweepState, sweep' = sweep \/ SweepOK',
           recovery' \in RecoveryState, recovery' = recovery \/ RecoveryOK',
           task' \in [ExecutionIds -> {"none", "running", "exited"}],
           entry' \in [ExecutionIds -> {"none", "active", "done", "failed"}],
           faults' \in 0 .. MaxFaults,
           launched' \in [OfferIds -> Nat],
           final' \in [ExecutionIds -> {"none"} \cup TerminalPhases],
           applied' \in [Messages -> Nat]
    PROVE  IndInv'
<1>1. /\ \A m \in Messages : HandlerOK(m)'
      /\ SweepOK' /\ RecoveryOK'
  BY FrameGood, Zenon
<1>2. IsMemory(mem') /\ IsSnapshot(disk') /\ mode' \in {"down", "recovering", "up"}
  BY Zenon DEF GoodMemory, GoodSnapshot, IndInv, TypeOK
<1>3. TypeOK'
  BY <1>2, Zenon DEF TypeOK
<1> QED
  BY <1>1, <1>3, Zenon DEF IndInv

\* A handler that leaves the critical section at the place at.
LEMMA GotoGood ==
    ASSUME IndInv, NEW m \in Messages, NEW at \in HandlerPlaces, Goto(m, at)
    PROVE  /\ handler' \in [Messages -> HandlerState]
           /\ handler'[m].at = at
           /\ \A k \in Messages \ {m} : handler'[k] = handler[k]
<1>1. handler \in [Messages -> HandlerState]
  BY Zenon DEF IndInv, TypeOK
<1>2. [Idle EXCEPT !.at = at] \in HandlerState /\ [Idle EXCEPT !.at = at].at = at
  BY Zenon DEF HandlerState, Idle, NoPhase, Was
<1> QED
  BY <1>1, <1>2, Zenon DEF Goto

\* A step of the handler of m that changes the memory to n and moves on to at.
LEMMA HandlerStep ==
    ASSUME IndInv, NEW m \in Messages, NEW n, GoodMemory(n), Safe(mem, n, {}), Changed(n),
           issued' \in 0 .. MaxOffers, issued <= issued', DOMAIN n.offers \subseteq 1 .. issued',
           NEW at \in HandlerPlaces, Goto(m, at), handler[m].at # "idle",
           at \notin Stopping,
           at \in Assigning =>
                /\ m.kind = "assign" /\ m.execution \in DOMAIN n.executions
                /\ Key(n.executions[m.execution]) = Key(m)
                /\ n.executions[m.execution].offer = m.offer,
           UNCHANGED <<clock, mode, checked, sweep, recovery, task, entry, launched>>,
           applied' \in [Messages -> Nat]
    PROVE  IndInv'
<1>1. /\ mem' = n
      /\ GoodSnapshot(disk')
      /\ DOMAIN disk'.offers = DOMAIN disk.offers \/ DOMAIN disk'.offers = DOMAIN n.offers
      /\ faults' \in 0 .. MaxFaults
      /\ final' \in [ExecutionIds -> {"none"} \cup TerminalPhases]
  BY ChangedGood, Zenon
<1>2. /\ handler' \in [Messages -> HandlerState] /\ handler'[m].at = at
      /\ \A k \in Messages \ {m} : handler'[k] = handler[k]
  BY GotoGood, Zenon
<1>3. DOMAIN disk'.offers \subseteq 1 .. issued'
  <2>1. DOMAIN disk.offers \subseteq 1 .. issued /\ issued \in 0 .. MaxOffers
    BY Zenon DEF IndInv, TypeOK
  <2>2. 1 .. issued \subseteq 1 .. issued'
    BY <2>1
  <2> QED
    BY <1>1, <2>1, <2>2, Zenon
<1>4. HandlerOK(m)'
  <2>1. mode = "up" /\ m \in DOMAIN mem.entries /\ ~mem.entries[m].done
    BY Zenon DEF IndInv, HandlerOK
  <2>2. mode' = "up" /\ m \in DOMAIN n.entries /\ ~n.entries[m].done
    BY <2>1, Zenon DEF Safe
  <2> QED
    BY <1>1, <1>2, <2>2, Zenon DEF HandlerOK
<1>5. /\ clock' \in 0 .. MaxTime /\ mode' = mode /\ checked' \in SUBSET Messages
      /\ (checked' # {} => mode = "up")
      /\ sweep' \in SweepState /\ sweep' = sweep
      /\ recovery' \in RecoveryState /\ recovery' = recovery
      /\ task' \in [ExecutionIds -> {"none", "running", "exited"}]
      /\ entry' \in [ExecutionIds -> {"none", "active", "done", "failed"}]
      /\ launched' \in [OfferIds -> Nat]
  BY Zenon DEF IndInv, TypeOK
<1>6. \A k \in Messages : (k \notin {} /\ handler'[k] = handler[k]) \/ HandlerOK(k)'
  BY <1>2, <1>4, Zenon
<1> QED
  BY <1>1, <1>2, <1>3, <1>5, <1>6, StepGood

\* Every memory is safe for itself.
LEMMA SameSafe ==
    ASSUME NEW s
    PROVE  Safe(s, s, {})
  BY Zenon DEF Safe

\* Expiring the offers of the memory.
LEMMA ExpiredSafe ==
    ASSUME Counting, IndInv
    PROVE  LET s == ExpireOffers(mem, clock) IN
           /\ GoodMemory(s) /\ Safe(mem, s, {})
           /\ s.executions = mem.executions /\ s.entries = mem.entries
           /\ s.tombstones = mem.tombstones
           /\ DOMAIN s.offers = DOMAIN mem.offers
<1> DEFINE s == ExpireOffers(mem, clock)
<1>1. GoodMemory(mem) /\ IsMemory(mem) /\ clock \in Nat
  BY Bounds, Zenon DEF GoodMemory
<1>2. /\ s.executions = mem.executions /\ s.entries = mem.entries
      /\ s.tombstones = mem.tombstones /\ DOMAIN s.offers = DOMAIN mem.offers
  BY <1>1, ExpireTyped, Zenon
<1>3. GoodMemory(s)
  BY <1>1, ExpireGood, Zenon
<1> HIDE DEF s
<1>4. Safe(mem, s, {})
  BY <1>2, Zenon DEF Safe
<1> QED
  BY <1>2, <1>3, <1>4, Zenon DEF s

\* Each handler preserves the invariant.
LEMMA HandleRequestGood ==
    ASSUME Counting, IndInv, NEW m \in Messages, HandleRequest(m)
    PROVE  IndInv'
<1> DEFINE s == ExpireOffers(mem, clock)
           o == issued + 1
<1>1. /\ GoodMemory(s) /\ Safe(mem, s, {}) /\ s.executions = mem.executions
      /\ s.entries = mem.entries /\ s.tombstones = mem.tombstones
      /\ DOMAIN s.offers = DOMAIN mem.offers
  BY ExpiredSafe, Zenon
<1>2. /\ clock \in Nat /\ issued \in 0 .. MaxOffers /\ MaxOffers \in Nat
      /\ DOMAIN mem.offers \subseteq 1 .. issued /\ applied \in [Messages -> Nat]
  BY Bounds, Zenon
<1>3. /\ handler[m].at # "idle" /\ Goto(m, "applied") /\ "applied" \in HandlerPlaces
      /\ "applied" \notin Stopping /\ "applied" \notin Assigning
      /\ UNCHANGED <<clock, mode, checked, sweep, recovery, task, entry, launched>>
      /\ applied' = applied
  BY Zenon DEF HandleRequest, Begun, HandlerPlaces, Stopping, Assigning
<1>4. \/ Changed(s) /\ issued' = issued
      \/ Offerable(s, m) /\ issued < MaxOffers /\ Saved(MakeOffer(s, m, o)) /\ issued' = o
  BY Zenon DEF HandleRequest, Changed
<1> HIDE DEF s
<1>5. CASE Changed(s) /\ issued' = issued
  BY <1>1, <1>2, <1>3, <1>5, HandlerStep
<1>6. CASE Offerable(s, m) /\ issued < MaxOffers /\ Saved(MakeOffer(s, m, o)) /\ issued' = o
  <2> DEFINE n == MakeOffer(s, m, o)
  <2>1. o \in OfferIds /\ o \notin DOMAIN s.offers
    BY <1>1, <1>2, <1>6 DEF OfferIds
  <2>2. /\ GoodMemory(n) /\ n.executions = s.executions /\ n.tombstones = s.tombstones
        /\ n.entries = s.entries /\ DOMAIN n.offers = DOMAIN s.offers \cup {o}
    BY <1>1, <1>2, <1>6, <2>1, MakeOfferGood
  <2> HIDE DEF n
  <2>3. Safe(mem, n, {})
    BY <1>1, <2>2, Zenon DEF Safe
  <2>4. issued' \in 0 .. MaxOffers /\ issued <= issued' /\ DOMAIN n.offers \subseteq 1 .. issued'
    BY <1>1, <1>2, <1>6, <2>2
  <2>5. Changed(n)
    BY <1>6, Zenon DEF Changed, n
  <2> QED
    BY <1>2, <1>3, <2>2, <2>3, <2>4, <2>5, HandlerStep, Zenon
<1> QED
  BY <1>4, <1>5, <1>6, Zenon

\* handleAssign up to runtime.Start: the offer becomes an execution, or nothing
\* but the expiry of offers happens.
LEMMA HandleAssignGood ==
    ASSUME Counting, IndInv, NEW m \in Messages, HandleAssign(m)
    PROVE  IndInv'
<1> DEFINE s == ExpireOffers(mem, clock)
<1>1. /\ GoodMemory(s) /\ Safe(mem, s, {}) /\ s.executions = mem.executions
      /\ s.entries = mem.entries /\ s.tombstones = mem.tombstones
      /\ DOMAIN s.offers = DOMAIN mem.offers
  BY ExpiredSafe, Zenon
<1>2. /\ clock \in Nat /\ issued \in 0 .. MaxOffers /\ MaxOffers \in Nat
      /\ DOMAIN mem.offers \subseteq 1 .. issued /\ applied \in [Messages -> Nat]
  BY Bounds, Zenon
<1>3. /\ handler[m].at # "idle" /\ m.kind = "assign"
      /\ UNCHANGED <<clock, mode, checked, sweep, recovery, task, entry, launched>>
      /\ applied' = applied /\ issued' = issued
  BY Zenon DEF HandleAssign, Begun
<1>4. /\ "applied" \in HandlerPlaces /\ "applied" \notin Stopping \cup Assigning
      /\ "starting" \in HandlerPlaces /\ "starting" \notin Stopping
  BY Zenon DEF HandlerPlaces, Stopping, Assigning
<1>5. \/ Changed(s) /\ Goto(m, "applied")
      \/ Assignable(s, m) /\ Saved(MakeExecution(s, m)) /\ Goto(m, "starting")
  BY Zenon DEF HandleAssign, Changed
<1> HIDE DEF s
<1>6. CASE Changed(s) /\ Goto(m, "applied")
  BY <1>1, <1>2, <1>3, <1>4, <1>6, HandlerStep
<1>7. CASE Assignable(s, m) /\ Saved(MakeExecution(s, m)) /\ Goto(m, "starting")
  <2> DEFINE n == MakeExecution(s, m)
  <2>1. /\ Keeps(s, n) /\ m.execution \in DOMAIN n.executions
        /\ n.executions[m.execution].client = m.client
        /\ n.executions[m.execution].request = m.request
        /\ n.executions[m.execution].offer = m.offer
    BY <1>1, <1>2, <1>3, <1>7, MakeExecutionGood, Zenon
  <2>2. Changed(n)
    BY <1>7, Zenon DEF Changed
  <2> HIDE DEF n
  <2>3. GoodMemory(n) /\ DOMAIN n.offers = DOMAIN s.offers /\ Safe(s, n, {})
    BY <2>1, KeepsSafe, Zenon
  <2>4. Safe(mem, n, {})
    BY <1>1, <2>3, Zenon DEF Safe
  <2>5. Key(n.executions[m.execution]) = Key(m)
    BY <2>1, Zenon DEF Key
  <2> QED
    BY <1>1, <1>2, <1>3, <1>4, <1>7, <2>1, <2>2, <2>3, <2>4, <2>5, HandlerStep
<1> QED
  BY <1>5, <1>6, <1>7, Zenon

\* The last critical section of a handler, whose change keeps the memory.
LEMMA AppliedStep ==
    ASSUME IndInv, NEW m \in Messages, handler[m].at # "idle", NEW n,
           n = mem \/ Keeps(mem, n), Changed(n), Goto(m, "applied"),
           UNCHANGED <<clock, mode, issued, checked, sweep, recovery, task, entry, launched>>,
           applied' \in [Messages -> Nat]
    PROVE  IndInv'
<1>1. GoodMemory(n) /\ Safe(mem, n, {}) /\ DOMAIN n.offers = DOMAIN mem.offers
  BY KeepsSafe, SameSafe, Bounds, Zenon
<1>2. issued' \in 0 .. MaxOffers /\ issued <= issued' /\ DOMAIN n.offers \subseteq 1 .. issued'
  BY <1>1, Bounds
<1>3. "applied" \in HandlerPlaces /\ "applied" \notin Stopping /\ "applied" \notin Assigning
  BY Zenon DEF HandlerPlaces, Stopping, Assigning
<1>4. UNCHANGED <<clock, mode, checked, sweep, recovery, task, entry, launched>>
  OBVIOUS
<1> QED
  BY <1>1, <1>2, <1>3, <1>4, HandlerStep, Zenon

\* handleAssign after runtime.Start: RUNNING, FAILED, or left to who moved it on.
LEMMA AssignCompleteGood ==
    ASSUME Counting, IndInv, NEW m \in Messages, AssignComplete(m)
    PROVE  IndInv'
<1> DEFINE e == m.execution
           n == IF mem.executions[e].phase # "starting" THEN mem
                ELSE IF handler[m].at = "started"
                     THEN SetPhase(mem, e, "running", mem.executions[e].leaseExpired)
                     ELSE Finish(mem, e, "failed", FALSE)
<1>1. /\ handler[m].at \in {"started", "startFailed"} /\ Changed(n) /\ Goto(m, "applied")
      /\ UNCHANGED <<clock, mode, issued, checked, sweep, recovery, task, entry, launched>>
      /\ applied' = applied
  BY Zenon DEF AssignComplete, SavedOrNot, Changed
<1>2. handler[m].at # "idle" /\ e \in DOMAIN mem.executions /\ GoodMemory(mem) /\ clock \in Nat
      /\ applied' \in [Messages -> Nat]
  BY <1>1, Bounds, Zenon DEF HandlerOK, Assigning
<1>3. mem.executions[e] \in Execution
  BY <1>2, Zenon DEF GoodMemory, IsMemory, IsMap
<1>4. ASSUME mem.executions[e].phase = "starting"
      PROVE  /\ Keeps(mem, SetPhase(mem, e, "running", mem.executions[e].leaseExpired))
             /\ Keeps(mem, Finish(mem, e, "failed", FALSE))
  <2>1. mem.executions[e].leaseExpired \in BOOLEAN
    BY <1>3, Zenon DEF Execution
  <2>2. "running" \in Phases /\ ~Terminal("running") /\ "failed" \in TerminalPhases
        /\ ~Terminal(mem.executions[e].phase)
    BY <1>4, Zenon DEF Phases, Terminal, TerminalPhases
  <2> QED
    BY <1>2, <2>1, <2>2, SetPhaseGood, FinishGood, Zenon
<1>5. n = mem \/ Keeps(mem, n)
  BY <1>4, Zenon
<1> HIDE DEF n
<1> QED
  BY <1>1, <1>2, <1>5, AppliedStep, Zenon

\* A failed Stop restores the phase.
LEMMA RestoreGood ==
    ASSUME Counting, NEW s, GoodMemory(s), NEW e \in DOMAIN s.executions, NEW was \in Was
    PROVE  Restore(s, e, was) = s \/ Keeps(s, Restore(s, e, was))
<1>1. CASE s.executions[e].phase = "cancelling"
  <2>1. /\ was.phase \in Phases /\ ~Terminal(was.phase) /\ was.leaseExpired \in BOOLEAN
        /\ ~Terminal(s.executions[e].phase)
    BY <1>1, Zenon DEF Was, Phases, Terminal, TerminalPhases
  <2> QED
    BY <1>1, <2>1, SetPhaseGood, Zenon DEF Restore
<1>2. CASE s.executions[e].phase # "cancelling"
  BY <1>2, Zenon DEF Restore
<1> QED
  BY <1>1, <1>2, Zenon

\* handleCancel after runtime.Stop.
LEMMA CancelCompleteGood ==
    ASSUME Counting, IndInv, NEW m \in Messages, CancelComplete(m)
    PROVE  IndInv'
<1> DEFINE e == m.execution
           n == IF handler[m].at = "stopFailed" THEN Restore(mem, e, handler[m].was)
                ELSE IF Terminal(mem.executions[e].phase) THEN mem
                ELSE Finish(mem, e, "cancelled", FALSE)
<1>1. /\ handler[m].at \in {"stopped", "stopFailed"} /\ Changed(n) /\ Goto(m, "applied")
      /\ UNCHANGED <<clock, mode, issued, checked, sweep, recovery, task, entry, launched>>
      /\ applied' = applied
  BY Zenon DEF CancelComplete, SavedOrNot, Changed
<1>2. handler[m].at # "idle" /\ e \in DOMAIN mem.executions /\ GoodMemory(mem) /\ clock \in Nat
      /\ applied' \in [Messages -> Nat]
  <2>1. HandlerOK(m) /\ GoodMemory(mem) /\ clock \in Nat /\ applied \in [Messages -> Nat]
    BY Bounds, Zenon
  <2>2. handler[m].at # "idle" /\ handler[m].at \in Stopping
    BY <1>1, Zenon DEF Stopping
  <2> QED
    BY <1>1, <2>1, <2>2, Zenon DEF HandlerOK
<1>3. handler[m].was \in Was
  <2>1. handler \in [Messages -> HandlerState]
    BY Zenon DEF IndInv, TypeOK
  <2> QED
    BY <2>1, Zenon DEF HandlerState
<1>4. Restore(mem, e, handler[m].was) = mem \/ Keeps(mem, Restore(mem, e, handler[m].was))
  BY <1>2, <1>3, RestoreGood, Zenon
<1>5. Keeps(mem, Finish(mem, e, "cancelled", FALSE))
  <2>1. "cancelled" \in TerminalPhases
    BY Zenon DEF TerminalPhases
  <2> QED
    BY <1>2, <2>1, FinishGood, Zenon
<1>6. n = mem \/ Keeps(mem, n)
  BY <1>4, <1>5, Zenon
<1> HIDE DEF n
<1> QED
  BY <1>1, <1>2, <1>6, AppliedStep, Zenon

\* handleLeaseRenew moves the lease of one execution.
LEMMA HandleLeaseRenewGood ==
    ASSUME Counting, IndInv, NEW m \in Messages, HandleLeaseRenew(m)
    PROVE  IndInv'
<1> DEFINE e == m.execution
           n == [mem EXCEPT !.executions[e].leaseUntil = clock + m.lease]
<1>1. /\ handler[m].at # "idle" /\ Goto(m, "applied")
      /\ UNCHANGED <<clock, mode, issued, checked, sweep, recovery, task, entry, launched>>
  BY Zenon DEF HandleLeaseRenew, Begun
<1>2. GoodMemory(mem) /\ clock \in Nat /\ applied \in [Messages -> Nat]
  BY Bounds, Zenon
<1>3. applied' \in [Messages -> Nat]
  BY <1>2 DEF HandleLeaseRenew
<1>4. Changed(mem) \/ (e \in DOMAIN mem.executions /\ Changed(n))
  BY Zenon DEF HandleLeaseRenew, Owned, Changed
<1>5. ASSUME e \in DOMAIN mem.executions
      PROVE  Keeps(mem, n)
  <2>1. clock + m.lease \in Nat
    BY <1>2, ConstantsAssumption DEF Message
  <2> QED
    BY <1>2, <1>5, <2>1, RenewGood, Zenon
<1> HIDE DEF n
<1> QED
  BY <1>1, <1>3, <1>4, <1>5, AppliedStep, Zenon

\* handleOfferRelease returns the slot of an outstanding offer.
LEMMA HandleOfferReleaseGood ==
    ASSUME Counting, IndInv, NEW m \in Messages, HandleOfferRelease(m)
    PROVE  IndInv'
<1> DEFINE o == m.offer
           status == IF mem.offers[o].expiresAt <= clock THEN "expired" ELSE "released"
           n == Release([mem EXCEPT !.offers[o].status = status], mem.offers[o].class, 1)
<1>1. /\ handler[m].at # "idle" /\ Goto(m, "applied")
      /\ UNCHANGED <<clock, mode, issued, checked, sweep, recovery, task, entry, launched>>
      /\ applied' = applied
  BY Zenon DEF HandleOfferRelease, Begun
<1>2. GoodMemory(mem) /\ applied' \in [Messages -> Nat]
  BY <1>1, Bounds, Zenon
<1>3. \/ Changed(mem)
      \/ o \in DOMAIN mem.offers /\ mem.offers[o].status = "outstanding" /\ Changed(n)
  BY Zenon DEF HandleOfferRelease, Changed
<1>4. status \in {"expired", "released"}
  OBVIOUS
<1> HIDE DEF status
<1>5. ASSUME o \in DOMAIN mem.offers, mem.offers[o].status = "outstanding"
      PROVE  Keeps(mem, n)
  BY <1>2, <1>4, <1>5, ReleaseGood, Zenon
<1> HIDE DEF n
<1> QED
  BY <1>1, <1>2, <1>3, <1>5, AppliedStep, Zenon

\* handleInspect changes nothing.
LEMMA HandleInspectGood ==
    ASSUME IndInv, NEW m \in Messages, HandleInspect(m)
    PROVE  IndInv'
<1>1. /\ handler[m].at # "idle" /\ Goto(m, "applied") /\ Changed(mem)
      /\ UNCHANGED <<clock, mode, issued, checked, sweep, recovery, task, entry, launched>>
      /\ applied' = applied
  BY Zenon DEF HandleInspect, Begun, Changed
<1>2. applied' \in [Messages -> Nat]
  BY <1>1, Bounds, Zenon
<1> QED
  BY <1>1, <1>2, AppliedStep, Zenon

\* handleCancel up to runtime.Stop: the handler keeps hold of its execution.
LEMMA HandleCancelGood ==
    ASSUME Counting, IndInv, NEW m \in Messages, HandleCancel(m)
    PROVE  IndInv'
<1> DEFINE e == m.execution
           x == mem.executions[e]
           n == SetPhase(mem, e, "cancelling", FALSE)
           was == [phase |-> x.phase, leaseExpired |-> x.leaseExpired]
<1>1. /\ handler[m].at # "idle" /\ m.kind = "cancel"
      /\ UNCHANGED <<clock, mode, issued, checked, sweep, recovery, task, entry, launched>>
      /\ applied' = applied
  BY Zenon DEF HandleCancel, Begun
<1>2. /\ GoodMemory(mem) /\ HandlerOK(m) /\ applied' \in [Messages -> Nat]
      /\ issued \in 0 .. MaxOffers /\ DOMAIN mem.offers \subseteq 1 .. issued
  BY <1>1, Bounds, Zenon
<1>3. \/ Changed(mem) /\ Goto(m, "applied")
      \/ /\ Owned(mem, m) /\ Live(x.phase) /\ Changed(n)
         /\ handler' = [handler EXCEPT ![m] = [at |-> "stopping", was |-> was]]
  BY Zenon DEF HandleCancel, Stoppable, Changed
<1>4. CASE Changed(mem) /\ Goto(m, "applied")
  BY <1>1, <1>2, <1>4, AppliedStep, Zenon
<1>5. CASE /\ Owned(mem, m) /\ Live(x.phase) /\ Changed(n)
           /\ handler' = [handler EXCEPT ![m] = [at |-> "stopping", was |-> was]]
  <2>1. e \in DOMAIN mem.executions /\ x.client = m.client /\ x \in Execution
    <3>1. e \in DOMAIN mem.executions /\ x.client = m.client
      BY <1>5, Zenon DEF Owned
    <3> QED
      BY <1>2, <3>1, ExecutionOf, Zenon
  <2>2. /\ ~Terminal(x.phase) /\ x.phase \in {"starting", "running"}
        /\ "cancelling" \in Phases /\ ~Terminal("cancelling")
    BY <1>5, <2>1, Zenon DEF Live, Phases, Terminal, TerminalPhases, Execution
  <2>3. Keeps(mem, n)
    BY <1>2, <2>1, <2>2, SetPhaseGood, Zenon
  <2>4. was \in Was
    BY <2>1, <2>2, Zenon DEF Was, Execution
  <2> HIDE DEF n, was
  <2>5. GoodMemory(n) /\ Safe(mem, n, {}) /\ DOMAIN n.offers = DOMAIN mem.offers
    BY <2>3, KeepsSafe, Zenon
  <2>6. /\ mem' = n /\ GoodSnapshot(disk') /\ faults' \in 0 .. MaxFaults
        /\ DOMAIN disk'.offers = DOMAIN disk.offers \/ DOMAIN disk'.offers = DOMAIN n.offers
        /\ final' \in [ExecutionIds -> {"none"} \cup TerminalPhases]
    BY <1>5, <2>5, ChangedGood, Zenon
  <2>7. /\ handler' \in [Messages -> HandlerState] /\ handler'[m].at = "stopping"
        /\ \A k \in Messages \ {m} : handler'[k] = handler[k]
    BY <1>5, <2>4, Zenon DEF IndInv, TypeOK, HandlerState, HandlerPlaces
  <2>8. HandlerOK(m)'
    <3>1. mode = "up" /\ m \in DOMAIN mem.entries /\ ~mem.entries[m].done
      BY <1>1, <1>2, Zenon DEF HandlerOK
    <3>2. mode' = "up" /\ m \in DOMAIN n.entries /\ ~n.entries[m].done
      BY <1>1, <2>5, <3>1, Zenon DEF Safe
    <3>3. e \in DOMAIN n.executions /\ n.executions[e].client = m.client
      BY <2>1, <2>5, Zenon DEF Safe
    <3> QED
      BY <1>1, <2>6, <2>7, <3>2, <3>3, Zenon DEF HandlerOK, Assigning
  <2> DEFINE ended == {}
  <2>9. \A k \in Messages : (k \notin ended /\ handler'[k] = handler[k]) \/ HandlerOK(k)'
    BY <2>7, <2>8, Zenon
  <2>10. /\ clock' \in 0 .. MaxTime /\ mode' = mode /\ checked' \in SUBSET Messages
         /\ (checked' # {} => mode = "up") /\ issued' = issued
         /\ sweep' \in SweepState /\ sweep' = sweep
         /\ recovery' \in RecoveryState /\ recovery' = recovery
         /\ task' \in [ExecutionIds -> {"none", "running", "exited"}]
         /\ entry' \in [ExecutionIds -> {"none", "active", "done", "failed"}]
         /\ launched' \in [OfferIds -> Nat] /\ applied' \in [Messages -> Nat]
         /\ issued \in 0 .. MaxOffers /\ DOMAIN disk.offers \subseteq 1 .. issued
    BY <1>1, Zenon DEF IndInv, TypeOK
  <2>11. /\ GoodMemory(mem') /\ Safe(mem, mem', ended) /\ issued' \in 0 .. MaxOffers
         /\ DOMAIN mem'.offers \subseteq 1 .. issued' /\ DOMAIN disk'.offers \subseteq 1 .. issued'
    BY <1>2, <2>5, <2>6, <2>10, Zenon
  <2> HIDE DEF ended
  <2> QED
    BY <2>6, <2>7, <2>9, <2>10, <2>11, StepGood, Zenon
<1> QED
  BY <1>3, <1>4, <1>5, Zenon

-----------------------------------------------------------------------------
(* The replay cache and the completion of a workload.                      *)

\* A step that leaves every goroutine of the allocator where it is, apart from
\* the deliveries that passed checkFreshness.
LEMMA QuietStep ==
    ASSUME IndInv, NEW n, GoodMemory(n), Safe(mem, n, {}), DOMAIN n.offers = DOMAIN mem.offers,
           Changed(n), checked' \in SUBSET Messages, checked' # {} => mode = "up",
           UNCHANGED <<clock, mode, issued, handler, sweep, recovery, launched, applied>>,
           task' \in [ExecutionIds -> {"none", "running", "exited"}],
           entry' \in [ExecutionIds -> {"none", "active", "done", "failed"}]
    PROVE  IndInv'
<1>1. /\ mem' = n /\ GoodSnapshot(disk') /\ faults' \in 0 .. MaxFaults
      /\ DOMAIN disk'.offers = DOMAIN disk.offers \/ DOMAIN disk'.offers = DOMAIN n.offers
      /\ final' \in [ExecutionIds -> {"none"} \cup TerminalPhases]
  BY ChangedGood, Zenon
<1> DEFINE ended == {}
<1>2. \A k \in Messages : (k \notin ended /\ handler'[k] = handler[k]) \/ HandlerOK(k)'
  BY Zenon
<1>3. /\ clock' \in 0 .. MaxTime /\ mode' = mode /\ issued' = issued /\ issued \in 0 .. MaxOffers
      /\ handler' \in [Messages -> HandlerState]
      /\ sweep' \in SweepState /\ sweep' = sweep
      /\ recovery' \in RecoveryState /\ recovery' = recovery
      /\ launched' \in [OfferIds -> Nat] /\ applied' \in [Messages -> Nat]
      /\ DOMAIN mem.offers \subseteq 1 .. issued /\ DOMAIN disk.offers \subseteq 1 .. issued
  BY Zenon DEF IndInv, TypeOK
<1>4. /\ GoodMemory(mem') /\ Safe(mem, mem', ended) /\ issued' \in 0 .. MaxOffers
      /\ DOMAIN mem'.offers \subseteq 1 .. issued' /\ DOMAIN disk'.offers \subseteq 1 .. issued'
  BY <1>1, <1>3, Zenon
<1> HIDE DEF ended
<1> QED
  BY <1>1, <1>2, <1>3, <1>4, StepGood, Zenon

\* checkFreshness moves the high-water mark only.
LEMMA CheckFreshnessGood ==
    ASSUME IndInv, NEW m \in Messages, CheckFreshness(m)
    PROVE  IndInv'
<1> DEFINE n == AdvanceHighWater(mem)
<1>1. /\ Changed(n) /\ mode = "up"
      /\ UNCHANGED <<clock, mode, issued, handler, sweep, recovery, launched, applied>>
      /\ checked' = checked \/ checked' = checked \cup {m}
      /\ task' = task /\ entry' = entry
  BY Zenon DEF CheckFreshness, Changed
<1>2. /\ GoodMemory(n) /\ n.executions = mem.executions /\ n.offers = mem.offers
      /\ n.tombstones = mem.tombstones /\ n.entries = mem.entries
  BY Bounds, AdvanceGood, Zenon
<1> HIDE DEF n
<1>3. Safe(mem, n, {}) /\ DOMAIN n.offers = DOMAIN mem.offers
  BY <1>2, Zenon DEF Safe
<1>4. /\ checked' \in SUBSET Messages
      /\ task' \in [ExecutionIds -> {"none", "running", "exited"}]
      /\ entry' \in [ExecutionIds -> {"none", "active", "done", "failed"}]
  BY <1>1, Zenon DEF IndInv, TypeOK
<1> QED
  BY <1>1, <1>2, <1>3, <1>4, QuietStep, Zenon

\* RuntimeCompleted ends an execution that is not over.
LEMMA RuntimeCompletedGood ==
    ASSUME Counting, IndInv, NEW e \in ExecutionIds, NEW phase \in {"completed", "failed"},
           RuntimeCompleted(e, phase)
    PROVE  IndInv'
<1> DEFINE n == Finish(mem, e, phase, FALSE)
<1>1. /\ UNCHANGED <<clock, mode, issued, handler, sweep, recovery, launched, applied>>
      /\ checked' = checked
      /\ Changed(mem) \/ (e \in DOMAIN mem.executions /\ Changed(n))
  BY Zenon DEF RuntimeCompleted, Changed
<1>2. /\ task' \in [ExecutionIds -> {"none", "running", "exited"}]
      /\ entry' \in [ExecutionIds -> {"none", "active", "done", "failed"}]
  BY Zenon DEF RuntimeCompleted, IndInv, TypeOK
<1>3. checked' \in SUBSET Messages /\ (checked' # {} => mode = "up")
  BY <1>1, Zenon DEF IndInv, TypeOK
<1>4. ASSUME e \in DOMAIN mem.executions
      PROVE  GoodMemory(n) /\ Safe(mem, n, {}) /\ DOMAIN n.offers = DOMAIN mem.offers
  <2>1. phase \in TerminalPhases
    BY Zenon DEF TerminalPhases
  <2>2. Keeps(mem, n)
    BY <1>4, <2>1, Bounds, FinishGood, Zenon
  <2> QED
    BY <2>2, KeepsSafe, Zenon
<1> HIDE DEF n
<1>5. GoodMemory(mem) /\ Safe(mem, mem, {})
  BY Bounds, SameSafe, Zenon
<1> QED
  BY <1>1, <1>2, <1>3, <1>4, <1>5, QuietStep, Zenon

\* beginReplay opens an entry and drops only entries that are done.
LEMMA BeginReplayGood ==
    ASSUME Counting, IndInv, NEW m \in Messages, BeginReplay(m)
    PROVE  IndInv'
<1> DEFINE x == ExpireOffers(mem, clock)
           s == Prune(x, clock)
           r(X) == [s EXCEPT !.entries = Drop(s.entries, X)]
           new == [seenAt |-> clock, done |-> FALSE]
           b(X) == [r(X) EXCEPT !.entries = Put(r(X).entries, m, new)]
<1>1. /\ GoodMemory(x) /\ Safe(mem, x, {}) /\ DOMAIN x.offers = DOMAIN mem.offers
      /\ x.executions = mem.executions /\ x.entries = mem.entries /\ x.tombstones = mem.tombstones
  BY ExpiredSafe, Zenon
<1>2. clock \in Nat
  BY Bounds, Zenon
<1>3. /\ GoodMemory(s) /\ s.executions = x.executions /\ s.offers = x.offers
      /\ s.tombstones = x.tombstones
      /\ \A k \in DOMAIN x.entries : ~x.entries[k].done =>
            k \in DOMAIN s.entries /\ s.entries[k] = x.entries[k]
  BY <1>1, <1>2, PruneGood, Zenon
<1>4. /\ m \in checked /\ checked' = checked \ {m}
      /\ UNCHANGED <<clock, mode, issued, sweep, recovery, launched, applied, task, entry>>
      /\ \/ Changed(s) /\ handler' = handler
         \/ \E X \in Evictable(s, Monus(ReplayCapacity, 1)) :
                \/ Changed(r(X)) /\ handler' = handler
                \/ Changed(b(X)) /\ Goto(m, "begun")
  BY Zenon DEF BeginReplay, Changed
<1>5. /\ checked' \in SUBSET Messages /\ mode = "up" /\ (checked' # {} => mode = "up")
      /\ task' \in [ExecutionIds -> {"none", "running", "exited"}]
      /\ entry' \in [ExecutionIds -> {"none", "active", "done", "failed"}]
  BY <1>4, Zenon DEF IndInv, TypeOK
<1> HIDE DEF s, x
<1>6. Safe(mem, s, {}) /\ DOMAIN s.offers = DOMAIN mem.offers
  BY <1>1, <1>3, Zenon DEF Safe
<1>7. CASE Changed(s) /\ handler' = handler
  BY <1>3, <1>4, <1>5, <1>6, <1>7, QuietStep, Zenon
<1>8. ASSUME NEW X \in Evictable(s, Monus(ReplayCapacity, 1)),
             \/ Changed(r(X)) /\ handler' = handler
             \/ Changed(b(X)) /\ Goto(m, "begun")
      PROVE  IndInv'
  <2> DEFINE E == Drop(s.entries, X)
             p == r(X)
             q == b(X)
             F == Put(p.entries, m, new)
  <2>1. \A k \in X : k \in DOMAIN s.entries /\ s.entries[k].done
    BY <1>8, Zenon DEF Evictable
  <2>2. IsMap(s.entries, Messages, ReplayEntry)
    BY <1>3, Zenon DEF GoodMemory, IsMemory
  <2>3. /\ IsMap(E, Messages, ReplayEntry)
        /\ \A k \in DOMAIN s.entries : ~s.entries[k].done => k \in DOMAIN E /\ E[k] = s.entries[k]
    BY <2>1, <2>2, Zenon DEF Drop, IsMap
  <2> HIDE DEF E
  <2>4. /\ GoodMemory(p) /\ p.offers = s.offers /\ p.executions = s.executions
        /\ p.tombstones = s.tombstones /\ p.entries = E
    BY <1>3, <2>3, EntriesGood DEF E
  <2> HIDE DEF p
  <2>5. Safe(mem, p, {}) /\ DOMAIN p.offers = DOMAIN mem.offers
    BY <1>6, <2>3, <2>4, Zenon DEF Safe
  <2>6. CASE Changed(p) /\ handler' = handler
    BY <1>4, <1>5, <2>4, <2>5, <2>6, QuietStep, Zenon
  <2>7. CASE Changed(q) /\ Goto(m, "begun")
    <3>1. new \in ReplayEntry /\ ~new.done
      BY <1>2, Zenon DEF ReplayEntry
    <3>2. /\ IsMap(F, Messages, ReplayEntry) /\ m \in DOMAIN F /\ F[m] = new
          /\ \A k \in DOMAIN p.entries \ {m} : k \in DOMAIN F /\ F[k] = p.entries[k]
      BY <2>3, <2>4, <3>1, Zenon DEF Put, IsMap
    <3>3. q = [p EXCEPT !.entries = F]
      BY Zenon DEF p
    <3> HIDE DEF new, F, q
    <3>4. /\ GoodMemory(q) /\ q.offers = p.offers /\ q.executions = p.executions
          /\ q.tombstones = p.tombstones /\ q.entries = F
      BY <2>4, <3>2, <3>3, EntriesGood
    <3>5. Safe(mem, q, {}) /\ DOMAIN q.offers = DOMAIN mem.offers
      BY <2>5, <3>1, <3>2, <3>4, Zenon DEF Safe
    <3>6. /\ mem' = q /\ GoodSnapshot(disk') /\ faults' \in 0 .. MaxFaults
          /\ DOMAIN disk'.offers = DOMAIN disk.offers \/ DOMAIN disk'.offers = DOMAIN q.offers
          /\ final' \in [ExecutionIds -> {"none"} \cup TerminalPhases]
      BY <2>7, <3>4, ChangedGood, Zenon
    <3>7. "begun" \in HandlerPlaces /\ "begun" \notin Assigning /\ "begun" \notin Stopping
      BY Zenon DEF HandlerPlaces, Assigning, Stopping
    <3>8. /\ handler' \in [Messages -> HandlerState] /\ handler'[m].at = "begun"
          /\ \A k \in Messages \ {m} : handler'[k] = handler[k]
      BY <2>7, <3>7, GotoGood, Zenon
    <3>9. HandlerOK(m)'
      BY <1>4, <1>5, <3>1, <3>2, <3>4, <3>6, <3>7, <3>8, Zenon DEF HandlerOK
    <3> DEFINE ended == {}
    <3>10. \A k \in Messages : (k \notin ended /\ handler'[k] = handler[k]) \/ HandlerOK(k)'
      BY <3>8, <3>9, Zenon
    <3>11. /\ clock' \in 0 .. MaxTime /\ mode' = mode /\ issued' = issued
           /\ issued \in 0 .. MaxOffers
           /\ sweep' \in SweepState /\ sweep' = sweep
           /\ recovery' \in RecoveryState /\ recovery' = recovery
           /\ launched' \in [OfferIds -> Nat] /\ applied' \in [Messages -> Nat]
           /\ DOMAIN mem.offers \subseteq 1 .. issued /\ DOMAIN disk.offers \subseteq 1 .. issued
      BY <1>4, Zenon DEF IndInv, TypeOK
    <3>12. /\ GoodMemory(mem') /\ Safe(mem, mem', ended) /\ issued' \in 0 .. MaxOffers
           /\ DOMAIN mem'.offers \subseteq 1 .. issued' /\ DOMAIN disk'.offers \subseteq 1 .. issued'
      BY <3>4, <3>5, <3>6, <3>11, Zenon
    <3> HIDE DEF ended
    <3> QED
      BY <1>5, <3>6, <3>8, <3>10, <3>11, <3>12, StepGood, Zenon
  <2> QED
    BY <1>8, <2>6, <2>7, Zenon DEF p
<1> QED
  BY <1>4, <1>7, <1>8, Zenon

\* finishReplay closes the entry of a handler that is done.
LEMMA FinishReplayGood ==
    ASSUME IndInv, NEW m \in Messages, FinishReplay(m)
    PROVE  IndInv'
<1> DEFINE D == [mem.entries EXCEPT ![m].done = TRUE]
           s == [mem EXCEPT !.entries[m].done = TRUE]
<1>1. /\ handler[m].at = "applied" /\ Goto(m, "idle")
      /\ UNCHANGED <<clock, mode, issued, checked, sweep, recovery, task, entry, launched, applied>>
  BY Zenon DEF FinishReplay
<1>2. /\ GoodMemory(mem) /\ IsMemory(mem) /\ m \in DOMAIN mem.entries
      /\ IsMap(mem.entries, Messages, ReplayEntry)
  BY <1>1, Bounds, Zenon DEF HandlerOK, GoodMemory, IsMemory
<1>3. /\ IsMap(D, Messages, ReplayEntry) /\ DOMAIN D = DOMAIN mem.entries
      /\ \A k \in DOMAIN mem.entries \ {m} : D[k] = mem.entries[k]
  <2>1. mem.entries[m] \in ReplayEntry
    BY <1>2, Zenon DEF IsMap
  <2>2. [mem.entries[m] EXCEPT !.done = TRUE] \in ReplayEntry
    BY <2>1, Zenon DEF ReplayEntry
  <2> QED
    BY <1>2, <2>2, Zenon DEF IsMap
<1>4. s = [mem EXCEPT !.entries = D]
  BY <1>2, Zenon DEF IsMemory, IsRecord
<1>5. PICK X \in Evictable(s, ReplayCapacity) : Changed([s EXCEPT !.entries = Drop(s.entries, X)])
  BY Zenon DEF FinishReplay, SavedOrNot, Changed
<1> HIDE DEF D, s
<1>6. /\ GoodMemory(s) /\ s.offers = mem.offers /\ s.executions = mem.executions
      /\ s.tombstones = mem.tombstones /\ s.entries = D
  BY <1>2, <1>3, <1>4, EntriesGood
<1> DEFINE E == Drop(s.entries, X)
           n == [s EXCEPT !.entries = E]
<1>7. /\ IsMap(E, Messages, ReplayEntry)
      /\ \A k \in DOMAIN D : ~D[k].done => k \in DOMAIN E /\ E[k] = D[k]
  BY <1>3, <1>5, <1>6, Zenon DEF Drop, IsMap, Evictable
<1>8. Changed(n)
  BY <1>5, Zenon
<1> HIDE DEF E
<1>9. /\ GoodMemory(n) /\ n.offers = s.offers /\ n.executions = s.executions
      /\ n.tombstones = s.tombstones /\ n.entries = E
  BY <1>6, <1>7, EntriesGood
<1> HIDE DEF n
<1>10. Safe(mem, n, {m}) /\ DOMAIN n.offers = DOMAIN mem.offers
  BY <1>3, <1>6, <1>7, <1>9, Zenon DEF Safe
<1>11. /\ mem' = n /\ GoodSnapshot(disk') /\ faults' \in 0 .. MaxFaults
       /\ DOMAIN disk'.offers = DOMAIN disk.offers \/ DOMAIN disk'.offers = DOMAIN n.offers
       /\ final' \in [ExecutionIds -> {"none"} \cup TerminalPhases]
  BY <1>8, <1>9, ChangedGood, Zenon
<1>12. "idle" \in HandlerPlaces /\ "idle" \notin Assigning /\ "idle" \notin Stopping
  BY Zenon DEF HandlerPlaces, Assigning, Stopping
<1>13. /\ handler' \in [Messages -> HandlerState] /\ handler'[m].at = "idle"
       /\ \A k \in Messages \ {m} : handler'[k] = handler[k]
  BY <1>1, <1>12, GotoGood, Zenon
<1>14. HandlerOK(m)'
  BY <1>12, <1>13, Zenon DEF HandlerOK
<1>15. \A k \in Messages : (k \notin {m} /\ handler'[k] = handler[k]) \/ HandlerOK(k)'
  BY <1>13, <1>14, Zenon
<1>16. /\ clock' \in 0 .. MaxTime /\ mode' = mode /\ issued' = issued
       /\ issued \in 0 .. MaxOffers
       /\ checked' \in SUBSET Messages /\ (checked' # {} => mode = "up")
       /\ sweep' \in SweepState /\ sweep' = sweep
       /\ recovery' \in RecoveryState /\ recovery' = recovery
       /\ task' \in [ExecutionIds -> {"none", "running", "exited"}]
       /\ entry' \in [ExecutionIds -> {"none", "active", "done", "failed"}]
       /\ launched' \in [OfferIds -> Nat] /\ applied' \in [Messages -> Nat]
       /\ DOMAIN mem.offers \subseteq 1 .. issued /\ DOMAIN disk.offers \subseteq 1 .. issued
  BY <1>1, Zenon DEF IndInv, TypeOK
<1>17. /\ GoodMemory(mem') /\ Safe(mem, mem', {m}) /\ issued' \in 0 .. MaxOffers
       /\ DOMAIN mem'.offers \subseteq 1 .. issued' /\ DOMAIN disk'.offers \subseteq 1 .. issued'
  BY <1>9, <1>10, <1>11, <1>16, Zenon
<1> QED
  BY <1>11, <1>13, <1>15, <1>16, <1>17, StepGood, Zenon

-----------------------------------------------------------------------------
(* The runtime.                                                            *)

\* A step that touches neither the memory nor the store.
LEMMA OutsideStep ==
    ASSUME IndInv, UNCHANGED <<mem, disk, mode, issued, checked, final, applied>>,
           clock' \in 0 .. MaxTime, faults' \in 0 .. MaxFaults,
           handler' \in [Messages -> HandlerState],
           \A m \in Messages : handler'[m] = handler[m] \/ HandlerOK(m)',
           sweep' \in SweepState, sweep' = sweep \/ SweepOK',
           recovery' \in RecoveryState, recovery' = recovery \/ RecoveryOK',
           task' \in [ExecutionIds -> {"none", "running", "exited"}],
           entry' \in [ExecutionIds -> {"none", "active", "done", "failed"}],
           launched' \in [OfferIds -> Nat]
    PROVE  IndInv'
<1>1. GoodMemory(mem') /\ Safe(mem, mem', {}) /\ GoodSnapshot(disk')
  BY SameSafe, Zenon DEF IndInv
<1>2. /\ mode' = mode /\ issued' \in 0 .. MaxOffers
      /\ DOMAIN mem'.offers \subseteq 1 .. issued' /\ DOMAIN disk'.offers \subseteq 1 .. issued'
      /\ checked' \in SUBSET Messages /\ (checked' # {} => mode = "up")
      /\ final' \in [ExecutionIds -> {"none"} \cup TerminalPhases]
      /\ applied' \in [Messages -> Nat]
  BY Zenon DEF IndInv, TypeOK
<1>3. \A m \in Messages : (m \notin {} /\ handler'[m] = handler[m]) \/ HandlerOK(m)'
  OBVIOUS
<1> QED
  BY <1>1, <1>2, <1>3, StepGood, Z3T(30)

\* runtime.Start runs outside the mutex and leaves the memory alone.
LEMMA RuntimeStartGood ==
    ASSUME IndInv, NEW m \in Messages, RuntimeStart(m)
    PROVE  IndInv'
<1>1. /\ handler[m].at = "starting"
      /\ UNCHANGED <<mem, disk, mode, issued, checked, final, applied>>
      /\ clock' = clock /\ sweep' = sweep /\ recovery' = recovery
      /\ Goto(m, "started") \/ Goto(m, "startFailed")
  BY Zenon DEF RuntimeStart
<1>2. /\ clock' \in 0 .. MaxTime /\ sweep' \in SweepState /\ recovery' \in RecoveryState
      /\ task \in [ExecutionIds -> {"none", "running", "exited"}]
      /\ entry \in [ExecutionIds -> {"none", "active", "done", "failed"}]
      /\ launched \in [OfferIds -> Nat] /\ faults \in 0 .. MaxFaults /\ MaxFaults \in Nat
  BY <1>1, ConstantsAssumption, Zenon DEF IndInv, TypeOK
<1>3. faults' \in 0 .. MaxFaults
  <2>1. faults' = faults \/ Fault
    BY Zenon DEF RuntimeStart
  <2> QED
    BY <1>2, <2>1 DEF Fault
<1>4. /\ task' \in [ExecutionIds -> {"none", "running", "exited"}]
      /\ entry' \in [ExecutionIds -> {"none", "active", "done", "failed"}]
  BY <1>2, Zenon DEF RuntimeStart
<1>5. launched' \in [OfferIds -> Nat]
  <2>1. launched' = launched \/ launched' = [launched EXCEPT ![m.offer] = @ + 1]
    BY Zenon DEF RuntimeStart
  <2> QED
    BY <1>2, <2>1
<1>6. PICK at \in {"started", "startFailed"} : Goto(m, at)
  BY <1>1, Zenon
<1>7. at \in HandlerPlaces /\ at \in Assigning /\ at \notin Stopping
      /\ "starting" \in Assigning
  BY <1>6, Zenon DEF HandlerPlaces, Assigning, Stopping
<1>8. /\ handler' \in [Messages -> HandlerState] /\ handler'[m].at = at
      /\ \A k \in Messages \ {m} : handler'[k] = handler[k]
  BY <1>6, <1>7, GotoGood, Zenon
<1>9. HandlerOK(m)'
  <2>1. HandlerOK(m) /\ handler[m].at \in Assigning /\ handler[m].at # "idle"
    BY <1>1, <1>7, Bounds, Zenon
  <2> QED
    BY <1>1, <1>7, <1>8, <2>1, Zenon DEF HandlerOK
<1> QED
  BY <1>1, <1>2, <1>3, <1>4, <1>5, <1>8, <1>9, OutsideStep, Zenon

\* executionManager.stop keeps the types of the runtime's state.
LEMMA StopTaskTyped ==
    ASSUME IndInv, NEW e, StopTask(e)
    PROVE  /\ task' \in [ExecutionIds -> {"none", "running", "exited"}]
           /\ entry' \in [ExecutionIds -> {"none", "active", "done", "failed"}]
<1>1. /\ task \in [ExecutionIds -> {"none", "running", "exited"}]
      /\ entry \in [ExecutionIds -> {"none", "active", "done", "failed"}]
  BY Zenon DEF IndInv, TypeOK
<1> QED
  BY <1>1, Zenon DEF StopTask

\* The same when it fails.
LEMMA StopFailsTyped ==
    ASSUME IndInv, NEW e, StopFails(e)
    PROVE  /\ task' \in [ExecutionIds -> {"none", "running", "exited"}]
           /\ entry' \in [ExecutionIds -> {"none", "active", "done", "failed"}]
<1>1. /\ task \in [ExecutionIds -> {"none", "running", "exited"}]
      /\ entry \in [ExecutionIds -> {"none", "active", "done", "failed"}]
  BY Zenon DEF IndInv, TypeOK
<1>2. CASE StopTask(e)
  BY <1>2, StopTaskTyped, Zenon
<1>3. CASE ~StopTask(e)
  BY <1>1, <1>3, Zenon DEF StopFails
<1> QED
  BY <1>2, <1>3, Zenon

\* runtime.Stop of a cancellation, outside the mutex.
LEMMA RuntimeStopGood ==
    ASSUME IndInv, NEW m \in Messages, RuntimeStop(m)
    PROVE  IndInv'
<1>1. /\ handler[m].at = "stopping"
      /\ UNCHANGED <<mem, disk, mode, issued, checked, final, applied>>
      /\ clock' = clock /\ sweep' = sweep /\ recovery' = recovery /\ launched' = launched
      /\ faults' = faults \/ Fault
      /\ StopTask(m.execution) \/ StopFails(m.execution)
      /\ \E at \in {"stopped", "stopFailed"} : handler' = [handler EXCEPT ![m].at = at]
  BY Zenon DEF RuntimeStop
<1>2. /\ clock' \in 0 .. MaxTime /\ sweep' \in SweepState /\ recovery' \in RecoveryState
      /\ launched' \in [OfferIds -> Nat] /\ faults \in 0 .. MaxFaults /\ MaxFaults \in Nat
      /\ handler \in [Messages -> HandlerState]
  BY <1>1, ConstantsAssumption, Zenon DEF IndInv, TypeOK
<1>3. faults' \in 0 .. MaxFaults
  BY <1>1, <1>2 DEF Fault
<1>4. /\ task' \in [ExecutionIds -> {"none", "running", "exited"}]
      /\ entry' \in [ExecutionIds -> {"none", "active", "done", "failed"}]
  BY <1>1, StopTaskTyped, StopFailsTyped, Zenon
<1>5. PICK at \in {"stopped", "stopFailed"} : handler' = [handler EXCEPT ![m].at = at]
  BY <1>1, Zenon
<1>6. at \in HandlerPlaces /\ at \in Stopping /\ at \notin Assigning /\ "stopping" \in Stopping
  BY <1>5, Zenon DEF HandlerPlaces, Assigning, Stopping
<1>7. [handler[m] EXCEPT !.at = at] \in HandlerState /\ [handler[m] EXCEPT !.at = at].at = at
  BY <1>2, <1>6, Zenon DEF HandlerState
<1>8. /\ handler' \in [Messages -> HandlerState] /\ handler'[m].at = at
      /\ \A k \in Messages \ {m} : handler'[k] = handler[k]
  BY <1>2, <1>5, <1>7, Zenon
<1>9. HandlerOK(m)'
  <2>1. HandlerOK(m) /\ handler[m].at \in Stopping /\ handler[m].at # "idle"
    BY <1>1, <1>6, Bounds, Zenon
  <2> QED
    BY <1>1, <1>6, <1>8, <2>1, Zenon DEF HandlerOK
<1> QED
  BY <1>1, <1>2, <1>3, <1>4, <1>8, <1>9, OutsideStep, Zenon

\* A workload exits by itself.
LEMMA TaskExitGood ==
    ASSUME IndInv, NEW e \in ExecutionIds, TaskExit(e)
    PROVE  IndInv'
<1>1. UNCHANGED <<clock, mem, disk, mode, issued, checked, handler, sweep, recovery,
                  entry, faults, launched, final, applied>>
  BY Zenon DEF TaskExit
<1>2. task' \in [ExecutionIds -> {"none", "running", "exited"}]
  BY Zenon DEF TaskExit, IndInv, TypeOK
<1>3. /\ clock' \in 0 .. MaxTime /\ faults' \in 0 .. MaxFaults
      /\ handler' \in [Messages -> HandlerState] /\ sweep' \in SweepState
      /\ recovery' \in RecoveryState /\ launched' \in [OfferIds -> Nat]
      /\ entry' \in [ExecutionIds -> {"none", "active", "done", "failed"}]
  BY <1>1, Zenon DEF IndInv, TypeOK
<1> QED
  BY <1>1, <1>2, <1>3, OutsideStep, Zenon

\* The wall clock moves.
LEMMA TimeGood ==
    ASSUME IndInv, Tick \/ SetClockBack
    PROVE  IndInv'
<1>1. UNCHANGED <<mem, disk, mode, issued, checked, handler, sweep, recovery, task, entry,
                  launched, final, applied>>
  BY Zenon DEF Tick, SetClockBack
<1>2. clock \in 0 .. MaxTime /\ faults \in 0 .. MaxFaults /\ MaxFaults \in Nat /\ MaxTime \in Nat
  BY ConstantsAssumption, Zenon DEF IndInv, TypeOK
<1>3. clock' \in 0 .. MaxTime /\ faults' \in 0 .. MaxFaults
  BY <1>2 DEF Tick, SetClockBack, Fault
<1>4. /\ handler' \in [Messages -> HandlerState] /\ sweep' \in SweepState
      /\ recovery' \in RecoveryState /\ launched' \in [OfferIds -> Nat]
      /\ task' \in [ExecutionIds -> {"none", "running", "exited"}]
      /\ entry' \in [ExecutionIds -> {"none", "active", "done", "failed"}]
  BY <1>1, Zenon DEF IndInv, TypeOK
<1> QED
  BY <1>1, <1>3, <1>4, OutsideStep, Zenon

\* A critical section of Sweep or of Recover that collects nothing.
LEMMA BackgroundStep ==
    ASSUME IndInv, NEW n, GoodMemory(n), Safe(mem, n, {}), DOMAIN n.offers = DOMAIN mem.offers,
           Changed(n), sweep' \in SweepState, sweep' = sweep \/ SweepOK',
           recovery' \in RecoveryState, recovery' = recovery \/ RecoveryOK',
           UNCHANGED <<clock, mode, issued, checked, handler, launched, applied>>,
           task' \in [ExecutionIds -> {"none", "running", "exited"}],
           entry' \in [ExecutionIds -> {"none", "active", "done", "failed"}]
    PROVE  IndInv'
<1>1. /\ mem' = n /\ GoodSnapshot(disk') /\ faults' \in 0 .. MaxFaults
      /\ DOMAIN disk'.offers = DOMAIN disk.offers \/ DOMAIN disk'.offers = DOMAIN n.offers
      /\ final' \in [ExecutionIds -> {"none"} \cup TerminalPhases]
  BY ChangedGood, Zenon
<1>2. \A k \in Messages : (k \notin {} /\ handler'[k] = handler[k]) \/ HandlerOK(k)'
  OBVIOUS
<1>3. /\ clock' \in 0 .. MaxTime /\ mode' = mode /\ issued' = issued /\ issued \in 0 .. MaxOffers
      /\ handler' \in [Messages -> HandlerState]
      /\ checked' \in SUBSET Messages /\ (checked' # {} => mode = "up")
      /\ launched' \in [OfferIds -> Nat] /\ applied' \in [Messages -> Nat]
      /\ DOMAIN mem.offers \subseteq 1 .. issued /\ DOMAIN disk.offers \subseteq 1 .. issued
  BY Zenon DEF IndInv, TypeOK
<1> QED
  BY <1>1, <1>2, <1>3, StepGood
-----------------------------------------------------------------------------
(* Sweep.                                                                  *)

\* The places a sweep may go back to: none of them holds an execution.
LEMMA SweepIdleTyped ==
    ASSUME NEW at \in {"idle", "collect"}
    PROVE  /\ [SweepIdle EXCEPT !.at = at] \in SweepState
           /\ [SweepIdle EXCEPT !.at = at].at = at
           /\ [SweepIdle EXCEPT !.at = at].todo = {}
           /\ SweepIdle \in SweepState /\ SweepIdle.at = "idle" /\ SweepIdle.todo = {}
  BY Zenon DEF SweepIdle, SweepState, NoPhase, Was

\* beginEvictionLocked takes a live execution whose lease has expired.
LEMMA BeginEvictionGood ==
    ASSUME Counting, IndInv, NEW e \in ExecutionIds, BeginEviction(e)
    PROVE  IndInv'
<1> DEFINE s == AdvanceHighWater(mem)
           x == s.executions[e]
           n == SetPhase(s, e, "cancelling", TRUE)
           was == [phase |-> x.phase, leaseExpired |-> x.leaseExpired]
<1>1. /\ mode = "up" /\ e \in ExpiredLeases(s) /\ task' = task /\ entry' = entry
      /\ recovery' = recovery /\ sweep.at = "idle"
      /\ UNCHANGED <<clock, mode, issued, checked, handler, launched, applied>>
      /\ \/ /\ Changed(n)
            /\ sweep' = [sweep EXCEPT !.at = "stopping", !.execution = e, !.was = was]
         \/ Changed(s) /\ sweep' = [SweepIdle EXCEPT !.at = "collect"]
  BY Zenon DEF BeginEviction, Changed
<1>2. /\ GoodMemory(s) /\ s.executions = mem.executions /\ s.offers = mem.offers
      /\ s.tombstones = mem.tombstones /\ s.entries = mem.entries
  BY Bounds, AdvanceGood, Zenon
<1>3. /\ task' \in [ExecutionIds -> {"none", "running", "exited"}]
      /\ entry' \in [ExecutionIds -> {"none", "active", "done", "failed"}]
      /\ recovery' \in RecoveryState /\ sweep \in SweepState /\ sweep.todo = {}
  BY <1>1, Zenon DEF IndInv, TypeOK, SweepOK
<1> HIDE DEF s
<1>4. Safe(mem, s, {}) /\ DOMAIN s.offers = DOMAIN mem.offers
  BY <1>2, Zenon DEF Safe
<1>5. CASE Changed(s) /\ sweep' = [SweepIdle EXCEPT !.at = "collect"]
  <2>1. sweep' \in SweepState /\ sweep'.at = "collect" /\ sweep'.todo = {}
    BY <1>5, SweepIdleTyped, Zenon
  <2>2. mode' = "up"
    BY <1>1, Zenon
  <2>3. SweepOK'
    BY <2>1, <2>2, Zenon DEF SweepOK, Stopping
  <2> QED
    BY <1>1, <1>2, <1>3, <1>4, <1>5, <2>1, <2>3, BackgroundStep, Zenon
<1>6. CASE /\ Changed(n)
           /\ sweep' = [sweep EXCEPT !.at = "stopping", !.execution = e, !.was = was]
  <2>1. e \in DOMAIN s.executions /\ Live(x.phase) /\ x \in Execution
    BY <1>1, <1>2, Zenon DEF ExpiredLeases, GoodMemory, IsMemory, IsMap
  <2>2. /\ ~Terminal(x.phase) /\ x.phase \in {"starting", "running"}
        /\ "cancelling" \in Phases /\ ~Terminal("cancelling")
    BY <2>1, Zenon DEF Live, Phases, Terminal, TerminalPhases, Execution
  <2>3. Keeps(s, n)
    BY <1>2, <2>1, <2>2, SetPhaseGood, Zenon
  <2>4. was \in Was
    BY <2>1, <2>2, Zenon DEF Was, Execution
  <2> HIDE DEF n, was
  <2>5. GoodMemory(n) /\ Safe(s, n, {}) /\ DOMAIN n.offers = DOMAIN s.offers
    BY <2>3, KeepsSafe, Zenon
  <2>6. Safe(mem, n, {})
    BY <1>4, <2>5, Zenon DEF Safe
  <2>7. /\ sweep' \in SweepState /\ sweep'.at = "stopping" /\ sweep'.execution = e
        /\ sweep'.todo = sweep.todo
    BY <1>3, <1>6, <2>4, Zenon DEF SweepState
  <2>8. mem' = n
    BY <1>6, <2>5, ChangedGood, Zenon
  <2>9. mode' = "up" /\ e \in DOMAIN n.executions
    BY <1>1, <2>1, <2>5, Zenon DEF Safe
  <2>10. SweepOK'
    BY <1>3, <2>7, <2>8, <2>9, Zenon DEF SweepOK
  <2> QED
    BY <1>1, <1>3, <1>4, <1>6, <2>5, <2>6, <2>7, <2>10, BackgroundStep, Zenon
<1> QED
  BY <1>1, <1>5, <1>6, Zenon

\* EvictExpiredLeases found nothing more: only the high-water mark moves.
LEMMA EndEvictionsGood ==
    ASSUME IndInv, EndEvictions
    PROVE  IndInv'
<1> DEFINE s == AdvanceHighWater(mem)
<1>1. /\ mode = "up" /\ task' = task /\ entry' = entry /\ recovery' = recovery /\ Changed(s)
      /\ UNCHANGED <<clock, mode, issued, checked, handler, launched, applied>>
      /\ sweep' = [SweepIdle EXCEPT !.at = "collect"]
  BY Zenon DEF EndEvictions, Changed
<1>2. /\ GoodMemory(s) /\ s.executions = mem.executions /\ s.offers = mem.offers
      /\ s.tombstones = mem.tombstones /\ s.entries = mem.entries
  BY Bounds, AdvanceGood, Zenon
<1>3. /\ task' \in [ExecutionIds -> {"none", "running", "exited"}]
      /\ entry' \in [ExecutionIds -> {"none", "active", "done", "failed"}]
      /\ recovery' \in RecoveryState
  BY <1>1, Zenon DEF IndInv, TypeOK
<1> HIDE DEF s
<1>4. Safe(mem, s, {}) /\ DOMAIN s.offers = DOMAIN mem.offers
  BY <1>2, Zenon DEF Safe
<1>5. sweep' \in SweepState /\ sweep'.at = "collect" /\ sweep'.todo = {}
  BY <1>1, SweepIdleTyped, Zenon
<1>6. SweepOK'
  BY <1>1, <1>5, Zenon DEF SweepOK, Stopping
<1> QED
  BY <1>1, <1>2, <1>3, <1>4, <1>5, <1>6, BackgroundStep, Zenon

\* runtime.Stop of an eviction, outside the mutex.
LEMMA SweepStopGood ==
    ASSUME IndInv, SweepStop
    PROVE  IndInv'
<1>1. /\ sweep.at = "stopping"
      /\ UNCHANGED <<mem, disk, mode, issued, checked, final, applied>>
      /\ clock' = clock /\ handler' = handler /\ recovery' = recovery /\ launched' = launched
      /\ faults' = faults \/ Fault
      /\ StopTask(sweep.execution) \/ StopFails(sweep.execution)
      /\ \E at \in {"stopped", "stopFailed"} : sweep' = [sweep EXCEPT !.at = at]
  BY Zenon DEF SweepStop
<1>2. /\ clock' \in 0 .. MaxTime /\ sweep \in SweepState /\ recovery' \in RecoveryState
      /\ launched' \in [OfferIds -> Nat] /\ faults \in 0 .. MaxFaults /\ MaxFaults \in Nat
      /\ handler' \in [Messages -> HandlerState]
  BY <1>1, ConstantsAssumption, Zenon DEF IndInv, TypeOK
<1>3. faults' \in 0 .. MaxFaults
  BY <1>1, <1>2 DEF Fault
<1>4. /\ task' \in [ExecutionIds -> {"none", "running", "exited"}]
      /\ entry' \in [ExecutionIds -> {"none", "active", "done", "failed"}]
  BY <1>1, StopTaskTyped, StopFailsTyped, Zenon
<1>5. /\ sweep' \in SweepState /\ sweep'.at \in {"stopped", "stopFailed"}
      /\ sweep'.execution = sweep.execution /\ sweep'.todo = sweep.todo
  BY <1>1, <1>2, Zenon DEF SweepState
<1>6. SweepOK'
  <2>1. SweepOK
    BY Zenon DEF IndInv
  <2> QED
    BY <1>1, <1>5, <2>1, Zenon DEF SweepOK, Stopping
<1> QED
  BY <1>1, <1>2, <1>3, <1>4, <1>5, <1>6, OutsideStep, Zenon

\* completeEviction ends the execution or gives its phase back.
LEMMA CompleteEvictionGood ==
    ASSUME Counting, IndInv, CompleteEviction
    PROVE  IndInv'
<1> DEFINE e == sweep.execution
           f == Finish(mem, e, "failed", TRUE)
           r == Restore(mem, e, sweep.was)
<1>1. /\ sweep.at \in {"stopped", "stopFailed"} /\ task' = task /\ entry' = entry
      /\ recovery' = recovery
      /\ UNCHANGED <<clock, mode, issued, checked, handler, launched, applied>>
      /\ Changed(mem) \/ Changed(f) \/ Changed(r)
      /\ sweep' = SweepIdle \/ sweep' = [SweepIdle EXCEPT !.at = "collect"]
  BY Zenon DEF CompleteEviction, SavedOrNot, Changed
<1>2. /\ mode = "up" /\ e \in DOMAIN mem.executions /\ sweep.was \in Was
      /\ GoodMemory(mem) /\ clock \in Nat
  BY <1>1, Bounds, Zenon DEF IndInv, TypeOK, SweepOK, SweepState, Stopping
<1>3. Keeps(mem, f)
  <2>1. "failed" \in TerminalPhases
    BY Zenon DEF TerminalPhases
  <2> QED
    BY <1>2, <2>1, FinishGood, Zenon
<1>4. r = mem \/ Keeps(mem, r)
  BY <1>2, RestoreGood, Zenon
<1>5. PICK n : Changed(n) /\ (n = mem \/ Keeps(mem, n))
  BY <1>1, <1>3, <1>4, Zenon
<1>6. GoodMemory(n) /\ Safe(mem, n, {}) /\ DOMAIN n.offers = DOMAIN mem.offers
  BY <1>2, <1>5, KeepsSafe, SameSafe, Zenon
<1>7. /\ sweep' \in SweepState /\ sweep'.at \in {"idle", "collect"} /\ sweep'.todo = {}
  BY <1>1, SweepIdleTyped, Zenon
<1>8. SweepOK'
  BY <1>1, <1>2, <1>7, Zenon DEF SweepOK, Stopping
<1>9. /\ task' \in [ExecutionIds -> {"none", "running", "exited"}]
      /\ entry' \in [ExecutionIds -> {"none", "active", "done", "failed"}]
      /\ recovery' \in RecoveryState
  BY <1>1, Zenon DEF IndInv, TypeOK
<1> QED
  BY <1>1, <1>5, <1>6, <1>7, <1>8, <1>9, BackgroundStep, Zenon

\* Sweep forgets one retired execution and clears its cleanupPending.
LEMMA CleanupGood ==
    ASSUME IndInv, NEW o \in OfferIds, Cleanup(o)
    PROVE  IndInv'
<1> DEFINE n == [mem EXCEPT !.tombstones[o].cleanupPending = FALSE]
<1>1. /\ sweep.at = "clean" /\ o \in sweep.todo /\ task' = task /\ recovery' = recovery
      /\ UNCHANGED <<clock, mode, issued, checked, handler, launched, applied>>
      /\ Changed(mem) \/ Changed(n)
      /\ sweep' = SweepIdle \/ sweep' = [sweep EXCEPT !.todo = sweep.todo \ {o}]
  BY Zenon DEF Cleanup, Changed
<1>2. /\ mode = "up" /\ sweep \in SweepState /\ sweep.todo \subseteq DOMAIN mem.tombstones
      /\ GoodMemory(mem) /\ recovery' \in RecoveryState
      /\ task' \in [ExecutionIds -> {"none", "running", "exited"}]
  BY <1>1, Zenon DEF IndInv, TypeOK, SweepOK
<1>3. entry' \in [ExecutionIds -> {"none", "active", "done", "failed"}]
  BY Zenon DEF IndInv, TypeOK, Cleanup
<1>4. /\ GoodMemory(n) /\ n.executions = mem.executions /\ n.offers = mem.offers
      /\ n.entries = mem.entries /\ DOMAIN n.tombstones = DOMAIN mem.tombstones
  BY <1>1, <1>2, CleanedGood, Zenon
<1> HIDE DEF n
<1>5. Safe(mem, n, {}) /\ Safe(mem, mem, {})
  BY <1>4, SameSafe, Zenon DEF Safe
<1>6. /\ sweep' \in SweepState /\ sweep'.at \in {"idle", "clean"}
      /\ sweep'.todo \subseteq DOMAIN mem.tombstones
      /\ sweep'.at # "clean" => sweep'.todo = {}
  <2>1. CASE sweep' = SweepIdle
    BY <2>1, SweepIdleTyped, Zenon
  <2>2. CASE sweep' = [sweep EXCEPT !.todo = sweep.todo \ {o}]
    BY <1>1, <1>2, <2>2, Zenon DEF SweepState
  <2> QED
    BY <1>1, <2>1, <2>2, Zenon
<1>7. DOMAIN mem'.tombstones = DOMAIN mem.tombstones
  BY <1>1, <1>2, <1>4, ChangedGood, Zenon
<1>8. SweepOK'
  BY <1>1, <1>2, <1>6, <1>7, Zenon DEF SweepOK, Stopping
<1> QED
  BY <1>1, <1>2, <1>3, <1>4, <1>5, <1>6, <1>8, BackgroundStep, Zenon

\* The requests of the executions that a handler works on are busy.
LEMMA InFlightBusy ==
    ASSUME IndInv, NEW p, p.executions = mem.executions,
           \A k \in DOMAIN mem.entries : ~mem.entries[k].done =>
                k \in DOMAIN p.entries /\ p.entries[k] = mem.entries[k],
           NEW m \in Messages, handler[m].at \in Assigning \cup Stopping
    PROVE  /\ m.execution \in DOMAIN p.executions
           /\ Key(p.executions[m.execution]) \in Busy(p)
<1>1. HandlerOK(m)
  BY Zenon DEF IndInv
<1>2. m \in DOMAIN p.entries /\ ~p.entries[m].done
  BY <1>1, Zenon DEF HandlerOK, Assigning, Stopping
<1>3. CASE handler[m].at \in Assigning
  BY <1>1, <1>2, <1>3, Zenon DEF HandlerOK, Busy
<1>4. CASE handler[m].at \in Stopping
  BY <1>1, <1>2, <1>4, Zenon DEF HandlerOK, Busy
<1> QED
  BY <1>3, <1>4, Zenon

\* Sweep collects no execution and drops no entry that a handler still needs.
LEMMA CollectedSafe ==
    ASSUME IndInv, NEW p, p.executions = mem.executions, GoodMemory(p),
           \A k \in DOMAIN mem.entries : ~mem.entries[k].done =>
                k \in DOMAIN p.entries /\ p.entries[k] = mem.entries[k]
    PROVE  LET n == Bury(Retire(p, Collectable(p))) IN
           /\ GoodMemory(n)
           /\ DOMAIN n.offers \subseteq DOMAIN p.offers
           /\ \A m \in Messages : handler[m].at # "idle" =>
                m \in DOMAIN n.entries /\ ~n.entries[m].done
           /\ \A m \in Messages : handler[m].at \in Assigning \cup Stopping =>
                /\ m.execution \in DOMAIN n.executions
                /\ n.executions[m.execution] = mem.executions[m.execution]
<1> DEFINE q == Retire(p, Collectable(p))
           n == Bury(q)
<1>1. /\ GoodMemory(q) /\ q.entries = p.entries /\ DOMAIN q.offers \subseteq DOMAIN p.offers
      /\ \A e \in DOMAIN p.executions : Key(p.executions[e]) \in Busy(p) =>
            e \in DOMAIN q.executions /\ q.executions[e] = p.executions[e]
  BY RetireGood, Zenon
<1> HIDE DEF q
<1>2. /\ GoodMemory(n) /\ n.executions = q.executions /\ n.offers = q.offers
      /\ \A m \in DOMAIN q.entries : ~q.entries[m].done =>
            m \in DOMAIN n.entries /\ n.entries[m] = q.entries[m]
  BY <1>1, BuryGood, Zenon
<1> HIDE DEF n
<1>3. ASSUME NEW m \in Messages, handler[m].at # "idle"
      PROVE  m \in DOMAIN n.entries /\ ~n.entries[m].done
  <2>1. m \in DOMAIN mem.entries /\ ~mem.entries[m].done
    BY <1>3, Zenon DEF IndInv, HandlerOK
  <2> QED
    BY <1>1, <1>2, <2>1, Zenon
<1>4. ASSUME NEW m \in Messages, handler[m].at \in Assigning \cup Stopping
      PROVE  /\ m.execution \in DOMAIN n.executions
             /\ n.executions[m.execution] = mem.executions[m.execution]
  <2>1. m.execution \in DOMAIN p.executions /\ Key(p.executions[m.execution]) \in Busy(p)
    BY <1>4, InFlightBusy, Zenon
  <2> QED
    BY <1>1, <1>2, <2>1
<1>5. GoodMemory(n) /\ DOMAIN n.offers \subseteq DOMAIN p.offers
  BY <1>1, <1>2, Zenon
<1> QED
  BY <1>3, <1>4, <1>5, Zenon DEF n, q

\* Sweep: what the collection works on is what the handlers left.
LEMMA SweptGood ==
    ASSUME Counting, IndInv, NEW hw, hw = AdvanceHighWater(mem), NEW p,
           p = Prune(ExpireOffers(hw, hw.highWater), hw.highWater)
    PROVE  /\ GoodMemory(p) /\ p.executions = mem.executions
           /\ DOMAIN p.offers = DOMAIN mem.offers
           /\ \A k \in DOMAIN mem.entries : ~mem.entries[k].done =>
                k \in DOMAIN p.entries /\ p.entries[k] = mem.entries[k]
<1>1. /\ GoodMemory(hw) /\ hw.executions = mem.executions /\ hw.offers = mem.offers
      /\ hw.entries = mem.entries
  BY Bounds, AdvanceGood, Zenon
<1>2. hw.highWater \in Nat /\ IsMemory(hw)
  BY <1>1, Zenon DEF GoodMemory, IsMemory
<1> DEFINE x == ExpireOffers(hw, hw.highWater)
<1>3. /\ GoodMemory(x) /\ x.executions = hw.executions /\ x.entries = hw.entries
      /\ DOMAIN x.offers = DOMAIN hw.offers
  BY <1>1, <1>2, ExpireGood, ExpireTyped, Zenon
<1>4. p = Prune(x, hw.highWater)
  OBVIOUS
<1> HIDE DEF x
<1>5. /\ GoodMemory(p) /\ p.executions = x.executions /\ p.offers = x.offers
      /\ \A k \in DOMAIN x.entries : ~x.entries[k].done =>
            k \in DOMAIN p.entries /\ p.entries[k] = x.entries[k]
  BY <1>2, <1>3, <1>4, PruneGood, Z3T(30)
<1> QED
  BY <1>1, <1>3, <1>5, Z3T(30)

\* The collection of Sweep preserves the invariant.
LEMMA CollectGood ==
    ASSUME Counting, IndInv, Collect
    PROVE  IndInv'
<1>1. PICK hw \in {AdvanceHighWater(mem)} :
      \E p \in {Prune(ExpireOffers(hw, hw.highWater), hw.highWater)} :
      \E q \in {Retire(p, Collectable(p))} :
      \E s \in {Bury(q)} :
        LET pending == {o \in DOMAIN s.tombstones : s.tombstones[o].cleanupPending} IN
        /\ sweep.at = "collect"
        /\ \/ /\ Saved(s)
              /\ sweep' = [SweepIdle EXCEPT !.at = IF pending = {} THEN "idle" ELSE "clean",
                                            !.todo = pending]
           \/ SaveFails(mem) /\ sweep' = SweepIdle
        /\ UNCHANGED <<clock, mode, issued, checked, handler, recovery, task, entry,
                       launched, applied>>
  BY Zenon DEF Collect
<1>2. PICK p \in {Prune(ExpireOffers(hw, hw.highWater), hw.highWater)} :
      \E q \in {Retire(p, Collectable(p))} :
      \E s \in {Bury(q)} :
        LET pending == {o \in DOMAIN s.tombstones : s.tombstones[o].cleanupPending} IN
        /\ sweep.at = "collect"
        /\ \/ /\ Saved(s)
              /\ sweep' = [SweepIdle EXCEPT !.at = IF pending = {} THEN "idle" ELSE "clean",
                                            !.todo = pending]
           \/ SaveFails(mem) /\ sweep' = SweepIdle
        /\ UNCHANGED <<clock, mode, issued, checked, handler, recovery, task, entry,
                       launched, applied>>
  BY <1>1, Zenon
<1> DEFINE s == Bury(Retire(p, Collectable(p)))
           pending == {o \in DOMAIN s.tombstones : s.tombstones[o].cleanupPending}
<1>3. /\ sweep.at = "collect"
      /\ \/ /\ Saved(s)
            /\ sweep' = [SweepIdle EXCEPT !.at = IF pending = {} THEN "idle" ELSE "clean",
                                          !.todo = pending]
         \/ SaveFails(mem) /\ sweep' = SweepIdle
      /\ UNCHANGED <<clock, mode, issued, checked, handler, recovery, task, entry,
                     launched, applied>>
  BY <1>2, Z3T(30)
<1> mode = "up"
  BY <1>3, Zenon DEF IndInv, SweepOK
<1>4. /\ GoodMemory(p) /\ p.executions = mem.executions /\ DOMAIN p.offers = DOMAIN mem.offers
      /\ \A k \in DOMAIN mem.entries : ~mem.entries[k].done =>
            k \in DOMAIN p.entries /\ p.entries[k] = mem.entries[k]
  <2>1. hw = AdvanceHighWater(mem) /\ p = Prune(ExpireOffers(hw, hw.highWater), hw.highWater)
    BY Zenon
  <2> QED
    BY <2>1, SweptGood, Zenon
<1>5. /\ GoodMemory(s) /\ DOMAIN s.offers \subseteq DOMAIN p.offers
      /\ \A m \in Messages : handler[m].at # "idle" =>
            m \in DOMAIN s.entries /\ ~s.entries[m].done
      /\ \A m \in Messages : handler[m].at \in Assigning \cup Stopping =>
            /\ m.execution \in DOMAIN s.executions
            /\ s.executions[m.execution] = mem.executions[m.execution]
  BY <1>4, CollectedSafe, Z3T(30)
<1> HIDE DEF s
<1>6. CASE SaveFails(mem) /\ sweep' = SweepIdle
  <2>1. GoodMemory(mem) /\ Safe(mem, mem, {}) /\ Changed(mem)
    BY <1>6, SameSafe, Zenon DEF IndInv, Changed
  <2>2. sweep' \in SweepState /\ sweep'.at = "idle" /\ sweep'.todo = {}
    BY <1>6, SweepIdleTyped, Zenon
  <2>3. SweepOK'
    BY <2>2, Zenon DEF SweepOK, Stopping
  <2>4. /\ task' \in [ExecutionIds -> {"none", "running", "exited"}]
        /\ entry' \in [ExecutionIds -> {"none", "active", "done", "failed"}]
        /\ recovery' = recovery /\ recovery' \in RecoveryState
    BY <1>3, Zenon DEF IndInv, TypeOK
  <2> QED
    BY <1>3, <2>1, <2>2, <2>3, <2>4, BackgroundStep, Zenon
<1>7. CASE /\ Saved(s)
           /\ sweep' = [SweepIdle EXCEPT !.at = IF pending = {} THEN "idle" ELSE "clean",
                                         !.todo = pending]
  <2>1. /\ mem' = s /\ GoodSnapshot(disk') /\ faults' \in 0 .. MaxFaults
        /\ final' \in [ExecutionIds -> {"none"} \cup TerminalPhases]
    BY <1>5, <1>7, ChangedGood, Zenon DEF Changed
  <2>2. DOMAIN disk'.offers = DOMAIN s.offers
    BY <1>5, <1>7, SnapshotGood, Zenon DEF Saved
  <2>3. pending \subseteq OfferIds /\ pending \subseteq DOMAIN s.tombstones
    BY <1>5, Zenon DEF GoodMemory, IsMemory, IsMap
  <2>4. /\ sweep' \in SweepState /\ sweep'.at \in {"idle", "clean"} /\ sweep'.todo = pending
        /\ sweep'.at # "clean" => pending = {}
    <3> HIDE DEF pending
    <3> QED
      BY <1>7, <2>3, Zenon DEF SweepState, SweepIdle, NoPhase, Was
  <2>5. SweepOK'
    BY <1>3, <2>1, <2>3, <2>4, Zenon DEF SweepOK, Stopping
  <2>6. RecoveryOK'
    <3>1. recovery = NotRecovering
      BY <1>3, Zenon DEF IndInv, RecoveryOK
    <3> QED
      BY <1>3, <3>1, Zenon DEF RecoveryOK, NotRecovering
  <2>7. ASSUME NEW m \in Messages
        PROVE  HandlerOK(m)'
    <3>1. HandlerOK(m) /\ handler'[m] = handler[m] /\ mode' = "up"
      BY <1>3, Zenon DEF IndInv
    <3> QED
      BY <1>5, <2>1, <3>1, Zenon DEF HandlerOK
  <2>8. /\ DOMAIN mem'.offers \subseteq 1 .. issued' /\ DOMAIN disk'.offers \subseteq 1 .. issued'
    BY <1>3, <1>4, <1>5, <2>1, <2>2, Zenon DEF IndInv
  <2>9. IsMemory(mem') /\ IsSnapshot(disk')
    BY <1>5, <2>1, Zenon DEF GoodMemory, GoodSnapshot
  <2>10. TypeOK'
    BY <1>3, <2>1, <2>4, <2>9, Zenon DEF IndInv, TypeOK
  <2>11. checked' # {} => mode' = "up"
    BY <1>3, Zenon
  <2> QED
    BY <1>5, <2>1, <2>5, <2>6, <2>7, <2>8, <2>10, <2>11, Zenon DEF IndInv
<1> QED
  BY <1>3, <1>6, <1>7, Zenon

\* A crash loses every goroutine and the memory, and keeps the snapshot.
LEMMA CrashGood ==
    ASSUME Counting, IndInv, Crash
    PROVE  IndInv'
<1>1. /\ mode' = "down" /\ mem' = Empty /\ checked' = {} /\ disk' = disk /\ issued' = issued
      /\ handler' = [m \in Messages |-> Idle] /\ sweep' = SweepIdle
      /\ recovery' = NotRecovering /\ entry' = [e \in ExecutionIds |-> "none"]
      /\ UNCHANGED <<clock, task, launched, final, applied>> /\ Fault
  BY Zenon DEF Crash
<1>2. /\ GoodMemory(Empty) /\ DOMAIN Empty.offers = {}
  BY EmptyGood, Zenon
<1>3. IsMemory(mem') /\ IsSnapshot(disk') /\ faults' \in 0 .. MaxFaults
  <2>1. IsMemory(mem') /\ IsSnapshot(disk') /\ faults \in 0 .. MaxFaults
    BY <1>1, <1>2, Zenon DEF GoodMemory, IndInv, TypeOK
  <2>2. faults' \in 0 .. MaxFaults
    BY <1>1, <2>1, ConstantsAssumption DEF Fault
  <2> QED
    BY <2>1, <2>2, Zenon
<1>4. /\ Idle \in HandlerState /\ Idle.at = "idle" /\ NotRecovering \in RecoveryState
      /\ NotRecovering.todo = {} /\ NotRecovering.at = "next"
  BY Zenon DEF HandlerState, Idle, NoPhase, Was, HandlerPlaces, RecoveryState, NotRecovering
<1>5. SweepIdle \in SweepState /\ SweepIdle.at = "idle" /\ SweepIdle.todo = {}
  BY SweepIdleTyped, Zenon
<1>6. TypeOK'
  <2>1. handler' \in [Messages -> HandlerState]
    BY <1>1, <1>4, Zenon
  <2>2. entry' \in [ExecutionIds -> {"none", "active", "done", "failed"}]
    BY <1>1, Zenon
  <2> QED
    BY <1>1, <1>3, <1>4, <1>5, <2>1, <2>2, Zenon DEF IndInv, TypeOK
<1>7. /\ \A m \in Messages : HandlerOK(m)'
      /\ SweepOK' /\ RecoveryOK'
  BY <1>1, <1>4, <1>5, Zenon DEF HandlerOK, SweepOK, RecoveryOK, Assigning, Stopping
<1>8. /\ DOMAIN mem'.offers \subseteq 1 .. issued' /\ DOMAIN disk'.offers \subseteq 1 .. issued'
      /\ GoodMemory(mem') /\ GoodSnapshot(disk') /\ checked' = {}
  BY <1>1, <1>2, Zenon DEF IndInv
<1> QED
  BY <1>6, <1>7, <1>8, Zenon DEF IndInv

-----------------------------------------------------------------------------
(* Recovery.                                                               *)

\* While the daemon is not up no goroutine serves or sweeps.
LEMMA Quiescent ==
    ASSUME IndInv, mode # "up"
    PROVE  /\ checked = {} /\ sweep.at = "idle" /\ sweep.todo = {}
           /\ \A m \in Messages : handler[m].at = "idle"
  BY Zenon DEF IndInv, HandlerOK, SweepOK

\* loadLocked gives back a good memory from the snapshot of any instant.
LEMMA RestartGood ==
    ASSUME Counting, IndInv, Restart
    PROVE  IndInv'
<1> DEFINE s == Load(disk, clock)
           live == {e \in DOMAIN s.executions : ~Terminal(s.executions[e].phase)}
<1>1. /\ mode = "down" /\ mode' = "recovering" /\ Unsaved(s)
      /\ recovery' = [NotRecovering EXCEPT !.todo = live]
      /\ UNCHANGED <<clock, issued, checked, handler, sweep, task, entry, launched, applied>>
  BY Zenon DEF Restart
<1>2. GoodMemory(s) /\ DOMAIN s.offers = DOMAIN disk.offers
  BY Bounds, LoadGood, Zenon DEF IndInv
<1> HIDE DEF s
<1>3. /\ mem' = s /\ disk' = disk /\ faults' \in 0 .. MaxFaults
      /\ final' \in [ExecutionIds -> {"none"} \cup TerminalPhases]
  BY <1>1, <1>2, ChangedGood, Zenon DEF Changed, Unsaved
<1>4. live \subseteq ExecutionIds /\ live \subseteq DOMAIN s.executions
  BY <1>2, Zenon DEF GoodMemory, IsMemory, IsMap
<1> HIDE DEF live
<1>5. /\ recovery' \in RecoveryState /\ recovery'.todo = live /\ recovery'.at = "next"
  BY <1>1, <1>4, Zenon DEF RecoveryState, NotRecovering
<1>6. /\ checked' = {} /\ sweep'.at = "idle" /\ sweep'.todo = {}
      /\ \A m \in Messages : handler'[m].at = "idle"
  BY <1>1, Quiescent, Zenon
<1>7. /\ \A m \in Messages : HandlerOK(m)'
      /\ SweepOK' /\ RecoveryOK'
  BY <1>1, <1>3, <1>4, <1>5, <1>6, Zenon DEF HandlerOK, SweepOK, RecoveryOK, Assigning, Stopping
<1>8. IsMemory(mem') /\ IsSnapshot(disk')
  BY <1>2, <1>3, Zenon DEF GoodMemory, IndInv, TypeOK
<1>9. TypeOK'
  BY <1>1, <1>3, <1>5, <1>8, Zenon DEF IndInv, TypeOK
<1>10. /\ DOMAIN mem'.offers \subseteq 1 .. issued' /\ DOMAIN disk'.offers \subseteq 1 .. issued'
       /\ GoodMemory(mem') /\ GoodSnapshot(disk')
  BY <1>1, <1>2, <1>3, Zenon DEF IndInv
<1> QED
  BY <1>6, <1>7, <1>9, <1>10, Zenon DEF IndInv

\* runtime.Stop of an execution that Recover does not revive.
LEMMA RecoverStopGood ==
    ASSUME IndInv, NEW e \in ExecutionIds, RecoverStop(e)
    PROVE  IndInv'
<1>1. /\ recovery.at = "next" /\ e \in recovery.todo /\ StopTask(e)
      /\ recovery' = [recovery EXCEPT !.execution = e, !.at = "stopped"]
      /\ UNCHANGED <<mem, disk, mode, issued, checked, final, applied>>
      /\ clock' = clock /\ handler' = handler /\ sweep' = sweep
      /\ launched' = launched /\ faults' = faults
  BY Zenon DEF RecoverStop
<1>2. /\ clock' \in 0 .. MaxTime /\ sweep' \in SweepState /\ recovery \in RecoveryState
      /\ launched' \in [OfferIds -> Nat] /\ faults' \in 0 .. MaxFaults
      /\ handler' \in [Messages -> HandlerState]
  BY <1>1, Zenon DEF IndInv, TypeOK
<1>3. /\ task' \in [ExecutionIds -> {"none", "running", "exited"}]
      /\ entry' \in [ExecutionIds -> {"none", "active", "done", "failed"}]
  BY <1>1, StopTaskTyped, Zenon
<1>4. /\ recovery' \in RecoveryState /\ recovery'.execution = e
      /\ recovery'.todo = recovery.todo
  BY <1>1, <1>2, Zenon DEF RecoveryState
<1>5. RecoveryOK /\ recovery # NotRecovering
  BY <1>1 DEF IndInv, NotRecovering
<1>6. RecoveryOK'
  BY <1>1, <1>4, <1>5, Zenon DEF RecoveryOK
<1> QED
  BY <1>1, <1>2, <1>3, <1>4, <1>6, OutsideStep, Zenon

\* Recover asks the runtime for the container of an execution.
LEMMA RecoverTaskGood ==
    ASSUME IndInv, NEW e \in ExecutionIds, RecoverTask(e)
    PROVE  IndInv'
<1>1. /\ recovery.at = "next" /\ e \in recovery.todo
      /\ \E at \in {"missing", "attached"} :
            recovery' = [recovery EXCEPT !.execution = e, !.at = at]
      /\ UNCHANGED <<mem, disk, mode, issued, checked, final, applied>>
      /\ clock' = clock /\ handler' = handler /\ sweep' = sweep /\ task' = task
      /\ launched' = launched /\ faults' = faults
  BY Zenon DEF RecoverTask
<1>2. /\ clock' \in 0 .. MaxTime /\ sweep' \in SweepState /\ recovery \in RecoveryState
      /\ launched' \in [OfferIds -> Nat] /\ faults' \in 0 .. MaxFaults
      /\ handler' \in [Messages -> HandlerState]
      /\ task' \in [ExecutionIds -> {"none", "running", "exited"}]
  BY <1>1, Zenon DEF IndInv, TypeOK
<1>3. entry' \in [ExecutionIds -> {"none", "active", "done", "failed"}]
  BY Zenon DEF IndInv, TypeOK, RecoverTask
<1>4. /\ recovery' \in RecoveryState /\ recovery'.execution = e
      /\ recovery'.todo = recovery.todo
  BY <1>1, <1>2, Zenon DEF RecoveryState
<1>5. RecoveryOK /\ recovery # NotRecovering
  BY <1>1 DEF IndInv, NotRecovering
<1>6. RecoveryOK'
  BY <1>1, <1>4, <1>5, Zenon DEF RecoveryOK
<1> QED
  BY <1>1, <1>2, <1>3, <1>4, <1>6, OutsideStep, Zenon

\* What Recover makes of an execution: RUNNING, ended, or left as it is.
LEMMA RecoveredGood ==
    ASSUME Counting, NEW s, GoodMemory(s), clock \in Nat, NEW e \in DOMAIN s.executions,
           NEW at \in {"stopped", "missing", "attached"}
    PROVE  Recovered(s, e, at) = s \/ Keeps(s, Recovered(s, e, at))
<1> DEFINE x == s.executions[e]
           f(phase, expired) == Finish(s, e, phase, expired)
           r == SetPhase(s, e, "running", x.leaseExpired)
<1>1. x.leaseExpired \in BOOLEAN
  BY Zenon DEF GoodMemory, IsMemory, IsMap, Execution
<1>2. ASSUME NEW phase \in {"failed", "cancelled"}, NEW expired \in BOOLEAN
      PROVE  Keeps(s, f(phase, expired))
  <2>1. phase \in TerminalPhases
    BY Zenon DEF TerminalPhases
  <2> QED
    BY <2>1, FinishGood, Zenon
<1>3. x.phase = "starting" => Keeps(s, r)
  <2>1. ~Terminal("starting") /\ ~Terminal("running") /\ "running" \in Phases
    BY Zenon DEF Terminal, TerminalPhases, Phases
  <2> QED
    BY <1>1, <2>1, SetPhaseGood, Zenon
<1>4. \/ Recovered(s, e, at) = s
      \/ x.phase = "starting" /\ Recovered(s, e, at) = r
      \/ \E phase \in {"failed", "cancelled"}, expired \in BOOLEAN :
            Recovered(s, e, at) = f(phase, expired)
  <2> HIDE DEF f, r
  <2>1. CASE at = "attached"
    <3>1. CASE x.phase = "starting"
      BY <2>1, <3>1, Zenon DEF Recovered, r
    <3>2. CASE x.phase # "starting"
      BY <2>1, <3>2, Zenon DEF Recovered
    <3> QED
      BY <3>1, <3>2, Zenon
  <2>2. CASE at = "missing"
    BY <2>2, Zenon DEF Recovered, f
  <2>3. CASE at = "stopped" /\ x.phase = "cancelling" /\ ~x.leaseExpired
    BY <2>3, Zenon DEF Recovered, f
  <2>4. CASE at = "stopped" /\ ~(x.phase = "cancelling" /\ ~x.leaseExpired)
    BY <2>4, Zenon DEF Recovered, f
  <2> QED
    BY <2>1, <2>2, <2>3, <2>4, Zenon
<1> HIDE DEF f, r
<1> QED
  BY <1>1, <1>2, <1>3, <1>4, Zenon

\* Recover records what it found of an execution.
LEMMA RecoverCompleteGood ==
    ASSUME Counting, IndInv, RecoverComplete
    PROVE  IndInv'
<1> DEFINE e == recovery.execution
           n == Recovered(mem, e, recovery.at)
<1>1. /\ recovery.at # "next" /\ Saved(n)
      /\ recovery' = [NotRecovering EXCEPT !.todo = recovery.todo \ {e}]
      /\ sweep' = sweep /\ task' = task /\ entry' = entry
      /\ UNCHANGED <<clock, mode, issued, checked, handler, launched, applied>>
  BY Zenon DEF RecoverComplete
<1>2. /\ RecoveryOK /\ recovery \in RecoveryState /\ sweep' \in SweepState
      /\ GoodMemory(mem) /\ clock \in Nat
      /\ task' \in [ExecutionIds -> {"none", "running", "exited"}]
      /\ entry' \in [ExecutionIds -> {"none", "active", "done", "failed"}]
  BY <1>1, Bounds, Zenon DEF IndInv, TypeOK
<1>3. /\ e \in DOMAIN mem.executions /\ mode = "recovering"
      /\ recovery.at \in {"stopped", "missing", "attached"}
  BY <1>1, <1>2 DEF RecoveryOK, NotRecovering, RecoveryState
<1>4. n = mem \/ Keeps(mem, n)
  BY <1>2, <1>3, RecoveredGood, Zenon
<1> HIDE DEF n
<1>5. /\ GoodMemory(n) /\ Safe(mem, n, {}) /\ DOMAIN n.offers = DOMAIN mem.offers
  BY <1>2, <1>4, KeepsSafe, SameSafe, Zenon
<1>6. Changed(n) /\ mem' = n
  BY <1>1, <1>5, ChangedGood, Zenon DEF Changed
<1>7. /\ recovery' \in RecoveryState /\ recovery'.at = "next"
      /\ recovery'.todo \subseteq recovery.todo
  BY <1>1, <1>2, Zenon DEF RecoveryState, NotRecovering
<1>8. RecoveryOK'
  BY <1>1, <1>2, <1>3, <1>5, <1>6, <1>7, Zenon DEF RecoveryOK, Safe
<1> QED
  BY <1>1, <1>2, <1>5, <1>6, <1>7, <1>8, BackgroundStep, Zenon

\* The daemon serves once Recover has visited every execution.
LEMMA ServeGood ==
    ASSUME IndInv, Serve
    PROVE  IndInv'
<1>1. /\ mode = "recovering" /\ mode' = "up" /\ recovery = NotRecovering
      /\ UNCHANGED <<clock, mem, disk, issued, checked, handler, sweep, recovery, task, entry,
                     faults, launched, final, applied>>
  BY Zenon DEF Serve
<1>2. TypeOK'
  BY <1>1, Zenon DEF IndInv, TypeOK
<1>3. /\ \A m \in Messages : HandlerOK(m)'
      /\ SweepOK' /\ RecoveryOK'
  BY <1>1, Zenon DEF IndInv, HandlerOK, SweepOK, RecoveryOK
<1> QED
  BY <1>1, <1>2, <1>3, Zenon DEF IndInv

\* New starts with an empty memory and an empty snapshot.
LEMMA InitGood ==
    ASSUME Counting, Init
    PROVE  IndInv
<1>1. /\ GoodMemory(Empty) /\ DOMAIN Empty.offers = {}
  BY EmptyGood, Zenon
<1>2. GoodSnapshot(Snapshot(Empty)) /\ DOMAIN Snapshot(Empty).offers = {}
  BY <1>1, SnapshotGood, Zenon
<1>3. IsMemory(mem) /\ IsSnapshot(disk) /\ DOMAIN mem.offers = {} /\ DOMAIN disk.offers = {}
  BY <1>1, <1>2, Zenon DEF Init, InitAt, GoodMemory, GoodSnapshot
<1>4. /\ Idle \in HandlerState /\ Idle.at = "idle" /\ NotRecovering \in RecoveryState
      /\ NotRecovering.todo = {} /\ NotRecovering.at = "next"
  BY Zenon DEF HandlerState, Idle, NoPhase, Was, HandlerPlaces, RecoveryState, NotRecovering
<1>5. SweepIdle \in SweepState /\ SweepIdle.at = "idle" /\ SweepIdle.todo = {}
  BY SweepIdleTyped, Zenon
<1>6. TypeOK
  <2>1. handler \in [Messages -> HandlerState]
    BY <1>4, Zenon DEF Init, InitAt
  <2>2. /\ clock \in 0 .. MaxTime /\ issued \in 0 .. MaxOffers /\ faults \in 0 .. MaxFaults
    BY ConstantsAssumption DEF Init, InitAt
  <2>3. /\ launched \in [OfferIds -> Nat] /\ applied \in [Messages -> Nat]
        /\ task \in [ExecutionIds -> {"none", "running", "exited"}]
        /\ entry \in [ExecutionIds -> {"none", "active", "done", "failed"}]
        /\ final \in [ExecutionIds -> {"none"} \cup TerminalPhases]
    BY Zenon DEF Init, InitAt
  <2>4. /\ sweep \in SweepState /\ recovery \in RecoveryState /\ checked \in SUBSET Messages
        /\ mode \in {"down", "recovering", "up"}
    BY <1>4, <1>5, Zenon DEF Init, InitAt
  <2> QED
    BY <1>3, <2>1, <2>2, <2>3, <2>4, Zenon DEF TypeOK
<1>7. /\ \A m \in Messages : HandlerOK(m)
      /\ SweepOK /\ RecoveryOK
  BY <1>4, <1>5, Zenon DEF Init, InitAt, HandlerOK, SweepOK, RecoveryOK, Assigning, Stopping
<1>8. GoodMemory(mem) /\ GoodSnapshot(disk) /\ checked = {}
  BY <1>1, <1>2, Zenon DEF Init, InitAt
<1> QED
  BY <1>3, <1>6, <1>7, <1>8, Zenon DEF IndInv

\* Every step of every goroutine, of the runtime and of the clock preserves the
\* invariant.
LEMMA NextGood ==
    ASSUME Counting, IndInv, [Next]_vars
    PROVE  IndInv'
<1>1. ASSUME NEW m \in Messages, CheckFreshness(m) \/ BeginReplay(m) \/ Serving(m)
      PROVE  IndInv'
  BY <1>1, CheckFreshnessGood, BeginReplayGood, HandleRequestGood, HandleAssignGood,
     AssignCompleteGood, HandleCancelGood, CancelCompleteGood, HandleLeaseRenewGood,
     HandleOfferReleaseGood, HandleInspectGood, RuntimeStartGood, RuntimeStopGood, FinishReplayGood, Zenon
     DEF Serving
<1>2. ASSUME NEW e \in ExecutionIds,
             TaskExit(e) \/ \E phase \in {"completed", "failed"} : RuntimeCompleted(e, phase)
      PROVE  IndInv'
  BY <1>2, TaskExitGood, RuntimeCompletedGood, Zenon
<1>3. CASE Sweeping
  BY <1>3, BeginEvictionGood, EndEvictionsGood, SweepStopGood, CompleteEvictionGood, CollectGood,
     CleanupGood, Zenon DEF Sweeping
<1>4. CASE Recovering
  BY <1>4, RestartGood, RecoverStopGood, RecoverTaskGood, RecoverCompleteGood, ServeGood, Zenon
     DEF Recovering
<1>5. CASE Crash \/ Tick \/ SetClockBack
  BY <1>5, CrashGood, TimeGood, Zenon
<1>6. CASE UNCHANGED vars
  BY <1>6, Zenon, Z3T(30) DEF vars, IndInv, TypeOK, HandlerOK, SweepOK, RecoveryOK
<1> QED
  BY <1>1, <1>2, <1>3, <1>4, <1>5, <1>6, Zenon DEF Next
=============================================================================
