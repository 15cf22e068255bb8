------------------------ MODULE AllocatorGuarantees -------------------------
(***************************************************************************)
(* Every step keeps the full invariant: budgets and quotas are kept, an    *)
(* execution is launched once and stopped by one goroutine.                *)
(***************************************************************************)
EXTENDS AllocatorLemmas

USE DEF OfferIds, TerminalPhases, Terminal, Statuses

-----------------------------------------------------------------------------
(* The full invariant.                                                     *)

\* Every execution that a step keeps follows from what it was.
Orderly ==
    \A e \in DOMAIN mem.executions \cap DOMAIN mem'.executions :
        Succeeds(mem.executions[e], mem'.executions[e])

\* No goroutine begins to stop a workload, and none still stops one of R.
Quiet(R) ==
    /\ \A m \in Messages :
        /\ handler'[m].at \in Stopping => handler[m].at \in Stopping /\ m.execution \notin R
        /\ ~handler'[m].was.leaseExpired
    /\ sweep'.at \in Stopping =>
            /\ sweep.at \in Stopping
            /\ sweep'.execution = sweep.execution /\ sweep.execution \notin R
    /\ ~sweep'.was.leaseExpired

\* Nor does one begin to start a workload.
Restful(R) ==
    /\ Quiet(R)
    /\ \A m \in Messages : handler'[m].at = "starting" => handler[m].at = "starting"

\* A saved memory, or the snapshot there was.
Persisted == disk' = disk \/ disk' = Snapshot(mem')

-----------------------------------------------------------------------------
(* What keeps each part of FullInv.                                        *)

\* The records.
LEMMA RecordsStep ==
    ASSUME Counting, FullInv, IndInv', NEW R, Follows(mem, mem', R), Persisted, launched' = launched
    PROVE  Sound(mem, launched)' /\ Sound(disk, launched)' /\ Orderly
<1>1. /\ GoodMemory(mem) /\ GoodMemory(mem')
      /\ Sound(mem, launched) /\ Sound(disk, launched)
  BY Zenon DEF FullInv, IndInv
<1>2. Sound(mem', launched)
  BY <1>1, GoodBounded, SoundKept, Zenon
<1>3. Sound(disk', launched)
  BY <1>1, <1>2, SnapshotSound, Zenon DEF Persisted
<1>4. Orderly
  BY Zenon DEF Follows, ExecutionsFollow, Orderly
<1> QED
  BY <1>2, <1>3, <1>4, Zenon

\* The goroutines that stop a workload.
LEMMA StopperStep ==
    ASSUME FullInv, IndInv', NEW R, ExecutionsFollow(mem.executions, mem'.executions, R), Quiet(R)
    PROVE  SoleStopper' /\ Remembered'
<1> DEFINE X == mem.executions
           Y == mem'.executions
<1>1. /\ \A m \in Messages : handler[m].at \in Stopping => m.execution \in DOMAIN X
      /\ \A m \in Messages : handler'[m].at \in Stopping => m.execution \in DOMAIN Y
      /\ sweep.at \in Stopping => sweep.execution \in DOMAIN X
      /\ sweep'.at \in Stopping => sweep'.execution \in DOMAIN Y
  BY Zenon DEF FullInv, IndInv, HandlerOK, SweepOK
<1>2. SoleStopper
  BY Zenon DEF FullInv
<1>3. \A e \in DOMAIN X \cap DOMAIN Y : e \notin R /\ ~Live(X[e].phase) => ~Live(Y[e].phase)
  BY Zenon DEF ExecutionsFollow
<1>4. /\ \A m \in Messages : handler'[m].at \in Stopping =>
            /\ handler[m].at \in Stopping /\ m.execution \notin R
            /\ m.execution \in DOMAIN X \cap DOMAIN Y
      /\ sweep'.at \in Stopping =>
            /\ sweep.at \in Stopping /\ sweep'.execution = sweep.execution
            /\ sweep.execution \notin R /\ sweep.execution \in DOMAIN X \cap DOMAIN Y
  BY <1>1, Zenon DEF Quiet
<1> HIDE DEF X, Y
<1>5. /\ \A m \in Messages : handler'[m].at \in Stopping =>
            /\ ~Live(Y[m.execution].phase)
            /\ ~ (sweep'.at \in Stopping /\ sweep'.execution = m.execution)
      /\ sweep'.at \in Stopping => ~Live(Y[sweep'.execution].phase)
  BY <1>2, <1>3, <1>4, Zenon DEF SoleStopper, X
<1>6. \A m, k \in Messages :
        /\ handler'[m].at \in Stopping /\ handler'[k].at \in Stopping
        /\ m.execution = k.execution
        => m = k
  BY <1>2, <1>4, Zenon DEF SoleStopper
<1>7. SoleStopper'
  BY <1>5, <1>6, Zenon DEF SoleStopper, Y
<1> QED
  BY <1>7, Zenon DEF Quiet, Remembered

\* A handler about to start a workload has an offer that is assigned.
LEMMA StartingAssigned ==
    IndInv => \A m \in Messages : handler[m].at = "starting" =>
        /\ m.offer \in DOMAIN mem.offers /\ mem.offers[m.offer].status = "assigned"
        /\ m.offer \in OfferIds
<1> SUFFICES ASSUME IndInv, NEW m \in Messages, handler[m].at = "starting"
             PROVE  /\ m.offer \in DOMAIN mem.offers /\ mem.offers[m.offer].status = "assigned"
                    /\ m.offer \in OfferIds
  OBVIOUS
<1>1. HandlerOK(m) /\ Linked(mem.offers, mem.executions) /\ DOMAIN mem.offers \subseteq OfferIds
  BY Zenon DEF IndInv, GoodMemory, IsMemory, IsMap
<1>2. m.execution \in DOMAIN mem.executions /\ mem.executions[m.execution].offer = m.offer
  BY <1>1, Zenon DEF HandlerOK, Assigning
<1> QED
  BY <1>1, <1>2 DEF Linked

LEMMA StartingStaysAssigned ==
    IndInv' => \A m \in Messages : handler'[m].at = "starting" =>
        mem'.offers[m.offer].status = "assigned"
<1>1. (IndInv => \A m \in Messages : handler[m].at = "starting" =>
        /\ m.offer \in DOMAIN mem.offers /\ mem.offers[m.offer].status = "assigned"
        /\ m.offer \in OfferIds)'
  BY StartingAssigned, PTL
<1> QED
  BY <1>1, Zenon

\* The starts.
LEMMA LaunchStep ==
    ASSUME FullInv, IndInv', Persisted, launched' = launched,
           \A o \in OfferIds : o > issued' => o > issued,
           \A m \in Messages : handler'[m].at = "starting" => handler[m].at = "starting"
    PROVE  Launching' /\ LaunchedOnce'
<1>1. Launching /\ LaunchedOnce
  BY Zenon DEF FullInv
<1>0. \A m \in Messages : handler'[m].at = "starting" =>
        mem'.offers[m.offer].status = "assigned"
  BY StartingStaysAssigned, Zenon
<1>2. ASSUME NEW m \in Messages, handler'[m].at = "starting"
      PROVE  /\ launched'[m.offer] = 0
             /\ m.offer \in DOMAIN disk'.offers => disk'.offers[m.offer].status # "outstanding"
  <2>1. mem'.offers[m.offer].status = "assigned"
    BY <1>0, <1>2, Zenon
  <2>2. Snapshot(mem').offers = mem'.offers
    BY Zenon DEF Snapshot
  <2>3. /\ launched[m.offer] = 0
        /\ m.offer \in DOMAIN disk.offers => disk.offers[m.offer].status # "outstanding"
    BY <1>1, <1>2, Zenon DEF Launching
  <2> QED
    BY <2>1, <2>2, <2>3, Zenon DEF Persisted
<1>3. \A m, k \in Messages :
        handler'[m].at = "starting" /\ handler'[k].at = "starting" /\ m.offer = k.offer => m = k
  BY <1>1, Zenon DEF Launching
<1>4. \A o \in OfferIds : o > issued' => launched'[o] = 0
  BY <1>1, Zenon DEF Launching
<1> QED
  BY <1>1, <1>2, <1>3, <1>4, Zenon DEF Launching, LaunchedOnce

\* The clock, when it does not move.
LEMMA TimelyStep ==
    ASSUME FullInv, clock' = clock, Persisted,
           mem'.highWater = mem.highWater \/ mem'.highWater = clock,
           recovery'.at = "stopped" =>
                /\ recovery' = recovery
                /\ \/ mem'.executions[recovery.execution] = mem.executions[recovery.execution]
                   \/ Terminal(mem'.executions[recovery.execution].phase)
    PROVE  Timely'
<1> SUFFICES ASSUME ~ClockRegresses
             PROVE  /\ mem'.highWater <= clock' /\ disk'.highWater <= clock'
                    /\ recovery'.at = "stopped" =>
                        LET x == mem'.executions[recovery'.execution]
                        IN  x.phase = "cancelling" \/ Terminal(x.phase) \/ x.leaseUntil <= clock'
  BY Zenon DEF Timely
<1>1. /\ clock <= clock /\ mem.highWater <= clock /\ disk.highWater <= clock
  <2>1. clock \in Nat
    BY ConstantsAssumption DEF FullInv, IndInv, TypeOK
  <2>2. mem.highWater <= clock /\ disk.highWater <= clock
    BY Zenon DEF FullInv, Timely
  <2> QED
    BY <2>1, <2>2
<1>2. recovery.at = "stopped" =>
        LET x == mem.executions[recovery.execution]
        IN  x.phase = "cancelling" \/ Terminal(x.phase) \/ x.leaseUntil <= clock
  BY Zenon DEF FullInv, Timely
<1>3. Snapshot(mem').highWater = mem'.highWater
  BY Zenon DEF Snapshot
<1> QED
  BY <1>1, <1>2, <1>3, Zenon DEF Persisted

\* A step that makes no record and begins no runtime call.
Ordinary(R) ==
    /\ Follows(mem, mem', R) /\ Persisted /\ Restful(R)
    /\ UNCHANGED <<clock, mode, issued, launched>>
    /\ mode # "down" \/ mem' = mem
    /\ recovery'.at = "stopped" =>
            /\ recovery' = recovery
            /\ \/ mem'.executions[recovery.execution] = mem.executions[recovery.execution]
               \/ Terminal(mem'.executions[recovery.execution].phase)

LEMMA OrdinaryStep ==
    ASSUME Counting, FullInv, IndInv', NEW R, Ordinary(R)
    PROVE  FullInv' /\ Orderly
<1>1. /\ Follows(mem, mem', R) /\ Persisted /\ Quiet(R)
      /\ clock' = clock /\ mode' = mode /\ issued' = issued /\ launched' = launched
      /\ mode = "down" => mem' = mem
      /\ mem'.highWater = mem.highWater \/ mem'.highWater = clock
      /\ ExecutionsFollow(mem.executions, mem'.executions, R)
      /\ \A m \in Messages : handler'[m].at = "starting" => handler[m].at = "starting"
  BY Zenon DEF Ordinary, Follows, Restful
<1>2. Sound(mem, launched)' /\ Sound(disk, launched)' /\ Orderly
  BY <1>1, RecordsStep, Zenon
<1>3. SoleStopper' /\ Remembered'
  BY <1>1, StopperStep, Zenon
<1>4. Launching' /\ LaunchedOnce'
  BY <1>1, LaunchStep, Zenon
<1>5. Timely'
  BY <1>1, TimelyStep, Zenon DEF Ordinary
<1>6. mode' = "down" => mem' = Empty
  BY <1>1, Zenon DEF FullInv
<1> QED
  BY <1>2, <1>3, <1>4, <1>5, <1>6, Zenon DEF FullInv

\* While the daemon is up it does not recover.
LEMMA UpStep ==
    ASSUME Counting,
           FullInv, IndInv', mode = "up", NEW n, Changed(n), NEW R, Follows(mem, n, R), Restful(R),
           UNCHANGED <<clock, mode, issued, recovery, launched>>
    PROVE  FullInv' /\ Orderly
<1>1. mem' = n /\ Persisted
  BY Zenon DEF Changed, Saved, SaveFails, Unsaved, Becomes, Persisted
<1>2. recovery'.at # "stopped"
  <2>1. recovery' = NotRecovering
    BY Zenon DEF FullInv, IndInv, RecoveryOK
  <2> QED
    BY <2>1 DEF NotRecovering
<1>3. Ordinary(R)
  BY <1>1, <1>2, Zenon DEF Ordinary
<1> QED
  BY <1>3, OrdinaryStep, Zenon

\* Only the handler of m moves, to a place where it stops nothing.
LEMMA GotoQuiet ==
    ASSUME FullInv, NEW m \in Messages, NEW at, at \notin Stopping,
           Goto(m, at), sweep' = sweep,
           NEW R, R = {} \/ (R = {m.execution} /\ handler[m].at \in Stopping)
    PROVE  /\ Quiet(R) /\ handler'[m].at = at
           /\ \A k \in Messages : k # m => handler'[k] = handler[k]
<1>1. handler \in [Messages -> HandlerState]
  BY Zenon DEF FullInv, IndInv, TypeOK
<1>2. [Idle EXCEPT !.at = at].at = at /\ ~[Idle EXCEPT !.at = at].was.leaseExpired
  BY Zenon DEF Idle, NoPhase
<1>3. /\ handler'[m].at = at /\ ~handler'[m].was.leaseExpired
      /\ \A k \in Messages : k # m => handler'[k] = handler[k]
  BY <1>1, <1>2, Zenon DEF Goto
<1>4. SoleStopper /\ Remembered
  BY Zenon DEF FullInv
<1>5. \A k \in Messages : handler'[k].at \in Stopping =>
        handler[k].at \in Stopping /\ m # k /\ k.execution \notin R
  BY <1>3, <1>4, Zenon DEF SoleStopper
<1>6. sweep.at \in Stopping => sweep.execution \notin R
  BY <1>4, Zenon DEF SoleStopper
<1>7. \A k \in Messages : ~handler'[k].was.leaseExpired
  BY <1>3, <1>4, Zenon DEF Remembered
<1> QED
  BY <1>3, <1>4, <1>5, <1>6, <1>7, Zenon DEF Quiet, Remembered

LEMMA GotoRestful ==
    ASSUME FullInv, NEW m \in Messages, NEW at, at \notin Stopping, at # "starting",
           Goto(m, at), sweep' = sweep,
           NEW R, R = {} \/ (R = {m.execution} /\ handler[m].at \in Stopping)
    PROVE  Restful(R)
<1>1. /\ Quiet(R) /\ handler'[m].at = at
      /\ \A k \in Messages : k # m => handler'[k] = handler[k]
  BY GotoQuiet, Zenon
<1> QED
  BY <1>1, Zenon DEF Restful

\* Only Sweep moves, to a place where it calls nothing.
LEMMA SweepRestful ==
    ASSUME FullInv, handler' = handler,
           sweep' = sweep \/ (sweep'.at \notin Stopping /\ ~sweep'.was.leaseExpired),
           NEW R, R = {} \/ (R = {sweep.execution} /\ sweep.at \in Stopping /\ sweep'.at \notin Stopping)
    PROVE  Restful(R)
<1>1. SoleStopper /\ Remembered
  BY Zenon DEF FullInv
<1> QED
  BY <1>1, Zenon DEF Restful, Quiet, SoleStopper, Remembered

-----------------------------------------------------------------------------
(* The handlers.                                                           *)

LEMMA FullBounds ==
    ASSUME FullInv
    PROVE  /\ IndInv /\ GoodMemory(mem) /\ clock \in Nat /\ \A m \in Messages : HandlerOK(m)
           /\ Sound(mem, launched) /\ Follows(mem, mem, {})
<1>1. IndInv /\ Sound(mem, launched)
  BY Zenon DEF FullInv
<1>2. GoodMemory(mem) /\ clock \in Nat /\ \A m \in Messages : HandlerOK(m)
  BY <1>1, Bounds, Zenon
<1>3. Follows(mem, mem, {})
  BY <1>2, GoodBounded, SameFollows, Zenon
<1> QED
  BY <1>1, <1>2, <1>3, Zenon

\* A handler that has done its work.
LEMMA AppliedFull ==
    ASSUME Counting,
           FullInv, IndInv', NEW m \in Messages, handler[m].at # "idle", Goto(m, "applied"),
           NEW n, Changed(n), NEW R, Follows(mem, n, R),
           R = {} \/ (R = {m.execution} /\ handler[m].at \in Stopping),
           UNCHANGED <<clock, mode, issued, sweep, recovery, launched>>
    PROVE  FullInv' /\ Orderly
<1>1. mode = "up"
  BY FullBounds, Zenon DEF HandlerOK
<1>2. "applied" \notin Stopping /\ "applied" # "starting"
  BY Zenon DEF Stopping
<1>3. Restful(R)
  BY <1>2, GotoRestful, Zenon
<1> QED
  BY <1>1, <1>3, UpStep, Zenon

LEMMA CheckFreshnessFull ==
    ASSUME Counting, FullInv, IndInv', NEW m \in Messages, CheckFreshness(m)
    PROVE  FullInv' /\ Orderly
<1> DEFINE n == AdvanceHighWater(mem)
<1>1. /\ mode = "up" /\ Changed(n) /\ handler' = handler /\ sweep' = sweep
      /\ UNCHANGED <<clock, mode, issued, recovery, launched>>
  BY Zenon DEF CheckFreshness, Changed
<1>2. Follows(mem, n, {})
  BY FullBounds, AdvanceFollows, Zenon
<1>3. Restful({})
  BY <1>1, SweepRestful, Zenon
<1> HIDE DEF n
<1> QED
  BY <1>1, <1>2, <1>3, UpStep, Zenon

LEMMA BeginReplayFull ==
    ASSUME Counting, FullInv, IndInv', NEW m \in Messages, BeginReplay(m)
    PROVE  FullInv' /\ Orderly
<1> DEFINE x == ExpireOffers(mem, clock)
           s == Prune(x, clock)
           r(X) == [s EXCEPT !.entries = Drop(s.entries, X)]
           new == [seenAt |-> clock, done |-> FALSE]
           b(X) == [r(X) EXCEPT !.entries = Put(r(X).entries, m, new)]
<1>1. /\ sweep' = sweep /\ UNCHANGED <<clock, mode, issued, recovery, launched>>
      /\ \/ Changed(s) /\ handler' = handler
         \/ \E X : \/ Changed(r(X)) /\ handler' = handler
                   \/ Changed(b(X)) /\ Goto(m, "begun")
  BY Zenon DEF BeginReplay, Changed
<1>2. mode = "up"
  BY FullBounds, Zenon DEF BeginReplay, IndInv
<1>3. GoodMemory(x) /\ Follows(mem, x, {}) /\ x.executions = mem.executions
  BY FullBounds, ExpireGood, ExpireFollows, Zenon
<1>4. GoodMemory(s) /\ Follows(x, s, {}) /\ s.executions = x.executions
  BY <1>3, FullBounds, PruneGood, PruneFollows, Zenon
<1> HIDE DEF x, s
<1>5. \A X : /\ r(X).offers = s.offers /\ r(X).executions = s.executions
             /\ r(X).tombstones = s.tombstones /\ r(X).highWater = s.highWater
             /\ b(X).offers = s.offers /\ b(X).executions = s.executions
             /\ b(X).tombstones = s.tombstones /\ b(X).highWater = s.highWater
  BY <1>4, Zenon DEF GoodMemory, IsMemory, IsRecord
<1>6. Follows(mem, s, {})
  BY <1>3, <1>4, FollowsAfter, Zenon
<1> HIDE DEF r, b
<1>7. \A X : Follows(mem, r(X), {}) /\ Follows(mem, b(X), {})
  <2>1. Bounded(s)
    BY <1>4, GoodBounded, Zenon
  <2>2. \A X : Follows(s, r(X), {}) /\ Follows(s, b(X), {})
    BY <1>5, <2>1, SameFollows, Zenon
  <2>3. s.executions = mem.executions
    BY <1>3, <1>4, Zenon
  <2> QED
    BY <1>6, <2>2, <2>3, FollowsAfter, Zenon
<1>8. handler' = handler \/ Goto(m, "begun") => Restful({})
  <2>1. "begun" \notin Stopping /\ "begun" # "starting"
    BY Zenon DEF Stopping
  <2> QED
    BY <1>1, <2>1, SweepRestful, GotoRestful, Zenon
<1> QED
  BY <1>1, <1>2, <1>6, <1>7, <1>8, UpStep, Zenon

LEMMA FinishReplayFull ==
    ASSUME Counting, FullInv, IndInv', NEW m \in Messages, FinishReplay(m)
    PROVE  FullInv' /\ Orderly
<1> DEFINE s == [mem EXCEPT !.entries[m].done = TRUE]
           n(X) == [s EXCEPT !.entries = Drop(s.entries, X)]
<1>1. PICK X : Changed(n(X))
  BY Zenon DEF FinishReplay, SavedOrNot, Changed
<1>2. /\ Goto(m, "idle") /\ sweep' = sweep /\ UNCHANGED <<clock, mode, issued, recovery, launched>>
      /\ handler[m].at # "idle"
  BY Zenon DEF FinishReplay
<1>3. mode = "up" /\ GoodMemory(mem) /\ Bounded(mem)
  BY <1>2, FullBounds, GoodBounded, Zenon DEF HandlerOK
<1>4. /\ n(X).offers = mem.offers /\ n(X).executions = mem.executions
      /\ n(X).tombstones = mem.tombstones /\ n(X).highWater = mem.highWater
  BY <1>3, Zenon DEF GoodMemory, IsMemory, IsRecord
<1> HIDE DEF n
<1>5. Follows(mem, n(X), {})
  BY <1>3, <1>4, SameFollows, Zenon
<1>6. "idle" \notin Stopping /\ "idle" # "starting"
  BY Zenon DEF Stopping
<1>7. Restful({})
  BY <1>2, <1>6, GotoRestful, Zenon
<1> QED
  BY <1>1, <1>2, <1>3, <1>5, <1>7, UpStep, Zenon

\* A step that makes a record or begins a runtime call.
LEMMA MadeStep ==
    ASSUME Counting, FullInv, IndInv', mode = "up", NEW n, Changed(n), Sound(n, launched),
           NEW R, ExecutionsFollow(mem.executions, n.executions, R),
           n.highWater = mem.highWater \/ n.highWater = clock,
           SoleStopper', Remembered', Launching',
           UNCHANGED <<clock, mode, recovery, launched>>
    PROVE  FullInv' /\ Orderly
<1>1. mem' = n /\ Persisted
  BY Zenon DEF Changed, Saved, SaveFails, Unsaved, Becomes, Persisted
<1>2. recovery'.at # "stopped"
  <2>1. recovery' = NotRecovering
    BY Zenon DEF FullInv, IndInv, RecoveryOK
  <2> QED
    BY <2>1 DEF NotRecovering
<1>3. Timely'
  BY <1>1, <1>2, TimelyStep, Zenon
<1>4. Sound(mem', launched') /\ Sound(disk', launched')
  <2>1. GoodMemory(mem') /\ Sound(disk, launched)
    BY Zenon DEF FullInv, IndInv
  <2> QED
    BY <1>1, <2>1, SnapshotSound, Zenon DEF Persisted
<1>5. Orderly
  BY <1>1, Zenon DEF ExecutionsFollow, Orderly
<1>6. LaunchedOnce' /\ mode' # "down"
  BY Zenon DEF FullInv, LaunchedOnce
<1> QED
  BY <1>3, <1>4, <1>5, <1>6, Zenon DEF FullInv

\* ExpireOffers as the handlers use it.
LEMMA ExpiredFull ==
    ASSUME Counting, FullInv
    PROVE  LET s == ExpireOffers(mem, clock) IN
           /\ GoodMemory(s) /\ Sound(s, launched) /\ Follows(mem, s, {})
           /\ s.executions = mem.executions /\ DOMAIN s.offers \subseteq DOMAIN mem.offers
           /\ s.highWater = mem.highWater \/ s.highWater = clock
           /\ \A o \in DOMAIN s.offers :
                s.offers[o].status = "outstanding" => s.offers[o] = mem.offers[o]
<1> DEFINE s == ExpireOffers(mem, clock)
<1>1. GoodMemory(s) /\ Follows(mem, s, {}) /\ s.executions = mem.executions
  BY FullBounds, ExpireGood, ExpireFollows, Zenon
<1>2. Sound(s, launched)
  BY <1>1, FullBounds, GoodBounded, SoundKept, Zenon
<1> HIDE DEF s
<1>3. /\ DOMAIN s.offers \subseteq DOMAIN mem.offers
      /\ s.highWater = mem.highWater \/ s.highWater = clock
      /\ \A o \in DOMAIN s.offers :
            s.offers[o].status = "outstanding" => s.offers[o] = mem.offers[o]
  BY <1>1, Zenon DEF Follows
<1> QED
  BY <1>1, <1>2, <1>3, Zenon DEF s

LEMMA HandleRequestFull ==
    ASSUME Counting, FullInv, IndInv', NEW m \in Messages, HandleRequest(m)
    PROVE  FullInv' /\ Orderly
<1> DEFINE s == ExpireOffers(mem, clock)
           o == issued + 1
           n == MakeOffer(s, m, o)
<1>1. /\ handler[m].at = "begun" /\ Goto(m, "applied")
      /\ UNCHANGED <<clock, mode, sweep, recovery, launched>>
      /\ \/ Changed(s) /\ issued' = issued
         \/ Saved(n) /\ Offerable(s, m) /\ issued < MaxOffers /\ issued' = o
  BY Zenon DEF HandleRequest, Begun, Changed
<1>2. /\ GoodMemory(s) /\ Sound(s, launched) /\ Follows(mem, s, {})
      /\ s.executions = mem.executions /\ DOMAIN s.offers \subseteq DOMAIN mem.offers
      /\ s.highWater = mem.highWater \/ s.highWater = clock
  BY ExpiredFull, Zenon
<1>3. mode = "up" /\ handler[m].at # "idle"
  BY <1>1, FullBounds, Zenon DEF HandlerOK
<1> HIDE DEF s
<1>4. CASE Changed(s) /\ issued' = issued
  BY <1>1, <1>2, <1>3, <1>4, AppliedFull, Zenon
<1>5. CASE Saved(n) /\ Offerable(s, m) /\ issued < MaxOffers /\ issued' = o
  <2>1. /\ o \in OfferIds /\ o \notin DOMAIN s.offers /\ o > issued
        /\ \A p \in OfferIds : p > issued' => p > issued
    <3>1. /\ issued \in 0 .. MaxOffers /\ MaxOffers \in Nat /\ issued < MaxOffers /\ issued' = o
          /\ DOMAIN s.offers \subseteq 1 .. issued
      BY <1>2, <1>5, Bounds, Zenon DEF FullInv
    <3> QED
      BY <3>1 DEF OfferIds
  <2>2. launched[o] = 0
    BY <2>1, Zenon DEF FullInv, Launching
  <2> HIDE DEF o
  <2>3. Sound(n, launched) /\ n.highWater = s.highWater /\ n.executions = s.executions
    BY <1>2, <1>5, <2>1, <2>2, MakeOfferSound, Zenon
  <2>4. Changed(n) /\ mem' = n /\ Persisted
    BY <1>5, Zenon DEF Changed, Saved, Becomes, Persisted
  <2> HIDE DEF n
  <2>5. ExecutionsFollow(mem.executions, n.executions, {})
    BY <1>2, <2>3, Zenon DEF Follows
  <2>6. Restful({})
    <3>1. "applied" \notin Stopping /\ "applied" # "starting"
      BY Zenon DEF Stopping
    <3> QED
      BY <1>1, <3>1, GotoRestful, Zenon
  <2>7. SoleStopper' /\ Remembered'
    BY <2>4, <2>5, <2>6, StopperStep, Zenon DEF Restful
  <2>8. Launching'
    BY <1>1, <2>1, <2>4, <2>6, LaunchStep, Zenon DEF Restful
  <2> QED
    BY <1>1, <1>2, <1>3, <2>3, <2>4, <2>5, <2>7, <2>8, MadeStep, Zenon
<1> QED
  BY <1>1, <1>4, <1>5, Zenon

\* The offer of a handler that has just made an execution was not launched, and
\* no other handler is about to start it.
LEMMA NewLaunch ==
    ASSUME FullInv, IndInv', NEW m \in Messages, disk' = Snapshot(mem'),
           m.offer \in DOMAIN mem.offers, mem.offers[m.offer].status = "outstanding",
           launched[m.offer] = 0, launched' = launched, issued' = issued,
           \A k \in Messages : k # m => handler'[k] = handler[k]
    PROVE  Launching'
<1>1. Launching /\ IndInv
  BY Zenon DEF FullInv
<1>2. \A k \in Messages : handler'[k].at = "starting" => mem'.offers[k.offer].status = "assigned"
  BY StartingStaysAssigned, Zenon
<1>3. \A k \in Messages : k # m /\ handler'[k].at = "starting" =>
        handler[k].at = "starting" /\ k.offer # m.offer
  BY <1>1, StartingAssigned, Zenon
<1>4. disk'.offers = mem'.offers
  BY Zenon DEF Snapshot
<1>5. \A k \in Messages : handler'[k].at = "starting" =>
        /\ launched'[k.offer] = 0
        /\ k.offer \in DOMAIN disk'.offers => disk'.offers[k.offer].status # "outstanding"
  BY <1>1, <1>2, <1>3, <1>4, Zenon DEF Launching
<1>6. \A k, l \in Messages :
        handler'[k].at = "starting" /\ handler'[l].at = "starting" /\ k.offer = l.offer => k = l
  BY <1>1, <1>3, Zenon DEF Launching
<1>7. \A o \in OfferIds : o > issued' => launched'[o] = 0
  BY <1>1, Zenon DEF Launching
<1> QED
  BY <1>5, <1>6, <1>7, Zenon DEF Launching

LEMMA HandleAssignFull ==
    ASSUME Counting, FullInv, IndInv', NEW m \in Messages, HandleAssign(m)
    PROVE  FullInv' /\ Orderly
<1> DEFINE s == ExpireOffers(mem, clock)
           n == MakeExecution(s, m)
<1>1. /\ handler[m].at = "begun"
      /\ UNCHANGED <<clock, mode, issued, sweep, recovery, launched>>
      /\ \/ Changed(s) /\ Goto(m, "applied")
         \/ Saved(n) /\ Assignable(s, m) /\ Goto(m, "starting")
  BY Zenon DEF HandleAssign, Begun, Changed
<1>2. /\ GoodMemory(s) /\ Sound(s, launched) /\ Follows(mem, s, {})
      /\ s.executions = mem.executions /\ DOMAIN s.offers \subseteq DOMAIN mem.offers
      /\ s.highWater = mem.highWater \/ s.highWater = clock
      /\ \A o \in DOMAIN s.offers :
            s.offers[o].status = "outstanding" => s.offers[o] = mem.offers[o]
  BY ExpiredFull, Zenon
<1>3. mode = "up" /\ handler[m].at # "idle"
  BY <1>1, FullBounds, Zenon DEF HandlerOK
<1> HIDE DEF s
<1>4. CASE Changed(s) /\ Goto(m, "applied")
  BY <1>1, <1>2, <1>3, <1>4, AppliedFull, Zenon
<1>5. CASE Saved(n) /\ Assignable(s, m) /\ Goto(m, "starting")
  <2>1. /\ Sound(n, launched) /\ n.highWater = s.highWater
        /\ ExecutionsFollow(mem.executions, n.executions, {})
    BY <1>2, <1>5, MakeExecutionSound, Zenon
  <2>2. Changed(n) /\ mem' = n /\ disk' = Snapshot(n)
    BY <1>5, Zenon DEF Changed, Saved, Becomes
  <2> HIDE DEF n
  <2>3. /\ m.offer \in DOMAIN mem.offers /\ mem.offers[m.offer].status = "outstanding"
        /\ launched[m.offer] = 0
    BY <1>2, <1>5, Zenon DEF Assignable, Sound, Unlaunched
  <2>4. Quiet({}) /\ \A k \in Messages : k # m => handler'[k] = handler[k]
    <3>1. "starting" \notin Stopping
      BY Zenon DEF Stopping
    <3> QED
      BY <1>1, <1>5, <3>1, GotoQuiet, Zenon
  <2>5. SoleStopper' /\ Remembered'
    BY <2>1, <2>2, <2>4, StopperStep, Zenon
  <2>6. Launching'
    BY <1>1, <2>2, <2>3, <2>4, NewLaunch, Zenon
  <2> QED
    BY <1>1, <1>2, <1>3, <2>1, <2>2, <2>5, <2>6, MadeStep, Zenon
<1> QED
  BY <1>1, <1>4, <1>5, Zenon

LEMMA AssignCompleteFull ==
    ASSUME Counting, FullInv, IndInv', NEW m \in Messages, AssignComplete(m)
    PROVE  FullInv' /\ Orderly
<1> DEFINE e == m.execution
           x == mem.executions[e]
           r == SetPhase(mem, e, "running", x.leaseExpired)
           f == Finish(mem, e, "failed", FALSE)
<1>1. /\ handler[m].at \in {"started", "startFailed"} /\ Goto(m, "applied")
      /\ UNCHANGED <<clock, mode, issued, sweep, recovery, launched>>
      /\ Changed(mem) \/ (x.phase = "starting" /\ (Changed(r) \/ Changed(f)))
  BY Zenon DEF AssignComplete, SavedOrNot, Changed
<1>2. /\ handler[m].at # "idle" /\ e \in DOMAIN mem.executions /\ x \in Execution
  <2>1. handler[m].at # "idle" /\ handler[m].at \in Assigning
    BY <1>1, Zenon DEF Assigning
  <2>2. e \in DOMAIN mem.executions
    BY <2>1, FullBounds, Zenon DEF HandlerOK
  <2> QED
    BY <2>1, <2>2, FullBounds, ExecutionOf, Zenon
<1>3. x.phase = "starting" => Follows(mem, r, {})
  <2>1. /\ ~Terminal("starting") /\ Live("starting") /\ "running" \in Phases
        /\ x.leaseExpired \in BOOLEAN
    BY <1>2, Zenon DEF Terminal, TerminalPhases, Live, Phases, Execution
  <2> QED
    BY <1>2, <2>1, FullBounds, SetPhaseFollows, Zenon
<1>4. Follows(mem, f, {})
  <2>1. "failed" \in TerminalPhases /\ FALSE \in BOOLEAN
    BY Zenon DEF TerminalPhases
  <2> QED
    BY <1>2, <2>1, FullBounds, FinishFollows, Zenon
<1> HIDE DEF r, f
<1> QED
  BY <1>1, <1>2, <1>3, <1>4, FullBounds, AppliedFull, Zenon

HIDE DEF OfferIds, TerminalPhases, Terminal, Statuses

-----------------------------------------------------------------------------
(* Cancellation.                                                           *)

\* Only the goroutine that begins to stop e moves.
CancelBegun(e) ==
    /\ sweep' = sweep
    /\ \E m \in Messages :
        /\ m.execution = e /\ ~handler'[m].was.leaseExpired
        /\ \A k \in Messages : k # m => handler'[k] = handler[k]

EvictionBegun(e) == handler' = handler /\ sweep'.execution = e /\ ~sweep'.was.leaseExpired

\* A handler or Sweep that begins to stop e is the only one to do so.
LEMMA NewStopper ==
    ASSUME FullInv, IndInv', NEW e \in DOMAIN mem.executions, Live(mem.executions[e].phase),
           ~Live(mem'.executions[e].phase), ExecutionsFollow(mem.executions, mem'.executions, {}),
           CancelBegun(e) \/ EvictionBegun(e)
    PROVE  SoleStopper' /\ Remembered'
<1> DEFINE X == mem.executions
           Y == mem'.executions
<1>1. SoleStopper /\ Remembered
  BY Zenon DEF FullInv
<1>2. /\ \A k \in Messages : handler[k].at \in Stopping => k.execution \in DOMAIN X
      /\ \A k \in Messages : handler'[k].at \in Stopping => k.execution \in DOMAIN Y
      /\ sweep.at \in Stopping => sweep.execution \in DOMAIN X
      /\ sweep'.at \in Stopping => sweep'.execution \in DOMAIN Y
  BY Zenon DEF FullInv, IndInv, HandlerOK, SweepOK
<1>3. \A i \in DOMAIN X \cap DOMAIN Y : ~Live(X[i].phase) => ~Live(Y[i].phase)
  BY Zenon DEF ExecutionsFollow
<1>4. /\ \A k \in Messages : handler[k].at \in Stopping => k.execution # e
      /\ sweep.at \in Stopping => sweep.execution # e
  BY <1>1, Zenon DEF SoleStopper
<1> HIDE DEF X, Y
<1>5. /\ \A k \in Messages : handler'[k].at \in Stopping => ~Live(Y[k.execution].phase)
      /\ sweep'.at \in Stopping => ~Live(Y[sweep'.execution].phase)
  BY <1>1, <1>2, <1>3, Zenon DEF SoleStopper, CancelBegun, EvictionBegun, X, Y
<1>6. /\ \A k \in Messages : handler'[k].at \in Stopping =>
            ~ (sweep'.at \in Stopping /\ sweep'.execution = k.execution)
      /\ \A k, l \in Messages :
            /\ handler'[k].at \in Stopping /\ handler'[l].at \in Stopping
            /\ k.execution = l.execution
            => k = l
  <2>1. CASE CancelBegun(e)
    <3>1. PICK m \in Messages : /\ m.execution = e /\ sweep' = sweep
                               /\ \A k \in Messages : k # m => handler'[k] = handler[k]
      BY <2>1, Zenon DEF CancelBegun
    <3>2. \A k \in Messages : k # m /\ handler'[k].at \in Stopping =>
                handler[k].at \in Stopping /\ k.execution # e
      BY <1>4, <3>1, Zenon
    <3>3. ASSUME NEW k \in Messages, NEW l \in Messages, k.execution = l.execution,
                 handler'[k].at \in Stopping, handler'[l].at \in Stopping
          PROVE  k = l
      BY <1>1, <3>1, <3>2, <3>3, Zenon DEF SoleStopper
    <3>4. ASSUME NEW k \in Messages, handler'[k].at \in Stopping, sweep'.at \in Stopping
          PROVE  sweep'.execution # k.execution
      BY <1>1, <1>4, <3>1, <3>2, <3>4, Zenon DEF SoleStopper
    <3> QED
      BY <3>3, <3>4, Zenon
  <2>2. CASE EvictionBegun(e)
    BY <1>1, <1>4, <2>2, Zenon DEF SoleStopper, EvictionBegun
  <2> QED
    BY <2>1, <2>2, Zenon
<1>7. SoleStopper'
  BY <1>5, <1>6, Zenon DEF SoleStopper, Y
<1> QED
  BY <1>1, <1>7, Zenon DEF Remembered, CancelBegun, EvictionBegun

\* What an execution becomes when a stop begins.
LEMMA CancellingFollows ==
    ASSUME Counting,
           FullInv, NEW s, GoodMemory(s), Follows(mem, s, {}), s.executions = mem.executions,
           NEW e \in DOMAIN mem.executions, Live(mem.executions[e].phase), NEW marked \in BOOLEAN,
           marked => ClockRegresses \/ mem.executions[e].leaseUntil <= clock
    PROVE  LET n == SetPhase(s, e, "cancelling", marked) IN
           /\ Follows(mem, n, {}) /\ Sound(n, launched) /\ ~Live(n.executions[e].phase)
           /\ ~mem.executions[e].leaseExpired
           /\ ExecutionsFollow(mem.executions, n.executions, {})
           /\ n.highWater = mem.highWater \/ n.highWater = clock
<1> DEFINE n == SetPhase(s, e, "cancelling", marked)
           x == s.executions[e]
<1>1. x \in Execution
  BY ExecutionOf, Zenon
<1>2. ~Terminal(x.phase) /\ ~Live("cancelling") /\ "cancelling" \in Phases
  BY Zenon DEF Live, Terminal, Phases
<1>3. Follows(s, n, {})
  BY <1>2, SetPhaseFollows, Zenon
<1>4. n.executions[e].phase = "cancelling"
  <2>1. n.executions = [s.executions EXCEPT ![e] = Transition(x, "cancelling", marked)]
    BY Zenon DEF SetPhase, GoodMemory, IsMemory, IsRecord
  <2>2. Transition(x, "cancelling", marked).phase = "cancelling"
    BY <1>1, Zenon DEF Transition, Execution
  <2> QED
    BY <2>1, <2>2, Zenon
<1> HIDE DEF n
<1>5. Follows(mem, n, {})
  BY <1>3, FollowsAfter, Zenon
<1>6. Sound(n, launched)
  BY <1>5, FullBounds, GoodBounded, SoundKept, Zenon
<1>7. ~mem.executions[e].leaseExpired
  BY FullBounds, Zenon DEF Sound, Unmarked
<1>8. /\ ExecutionsFollow(mem.executions, n.executions, {})
      /\ n.highWater = mem.highWater \/ n.highWater = clock
  BY <1>5, Zenon DEF Follows
<1> QED
  BY <1>2, <1>4, <1>5, <1>6, <1>7, <1>8, Zenon DEF n

LEMMA HandleCancelFull ==
    ASSUME Counting, FullInv, IndInv', NEW m \in Messages, HandleCancel(m)
    PROVE  FullInv' /\ Orderly
<1> DEFINE e == m.execution
           x == mem.executions[e]
           n == SetPhase(mem, e, "cancelling", FALSE)
           h == [at |-> "stopping", was |-> [phase |-> x.phase, leaseExpired |-> x.leaseExpired]]
<1>1. /\ handler[m].at = "begun" /\ UNCHANGED <<clock, mode, issued, sweep, recovery, launched>>
      /\ \/ Changed(mem) /\ Goto(m, "applied")
         \/ Stoppable(mem, m) /\ Saved(n) /\ handler' = [handler EXCEPT ![m] = h]
  BY Zenon DEF HandleCancel, Begun, Changed
<1>2. mode = "up" /\ handler[m].at # "idle"
  BY <1>1, FullBounds, Zenon DEF HandlerOK
<1>3. CASE Changed(mem) /\ Goto(m, "applied")
  BY <1>1, <1>2, <1>3, FullBounds, AppliedFull, Zenon
<1>4. CASE Stoppable(mem, m) /\ Saved(n) /\ handler' = [handler EXCEPT ![m] = h]
  <2>1. e \in DOMAIN mem.executions /\ Live(x.phase)
    BY <1>4, Zenon DEF Stoppable, Owned
  <2>2. /\ Follows(mem, n, {}) /\ Sound(n, launched) /\ ~Live(n.executions[e].phase)
        /\ ~x.leaseExpired /\ ExecutionsFollow(mem.executions, n.executions, {})
        /\ n.highWater = mem.highWater \/ n.highWater = clock
    BY <2>1, FullBounds, CancellingFollows, Zenon
  <2>3. Changed(n) /\ mem' = n /\ Persisted
    BY <1>4, Zenon DEF Changed, Saved, Becomes, Persisted
  <2> HIDE DEF n
  <2>4. /\ ~handler'[m].was.leaseExpired /\ handler'[m].at = "stopping"
        /\ \A k \in Messages : k # m => handler'[k] = handler[k]
    <3>1. handler \in [Messages -> HandlerState]
      BY Zenon DEF FullInv, IndInv, TypeOK
    <3> QED
      BY <1>4, <2>2, <3>1, Zenon
  <2>5. SoleStopper' /\ Remembered'
    <3>1. CancelBegun(e)
      BY <1>1, <2>4, Zenon DEF CancelBegun
    <3> QED
      BY <2>1, <2>2, <2>3, <3>1, NewStopper, Zenon
  <2>6. \A k \in Messages : handler'[k].at = "starting" => handler[k].at = "starting"
    BY <2>4, Zenon
  <2>7. Launching'
    BY <1>1, <2>3, <2>6, LaunchStep, Zenon
  <2> QED
    BY <1>1, <1>2, <2>2, <2>3, <2>5, <2>7, MadeStep, Zenon
<1> QED
  BY <1>1, <1>3, <1>4, Zenon

\* What a failed Stop gives back.
LEMMA RestoreFollows ==
    ASSUME FullInv, NEW e \in DOMAIN mem.executions, NEW was \in Was, ~was.leaseExpired
    PROVE  Follows(mem, Restore(mem, e, was), {e})
<1> DEFINE x == mem.executions[e]
           n == SetPhase(mem, e, was.phase, was.leaseExpired)
<1>1. was.phase \in Phases /\ was.leaseExpired \in BOOLEAN
  BY Zenon DEF Was, Phases
<1>2. x.phase = "cancelling" => ~Terminal(x.phase)
  BY Zenon DEF Terminal, TerminalPhases
<1>3. x.phase = "cancelling" => Follows(mem, n, {e})
  BY <1>1, <1>2, FullBounds, SetPhaseFollows, Zenon
<1>4. Follows(mem, mem, {e})
  BY FullBounds, Zenon DEF Follows, ExecutionsFollow
<1> QED
  BY <1>3, <1>4, Zenon DEF Restore

LEMMA CancelCompleteFull ==
    ASSUME Counting, FullInv, IndInv', NEW m \in Messages, CancelComplete(m)
    PROVE  FullInv' /\ Orderly
<1> DEFINE e == m.execution
           r == Restore(mem, e, handler[m].was)
           f == Finish(mem, e, "cancelled", FALSE)
<1>1. /\ handler[m].at \in {"stopped", "stopFailed"} /\ Goto(m, "applied")
      /\ UNCHANGED <<clock, mode, issued, sweep, recovery, launched>>
      /\ Changed(mem) \/ Changed(r) \/ Changed(f)
  BY Zenon DEF CancelComplete, SavedOrNot, Changed
<1>2. handler[m].at # "idle" /\ handler[m].at \in Stopping
  BY <1>1, Zenon DEF Stopping
<1>3. e \in DOMAIN mem.executions
  BY <1>2, FullBounds, Zenon DEF HandlerOK
<1>4. Follows(mem, r, {e})
  <2>1. handler[m].was \in Was /\ ~handler[m].was.leaseExpired
    BY Zenon DEF FullInv, IndInv, TypeOK, HandlerState, Remembered
  <2> QED
    BY <1>3, <2>1, RestoreFollows, Zenon
<1>5. Follows(mem, f, {})
  <2>1. "cancelled" \in TerminalPhases /\ FALSE \in BOOLEAN
    BY Zenon DEF TerminalPhases
  <2> QED
    BY <1>3, <2>1, FullBounds, FinishFollows, Zenon
<1> HIDE DEF r, f
<1> QED
  BY <1>1, <1>2, <1>4, <1>5, FullBounds, AppliedFull, Zenon

LEMMA HandleLeaseRenewFull ==
    ASSUME Counting, FullInv, IndInv', NEW m \in Messages, HandleLeaseRenew(m)
    PROVE  FullInv' /\ Orderly
<1> DEFINE e == m.execution
           n == [mem EXCEPT !.executions[e].leaseUntil = clock + m.lease]
<1>1. /\ handler[m].at = "begun" /\ Goto(m, "applied")
      /\ UNCHANGED <<clock, mode, issued, sweep, recovery, launched>>
      /\ Changed(mem) \/ (e \in DOMAIN mem.executions /\ Changed(n))
  BY Zenon DEF HandleLeaseRenew, Begun, Owned, Changed
<1>2. handler[m].at # "idle"
  BY <1>1, Zenon
<1>3. e \in DOMAIN mem.executions => Follows(mem, n, {})
  BY FullBounds, RenewFollows, Zenon
<1> HIDE DEF n
<1> QED
  BY <1>1, <1>2, <1>3, FullBounds, AppliedFull, Zenon

LEMMA HandleOfferReleaseFull ==
    ASSUME Counting, FullInv, IndInv', NEW m \in Messages, HandleOfferRelease(m)
    PROVE  FullInv' /\ Orderly
<1> DEFINE o == m.offer
           c == mem.offers[o].class
           n(status) == Release([mem EXCEPT !.offers[o].status = status], c, 1)
<1>1. /\ handler[m].at = "begun" /\ Goto(m, "applied")
      /\ UNCHANGED <<clock, mode, issued, sweep, recovery, launched>>
      /\ \/ Changed(mem)
         \/ o \in DOMAIN mem.offers /\ \E status \in {"expired", "released"} : Changed(n(status))
  BY Zenon DEF HandleOfferRelease, Begun, Changed
<1>2. handler[m].at # "idle"
  BY <1>1, Zenon
<1>3. o \in DOMAIN mem.offers => \A status \in {"expired", "released"} : Follows(mem, n(status), {})
  BY FullBounds, ReleaseFollows, Zenon
<1> HIDE DEF n
<1> QED
  BY <1>1, <1>2, <1>3, FullBounds, AppliedFull, Zenon

LEMMA HandleInspectFull ==
    ASSUME Counting, FullInv, IndInv', NEW m \in Messages, HandleInspect(m)
    PROVE  FullInv' /\ Orderly
<1>1. /\ handler[m].at = "begun" /\ Goto(m, "applied") /\ Changed(mem)
      /\ UNCHANGED <<clock, mode, issued, sweep, recovery, launched>>
  BY Zenon DEF HandleInspect, Begun, Changed
<1>2. handler[m].at # "idle"
  BY <1>1, Zenon
<1> QED
  BY <1>1, <1>2, FullBounds, AppliedFull, Zenon

-----------------------------------------------------------------------------
(* The runtime, Sweep and Recover.                                         *)

\* The records do not change.
LEMMA IdleStep ==
    ASSUME Counting,
           FullInv, IndInv', UNCHANGED <<clock, mem, disk, mode, issued, launched>>, Restful({}),
           recovery' = recovery \/ recovery'.at # "stopped"
    PROVE  FullInv' /\ Orderly
<1>1. Ordinary({})
  BY FullBounds, Zenon DEF Ordinary, Persisted
<1> QED
  BY <1>1, OrdinaryStep, Zenon

LEMMA RuntimeStartFull ==
    ASSUME Counting, FullInv, IndInv', NEW m \in Messages, RuntimeStart(m)
    PROVE  FullInv' /\ Orderly
<1> DEFINE o == m.offer
<1>1. /\ handler[m].at = "starting" /\ UNCHANGED <<clock, mem, disk, mode, issued, sweep, recovery>>
      /\ \/ launched' = [launched EXCEPT ![o] = @ + 1] /\ Goto(m, "started")
         \/ launched' = launched /\ Goto(m, "startFailed")
  BY Zenon DEF RuntimeStart
<1>2. CASE launched' = launched /\ Goto(m, "startFailed")
  <2>1. "startFailed" \notin Stopping /\ "startFailed" # "starting"
    BY Zenon DEF Stopping
  <2>2. Restful({})
    BY <1>1, <1>2, <2>1, GotoRestful, Zenon
  <2> QED
    BY <1>1, <1>2, <2>2, IdleStep, Zenon
<1>3. CASE launched' = [launched EXCEPT ![o] = @ + 1] /\ Goto(m, "started")
  <2>1. /\ IndInv /\ Launching /\ LaunchedOnce
        /\ Sound(mem, launched) /\ Sound(disk, launched)
    BY Zenon DEF FullInv
  <2>2. /\ o \in DOMAIN mem.offers /\ mem.offers[o].status = "assigned" /\ o \in OfferIds
        /\ launched[o] = 0
        /\ o \in DOMAIN disk.offers => disk.offers[o].status # "outstanding"
    BY <1>1, <2>1, StartingAssigned, Zenon DEF Launching
  <2>3. launched \in [OfferIds -> Nat] /\ issued \in Nat /\ DOMAIN mem.offers \subseteq 1 .. issued
    BY <2>1, ConstantsAssumption DEF IndInv, TypeOK
  <2>4. launched'[o] = 1 /\ \A p \in OfferIds : p # o => launched'[p] = launched[p]
    BY <1>3, <2>2, <2>3
  <2>5. DOMAIN mem.offers \subseteq OfferIds /\ DOMAIN disk.offers \subseteq OfferIds
    BY <2>1, Zenon DEF IndInv, GoodMemory, GoodSnapshot, IsMemory, IsSnapshot, IsMap
  <2>6. Sound(mem, launched)' /\ Sound(disk, launched)'
    <3>1. Unlaunched(mem, launched') /\ Unlaunched(disk, launched')
      BY <2>1, <2>2, <2>4, <2>5, Zenon DEF Sound, Unlaunched
    <3> QED
      BY <1>1, <2>1, <3>1, Zenon DEF Sound
  <2>7. Quiet({}) /\ handler'[m].at = "started" /\ \A k \in Messages : k # m => handler'[k] = handler[k]
    <3>1. "started" \notin Stopping
      BY Zenon DEF Stopping
    <3> QED
      BY <1>1, <1>3, <3>1, GotoQuiet, Zenon
  <2>8. SoleStopper' /\ Remembered'
    <3>1. ExecutionsFollow(mem.executions, mem'.executions, {})
      BY <1>1, FullBounds, Zenon DEF Follows
    <3> QED
      BY <2>7, <3>1, StopperStep, Zenon
  <2>9. LaunchedOnce'
    BY <2>1, <2>4 DEF LaunchedOnce
  <2>10. Launching'
    <3>1. \A k \in Messages : handler'[k].at = "starting" =>
            handler[k].at = "starting" /\ k # m /\ k.offer \in OfferIds /\ k.offer # o
      BY <1>1, <2>1, <2>7, StartingAssigned, Zenon DEF Launching
    <3>2. \A p \in OfferIds : p > issued => p # o
      BY <2>2, <2>3 DEF OfferIds
    <3> QED
      BY <1>1, <2>1, <2>4, <3>1, <3>2, Zenon DEF Launching
  <2>11. Timely'
    BY <1>1, TimelyStep, Zenon DEF Persisted
  <2>12. mode' = "down" => mem' = Empty
    BY <1>1, Zenon DEF FullInv
  <2> QED
    <3>1. Orderly
      BY <1>1, FullBounds, Zenon DEF Orderly, Follows, ExecutionsFollow
    <3> QED
      BY <2>6, <2>8, <2>9, <2>10, <2>11, <2>12, <3>1, Zenon DEF FullInv
<1> QED
  BY <1>1, <1>2, <1>3, Zenon

LEMMA RuntimeStopFull ==
    ASSUME Counting, FullInv, IndInv', NEW m \in Messages, RuntimeStop(m)
    PROVE  FullInv' /\ Orderly
<1>1. /\ handler[m].at = "stopping"
      /\ UNCHANGED <<clock, mem, disk, mode, issued, sweep, recovery, launched>>
      /\ \/ handler' = [handler EXCEPT ![m].at = "stopped"]
         \/ handler' = [handler EXCEPT ![m].at = "stopFailed"]
  BY Zenon DEF RuntimeStop
<1>2. handler \in [Messages -> HandlerState] /\ Remembered
  BY Zenon DEF FullInv, IndInv, TypeOK
<1>3. /\ handler[m].at \in Stopping /\ handler'[m].at # "starting"
      /\ handler'[m].was = handler[m].was
      /\ \A k \in Messages : k # m => handler'[k] = handler[k]
  BY <1>1, <1>2, Zenon DEF HandlerState, Stopping
<1>4. Restful({})
  BY <1>1, <1>2, <1>3, Zenon DEF Restful, Quiet, Remembered
<1> QED
  BY <1>1, <1>4, IdleStep, Zenon

LEMMA TaskExitFull ==
    ASSUME Counting, FullInv, IndInv', NEW e, TaskExit(e)
    PROVE  FullInv' /\ Orderly
<1>1. UNCHANGED <<clock, mem, disk, mode, issued, handler, sweep, recovery, launched>>
  BY Zenon DEF TaskExit
<1>2. Restful({})
  BY <1>1, SweepRestful, Zenon
<1> QED
  BY <1>1, <1>2, IdleStep, Zenon

\* What Finish makes of an execution.
LEMMA FinishPhase ==
    ASSUME NEW s, GoodMemory(s), NEW e \in DOMAIN s.executions, NEW phase \in TerminalPhases,
           NEW marked \in BOOLEAN
    PROVE  LET n == Finish(s, e, phase, marked) IN
           /\ Terminal(n.executions[e].phase)
           /\ \A i \in DOMAIN s.executions : i # e => n.executions[i] = s.executions[i]
<1> DEFINE y == s.executions[e]
           x == Ended(y, phase, marked, Later(clock, s.highWater) + Retention)
           f == [s EXCEPT !.executions = [s.executions EXCEPT ![e] = x]]
           n == Finish(s, e, phase, marked)
<1>1. y \in Execution
  BY ExecutionOf, Zenon
<1>2. x.phase = phase
  BY <1>1, Zenon DEF Ended, Transition, Execution
<1>3. n = f \/ n = Release(f, y.class, 1)
  BY Zenon DEF Finish
<1>4. f.executions = [s.executions EXCEPT ![e] = x]
  BY Zenon DEF GoodMemory, IsMemory, IsRecord
<1>5. Release(f, y.class, 1).executions = f.executions
  BY Zenon DEF Release, GoodMemory, IsMemory, IsRecord
<1> HIDE DEF n, f, x
<1>6. n.executions = [s.executions EXCEPT ![e] = x]
  BY <1>3, <1>4, <1>5, Zenon
<1>7. Terminal(n.executions[e].phase)
  BY <1>2, <1>6, Zenon DEF Terminal
<1>8. \A i \in DOMAIN s.executions : i # e => n.executions[i] = s.executions[i]
  BY <1>6, Zenon
<1> QED
  BY <1>7, <1>8, Zenon DEF n

\* A report may also come while Recover is at work.
LEMMA RuntimeCompletedFull ==
    ASSUME Counting, FullInv, IndInv', NEW e, NEW phase \in {"completed", "failed"},
           RuntimeCompleted(e, phase)
    PROVE  FullInv' /\ Orderly
<1> DEFINE n == Finish(mem, e, phase, FALSE)
<1>1. /\ UNCHANGED <<clock, mode, issued, handler, sweep, recovery, launched>>
      /\ Changed(mem) \/ (e \in DOMAIN mem.executions /\ Changed(n))
  BY Zenon DEF RuntimeCompleted, Changed
<1>2. Restful({})
  BY <1>1, SweepRestful, Zenon
<1>3. phase \in TerminalPhases /\ FALSE \in BOOLEAN
  BY Zenon DEF TerminalPhases
<1>4. CASE Changed(mem)
  <2>1. mem' = mem /\ Persisted
    BY <1>4, Zenon DEF Changed, Saved, SaveFails, Unsaved, Becomes, Persisted
  <2>2. Ordinary({})
    BY <1>1, <1>2, <2>1, FullBounds, Zenon DEF Ordinary
  <2> QED
    BY <2>2, OrdinaryStep, Zenon
<1>5. CASE e \in DOMAIN mem.executions /\ Changed(n)
  <2>1. Follows(mem, n, {})
    BY <1>3, <1>5, FullBounds, FinishFollows, Zenon
  <2>2. /\ Terminal(n.executions[e].phase)
        /\ \A i \in DOMAIN mem.executions : i # e => n.executions[i] = mem.executions[i]
    BY <1>3, <1>5, FullBounds, FinishPhase, Zenon
  <2>3. mem' = n /\ Persisted
    BY <1>5, Zenon DEF Changed, Saved, SaveFails, Unsaved, Becomes, Persisted
  <2> HIDE DEF n
  <2>4. mode # "down"
    <3>1. DOMAIN Empty.executions = {}
      BY Zenon DEF Empty, EmptyMap
    <3> QED
      BY <1>5, <3>1, Zenon DEF FullInv
  <2>5. recovery.at = "stopped" => recovery.execution \in DOMAIN mem.executions
    BY Zenon DEF FullInv, IndInv, RecoveryOK
  <2>6. recovery'.at = "stopped" =>
            /\ recovery' = recovery
            /\ \/ mem'.executions[recovery.execution] = mem.executions[recovery.execution]
               \/ Terminal(mem'.executions[recovery.execution].phase)
    BY <1>1, <2>2, <2>3, <2>5, Zenon
  <2>7. Ordinary({})
    BY <1>1, <1>2, <2>1, <2>3, <2>4, <2>6, Zenon DEF Ordinary
  <2> QED
    BY <2>7, OrdinaryStep, Zenon
<1> QED
  BY <1>1, <1>4, <1>5, Zenon

\* Sweep moves to a place where it stops nothing.
LEMMA SweptFull ==
    ASSUME Counting, FullInv, IndInv', mode = "up", NEW n, Changed(n), NEW R, Follows(mem, n, R),
           R = {} \/ (R = {sweep.execution} /\ sweep.at \in Stopping),
           sweep'.at \notin Stopping, sweep'.was = NoPhase,
           UNCHANGED <<clock, mode, issued, handler, recovery, launched>>
    PROVE  FullInv' /\ Orderly
<1>1. ~sweep'.was.leaseExpired
  BY DEF NoPhase
<1>2. Restful(R)
  BY <1>1, SweepRestful, Zenon
<1> QED
  BY <1>2, UpStep, Zenon

LEMMA BeginEvictionFull ==
    ASSUME Counting, FullInv, IndInv', NEW e \in ExecutionIds, BeginEviction(e)
    PROVE  FullInv' /\ Orderly
<1> DEFINE s == AdvanceHighWater(mem)
           x == s.executions[e]
           n == SetPhase(s, e, "cancelling", TRUE)
           w == [phase |-> x.phase, leaseExpired |-> x.leaseExpired]
<1>1. /\ mode = "up" /\ sweep.at = "idle" /\ e \in ExpiredLeases(s)
      /\ UNCHANGED <<clock, mode, issued, handler, recovery, launched>>
      /\ \/ Changed(s) /\ sweep' = [SweepIdle EXCEPT !.at = "collect"]
         \/ Saved(n) /\ sweep' = [sweep EXCEPT !.at = "stopping", !.execution = e, !.was = w]
  BY Zenon DEF BeginEviction, Changed
<1>2. /\ GoodMemory(s) /\ Follows(mem, s, {}) /\ s.executions = mem.executions
      /\ s.highWater = mem.highWater \/ s.highWater = clock
  BY FullBounds, AdvanceGood, AdvanceFollows, Zenon
<1> HIDE DEF s
<1>3. CASE Changed(s) /\ sweep' = [SweepIdle EXCEPT !.at = "collect"]
  <2>1. sweep'.at \notin Stopping /\ sweep'.was = NoPhase
    BY <1>3, Zenon DEF SweepIdle, Stopping
  <2> QED
    BY <1>1, <1>2, <1>3, <2>1, SweptFull, Zenon
<1>4. CASE Saved(n) /\ sweep' = [sweep EXCEPT !.at = "stopping", !.execution = e, !.was = w]
  <2>1. /\ e \in DOMAIN mem.executions /\ Live(mem.executions[e].phase)
        /\ mem.executions[e].leaseUntil <= s.highWater
    BY <1>1, <1>2, Zenon DEF ExpiredLeases
  <2>2. ClockRegresses \/ mem.executions[e].leaseUntil <= clock
    <3>1. mem.executions[e] \in Execution
      BY <2>1, FullBounds, ExecutionOf, Zenon
    <3>2. /\ mem.highWater \in Nat /\ clock \in Nat /\ mem.executions[e].leaseUntil \in Nat
      BY <3>1, FullBounds, Zenon DEF GoodMemory, IsMemory, Execution
    <3>3. ClockRegresses \/ mem.highWater <= clock
      BY Zenon DEF FullInv, Timely
    <3> QED
      BY <1>2, <2>1, <3>2, <3>3
  <2>3. /\ Sound(n, launched) /\ ~Live(n.executions[e].phase)
        /\ ~mem.executions[e].leaseExpired /\ ExecutionsFollow(mem.executions, n.executions, {})
        /\ n.highWater = mem.highWater \/ n.highWater = clock
    BY <1>2, <2>1, <2>2, CancellingFollows, Zenon
  <2>4. Changed(n) /\ mem' = n /\ Persisted
    BY <1>4, Zenon DEF Changed, Saved, Becomes, Persisted
  <2> HIDE DEF n
  <2>5. EvictionBegun(e)
    <3>1. sweep \in SweepState
      BY Zenon DEF FullInv, IndInv, TypeOK
    <3> QED
      BY <1>1, <1>2, <1>4, <2>3, <3>1, Zenon DEF SweepState, EvictionBegun
  <2>6. SoleStopper' /\ Remembered'
    BY <2>1, <2>3, <2>4, <2>5, NewStopper, Zenon
  <2>7. Launching'
    BY <1>1, <2>4, LaunchStep, Zenon
  <2> QED
    BY <1>1, <2>3, <2>4, <2>6, <2>7, MadeStep, Zenon
<1> QED
  BY <1>1, <1>3, <1>4, Zenon

LEMMA EndEvictionsFull ==
    ASSUME Counting, FullInv, IndInv', EndEvictions
    PROVE  FullInv' /\ Orderly
<1> DEFINE s == AdvanceHighWater(mem)
<1>1. /\ mode = "up" /\ Changed(s) /\ sweep' = [SweepIdle EXCEPT !.at = "collect"]
      /\ UNCHANGED <<clock, mode, issued, handler, recovery, launched>>
  BY Zenon DEF EndEvictions, Changed
<1>2. Follows(mem, s, {})
  BY FullBounds, AdvanceFollows, Zenon
<1>3. sweep'.at \notin Stopping /\ sweep'.was = NoPhase
  BY <1>1, Zenon DEF SweepIdle, Stopping
<1> HIDE DEF s
<1> QED
  BY <1>1, <1>2, <1>3, SweptFull, Zenon

LEMMA SweepStopFull ==
    ASSUME Counting, FullInv, IndInv', SweepStop
    PROVE  FullInv' /\ Orderly
<1>1. /\ sweep.at = "stopping"
      /\ UNCHANGED <<clock, mem, disk, mode, issued, handler, recovery, launched>>
      /\ sweep' = [sweep EXCEPT !.at = "stopped"] \/ sweep' = [sweep EXCEPT !.at = "stopFailed"]
  BY Zenon DEF SweepStop
<1>2. sweep \in SweepState /\ Remembered
  BY Zenon DEF FullInv, IndInv, TypeOK
<1>3. /\ sweep.at \in Stopping /\ sweep'.execution = sweep.execution /\ sweep'.was = sweep.was
  BY <1>1, <1>2, Zenon DEF SweepState, Stopping
<1>4. Restful({})
  BY <1>1, <1>2, <1>3, Zenon DEF Restful, Quiet, Remembered
<1> QED
  BY <1>1, <1>4, IdleStep, Zenon

LEMMA CompleteEvictionFull ==
    ASSUME Counting, FullInv, IndInv', CompleteEviction
    PROVE  FullInv' /\ Orderly
<1> DEFINE e == sweep.execution
           r == Restore(mem, e, sweep.was)
           f == Finish(mem, e, "failed", TRUE)
<1>1. /\ sweep.at \in {"stopped", "stopFailed"}
      /\ sweep' = SweepIdle \/ sweep' = [SweepIdle EXCEPT !.at = "collect"]
      /\ UNCHANGED <<clock, mode, issued, handler, recovery, launched>>
      /\ Changed(mem) \/ Changed(r) \/ Changed(f)
  BY Zenon DEF CompleteEviction, SavedOrNot, Changed
<1>2. /\ sweep.at # "idle" /\ sweep.at \in Stopping
      /\ sweep'.at \notin Stopping /\ sweep'.was = NoPhase
  BY <1>1 DEF SweepIdle, Stopping
<1>3. mode = "up" /\ e \in DOMAIN mem.executions /\ ~Live(mem.executions[e].phase)
  BY <1>2, Zenon DEF FullInv, IndInv, SweepOK, SoleStopper
<1>4. Follows(mem, r, {e})
  <2>1. sweep.was \in Was /\ ~sweep.was.leaseExpired
    BY Zenon DEF FullInv, IndInv, TypeOK, SweepState, Remembered
  <2> QED
    BY <1>3, <2>1, RestoreFollows, Zenon
<1>5. Follows(mem, f, {})
  <2>1. "failed" \in TerminalPhases /\ TRUE \in BOOLEAN
    BY Zenon DEF TerminalPhases
  <2> QED
    BY <1>3, <2>1, FullBounds, FinishFollows, Zenon
<1> HIDE DEF r, f
<1> QED
  BY <1>1, <1>2, <1>3, <1>4, <1>5, FullBounds, SweptFull, Zenon

\* What Sweep collects at once.
LEMMA CollectedFollows ==
    ASSUME Counting,
           FullInv, NEW hw, hw = AdvanceHighWater(mem), NEW x, x = ExpireOffers(hw, hw.highWater),
           NEW p, p = Prune(x, hw.highWater), NEW q, q = Retire(p, Collectable(p))
    PROVE  Follows(mem, Bury(q), {})
<1>1. GoodMemory(hw) /\ Follows(mem, hw, {}) /\ hw.executions = mem.executions
  BY FullBounds, AdvanceGood, AdvanceFollows, Zenon
<1>2. hw.highWater \in Nat
  BY <1>1, Zenon DEF GoodMemory, IsMemory
<1>3. GoodMemory(x) /\ Follows(hw, x, {}) /\ x.executions = hw.executions
  BY <1>1, <1>2, ExpireGood, ExpireFollows, Zenon
<1>4. GoodMemory(p) /\ Follows(x, p, {}) /\ p.executions = x.executions
  BY <1>2, <1>3, PruneGood, PruneFollows, Zenon
<1>5. GoodMemory(q) /\ Follows(p, q, {})
  BY <1>4, RetireGood, RetireFollows, Zenon
<1>6. Follows(q, Bury(q), {}) /\ Bury(q).executions = q.executions
  BY <1>5, BuryFollows, Zenon
<1>7. Follows(hw, p, {}) /\ p.executions = hw.executions
  BY <1>3, <1>4, FollowsAfter, Zenon
<1>8. Follows(mem, p, {}) /\ p.executions = mem.executions
  BY <1>1, <1>7, FollowsAfter, Zenon
<1>9. Follows(p, Bury(q), {})
  BY <1>5, <1>6, FollowsBefore, Zenon
<1> QED
  BY <1>8, <1>9, FollowsAfter, Zenon

LEMMA CollectFull ==
    ASSUME Counting, FullInv, IndInv', Collect
    PROVE  FullInv' /\ Orderly
<1> DEFINE pending(s) == {o \in DOMAIN s.tombstones : s.tombstones[o].cleanupPending}
           Ends(s) ==
                /\ sweep.at = "collect"
                /\ \/ /\ Saved(s)
                      /\ sweep' = [SweepIdle EXCEPT !.at = IF pending(s) = {} THEN "idle" ELSE "clean",
                                                    !.todo = pending(s)]
                   \/ SaveFails(mem) /\ sweep' = SweepIdle
                /\ UNCHANGED <<clock, mode, issued, checked, handler, recovery, task, entry,
                               launched, applied>>
<1>1. \E hw \in {AdvanceHighWater(mem)} :
      \E p \in {Prune(ExpireOffers(hw, hw.highWater), hw.highWater)} :
      \E q \in {Retire(p, Collectable(p))} :
      \E s \in {Bury(q)} : Ends(s)
  BY Zenon DEF Collect
<1> HIDE DEF Ends
<1>2. PICK hw, x, p, q :
        /\ hw = AdvanceHighWater(mem) /\ x = ExpireOffers(hw, hw.highWater)
        /\ p = Prune(x, hw.highWater) /\ q = Retire(p, Collectable(p))
        /\ Ends(Bury(q))
  BY <1>1, Zenon
<1>3. Follows(mem, Bury(q), {})
  BY <1>2, CollectedFollows, Zenon
<1>4. /\ sweep.at = "collect"
      /\ Changed(Bury(q)) \/ Changed(mem)
      /\ UNCHANGED <<clock, mode, issued, handler, recovery, launched>>
  BY <1>2, Zenon DEF Ends, Changed
<1>5. sweep'.at \notin Stopping /\ sweep'.was = NoPhase
  <2> DEFINE g(at, todo) == [SweepIdle EXCEPT !.at = at, !.todo = todo]
  <2>1. sweep' = SweepIdle \/ \E at \in {"idle", "clean"} : \E todo : sweep' = g(at, todo)
    BY <1>2, Zenon DEF Ends
  <2>2. /\ SweepIdle.at = "idle" /\ SweepIdle.was = NoPhase
        /\ \A at, todo : g(at, todo).at = at /\ g(at, todo).was = NoPhase
    BY Zenon DEF SweepIdle
  <2> HIDE DEF g
  <2>3. sweep'.at \in {"idle", "clean"} /\ sweep'.was = NoPhase
    BY <2>1, <2>2
  <2> QED
    BY <2>3, Zenon DEF Stopping
<1>6. mode = "up"
  BY <1>4, Zenon DEF FullInv, IndInv, SweepOK
<1> QED
  BY <1>3, <1>4, <1>5, <1>6, FullBounds, SweptFull, Zenon

LEMMA CleanupFull ==
    ASSUME Counting, FullInv, IndInv', NEW o \in OfferIds, Cleanup(o)
    PROVE  FullInv' /\ Orderly
<1> DEFINE n == [mem EXCEPT !.tombstones[o].cleanupPending = FALSE]
<1>1. /\ sweep.at = "clean" /\ o \in sweep.todo
      /\ Changed(n) \/ Changed(mem)
      /\ sweep' = SweepIdle \/ \E rest : sweep' = [sweep EXCEPT !.todo = rest]
      /\ UNCHANGED <<clock, mode, issued, handler, recovery, launched>>
  BY Zenon DEF Cleanup, Changed
<1>2. SweepOK /\ sweep \in SweepState /\ Remembered
  BY Zenon DEF FullInv, IndInv, TypeOK
<1>3. mode = "up" /\ o \in DOMAIN mem.tombstones
  BY <1>1, <1>2, Zenon DEF SweepOK
<1>4. Follows(mem, n, {})
  BY <1>3, FullBounds, CleanedFollows, Zenon
<1> HIDE DEF n
<1>5. sweep'.at \notin Stopping /\ ~sweep'.was.leaseExpired
  BY <1>1, <1>2 DEF SweepState, SweepIdle, NoPhase, Stopping, Remembered
<1>6. Restful({})
  BY <1>1, <1>5, SweepRestful, Zenon
<1> QED
  BY <1>1, <1>3, <1>4, <1>6, FullBounds, UpStep, Zenon

\* Nobody stops or starts a workload before the daemon serves.
LEMMA AllIdle ==
    ASSUME FullInv, \/ mode # "up" /\ handler' = handler /\ sweep' = sweep
                    \/ handler' = [m \in Messages |-> Idle] /\ sweep' = SweepIdle
    PROVE  /\ SoleStopper' /\ Remembered' /\ Restful({})
           /\ \A m \in Messages : handler'[m].at = "starting" => handler[m].at = "starting"
<1>1. /\ \A m \in Messages : handler'[m].at = "idle" /\ ~handler'[m].was.leaseExpired
      /\ sweep'.at = "idle" /\ ~sweep'.was.leaseExpired
  <2>1. CASE mode # "up" /\ handler' = handler /\ sweep' = sweep
    <3>1. Remembered /\ SweepOK /\ \A m \in Messages : HandlerOK(m)
      BY Zenon DEF FullInv, IndInv
    <3> QED
      BY <2>1, <3>1, Zenon DEF HandlerOK, SweepOK, Remembered
  <2>2. CASE handler' = [m \in Messages |-> Idle] /\ sweep' = SweepIdle
    <3>1. Idle.at = "idle" /\ ~Idle.was.leaseExpired
      BY Zenon DEF Idle, NoPhase
    <3>2. SweepIdle.at = "idle" /\ ~SweepIdle.was.leaseExpired
      BY Zenon DEF SweepIdle, NoPhase
    <3> QED
      BY <2>2, <3>1, <3>2, Zenon
  <2> QED
    BY <2>1, <2>2, Zenon
<1>2. "idle" \notin Stopping /\ "idle" # "starting"
  BY Zenon DEF Stopping
<1>3. SoleStopper' /\ Remembered'
  BY <1>1, <1>2, Zenon DEF SoleStopper, Remembered
<1> QED
  BY <1>1, <1>2, <1>3, Zenon DEF Restful, Quiet

\* Nothing but the clock, the mode or the place of Recover changes.
LEMMA ClockStep ==
    ASSUME Counting,
           FullInv, IndInv', UNCHANGED <<mem, disk, issued, launched>>, Restful({}), Timely',
           mode' = "down" => mode = "down"
    PROVE  FullInv' /\ Orderly
<1>1. Follows(mem, mem', {}) /\ ExecutionsFollow(mem.executions, mem'.executions, {}) /\ Persisted
  BY FullBounds, Zenon DEF Follows, Persisted
<1>2. Quiet({}) /\ \A m \in Messages : handler'[m].at = "starting" => handler[m].at = "starting"
  BY Zenon DEF Restful
<1>3. Sound(mem, launched)' /\ Sound(disk, launched)' /\ Orderly
  BY <1>1, RecordsStep, Zenon
<1>4. SoleStopper' /\ Remembered'
  BY <1>1, <1>2, StopperStep, Zenon
<1>5. Launching' /\ LaunchedOnce'
  BY <1>1, <1>2, LaunchStep, Zenon
<1> QED
  BY <1>3, <1>4, <1>5, Zenon DEF FullInv

LEMMA RestartFull ==
    ASSUME Counting, FullInv, IndInv', Restart
    PROVE  FullInv' /\ Orderly
<1> DEFINE n == Load(disk, clock)
<1>1. /\ mode = "down" /\ mode' = "recovering" /\ mem' = n /\ disk' = disk
      /\ \E todo : recovery' = [NotRecovering EXCEPT !.todo = todo]
      /\ UNCHANGED <<clock, issued, handler, sweep, launched>>
  BY Zenon DEF Restart, Unsaved, Becomes
<1>2. GoodSnapshot(disk) /\ Sound(disk, launched) /\ mem = Empty
  BY <1>1, Zenon DEF FullInv, IndInv
<1>3. Follows(disk, n, {})
  BY <1>2, LoadFollows, Zenon
<1> HIDE DEF n
<1>4. Sound(mem', launched') /\ Sound(disk', launched')
  BY <1>1, <1>2, <1>3, GoodBounded, SoundKept, Zenon
<1>5. /\ SoleStopper' /\ Remembered'
      /\ \A m \in Messages : handler'[m].at = "starting" => handler[m].at = "starting"
  BY <1>1, AllIdle, Zenon
<1>6. Launching' /\ LaunchedOnce'
  BY <1>1, <1>5, LaunchStep, Zenon DEF Persisted
<1>7. Timely'
  <2>1. recovery'.at = "next"
    BY <1>1, Zenon DEF NotRecovering
  <2>2. clock \in Nat /\ (~ClockRegresses => disk.highWater <= clock)
    BY FullBounds, Zenon DEF FullInv, Timely
  <2>3. n.highWater = disk.highWater \/ n.highWater = clock
    BY <1>3, Zenon DEF Follows
  <2> QED
    BY <1>1, <2>1, <2>2, <2>3 DEF Timely
<1>8. Orderly
  BY <1>2, Zenon DEF Orderly, Empty, EmptyMap
<1> QED
  BY <1>1, <1>4, <1>5, <1>6, <1>7, <1>8, Zenon DEF FullInv

LEMMA RecoverStopFull ==
    ASSUME Counting, FullInv, IndInv', NEW e \in ExecutionIds, RecoverStop(e)
    PROVE  FullInv' /\ Orderly
<1>1. /\ mem.executions[e].phase = "cancelling" \/ mem.executions[e].leaseUntil <= clock
      /\ recovery' = [recovery EXCEPT !.execution = e, !.at = "stopped"]
      /\ UNCHANGED <<clock, mem, disk, mode, issued, handler, sweep, launched>>
  BY Zenon DEF RecoverStop
<1>2. Restful({})
  BY <1>1, SweepRestful, Zenon
<1>3. recovery'.execution = e
  <2>1. recovery \in RecoveryState
    BY Zenon DEF FullInv, IndInv, TypeOK
  <2> QED
    BY <1>1, <2>1, Zenon DEF RecoveryState
<1>4. Timely'
  <2>1. Timely
    BY Zenon DEF FullInv
  <2> QED
    BY <1>1, <1>3, <2>1, Zenon DEF Timely
<1> QED
  BY <1>1, <1>2, <1>4, ClockStep, Zenon

LEMMA RecoverTaskFull ==
    ASSUME Counting, FullInv, IndInv', NEW e \in ExecutionIds, RecoverTask(e)
    PROVE  FullInv' /\ Orderly
<1>1. /\ \E at \in {"missing", "attached"} :
            recovery' = [recovery EXCEPT !.execution = e, !.at = at]
      /\ UNCHANGED <<clock, mem, disk, mode, issued, handler, sweep, launched>>
  BY Zenon DEF RecoverTask
<1>2. recovery'.at # "stopped"
  <2>1. recovery \in RecoveryState
    BY Zenon DEF FullInv, IndInv, TypeOK
  <2> QED
    BY <1>1, <2>1, Zenon DEF RecoveryState
<1>3. Restful({})
  BY <1>1, SweepRestful, Zenon
<1> QED
  BY <1>1, <1>2, <1>3, IdleStep, Zenon

\* What Recover decides follows from what the snapshot held.
LEMMA RecoveredFollows ==
    ASSUME FullInv, NEW e \in DOMAIN mem.executions, e = recovery.execution,
           recovery.at \in {"stopped", "missing", "attached"}
    PROVE  Follows(mem, Recovered(mem, e, recovery.at), {})
<1> DEFINE x == mem.executions[e]
           r == SetPhase(mem, e, "running", x.leaseExpired)
<1>1. x \in Execution
  BY FullBounds, ExecutionOf, Zenon
<1>2. /\ {"cancelled", "failed"} \subseteq TerminalPhases /\ {TRUE, FALSE} \subseteq BOOLEAN
      /\ ~Terminal("starting") /\ Live("starting") /\ "running" \in Phases
      /\ x.leaseExpired \in BOOLEAN
  BY <1>1, Zenon DEF Terminal, TerminalPhases, Live, Phases, Execution
<1>3. x.phase = "starting" => Follows(mem, r, {})
  BY <1>2, FullBounds, SetPhaseFollows, Zenon
<1>4. Follows(mem, Finish(mem, e, "cancelled", FALSE), {})
      /\ Follows(mem, Finish(mem, e, "failed", FALSE), {})
  BY <1>2, FullBounds, FinishFollows, Zenon
<1>5. recovery.at = "stopped" => Follows(mem, Finish(mem, e, "failed", TRUE), {})
  <2>1. recovery.at = "stopped" /\ Live(x.phase) => ClockRegresses \/ x.leaseUntil <= clock
    BY Zenon DEF FullInv, Timely, Live, Terminal
  <2> QED
    BY <1>2, <2>1, FullBounds, FinishFollows, Zenon
<1>6. recovery.at = "attached" => Recovered(mem, e, recovery.at) \in {mem, r}
  BY Zenon DEF Recovered
<1>7. recovery.at = "missing" =>
        Recovered(mem, e, recovery.at) = Finish(mem, e, "failed", FALSE)
  BY Zenon DEF Recovered
<1>8. recovery.at = "stopped" =>
        Recovered(mem, e, recovery.at) \in {Finish(mem, e, "cancelled", FALSE),
                                            Finish(mem, e, "failed", TRUE)}
  BY Zenon DEF Recovered
<1>9. recovery.at = "attached" /\ x.phase # "starting" => Recovered(mem, e, recovery.at) = mem
  BY Zenon DEF Recovered
<1> QED
  BY <1>3, <1>4, <1>5, <1>6, <1>7, <1>8, <1>9, FullBounds, Zenon

LEMMA RecoverCompleteFull ==
    ASSUME Counting, FullInv, IndInv', RecoverComplete
    PROVE  FullInv' /\ Orderly
<1> DEFINE e == recovery.execution
           n == Recovered(mem, e, recovery.at)
<1>1. /\ recovery.at # "next" /\ mem' = n /\ Persisted
      /\ recovery' = [NotRecovering EXCEPT !.todo = recovery.todo \ {e}]
      /\ UNCHANGED <<clock, mode, issued, handler, sweep, launched>>
  BY Zenon DEF RecoverComplete, Saved, Becomes, Persisted
<1>2. recovery \in RecoveryState /\ RecoveryOK
  BY Zenon DEF FullInv, IndInv, TypeOK
<1>3. /\ recovery.at \in {"stopped", "missing", "attached"} /\ recovery'.at = "next"
      /\ e \in DOMAIN mem.executions /\ mode # "down"
  BY <1>1, <1>2 DEF RecoveryState, RecoveryOK, NotRecovering
<1>4. Follows(mem, n, {})
  BY <1>3, RecoveredFollows, Zenon
<1> HIDE DEF n
<1>5. Restful({})
  BY <1>1, SweepRestful, Zenon
<1>6. Ordinary({})
  BY <1>1, <1>3, <1>4, <1>5, Zenon DEF Ordinary
<1> QED
  BY <1>6, OrdinaryStep, Zenon

LEMMA ServeFull ==
    ASSUME Counting, FullInv, IndInv', Serve
    PROVE  FullInv' /\ Orderly
<1>1. /\ mode' = "up"
      /\ UNCHANGED <<clock, mem, disk, issued, handler, sweep, recovery, launched>>
  BY Zenon DEF Serve
<1>2. Restful({})
  BY <1>1, SweepRestful, Zenon
<1>3. Timely'
  BY <1>1, TimelyStep, Zenon DEF Persisted
<1>4. mode' # "down"
  BY <1>1, Zenon
<1> QED
  BY <1>1, <1>2, <1>3, <1>4, ClockStep, Zenon

\* The empty memory of a process that is down or has just been installed.
LEMMA EmptySound ==
    ASSUME Counting, NEW starts
    PROVE  Sound(Empty, starts) /\ Empty.highWater = 0 /\ DOMAIN Empty.executions = {}
<1>1. /\ DOMAIN Empty.offers = {} /\ DOMAIN Empty.executions = {} /\ DOMAIN Empty.tombstones = {}
      /\ Empty.highWater = 0
  BY Zenon DEF Empty, EmptyMap
<1>2. Cardinality({}) = 0
  BY Zenon DEF Counting
<1>3. /\ \A a : Outstanding(Empty, a) = {} /\ Unfinished(Empty, a) = {}
  BY <1>1, Zenon DEF Outstanding, Unfinished
<1>4. WithinBudget(Empty)
  BY <1>1, <1>2, ConstantsAssumption DEF WithinBudget
<1>5. WithinQuotas(Empty)
  BY <1>2, <1>3, ConstantsAssumption DEF WithinQuotas
<1> QED
  BY <1>1, <1>4, <1>5, Zenon DEF Sound, Unmarked, Unlaunched

LEMMA CrashFull ==
    ASSUME Counting, FullInv, IndInv', Crash
    PROVE  FullInv' /\ Orderly
<1>1. /\ mem' = Empty /\ handler' = [m \in Messages |-> Idle] /\ sweep' = SweepIdle
      /\ recovery' = NotRecovering /\ UNCHANGED <<clock, disk, issued, launched>>
  BY Zenon DEF Crash
<1>2. Sound(mem', launched') /\ mem'.highWater = 0 /\ DOMAIN mem'.executions = {}
  BY <1>1, EmptySound, Zenon
<1>3. Sound(disk', launched')
  BY <1>1, Zenon DEF FullInv
<1>4. /\ SoleStopper' /\ Remembered'
      /\ \A m \in Messages : handler'[m].at = "starting" => handler[m].at = "starting"
  BY <1>1, AllIdle, Zenon
<1>5. Launching' /\ LaunchedOnce'
  BY <1>1, <1>4, LaunchStep, Zenon DEF Persisted
<1>6. Timely'
  <2>1. clock \in Nat /\ Timely
    BY FullBounds, Zenon DEF FullInv
  <2> QED
    BY <1>1, <1>2, <2>1 DEF Timely, NotRecovering
<1>7. Orderly
  BY <1>2, Zenon DEF Orderly
<1> QED
  BY <1>1, <1>2, <1>3, <1>4, <1>5, <1>6, <1>7, Zenon DEF FullInv

LEMMA TimeFull ==
    ASSUME Counting, FullInv, IndInv', Tick \/ SetClockBack
    PROVE  FullInv' /\ Orderly
<1>1. /\ UNCHANGED <<mem, disk, mode, issued, handler, sweep, recovery, launched>>
      /\ clock' = clock + 1 \/ ClockRegresses
  BY Zenon DEF Tick, SetClockBack
<1>2. Restful({})
  BY <1>1, SweepRestful, Zenon
<1>3. Timely'
  <2> SUFFICES ASSUME ~ClockRegresses PROVE Timely'
    BY Zenon DEF Timely
  <2> DEFINE x == mem.executions[recovery.execution]
  <2>1. Timely /\ clock \in Nat /\ mem.highWater \in Nat /\ disk.highWater \in Nat
    <3>1. IsMemory(mem) /\ IsSnapshot(disk) /\ Timely
      BY Zenon DEF FullInv, IndInv, TypeOK
    <3> QED
      BY <3>1, FullBounds, Zenon DEF IsMemory, IsSnapshot
  <2>2. mem'.highWater <= clock' /\ disk'.highWater <= clock'
    BY <1>1, <2>1 DEF Timely
  <2>3. recovery.at = "stopped" => x.leaseUntil \in Nat
    <3>1. RecoveryOK
      BY Zenon DEF FullInv, IndInv
    <3>2. recovery.at = "stopped" => recovery.execution \in DOMAIN mem.executions
      BY <3>1, Zenon DEF RecoveryOK
    <3>3. recovery.at = "stopped" => x \in Execution
      BY <3>2, FullBounds, ExecutionOf, Zenon
    <3> QED
      BY <3>3, Zenon DEF Execution
  <2>4. recovery.at = "stopped" =>
            x.phase = "cancelling" \/ Terminal(x.phase) \/ x.leaseUntil <= clock'
    <3>1. recovery.at = "stopped" =>
            x.phase = "cancelling" \/ Terminal(x.phase) \/ x.leaseUntil <= clock
      BY <2>1, Zenon DEF Timely
    <3> HIDE DEF x
    <3> QED
      BY <1>1, <2>1, <2>3, <3>1
  <2> QED
    BY <1>1, <2>2, <2>4, Zenon DEF Timely
<1>4. mode' = mode
  BY <1>1, Zenon
<1> QED
  BY <1>1, <1>2, <1>3, <1>4, ClockStep, Zenon
=============================================================================
