------------------------------ MODULE Allocator ------------------------------
(***************************************************************************)
(* The allocator of r1s (internal/allocator): it turns client requests     *)
(* into bounded offers, offers into executions, holds each execution for   *)
(* as long as its lease is renewed, and collects what is finished into     *)
(* tombstones.                                                             *)
(*                                                                         *)
(* mem is what Allocator.mu protects; one action is one critical section   *)
(* of that mutex, so a handler that unlocks it around a runtime call is    *)
(* several actions.  disk is the snapshot in the store, written whole.     *)
(* The runtime is reduced to what its interface shows: task is what        *)
(* containerd keeps across a restart of the daemon, entry is the execution *)
(* manager's own record of it, which a crash loses.                        *)
(***************************************************************************)
EXTENDS Naturals, FiniteSets

CONSTANTS
    Clients,         \* authenticated senders
    RequestIds,      \* request IDs a client may use
    Classes,         \* resource classes
    ExecutionIds,    \* execution IDs a client may use
    Messages,        \* the commands that may be delivered, any number of times
    Limit,           \* Limit[c]: capacity of class c
    OfferQuota,      \* outstanding offers per client, 0 for no quota
    ExecutionQuota,  \* live executions per client, 0 for no quota
    MaxRecords,      \* the durable record budget
    ReplayCapacity,  \* entries of the replay cache
    OfferTTL, LeaseTTL, Retention, ReplayTTL,
    CommandHorizon,  \* how long a command stays acceptable, and the longest lease
    FutureSkew,      \* how far ahead of the allocator a command may be stamped
    NoExecution,     \* the empty execution ID
    MaxOffers,       \* bound: offers ever issued
    MaxServing,      \* bound: messages in service at once
    MaxTime,         \* bound: the last instant of the clock
    MaxFaults,       \* bound: crashes, store failures and runtime errors
    ClockRegresses   \* whether the wall clock may be set back

VARIABLES
    clock,     \* the wall clock
    mem,       \* the state behind Allocator.mu
    disk,      \* the last snapshot saved in the store
    mode,      \* "down", "recovering" or "up"
    issued,    \* offer IDs handed out so far are 1..issued
    checked,   \* deliveries between checkFreshness and beginReplay
    handler,   \* the goroutine serving each message, "idle" if there is none
    sweep,     \* the goroutine that runs Sweep
    recovery,  \* the executions Recover still has to visit, and its place
    task,      \* the container of each execution
    entry,     \* the execution manager's entry for each execution
    faults,    \* faults so far
    launched,  \* history: workloads started for each offer
    final,     \* history: the first terminal phase each execution reached
    applied    \* history: how often a renewal changed a lease, counted up to 2

vars == <<clock, mem, disk, mode, issued, checked, handler, sweep, recovery,
          task, entry, faults, launched, final, applied>>

OfferIds == 1 .. MaxOffers

Statuses == {"outstanding", "assigned", "expired", "released"}
TerminalPhases == {"cancelled", "completed", "failed"}
Phases == {"starting", "running", "cancelling"} \cup TerminalPhases

Terminal(phase) == phase \in TerminalPhases
Live(phase) == phase \notin TerminalPhases \cup {"cancelling"}

Kinds == {"request", "assign", "cancel", "renew", "release", "inspect"}

\* A command.  offer is 0 and execution NoExecution where the kind has none.
Message ==
    [id : Nat, kind : Kinds, client : Clients, request : RequestIds,
     class : Classes, offer : Nat, execution : ExecutionIds \cup {NoExecution},
     lease : Nat, sent : Nat]

ASSUME ConstantsAssumption ==
    /\ Messages \subseteq Message
    /\ NoExecution \notin ExecutionIds
    /\ Limit \in [Classes -> Nat]
    /\ {OfferQuota, ExecutionQuota, MaxRecords, ReplayCapacity} \subseteq Nat
    /\ {OfferTTL, LeaseTTL, ReplayTTL, CommandHorizon, FutureSkew} \subseteq Nat
    /\ {MaxOffers, MaxServing, MaxTime, MaxFaults} \subseteq Nat
    /\ Retention \in 0 .. CommandHorizon
    /\ ClockRegresses \in BOOLEAN

ASSUME MessagesAssumption ==
    \A m \in Messages :
        m.kind \in {"assign", "cancel", "renew", "inspect"} => m.execution \in ExecutionIds

-----------------------------------------------------------------------------
(* The records of the maps.                                                *)

Offer ==
    [status : Statuses, client : Clients, request : RequestIds, class : Classes,
     expiresAt : Nat, execution : ExecutionIds \cup {NoExecution}]

\* leaseExpired: the detail is protocol.LeaseExpiredDetail.
Execution ==
    [phase : Phases, leaseExpired : BOOLEAN, offer : OfferIds, client : Clients,
     request : RequestIds, class : Classes, released : BOOLEAN, revision : Nat,
     retainUntil : Nat, leaseUntil : Nat]

Tombstone ==
    [client : Clients, request : RequestIds,
     execution : ExecutionIds \cup {NoExecution}, expiresAt : Nat,
     cleanupPending : BOOLEAN]

ReplayEntry == [seenAt : Nat, done : BOOLEAN]

IsMap(f, S, T) == DOMAIN f \subseteq S /\ f \in [DOMAIN f -> T]

Put(f, x, v) == [y \in DOMAIN f \cup {x} |-> IF y = x THEN v ELSE f[y]]
Drop(f, X) == [y \in DOMAIN f \ X |-> f[y]]

Later(s, t) == IF s > t THEN s ELSE t
Monus(n, k) == IF n >= k THEN n - k ELSE 0

Key(r) == <<r.client, r.request>>

-----------------------------------------------------------------------------
(* Operators on the memory s, one per method that runs under the mutex.    *)

\* The offers that hold a slot of class c in the ledger.
Holders(offers, executions, c) ==
    {o \in DOMAIN offers :
        /\ offers[o].class = c
        /\ \/ offers[o].status = "outstanding"
           \/ /\ offers[o].status = "assigned"
              /\ ~executions[offers[o].execution].released}

\* capacityLedger.release, n times.
Release(s, c, n) == [s EXCEPT !.used[c] = Monus(@, n)]

\* Mutant: an offer expires an instant late.
StaleOffersLate(s, t) ==
    {o \in DOMAIN s.offers :
        s.offers[o].status = "outstanding" /\ s.offers[o].expiresAt < t}

StaleOffers(s, t) ==
    {o \in DOMAIN s.offers :
        s.offers[o].status = "outstanding" /\ s.offers[o].expiresAt <= t}

ExpireOffers(s, t) ==
    LET stale == StaleOffers(s, t) IN
    [s EXCEPT
        !.offers = [o \in DOMAIN s.offers |->
            IF o \in stale THEN [s.offers[o] EXCEPT !.status = "expired"]
                           ELSE s.offers[o]],
        !.used = [c \in Classes |->
            Monus(s.used[c], Cardinality({o \in stale : s.offers[o].class = c}))]]

\* effectiveNowLocked: the high-water mark never moves back.
AdvanceHighWater(s) == [s EXCEPT !.highWater = Later(@, clock)]

\* Mutant: the revision is not counted up.
TransitionUnnumbered(x, phase, leaseExpired) ==
    [x EXCEPT !.phase = phase, !.leaseExpired = leaseExpired]

\* The record x after transitionExecution.
Transition(x, phase, leaseExpired) ==
    [x EXCEPT !.phase = phase, !.leaseExpired = leaseExpired, !.revision = @ + 1]

Ended(x, phase, leaseExpired, retainUntil) ==
    [Transition(x, phase, leaseExpired) EXCEPT !.released = TRUE, !.retainUntil = retainUntil]

\* Mutant: the slot of a finished execution is not returned.
FinishLeaking(s, e, phase, leaseExpired) ==
    LET x == s.executions[e]
        done == Ended(x, phase, leaseExpired, Later(clock, s.highWater) + Retention)
    IN  [s EXCEPT !.executions = [@ EXCEPT ![e] = done]]

\* finishLocked.
Finish(s, e, phase, leaseExpired) ==
    LET x == s.executions[e]
        done == Ended(x, phase, leaseExpired, Later(clock, s.highWater) + Retention)
        f == [s EXCEPT !.executions = [@ EXCEPT ![e] = done]]
    IN  IF x.released THEN f ELSE Release(f, x.class, 1)

SetPhase(s, e, phase, leaseExpired) ==
    LET x == Transition(s.executions[e], phase, leaseExpired) IN
    [s EXCEPT !.executions = [@ EXCEPT ![e] = x]]

\* What counts against the quotas of a client.
Outstanding(s, client) ==
    {o \in DOMAIN s.offers :
        s.offers[o].status = "outstanding" /\ s.offers[o].client = client}

Unfinished(s, client) ==
    {e \in DOMAIN s.executions :
        ~Terminal(s.executions[e].phase) /\ s.executions[e].client = client}

\* Mutant: the quota is compared with <=.
AdmittedOneMore(s, client, assigning) ==
    IF assigning
    THEN ExecutionQuota = 0 \/ Cardinality(Unfinished(s, client)) <= ExecutionQuota
    ELSE OfferQuota = 0 \/ Cardinality(Outstanding(s, client)) <= OfferQuota

\* admitLocked.
Admitted(s, client, assigning) ==
    IF assigning
    THEN ExecutionQuota = 0 \/ Cardinality(Unfinished(s, client)) < ExecutionQuota
    ELSE OfferQuota = 0 \/ Cardinality(Outstanding(s, client)) < OfferQuota

\* Mutant: an entry is dropped by age while its handler is still running.
PruneOpen(s, t) ==
    LET old == {m \in DOMAIN s.entries : s.entries[m].seenAt + ReplayTTL <= t}
    IN  [s EXCEPT !.entries = Drop(@, old)]

\* The replay cache: prune, and the outcomes of evict.
Prune(s, t) ==
    LET old == {m \in DOMAIN s.entries :
                    s.entries[m].done /\ s.entries[m].seenAt + ReplayTTL <= t}
    IN  [s EXCEPT !.entries = Drop(@, old)]

\* Mutant: the oldest entries are evicted, whether or not they are done.
EvictableOpen(s, n) ==
    LET excess == Monus(Cardinality(DOMAIN s.entries), n)
    IN  {X \in SUBSET DOMAIN s.entries :
            /\ Cardinality(X) = excess
            /\ \A m \in X, k \in DOMAIN s.entries \ X :
                    s.entries[m].seenAt <= s.entries[k].seenAt}

Evictable(s, n) ==
    LET done == {m \in DOMAIN s.entries : s.entries[m].done}
        excess == Monus(Cardinality(DOMAIN s.entries), n)
        quota == IF excess <= Cardinality(done) THEN excess ELSE Cardinality(done)
    IN  {X \in SUBSET done :
            /\ Cardinality(X) = quota
            /\ \A m \in X, k \in done \ X : s.entries[m].seenAt <= s.entries[k].seenAt}

\* What persistLocked saves.  loadLocked skips the entries that are not
\* complete, so the snapshot holds only the others.
Snapshot(s) ==
    [offers |-> s.offers, executions |-> s.executions,
     tombstones |-> s.tombstones, highWater |-> s.highWater,
     entries |-> Drop(s.entries, {m \in DOMAIN s.entries : ~s.entries[m].done})]

\* What loadLocked rebuilds from the snapshot d at time t.
Load(d, t) ==
    LET s == ExpireOffers(
                [offers |-> d.offers, executions |-> d.executions,
                 requests |-> [k \in {Key(d.offers[o]) : o \in DOMAIN d.offers} |->
                                CHOOSE o \in DOMAIN d.offers : Key(d.offers[o]) = k],
                 tombstones |-> d.tombstones, used |-> [c \in Classes |-> 0],
                 highWater |-> d.highWater, entries |-> d.entries], t)
    IN  [s EXCEPT !.used = [c \in Classes |-> Cardinality(Holders(s.offers, s.executions, c))]]

EmptyMap == [x \in {} |-> x]

Empty ==
    [offers |-> EmptyMap, requests |-> EmptyMap, executions |-> EmptyMap,
     tombstones |-> EmptyMap, used |-> [c \in Classes |-> 0], highWater |-> 0,
     entries |-> EmptyMap]

NoPhase == [phase |-> "starting", leaseExpired |-> FALSE]
Idle == [at |-> "idle", was |-> NoPhase]
SweepIdle == [at |-> "idle", execution |-> NoExecution, was |-> NoPhase, todo |-> {}]
NotRecovering == [todo |-> {}, at |-> "next", execution |-> NoExecution]

\* The allocator starts for the first time at t, after n faults.
InitAt(t, n) ==
    /\ clock = t
    /\ mem = Empty
    /\ disk = Snapshot(Empty)
    /\ mode = "up"
    /\ issued = 0
    /\ checked = {}
    /\ handler = [m \in Messages |-> Idle]
    /\ sweep = SweepIdle
    /\ recovery = NotRecovering
    /\ task = [e \in ExecutionIds |-> "none"]
    /\ entry = [e \in ExecutionIds |-> "none"]
    /\ faults = n
    /\ launched = [o \in OfferIds |-> 0]
    /\ final = [e \in ExecutionIds |-> "none"]
    /\ applied = [m \in Messages |-> 0]

Init == InitAt(0, 0)

-----------------------------------------------------------------------------
(* Saving.  Saved: persistLocked succeeds.  SaveFails: it fails, and s is  *)
(* what the caller leaves in memory, rolled back or not.                   *)

Fault == faults < MaxFaults /\ faults' = faults + 1

\* final remembers the first terminal phase that an execution shows in memory,
\* until the execution is collected.
Becomes(s) ==
    /\ mem' = s
    /\ final' = [e \in ExecutionIds |->
            IF e \notin DOMAIN s.executions THEN "none"
            ELSE IF final[e] = "none" /\ Terminal(s.executions[e].phase)
                 THEN s.executions[e].phase ELSE final[e]]

Saved(s) == Becomes(s) /\ disk' = Snapshot(s) /\ UNCHANGED faults

SaveFails(s) == Becomes(s) /\ UNCHANGED disk /\ Fault

\* The caller keeps s in memory whether or not it is saved.
SavedOrNot(s) == Saved(s) \/ SaveFails(s)

Unsaved(s) == Becomes(s) /\ UNCHANGED <<disk, faults>>

Goto(m, at) == handler' = [handler EXCEPT ![m] = [Idle EXCEPT !.at = at]]

-----------------------------------------------------------------------------
(* Handle: freshness, then the replay cache, then the handler.             *)

Target(m) ==
    IF m.kind \in {"assign", "cancel", "renew", "inspect"} THEN m.execution ELSE NoExecution

Fresh(s, m) ==
    LET now == s.highWater  e == Target(m) IN
    /\ m.sent + CommandHorizon >= now
    /\ m.sent <= now + FutureSkew
    /\ ~ /\ e \in DOMAIN s.executions
         /\ s.executions[e].client = m.client
         /\ Terminal(s.executions[e].phase)
         /\ s.executions[e].retainUntil <= now
    /\ ~ \E o \in DOMAIN s.tombstones :
            /\ s.tombstones[o].execution # NoExecution
            /\ s.tombstones[o].execution = e
            /\ s.tombstones[o].client = m.client

\* A copy of m arrives.  A command that names an offer is only sent by a
\* client that received it.
CheckFreshness(m) ==
    LET s == AdvanceHighWater(mem) IN
    /\ mode = "up"
    /\ m \notin checked
    /\ Cardinality(checked \cup {k \in Messages : handler[k].at # "idle"}) < MaxServing
    /\ m.offer <= issued
    /\ Unsaved(s)
    /\ checked' = IF Fresh(s, m) THEN checked \cup {m} ELSE checked
    /\ UNCHANGED <<clock, mode, issued, handler, sweep, recovery, task, entry, launched, applied>>

\* A duplicate takes no handler: it waits for the entry of the first copy.
BeginReplay(m) ==
    LET s == Prune(ExpireOffers(mem, clock), clock) IN
    /\ m \in checked
    /\ checked' = checked \ {m}
    /\ IF m \in DOMAIN s.entries
       THEN Unsaved(s) /\ UNCHANGED handler
       ELSE \E X \in Evictable(s, Monus(ReplayCapacity, 1)) :
            LET r == [s EXCEPT !.entries = Drop(@, X)]
                n == [seenAt |-> clock, done |-> FALSE]
                b == [r EXCEPT !.entries = Put(@, m, n)]
            IN  \/ /\ Cardinality(DOMAIN r.entries) >= ReplayCapacity
                   /\ Unsaved(r) /\ UNCHANGED handler
                \/ /\ Cardinality(DOMAIN r.entries) < ReplayCapacity
                   /\ \/ Saved(b) /\ Goto(m, "begun")
                      \/ SaveFails(r) /\ UNCHANGED handler
    /\ UNCHANGED <<clock, mode, issued, sweep, recovery, task, entry, launched, applied>>

\* finishReplay: the entry is complete in memory even if it is not saved.
FinishReplay(m) ==
    LET s == [mem EXCEPT !.entries[m].done = TRUE] IN
    /\ handler[m].at = "applied"
    /\ \E X \in Evictable(s, ReplayCapacity) :
            SavedOrNot([s EXCEPT !.entries = Drop(@, X)])
    /\ Goto(m, "idle")
    /\ UNCHANGED <<clock, mode, issued, checked, sweep, recovery, task, entry, launched, applied>>

-----------------------------------------------------------------------------
(* The handlers.  A handler that returns early leaves in memory what it    *)
(* expired on the way.  Placement, profiles and allowed clients are        *)
(* configuration the model does not look into: a request or an assignment  *)
(* may always be refused.                                                  *)

Begun(m, kind) == handler[m].at = "begun" /\ m.kind = kind

\* Mutant: the record budget forgets the tombstones.
OfferableUnbudgeted(s, m) ==
    /\ Key(m) \notin DOMAIN s.requests
    /\ \A o \in DOMAIN s.tombstones : Key(s.tombstones[o]) # Key(m)
    /\ 2 * Cardinality(DOMAIN s.offers) + 2 <= MaxRecords
    /\ Admitted(s, m.client, FALSE)
    /\ s.used[m.class] < Limit[m.class]

\* handleRequest makes a new offer only for a request it does not know.
Offerable(s, m) ==
    /\ Key(m) \notin DOMAIN s.requests
    /\ \A o \in DOMAIN s.tombstones : Key(s.tombstones[o]) # Key(m)
    /\ 2 * Cardinality(DOMAIN s.offers) + Cardinality(DOMAIN s.tombstones) + 2 <= MaxRecords
    /\ Admitted(s, m.client, FALSE)
    /\ s.used[m.class] < Limit[m.class]

MakeOffer(s, m, o) ==
    LET offer == [status |-> "outstanding", client |-> m.client, request |-> m.request,
                  class |-> m.class, expiresAt |-> clock + OfferTTL,
                  execution |-> NoExecution]
    IN  [s EXCEPT !.offers = Put(@, o, offer), !.requests = Put(@, Key(m), o),
                  !.used[m.class] = @ + 1]

HandleRequest(m) ==
    LET s == ExpireOffers(mem, clock)  o == issued + 1 IN
    /\ Begun(m, "request")
    /\ \/ Unsaved(s) /\ UNCHANGED issued
       \/ /\ Offerable(s, m)
          /\ issued < MaxOffers
          /\ \/ Saved(MakeOffer(s, m, o)) /\ issued' = o
             \/ SaveFails(s) /\ UNCHANGED issued
    /\ Goto(m, "applied")
    /\ UNCHANGED <<clock, mode, checked, sweep, recovery, task, entry, launched, applied>>

Assignable(s, m) ==
    /\ m.offer \in DOMAIN s.offers
    /\ Key(s.offers[m.offer]) = Key(m)
    /\ s.offers[m.offer].status = "outstanding"
    /\ m.execution \notin DOMAIN s.executions
    /\ Admitted(s, m.client, TRUE)

MakeExecution(s, m) ==
    LET record == [phase |-> "starting", leaseExpired |-> FALSE, offer |-> m.offer,
                   client |-> m.client, request |-> m.request,
                   class |-> s.offers[m.offer].class, released |-> FALSE,
                   revision |-> 1, retainUntil |-> 0, leaseUntil |-> clock + LeaseTTL]
    IN  [s EXCEPT !.executions = Put(@, m.execution, record),
                  !.offers[m.offer] = [@ EXCEPT !.status = "assigned",
                                                !.execution = m.execution]]

\* handleAssign up to the call of runtime.Start.
HandleAssign(m) ==
    LET s == ExpireOffers(mem, clock) IN
    /\ Begun(m, "assign")
    /\ \/ Unsaved(s) /\ Goto(m, "applied")
       \/ /\ Assignable(s, m)
          /\ \/ Saved(MakeExecution(s, m)) /\ Goto(m, "starting")
             \/ SaveFails(s) /\ Goto(m, "applied")
    /\ UNCHANGED <<clock, mode, issued, checked, sweep, recovery, task, entry, launched, applied>>

\* handleAssign after runtime.Start: only an execution that is still STARTING
\* takes the outcome.
AssignComplete(m) ==
    LET e == m.execution  phase == mem.executions[e].phase IN
    /\ handler[m].at \in {"started", "startFailed"}
    /\ SavedOrNot(
            IF phase # "starting" THEN mem
            ELSE IF handler[m].at = "started"
                 THEN SetPhase(mem, e, "running", mem.executions[e].leaseExpired)
                 ELSE Finish(mem, e, "failed", FALSE))
    /\ Goto(m, "applied")
    /\ UNCHANGED <<clock, mode, issued, checked, sweep, recovery, task, entry, launched, applied>>

Owned(s, m) ==
    m.execution \in DOMAIN s.executions /\ s.executions[m.execution].client = m.client

\* Mutant: an execution that is CANCELLING is cancelled again.
StoppableTwice(s, m) == Owned(s, m) /\ ~Terminal(s.executions[m.execution].phase)

\* handleCancel stops an execution that is neither over nor being stopped.
Stoppable(s, m) == Owned(s, m) /\ Live(s.executions[m.execution].phase)

\* handleCancel up to the call of runtime.Stop.
HandleCancel(m) ==
    LET e == m.execution  x == mem.executions[e] IN
    /\ Begun(m, "cancel")
    /\ IF Stoppable(mem, m)
       THEN \/ /\ Saved(SetPhase(mem, e, "cancelling", FALSE))
               /\ handler' = [handler EXCEPT ![m] =
                    [at |-> "stopping",
                     was |-> [phase |-> x.phase, leaseExpired |-> x.leaseExpired]]]
            \/ SaveFails(mem) /\ Goto(m, "applied")
       ELSE Unsaved(mem) /\ Goto(m, "applied")
    /\ UNCHANGED <<clock, mode, issued, checked, sweep, recovery, task, entry, launched, applied>>

\* Mutant: a phase reached in the meantime is overwritten.
RestoreAlways(s, e, was) == SetPhase(s, e, was.phase, was.leaseExpired)

\* Mutant: a failed Stop leaves the execution CANCELLING.
RestoreNothing(s, e, was) == s

\* A failed Stop gives back the phase the execution had before, unless it
\* has moved on in the meantime.
Restore(s, e, was) ==
    IF s.executions[e].phase = "cancelling"
    THEN SetPhase(s, e, was.phase, was.leaseExpired) ELSE s

CancelComplete(m) ==
    LET e == m.execution IN
    /\ handler[m].at \in {"stopped", "stopFailed"}
    /\ SavedOrNot(
            IF handler[m].at = "stopFailed" THEN Restore(mem, e, handler[m].was)
            ELSE IF Terminal(mem.executions[e].phase) THEN mem
            ELSE Finish(mem, e, "cancelled", FALSE))
    /\ Goto(m, "applied")
    /\ UNCHANGED <<clock, mode, issued, checked, sweep, recovery, task, entry, launched, applied>>

\* handleLeaseRenew.
HandleLeaseRenew(m) ==
    LET e == m.execution IN
    /\ Begun(m, "renew")
    /\ IF Owned(mem, m) /\ Live(mem.executions[e].phase) /\ m.lease <= CommandHorizon
       THEN \/ /\ Saved([mem EXCEPT !.executions[e].leaseUntil = clock + m.lease])
               /\ applied' = [applied EXCEPT ![m] = IF @ < 2 THEN @ + 1 ELSE @]
            \/ SaveFails(mem) /\ UNCHANGED applied
       ELSE Unsaved(mem) /\ UNCHANGED applied
    /\ Goto(m, "applied")
    /\ UNCHANGED <<clock, mode, issued, checked, sweep, recovery, task, entry, launched>>

\* handleOfferRelease.
HandleOfferRelease(m) ==
    LET o == m.offer
        status == IF mem.offers[o].expiresAt <= clock THEN "expired" ELSE "released"
        r == [mem EXCEPT !.offers[o].status = status]
    IN
    /\ Begun(m, "release")
    /\ IF o \in DOMAIN mem.offers /\ Key(mem.offers[o]) = Key(m)
          /\ mem.offers[o].status = "outstanding"
       THEN Saved(Release(r, mem.offers[o].class, 1)) \/ SaveFails(mem)
       ELSE Unsaved(mem)
    /\ Goto(m, "applied")
    /\ UNCHANGED <<clock, mode, issued, checked, sweep, recovery, task, entry, launched, applied>>

\* handleInspect only reads.
HandleInspect(m) ==
    /\ Begun(m, "inspect")
    /\ Unsaved(mem)
    /\ Goto(m, "applied")
    /\ UNCHANGED <<clock, mode, issued, checked, sweep, recovery, task, entry, launched, applied>>

-----------------------------------------------------------------------------
(* The runtime, as its callers see it.                                     *)

\* Mutant: a start that does not answer in time is tried again, and the execution
\* manager does not look for an entry of the same ID.
RuntimeStartRetried(m) ==
    LET e == m.execution IN
    /\ handler[m].at = "starting"
    /\ task' = [task EXCEPT ![e] = "running"]
    /\ entry' = [entry EXCEPT ![e] = "active"]
    /\ launched' = [launched EXCEPT ![m.offer] = @ + 1]
    /\ \E place \in {"starting", "started"} : Goto(m, place)
    /\ UNCHANGED <<clock, mem, disk, mode, issued, checked, sweep, recovery, faults, final,
                   applied>>

\* runtime.Start of the assignment m.  Two assignments differ in client, run or
\* attempt and so in fingerprint: the execution manager refuses an ID that it
\* still knows, containerd a container that is still there.
RuntimeStart(m) ==
    LET e == m.execution IN
    /\ handler[m].at = "starting"
    /\ \/ /\ entry[e] = "none" /\ task[e] = "none"
          /\ task' = [task EXCEPT ![e] = "running"]
          /\ entry' = [entry EXCEPT ![e] = "active"]
          /\ launched' = [launched EXCEPT ![m.offer] = @ + 1]
          /\ Goto(m, "started")
          /\ UNCHANGED faults
       \/ /\ IF entry[e] = "none" /\ task[e] = "none" THEN Fault ELSE UNCHANGED faults
          /\ Goto(m, "startFailed")
          /\ UNCHANGED <<task, entry, launched>>
    /\ UNCHANGED <<clock, mem, disk, mode, issued, checked, sweep, recovery, final, applied>>

\* executionManager.stop succeeds.  Without an entry it asks containerd, where
\* a missing container counts as stopped; an entry that is done stays.
StopTask(e) ==
    /\ task' = [task EXCEPT ![e] = IF entry[e] \in {"none", "active"} THEN "none" ELSE @]
    /\ entry' = [entry EXCEPT ![e] = IF @ = "active" THEN "done" ELSE @]

\* executionManager.stop fails: the kill, or the cleanup of what it killed, or
\* the kill while the monitor takes an exit for the stop's and does not report it.
StopFails(e) ==
    \/ UNCHANGED <<task, entry>>
    \/ /\ task[e] # "none" /\ entry[e] \in {"none", "active"}
       /\ task' = [task EXCEPT ![e] = "exited"]
       /\ entry' = [entry EXCEPT ![e] = IF @ = "active" THEN "failed" ELSE @]
    \/ task[e] = "exited" /\ entry[e] = "active" /\ StopTask(e)

RuntimeStop(m) ==
    /\ handler[m].at = "stopping"
    /\ \/ /\ StopTask(m.execution)
          /\ handler' = [handler EXCEPT ![m].at = "stopped"]
          /\ UNCHANGED faults
       \/ /\ Fault
          /\ StopFails(m.execution)
          /\ handler' = [handler EXCEPT ![m].at = "stopFailed"]
    /\ UNCHANGED <<clock, mem, disk, mode, issued, checked, sweep, recovery,
                   launched, final, applied>>

TaskExit(e) ==
    /\ task[e] = "running"
    /\ task' = [task EXCEPT ![e] = "exited"]
    /\ UNCHANGED <<clock, mem, disk, mode, issued, checked, handler, sweep, recovery,
                   entry, faults, launched, final, applied>>

\* The monitor of the execution manager reports an exit, and cleans up if the
\* allocator accepts it.  Without a cleanup the entry cannot be forgotten.
RuntimeCompleted(e, phase) ==
    LET refused == entry' = [entry EXCEPT ![e] = "failed"] /\ UNCHANGED task
        accepted ==
            \/ task' = [task EXCEPT ![e] = "none"] /\ entry' = [entry EXCEPT ![e] = "done"]
            \/ refused
    IN
    /\ task[e] = "exited" /\ entry[e] = "active"
    /\ IF e \notin DOMAIN mem.executions
       THEN Unsaved(mem) /\ refused
       ELSE IF Terminal(mem.executions[e].phase)
       THEN /\ Unsaved(mem)
            /\ IF mem.executions[e].phase = phase THEN accepted ELSE refused
       ELSE \/ Saved(Finish(mem, e, phase, FALSE)) /\ accepted
            \/ SaveFails(mem) /\ refused
    /\ UNCHANGED <<clock, mode, issued, checked, handler, sweep, recovery, launched, applied>>

-----------------------------------------------------------------------------
(* Sweep: evict the expired leases one by one, collect, clean up.          *)

\* Mutant: a lease is taken as expired one instant early.
ExpiredLeasesEarly(s) ==
    {e \in DOMAIN s.executions :
        Live(s.executions[e].phase) /\ s.executions[e].leaseUntil <= s.highWater + 1}

ExpiredLeases(s) ==
    {e \in DOMAIN s.executions :
        Live(s.executions[e].phase) /\ s.executions[e].leaseUntil <= s.highWater}

\* nextExpiredLeaseLocked and beginEvictionLocked.
BeginEviction(e) ==
    LET s == AdvanceHighWater(mem)  x == s.executions[e] IN
    /\ mode = "up" /\ sweep.at = "idle"
    /\ e \in ExpiredLeases(s)
    /\ \/ /\ Saved(SetPhase(s, e, "cancelling", TRUE))
          /\ sweep' = [sweep EXCEPT !.at = "stopping", !.execution = e,
                        !.was = [phase |-> x.phase, leaseExpired |-> x.leaseExpired]]
       \/ SaveFails(s) /\ sweep' = [SweepIdle EXCEPT !.at = "collect"]
    /\ UNCHANGED <<clock, mode, issued, checked, handler, recovery, task, entry, launched, applied>>

\* EvictExpiredLeases finds no expired lease.
EndEvictions ==
    LET s == AdvanceHighWater(mem) IN
    /\ mode = "up" /\ sweep.at = "idle"
    /\ ExpiredLeases(s) = {}
    /\ Unsaved(s)
    /\ sweep' = [SweepIdle EXCEPT !.at = "collect"]
    /\ UNCHANGED <<clock, mode, issued, checked, handler, recovery, task, entry, launched, applied>>

SweepStop ==
    /\ sweep.at = "stopping"
    /\ \/ /\ StopTask(sweep.execution)
          /\ sweep' = [sweep EXCEPT !.at = "stopped"]
          /\ UNCHANGED faults
       \/ /\ Fault
          /\ StopFails(sweep.execution)
          /\ sweep' = [sweep EXCEPT !.at = "stopFailed"]
    /\ UNCHANGED <<clock, mem, disk, mode, issued, checked, handler, recovery,
                   launched, final, applied>>

\* completeEviction after Stop.  An error ends the evictions of this sweep.
CompleteEviction ==
    LET e == sweep.execution
        s == IF Terminal(mem.executions[e].phase) THEN mem ELSE Finish(mem, e, "failed", TRUE)
    IN
    /\ \/ /\ sweep.at = "stopFailed"
          /\ SavedOrNot(Restore(mem, e, sweep.was))
          /\ sweep' = [SweepIdle EXCEPT !.at = "collect"]
       \/ /\ sweep.at = "stopped"
          /\ \/ Saved(s) /\ sweep' = SweepIdle
             \/ SaveFails(s) /\ sweep' = [SweepIdle EXCEPT !.at = "collect"]
    /\ UNCHANGED <<clock, mode, issued, checked, handler, recovery, task, entry, launched, applied>>

\* Mutant: a cancellation in flight does not protect its execution.
BusyAssigning(s) ==
    {Key(m) : m \in {k \in DOMAIN s.entries :
                        ~s.entries[k].done /\ k.kind \in {"request", "assign"}}}

\* The requests a handler is working on: their records are not collected.
Busy(s) ==
    LET inFlight == {m \in DOMAIN s.entries : ~s.entries[m].done} IN
    {Key(m) : m \in {k \in inFlight : k.kind \in {"request", "assign"}}}
        \cup {Key(s.executions[m.execution]) :
                m \in {k \in inFlight : k.kind = "cancel" /\ k.execution \in DOMAIN s.executions}}

Collectable(s) ==
    {o \in DOMAIN s.offers :
        /\ Key(s.offers[o]) \notin Busy(s)
        /\ \/ s.offers[o].status \in {"expired", "released"}
           \/ /\ s.offers[o].status = "assigned"
              /\ s.offers[o].execution \in DOMAIN s.executions
              /\ Terminal(s.executions[s.offers[o].execution].phase)
              /\ s.executions[s.offers[o].execution].retainUntil <= s.highWater}

\* Mutant: the executions go and their offers stay.
RetireExecutions(s, X) ==
    [s EXCEPT !.executions = Drop(@, {s.offers[o].execution : o \in X})]

\* The offers of X and all they own become tombstones.
Retire(s, X) ==
    LET dead(o) == [client |-> s.offers[o].client, request |-> s.offers[o].request,
                    execution |-> s.offers[o].execution,
                    expiresAt |-> s.highWater + CommandHorizon,
                    cleanupPending |-> s.offers[o].execution # NoExecution]
    IN  [s EXCEPT
            !.offers = Drop(@, X),
            !.requests = Drop(@, {Key(s.offers[o]) : o \in X}),
            !.executions = Drop(@, {s.offers[o].execution : o \in X}),
            !.tombstones = [o \in DOMAIN @ \cup X |-> IF o \in X THEN dead(o) ELSE @[o]]]

\* Expired tombstones go, and so do the replay entries of retired work.
Bury(s) ==
    LET expired == {o \in DOMAIN s.tombstones :
                        /\ ~s.tombstones[o].cleanupPending
                        /\ s.tombstones[o].expiresAt <= s.highWater}
        retired == {Key(s.tombstones[o]) : o \in DOMAIN s.tombstones}
        gone == {m \in DOMAIN s.entries :
                    /\ s.entries[m].done
                    /\ \/ m.kind \in {"request", "assign"} /\ Key(m) \in retired
                       \/ /\ m.kind \in {"cancel", "inspect", "renew"}
                          /\ m.execution \notin DOMAIN s.executions}
    IN  [s EXCEPT !.tombstones = Drop(@, expired), !.entries = Drop(@, gone)]

\* The critical section of Sweep, once EvictExpiredLeases found nothing more or
\* gave up.  A failed save undoes all of it.
Collect ==
    \E hw \in {AdvanceHighWater(mem)} :
    \E p \in {Prune(ExpireOffers(hw, hw.highWater), hw.highWater)} :
    \E q \in {Retire(p, Collectable(p))} :
    \E s \in {Bury(q)} :
        LET pending == {o \in DOMAIN s.tombstones : s.tombstones[o].cleanupPending} IN
        /\ sweep.at = "collect"
        /\ \/ /\ Saved(s)
              /\ sweep' = [SweepIdle EXCEPT !.at = IF pending = {} THEN "idle" ELSE "clean",
                                            !.todo = pending]
           \/ SaveFails(mem) /\ sweep' = SweepIdle
        /\ UNCHANGED <<clock, mode, issued, checked, handler, recovery, task, entry,
                       launched, applied>>

\* Forget the execution of a pending tombstone and remove its logs.  The
\* runtime refuses while the execution is active or its report failed.
Cleanup(o) ==
    LET e == mem.tombstones[o].execution
        s == [mem EXCEPT !.tombstones[o].cleanupPending = FALSE]
        rest == sweep.todo \ {o}
    IN
    /\ sweep.at = "clean" /\ o \in sweep.todo
    /\ \/ /\ entry[e] \in {"none", "done"}
          /\ entry' = [entry EXCEPT ![e] = "none"]
          /\ \/ Saved(s)
             \/ SaveFails(mem)
       \/ /\ entry[e] \in {"active", "failed"}
          /\ Unsaved(mem) /\ UNCHANGED entry
    /\ sweep' = IF rest = {} THEN SweepIdle ELSE [sweep EXCEPT !.todo = rest]
    /\ UNCHANGED <<clock, mode, issued, checked, handler, recovery, task, launched, applied>>

-----------------------------------------------------------------------------
(* Crash, restart and Recover.  Where Recover returns an error the daemon  *)
(* exits, which is a Crash.                                                *)

Crash ==
    /\ mode # "down"
    /\ Fault
    /\ mode' = "down"
    /\ mem' = Empty
    /\ checked' = {}
    /\ handler' = [m \in Messages |-> Idle]
    /\ sweep' = SweepIdle
    /\ recovery' = NotRecovering
    /\ entry' = [e \in ExecutionIds |-> "none"]
    /\ UNCHANGED <<clock, disk, issued, task, launched, final, applied>>

Restart ==
    LET s == Load(disk, clock) IN
    /\ mode = "down"
    /\ mode' = "recovering"
    /\ Unsaved(s)
    /\ recovery' = [NotRecovering EXCEPT !.todo =
            {e \in DOMAIN s.executions : ~Terminal(s.executions[e].phase)}]
    /\ UNCHANGED <<clock, issued, checked, handler, sweep, task, entry, launched, applied>>

\* An interrupted cancellation or eviction resumes, and a lease that ran out
\* while the allocator was down evicts: runtime.Stop.
RecoverStop(e) ==
    LET x == mem.executions[e] IN
    /\ recovery.at = "next" /\ e \in recovery.todo
    /\ x.phase = "cancelling" \/ x.leaseUntil <= clock
    /\ StopTask(e)
    /\ recovery' = [recovery EXCEPT !.execution = e, !.at = "stopped"]
    /\ UNCHANGED <<clock, mem, disk, mode, issued, checked, handler, sweep, faults,
                   launched, final, applied>>

\* recoverer.Recover attaches a monitor to a container that is still there.
RecoverTask(e) ==
    LET x == mem.executions[e] IN
    /\ recovery.at = "next" /\ e \in recovery.todo
    /\ x.phase # "cancelling" /\ x.leaseUntil > clock
    /\ recovery' = [recovery EXCEPT !.execution = e,
                        !.at = IF task[e] = "none" THEN "missing" ELSE "attached"]
    /\ entry' = [entry EXCEPT ![e] = IF task[e] = "none" THEN @ ELSE "active"]
    /\ UNCHANGED <<clock, mem, disk, mode, issued, checked, handler, sweep, task, faults,
                   launched, final, applied>>

\* What Recover makes of execution e.  The detail tells an interrupted eviction
\* from an interrupted cancellation.
Recovered(s, e, at) ==
    LET x == s.executions[e] IN
    CASE at = "attached" -> IF x.phase = "starting" THEN SetPhase(s, e, "running", x.leaseExpired)
                            ELSE s
      [] at = "missing" -> Finish(s, e, "failed", FALSE)
      [] at = "stopped" -> IF x.phase = "cancelling" /\ ~x.leaseExpired
                           THEN Finish(s, e, "cancelled", FALSE)
                           ELSE Finish(s, e, "failed", TRUE)

RecoverComplete ==
    LET e == recovery.execution IN
    /\ recovery.at # "next"
    /\ Saved(Recovered(mem, e, recovery.at))
    /\ recovery' = [NotRecovering EXCEPT !.todo = recovery.todo \ {e}]
    /\ UNCHANGED <<clock, mode, issued, checked, handler, sweep, task, entry, launched, applied>>

Serve ==
    /\ mode = "recovering" /\ recovery = NotRecovering
    /\ mode' = "up"
    /\ UNCHANGED <<clock, mem, disk, issued, checked, handler, sweep, recovery, task, entry,
                   faults, launched, final, applied>>

Tick ==
    /\ clock < MaxTime
    /\ clock' = clock + 1
    /\ UNCHANGED <<mem, disk, mode, issued, checked, handler, sweep, recovery, task, entry,
                   faults, launched, final, applied>>

SetClockBack ==
    /\ ClockRegresses
    /\ Fault
    /\ \E t \in 0 .. MaxTime : t < clock /\ clock' = t
    /\ UNCHANGED <<mem, disk, mode, issued, checked, handler, sweep, recovery, task, entry,
                   launched, final, applied>>

Serving(m) ==
    \/ HandleRequest(m) \/ HandleAssign(m) \/ AssignComplete(m)
    \/ HandleCancel(m) \/ CancelComplete(m)
    \/ HandleLeaseRenew(m) \/ HandleOfferRelease(m) \/ HandleInspect(m)
    \/ RuntimeStart(m) \/ RuntimeStop(m) \/ FinishReplay(m)

Sweeping ==
    \/ \E e \in ExecutionIds : BeginEviction(e)
    \/ EndEvictions \/ SweepStop \/ CompleteEviction \/ Collect
    \/ \E o \in OfferIds : Cleanup(o)

Recovering ==
    \/ Restart
    \/ \E e \in ExecutionIds : RecoverStop(e) \/ RecoverTask(e)
    \/ RecoverComplete \/ Serve

Next ==
    \/ \E m \in Messages : CheckFreshness(m) \/ BeginReplay(m) \/ Serving(m)
    \/ \E e \in ExecutionIds :
            TaskExit(e) \/ \E phase \in {"completed", "failed"} : RuntimeCompleted(e, phase)
    \/ Sweeping \/ Recovering
    \/ Crash \/ Tick \/ SetClockBack

Spec == Init /\ [][Next]_vars

-----------------------------------------------------------------------------
(* Properties.                                                             *)

IsRecord(s, fields) == DOMAIN s = fields /\ s = [f \in fields |-> s[f]]

IsSnapshot(d) ==
    /\ IsRecord(d, {"offers", "executions", "tombstones", "highWater", "entries"})
    /\ IsMap(d.offers, OfferIds, Offer)
    /\ IsMap(d.executions, ExecutionIds, Execution)
    /\ IsMap(d.tombstones, OfferIds, Tombstone)
    /\ IsMap(d.entries, Messages, ReplayEntry)
    /\ d.highWater \in Nat

IsMemory(s) ==
    /\ IsRecord(s, {"offers", "requests", "executions", "tombstones", "used", "highWater",
                    "entries"})
    /\ IsMap(s.offers, OfferIds, Offer)
    /\ IsMap(s.requests, Clients \X RequestIds, OfferIds)
    /\ IsMap(s.executions, ExecutionIds, Execution)
    /\ IsMap(s.tombstones, OfferIds, Tombstone)
    /\ s.used \in [Classes -> Nat]
    /\ s.highWater \in Nat
    /\ IsMap(s.entries, Messages, ReplayEntry)

HandlerPlaces ==
    {"idle", "begun", "starting", "started", "startFailed",
     "stopping", "stopped", "stopFailed", "applied"}

Was == [phase : {"starting", "running"}, leaseExpired : BOOLEAN]

HandlerState == [at : HandlerPlaces, was : Was]
SweepState ==
    [at : {"idle", "stopping", "stopped", "stopFailed", "collect", "clean"},
     execution : ExecutionIds \cup {NoExecution}, was : Was, todo : SUBSET OfferIds]
RecoveryState ==
    [todo : SUBSET ExecutionIds, at : {"next", "stopped", "missing", "attached"},
     execution : ExecutionIds \cup {NoExecution}]

\* The type of every variable, mem being the maps of the Allocator struct.
TypeOK ==
    /\ clock \in 0 .. MaxTime
    /\ IsMemory(mem) /\ IsSnapshot(disk)
    /\ mode \in {"down", "recovering", "up"}
    /\ issued \in 0 .. MaxOffers
    /\ checked \in SUBSET Messages
    /\ handler \in [Messages -> HandlerState]
    /\ sweep \in SweepState
    /\ recovery \in RecoveryState
    /\ task \in [ExecutionIds -> {"none", "running", "exited"}]
    /\ entry \in [ExecutionIds -> {"none", "active", "done", "failed"}]
    /\ faults \in 0 .. MaxFaults
    /\ launched \in [OfferIds -> Nat]
    /\ final \in [ExecutionIds -> {"none"} \cup TerminalPhases]
    /\ applied \in [Messages -> Nat]

\* The capacity ledger counts exactly the outstanding offers and the
\* executions that are not over, in every class, and never more than the
\* class has: no slot is leaked or given back twice by expiry, release,
\* assignment, completion, eviction, rollback or restart.
CapacityAccounted ==
    \A c \in Classes :
        mem.used[c] = Cardinality(Holders(mem.offers, mem.executions, c)) /\ mem.used[c] <= Limit[c]

\* What loadLocked demands of the snapshot d.
Loadable(d) ==
    /\ \A o, p \in DOMAIN d.offers : Key(d.offers[o]) = Key(d.offers[p]) => o = p
    /\ \A e \in DOMAIN d.executions :
            Terminal(d.executions[e].phase) <=> d.executions[e].released
    /\ \A o \in DOMAIN d.offers : d.offers[o].status = "assigned" =>
            /\ d.offers[o].execution \in DOMAIN d.executions
            /\ d.executions[d.offers[o].execution].offer = o
            /\ d.executions[d.offers[o].execution].class = d.offers[o].class
    /\ \A c \in Classes : Cardinality(Holders(d.offers, d.executions, c)) <= Limit[c]

\* Whenever the daemon stops, loadLocked accepts the snapshot it finds: it
\* reports neither an inconsistent record nor a durable state that exceeds
\* the configured capacity.
SnapshotLoadable == Loadable(disk)

\* Offers, which will need an execution and a tombstone, and tombstones fit
\* the record budget, in memory and in the snapshot (handleRequest, Sweep).
RecordsWithinBudget ==
    \A s \in {mem, disk} :
        2 * Cardinality(DOMAIN s.offers) + Cardinality(DOMAIN s.tombstones) <= MaxRecords

\* requests indexes the offers: every request finds its one offer, and no
\* entry outlives it (handleRequest, Sweep, loadLocked).
RequestsIndexed ==
    /\ \A o \in DOMAIN mem.offers :
            Key(mem.offers[o]) \in DOMAIN mem.requests /\ mem.requests[Key(mem.offers[o])] = o
    /\ \A k \in DOMAIN mem.requests :
            mem.requests[k] \in DOMAIN mem.offers /\ Key(mem.offers[mem.requests[k]]) = k

Calling == {"starting", "started", "startFailed", "stopping", "stopped", "stopFailed"}

\* A handler or eviction that released the mutex around a runtime call finds
\* its execution again: handleAssign and handleCancel dereference it without
\* a nil check, so Sweep must not have collected it.
InFlightKept ==
    /\ \A m \in Messages : handler[m].at \in Calling => Owned(mem, m)
    /\ sweep.at \in {"stopping", "stopped", "stopFailed"} =>
            sweep.execution \in DOMAIN mem.executions

\* A message being served has an entry that is not done, so a duplicate
\* waits for it instead of running the handler a second time (beginReplay,
\* evict, prune, Sweep).
ServedOnce ==
    \A m \in Messages : handler[m].at # "idle" =>
        m \in DOMAIN mem.entries /\ ~mem.entries[m].done

Stoppers(e) ==
    {m \in Messages : handler[m].at \in {"stopping", "stopped", "stopFailed"}
                      /\ m.execution = e}

\* At most one party is stopping an execution, and while it is, the
\* execution is CANCELLING or over: nobody else can revive it.
OneStopper ==
    \A e \in ExecutionIds :
        LET sweeping == sweep.at \in {"stopping", "stopped", "stopFailed"} /\ sweep.execution = e
        IN  /\ Cardinality(Stoppers(e)) <= 1
            /\ sweeping => Stoppers(e) = {}
            /\ sweeping \/ Stoppers(e) # {} =>
                    ~Live(mem.executions[e].phase)

\* An offer starts at most one workload, whatever is replayed, collected or
\* interrupted by a crash.
LaunchedOnce == \A o \in OfferIds : launched[o] <= 1

\* While the allocator serves, an execution that was once seen in a terminal
\* phase is in that phase, even if the save that should have recorded it
\* failed and the allocator crashed since.
FinalPhaseKept ==
    mode = "up" =>
        \A e \in DOMAIN mem.executions :
            final[e] # "none" => mem.executions[e].phase = final[e]

\* No client holds more outstanding offers or live executions than its quota.
QuotasRespected ==
    \A a \in Clients :
        /\ OfferQuota = 0 \/ Cardinality(Outstanding(mem, a)) <= OfferQuota
        /\ ExecutionQuota = 0 \/ Cardinality(Unfinished(mem, a)) <= ExecutionQuota

\* While an execution is in memory its revision never decreases, and it grows
\* whenever the phase changes (f8-02: a revision per observable change).
RevisionsGrow ==
    [][\A e \in DOMAIN mem.executions \cap DOMAIN mem'.executions :
        LET x == mem.executions[e]  y == mem'.executions[e] IN
        /\ y.revision >= x.revision
        /\ y.phase # x.phase => y.revision > x.revision]_vars

\* A lease is only taken as expired once the wall clock has reached it
\* (nextExpiredLeaseLocked, Recover), so a client that renews in time keeps
\* its execution.
LeaseHonoured ==
    [][\A e \in DOMAIN mem.executions \cap DOMAIN mem'.executions :
        /\ Live(mem.executions[e].phase)
        /\ mem'.executions[e].leaseExpired
        => mem.executions[e].leaseUntil <= clock]_vars

\* A renewal command extends the lease once, however often it is delivered
\* (Handle, replayCache, handleLeaseRenew).
RenewalAppliedOnce == \A m \in Messages : applied[m] <= 1

\* Once an execution is CANCELLED and no handler is working on it, its
\* workload does not run (handleCancel, handleAssign, executionManager.stop).
CancelledIsStopped ==
    \A e \in DOMAIN mem.executions :
        /\ mem.executions[e].phase = "cancelled"
        /\ \A m \in Messages : handler[m].at \in Calling => m.execution # e
        => task[e] # "running"

\* Goroutines that can run do, the daemon is started again after a crash, and
\* time passes.  Clients, workloads and faults owe nothing.
Fairness ==
    /\ WF_vars(Sweeping) /\ WF_vars(Recovering) /\ WF_vars(Tick)
    /\ \A m \in Messages : WF_vars(BeginReplay(m)) /\ WF_vars(Serving(m))

FairSpec == Spec /\ Fairness

\* An execution whose lease has run out is eventually over or renewed, through
\* failed stops, failed saves and crashes (Sweep, Recover).
ExpiredLeaseEnds ==
    \A e \in ExecutionIds :
        (/\ e \in DOMAIN mem.executions
         /\ ~Terminal(mem.executions[e].phase)
         /\ mem.executions[e].leaseUntil <= clock)
        ~> (mode = "up" /\ (\/ e \notin DOMAIN mem.executions
                            \/ Terminal(mem.executions[e].phase)
                            \/ mem.executions[e].leaseUntil > clock))

\* Capacity comes back: an outstanding offer that nobody takes in time does not
\* hold its slot for ever, through failed saves and crashes (Sweep, loadLocked).
CapacityReturns ==
    \A o \in OfferIds :
        (o \in DOMAIN mem.offers /\ mem.offers[o].status = "outstanding"
            /\ mem.offers[o].expiresAt <= clock)
        ~> (mode = "up" /\ (o \in DOMAIN mem.offers => mem.offers[o].status # "outstanding"))
=============================================================================
