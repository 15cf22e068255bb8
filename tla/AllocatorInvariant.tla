------------------------- MODULE AllocatorInvariant -------------------------
(***************************************************************************)
(* The inductive invariant of Allocator: the safety invariants and what    *)
(* they rest on, the links between offers, executions and handlers.        *)
(***************************************************************************)
EXTENDS Allocator

\* Offers and executions refer to each other.
Linked(offers, executions) ==
    /\ \A o \in DOMAIN offers :
        /\ offers[o].status = "assigned" =>
            /\ offers[o].execution \in DOMAIN executions
            /\ executions[offers[o].execution].offer = o
            /\ executions[offers[o].execution].class = offers[o].class
        /\ offers[o].status # "assigned" => offers[o].execution = NoExecution
    /\ \A e \in DOMAIN executions :
        /\ executions[e].offer \in DOMAIN offers
        /\ offers[executions[e].offer].status = "assigned"
        /\ offers[executions[e].offer].execution = e
        /\ Key(offers[executions[e].offer]) = Key(executions[e])
        /\ Terminal(executions[e].phase) <=> executions[e].released

\* Every offer is found by its client and request.
Indexed(offers, requests) ==
    /\ \A o \in DOMAIN offers :
        Key(offers[o]) \in DOMAIN requests /\ requests[Key(offers[o])] = o
    /\ \A k \in DOMAIN requests :
        requests[k] \in DOMAIN offers /\ Key(offers[requests[k]]) = k

Accounted(used, offers, executions) ==
    \A c \in Classes :
        used[c] = Cardinality(Holders(offers, executions, c)) /\ used[c] <= Limit[c]

GoodMemory(s) ==
    /\ IsMemory(s)
    /\ Linked(s.offers, s.executions)
    /\ Indexed(s.offers, s.requests)
    /\ Accounted(s.used, s.offers, s.executions)

GoodSnapshot(d) ==
    /\ IsSnapshot(d)
    /\ Linked(d.offers, d.executions)
    /\ \A o, p \in DOMAIN d.offers : Key(d.offers[o]) = Key(d.offers[p]) => o = p
    /\ \A c \in Classes : Cardinality(Holders(d.offers, d.executions, c)) <= Limit[c]

Assigning == {"starting", "started", "startFailed"}
Stopping == {"stopping", "stopped", "stopFailed"}

\* A handler works on a message whose entry is open, and on an execution that
\* the entry protects from being collected.
HandlerOK(m) ==
    /\ handler[m].at # "idle" =>
        mode = "up" /\ m \in DOMAIN mem.entries /\ ~mem.entries[m].done
    /\ handler[m].at \in Assigning =>
        /\ m.kind = "assign" /\ m.execution \in DOMAIN mem.executions
        /\ Key(mem.executions[m.execution]) = Key(m)
        /\ mem.executions[m.execution].offer = m.offer
    /\ handler[m].at \in Stopping =>
        /\ m.kind = "cancel" /\ m.execution \in DOMAIN mem.executions
        /\ mem.executions[m.execution].client = m.client

SweepOK ==
    /\ sweep.at # "idle" => mode = "up"
    /\ sweep.at \in Stopping => sweep.execution \in DOMAIN mem.executions
    /\ sweep.todo \subseteq DOMAIN mem.tombstones
    /\ sweep.at # "clean" => sweep.todo = {}

RecoveryOK ==
    /\ recovery # NotRecovering => mode = "recovering"
    /\ recovery.todo \subseteq DOMAIN mem.executions
    /\ recovery.at # "next" => recovery.execution \in DOMAIN mem.executions

\* The invariant that every step preserves, and from which type correctness,
\* CapacityAccounted, SnapshotLoadable, RequestsIndexed, InFlightKept and
\* ServedOnce follow.
IndInv ==
    /\ TypeOK
    /\ GoodMemory(mem)
    /\ GoodSnapshot(disk)
    /\ DOMAIN mem.offers \subseteq 1 .. issued
    /\ DOMAIN disk.offers \subseteq 1 .. issued
    /\ checked # {} => mode = "up"
    /\ \A m \in Messages : HandlerOK(m)
    /\ SweepOK
    /\ RecoveryOK

-----------------------------------------------------------------------------
(* What IndInv is strengthened by for the other guarantees.  s is the      *)
(* memory or the snapshot.                                                 *)

WithinBudget(s) ==
    2 * Cardinality(DOMAIN s.offers) + Cardinality(DOMAIN s.tombstones) <= MaxRecords

WithinQuotas(s) ==
    \A a \in Clients :
        /\ OfferQuota = 0 \/ Cardinality(Outstanding(s, a)) <= OfferQuota
        /\ ExecutionQuota = 0 \/ Cardinality(Unfinished(s, a)) <= ExecutionQuota

\* An execution that is still held is not marked as evicted.
Unmarked(s) ==
    \A e \in DOMAIN s.executions :
        Live(s.executions[e].phase) => ~s.executions[e].leaseExpired

\* No workload was started for an offer that can still be assigned; starts
\* counts the workloads of each offer.
Unlaunched(s, starts) ==
    \A o \in DOMAIN s.offers : s.offers[o].status = "outstanding" => starts[o] = 0

Sound(s, starts) == WithinBudget(s) /\ WithinQuotas(s) /\ Unmarked(s) /\ Unlaunched(s, starts)

\* OneStopper, party by party.
SoleStopper ==
    /\ \A m \in Messages : handler[m].at \in Stopping =>
            /\ ~Live(mem.executions[m.execution].phase)
            /\ ~ (sweep.at \in Stopping /\ sweep.execution = m.execution)
    /\ \A m, k \in Messages :
            /\ handler[m].at \in Stopping /\ handler[k].at \in Stopping
            /\ m.execution = k.execution
            => m = k
    /\ sweep.at \in Stopping => ~Live(mem.executions[sweep.execution].phase)

\* A handler that is about to call runtime.Start is the first to do so for its
\* offer, and no restart can offer it again.
Launching ==
    /\ \A m \in Messages : handler[m].at = "starting" =>
            /\ launched[m.offer] = 0
            /\ m.offer \in DOMAIN disk.offers => disk.offers[m.offer].status # "outstanding"
    /\ \A m, k \in Messages :
            handler[m].at = "starting" /\ handler[k].at = "starting" /\ m.offer = k.offer => m = k
    /\ \A o \in OfferIds : o > issued => launched[o] = 0

\* The phases that a failed Stop gives back are not those of an eviction.
Remembered ==
    /\ \A m \in Messages : ~handler[m].was.leaseExpired
    /\ ~sweep.was.leaseExpired

\* Unless the clock is set back, neither the high-water mark nor a lease that
\* Recover found expired is ahead of it.
Timely ==
    ~ClockRegresses =>
        /\ mem.highWater <= clock /\ disk.highWater <= clock
        /\ recovery.at = "stopped" =>
            LET x == mem.executions[recovery.execution]
            IN  x.phase = "cancelling" \/ Terminal(x.phase) \/ x.leaseUntil <= clock

\* With IndInv it is inductive, and gives RecordsWithinBudget, QuotasRespected,
\* OneStopper, LaunchedOnce, RevisionsGrow and LeaseHonoured.
FullInv ==
    /\ IndInv
    /\ Sound(mem, launched) /\ Sound(disk, launched)
    /\ SoleStopper /\ LaunchedOnce
    /\ Launching /\ Remembered /\ Timely
    /\ mode = "down" => mem = Empty

\* A change of the memory, saved or not.
Changed(n) == Saved(n) \/ SaveFails(n) \/ Unsaved(n)
=============================================================================
