----------------------------- MODULE MCAllocator -----------------------------
(* Small instances of Allocator for TLC: the commands of one or two clients. *)
EXTENDS AllocatorInvariant

CONSTANTS c1, c2, r1, r2, small, e1

Command(id, kind, client, request, offer, execution, lease, sent) ==
    [id |-> id, kind |-> kind, client |-> client, request |-> request, class |-> small,
     offer |-> offer, execution |-> execution, lease |-> lease, sent |-> sent]

Request(id, client, request) == Command(id, "request", client, request, 0, NoExecution, 0, 0)
Assign(id, client, request, o) == Command(id, "assign", client, request, o, e1, 0, 0)

OneSlot == [c \in {small} |-> 1]
TwoSlots == [c \in {small} |-> 2]

\* A client that assigns its offer and is not heard of again.
Unattended == {Request(1, c1, r1), Assign(2, c1, r1, 1)}

\* A client that cancels.
Cancelled == Unattended \cup {Command(3, "cancel", c1, r1, 0, e1, 0, 0)}

\* A client that renews its lease.
Renewed == Unattended \cup {Command(3, "renew", c1, r1, 0, e1, 1, 1)}

\* Every kind of command about one execution.
EveryKind ==
    Cancelled \cup {Command(4, "renew", c1, r1, 0, e1, 1, 0),
                    Command(5, "release", c1, r1, 1, NoExecution, 0, 0),
                    Command(6, "inspect", c1, r1, 0, e1, 0, 0)}

\* Two clients and three requests for two slots; one offer is released.
Competing ==
    {Request(1, c1, r1), Request(2, c1, r2), Request(3, c2, r1), Assign(4, c2, r1, 2),
     Command(5, "release", c1, r1, 1, NoExecution, 0, 0)}

\* Three requests that are never assigned.
Abandoned == {Request(1, c1, r1), Request(2, c1, r2), Request(3, c2, r1)}

\* Either time passes or something fails.
LifecycleSpec == (InitAt(0, MaxFaults) \/ InitAt(MaxTime, 0)) /\ [][Next]_vars
=============================================================================
