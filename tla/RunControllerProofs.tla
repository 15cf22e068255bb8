------------------------ MODULE RunControllerProofs -------------------------
(***************************************************************************)
(* A run replaces an attempt only when it is lost for good, settles every  *)
(* offer, and runs nothing again whose result it knows, for every set of   *)
(* allocators and every bound.                                             *)
(***************************************************************************)
EXTENDS RunController, TLAPS

Outcomes == [kind : {"none", "error", "state"}, attempt : 0 .. MaxRequests]

Records == [made : BOOLEAN, parent : 0 .. MaxRequests, sent : SUBSET Allocators,
            selected : Allocators \cup {NoAllocator}, offers : [Allocators -> OfferRecord]]

Leases == [state : Phase, held : BOOLEAN, lost : BOOLEAN, renewed : BOOLEAN,
           renewing : BOOLEAN, inspected : BOOLEAN]

Controls == [pc : Position, active : 0 .. MaxRequests, cur : 0 .. MaxRequests,
             holder : 0 .. MaxRequests, from : {"run", "hold", "renew"}, again : BOOLEAN]

Commands == [type : {"request", "assign", "renew", "inspect", "cancel", "release"},
             req : Request]

Typed ==
  /\ requests \in [Request -> Records] /\ executions \in [Request -> Leases]
  /\ ctl \in Controls /\ result \in Outcomes
  /\ inbox \in [Allocators -> Seq(Commands)]
  /\ \A m \in replies : m.req \in Request /\ m.from \in Allocators
  /\ offered \in [Request -> [Allocators ->
                    {"none", "offered", "assigned", "released", "expired"}]]
  /\ work \in [Request -> Phase \cup {"gone"}]

\* Requests are numbered in the order they are made.
Numbered == \E n \in 0 .. MaxRequests : \A i \in Request : requests[i].made <=> i <= n

\* The assignment of request i has been sent, whether it arrives or not.
Past(i) ==
  requests[i].made /\ requests[i].selected # NoAllocator /\ ~(ctl.pc = "assign" /\ ctl.cur = i)

\* No assignment of request i is on its way.
Unassigned(i) ==
  \A a \in Allocators : \A k \in 1 .. Len(inbox[a]) :
    ~(inbox[a][k].type = "assign" /\ inbox[a][k].req = i)

\* The execution of request i is not running and never will be.
Lost(i) == Past(i) /\ Unassigned(i) /\ work[i] \in {"none", "gone", "evicted"}

\* What the controller's local variables refer to.
Placed ==
  /\ ctl.pc = "idle" => ~requests[1].made
  /\ ctl.pc \in {"hold", "maintain", "await", "wait", "inspect"} => ctl.active # 0
  /\ ctl.from # "run" => ctl.active # 0
  /\ ctl.pc \in {"rerequest", "rebind"} => ctl.from # "run"
  /\ ctl.pc \in {"maintain", "await"} \/ ctl.from = "renew" => ctl.holder # 0
  /\ ctl.active # 0 => Past(ctl.active)
  /\ ctl.holder # 0 => Past(ctl.holder)
  /\ result.attempt # 0 => Past(result.attempt)
  /\ ctl.pc \in {"collect", "assign", "rebind"} => ctl.cur # 0 /\ requests[ctl.cur].made
  /\ ctl.pc = "collect" => requests[ctl.cur].selected = NoAllocator
  /\ ctl.pc \in {"assign", "rebind"} => requests[ctl.cur].selected # NoAllocator
  /\ ctl.pc = "rerequest" => Lost(Replaced)

\* Who is sent what: all but requests and releases goes to the selected
\* allocator, after the assignment.
Addressed(a, c) ==
  /\ requests[c.req].made
  /\ c.type \in {"assign", "renew", "inspect", "cancel"} =>
       Past(c.req) /\ requests[c.req].selected = a
  /\ c.type = "release" => requests[c.req].selected \notin {NoAllocator, a}

InOrder(q) ==
  \A k, l \in 1 .. Len(q) :
    k < l /\ q[l].type = "assign" /\ q[k].req = q[l].req => q[k].type \in {"request", "release"}

Mail ==
  \A a \in Allocators :
    InOrder(inbox[a]) /\ \A k \in 1 .. Len(inbox[a]) : Addressed(a, inbox[a][k])

\* What a reply says is still so.
Told(m) ==
  /\ m.type = "state" =>
       \/ m.value = "running" /\ work[m.req] \in {"running", "completed", "evicted", "cancelled"}
       \/ m.value \in {"completed", "evicted", "cancelled"} /\ work[m.req] = m.value
  /\ m.type = "error" /\ m.value = "NOT_FOUND" => Lost(m.req)

\* What the client believes of an execution, and on whose loss it acted.
Believed(i) ==
  /\ work[i] # "none" => Past(i) /\ Unassigned(i)
  /\ Terminal(executions[i].state) => work[i] = executions[i].state
  /\ executions[i].lost => Lost(i)
  /\ requests[i].parent # 0 => Lost(requests[i].parent)

Observed == (\A m \in replies : Told(m)) /\ \A i \in Request : Believed(i)

\* Every offer of request i is live, until one is selected and the rest released.
Decided(i) ==
  /\ ~requests[i].made => requests[i].selected = NoAllocator
  /\ \A a \in Allocators :
       /\ requests[i].selected = NoAllocator => requests[i].offers[a] \in {"none", "live"}
       /\ requests[i].selected = a => requests[i].offers[a] = "live"
       /\ requests[i].selected \notin {NoAllocator, a} => requests[i].offers[a] # "live"
       /\ offered[i][a] = "released" => requests[i].selected \notin {NoAllocator, a}

Settling == \A i \in Request : Decided(i)

RunInv == Typed /\ Numbered /\ Placed /\ Mail /\ Observed /\ Settling

-----------------------------------------------------------------------------
(* The numbers of requests.                                                *)

LEMMA Fresh ==
  ASSUME Numbered
  PROVE  /\ NextRequest \in Nat \ {0}
         /\ \A i \in Request : requests[i].made <=> i < NextRequest
<1>1. PICK n \in 0 .. MaxRequests : \A i \in Request : requests[i].made <=> i <= n
  BY Zenon DEF Numbered
<1>2. /\ n + 1 \in 1 .. (MaxRequests + 1) /\ 1 .. (MaxRequests + 1) \subseteq Nat \ {0}
      /\ \A i \in Request : i <= n <=> i < n + 1
  BY RunAssumption DEF Request
<1>3. \E k \in 1 .. (MaxRequests + 1) : \A i \in Request : requests[i].made <=> i < k
  BY <1>1, <1>2, Zenon
<1>4. /\ NextRequest \in 1 .. (MaxRequests + 1)
      /\ \A i \in Request : requests[i].made <=> i < NextRequest
  BY <1>3, Zenon DEF NextRequest
<1> QED
  BY <1>2, <1>4, Zenon

-----------------------------------------------------------------------------
(* What stays true of a request once it is.                                *)

Kept ==
  \A i \in Request :
    /\ requests[i].made => requests'[i].made
    /\ requests[i].selected # NoAllocator => requests'[i].selected = requests[i].selected
    /\ Past(i) => Past(i)'

StillOut == \A i \in Request : Past(i) /\ Unassigned(i) => Unassigned(i)'

\* What the client has observed of an execution only moves forward.
Forward ==
  \A i \in Request : executions'[i].state # executions[i].state =>
    Revision(executions'[i].state) > Revision(executions[i].state)

\* A request that replaces an execution is made without knowing its result.
Justified ==
  \A i \in Request : ~requests[i].made /\ requests'[i].made /\ requests'[i].parent # 0 =>
    executions[requests'[i].parent].state \notin {"completed", "cancelled"}

StaysLost == \A i \in Request : Lost(i) => Lost(i)'

LEMMA KeptSame ==
  ASSUME \A i \in Request : /\ requests'[i].made = requests[i].made
                            /\ requests'[i].selected = requests[i].selected,
         ctl'.pc # "assign" \/ ctl' = ctl
  PROVE  Kept
BY Zenon DEF Kept, Past

LEMMA AddressedKept ==
  ASSUME Kept, NEW a \in Allocators, NEW c \in Commands, Addressed(a, c)
  PROVE  Addressed(a, c)'
<1>1. c.req \in Request
  BY Zenon DEF Commands
<1>2. /\ requests[c.req].made => requests'[c.req].made
      /\ requests[c.req].selected # NoAllocator =>
           requests'[c.req].selected = requests[c.req].selected
      /\ Past(c.req) => Past(c.req)'
  BY <1>1, Zenon DEF Kept
<1>3. Past(c.req) => requests[c.req].selected # NoAllocator
  BY Zenon DEF Past
<1> QED
  BY <1>2, <1>3, Zenon DEF Addressed

LEMMA MailSame ==
  ASSUME Typed, Mail, Kept, inbox' = inbox
  PROVE  Mail' /\ StillOut
<1>1. ASSUME NEW a \in Allocators, NEW k \in 1 .. Len(inbox[a])
      PROVE  Addressed(a, inbox[a][k])'
  <2>1. inbox[a][k] \in Commands
    BY DEF Typed
  <2>2. Addressed(a, inbox[a][k])
    BY Zenon DEF Mail
  <2> DEFINE c == inbox[a][k]
  <2>3. Addressed(a, c)'
    BY <2>1, <2>2, AddressedKept, Zenon
  <2> QED
    BY <2>3, Zenon
<1> QED
  BY <1>1, Zenon DEF Mail, InOrder, StillOut, Unassigned

LEMMA MailPosted ==
  ASSUME Typed, Mail, Kept,
         NEW c \in Commands, NEW reached \in SUBSET Allocators,
         inbox' = Posted(reached, c),
         \A a \in reached : Addressed(a, c)',
         c.type = "assign" => ~Past(c.req)
  PROVE  inbox' \in [Allocators -> Seq(Commands)] /\ Mail' /\ StillOut
<1>1. ASSUME NEW a \in Allocators
      PROVE  \/ inbox'[a] = inbox[a]
             \/ inbox'[a] = Append(inbox[a], c) /\ a \in reached
  BY Zenon DEF Posted
<1>2. \A a \in Allocators : inbox[a] \in Seq(Commands)
  BY Zenon DEF Typed
<1>3. inbox' \in [Allocators -> Seq(Commands)]
  <2>1. \A a \in Allocators : Append(inbox[a], c) \in Seq(Commands)
    BY <1>2
  <2>2. \A a \in Allocators : inbox'[a] \in Seq(Commands)
    BY <1>1, <1>2, <2>1, Zenon
  <2> QED
    BY <2>2, Zenon DEF Posted
<1>4. ASSUME NEW a \in Allocators, NEW k \in 1 .. Len(inbox'[a])
      PROVE  \/ k \in 1 .. Len(inbox[a]) /\ inbox'[a][k] = inbox[a][k]
             \/ k = Len(inbox[a]) + 1 /\ inbox'[a][k] = c /\ a \in reached
  <2>1. inbox[a] \in Seq(Commands)
    BY <1>2, Zenon
  <2>2. CASE inbox'[a] = inbox[a]
    BY <2>2, Zenon
  <2>3. CASE inbox'[a] = Append(inbox[a], c) /\ a \in reached
    <3>1. k \in 1 .. Len(Append(inbox[a], c))
      BY <2>3, Zenon
    <3>2. \/ k \in 1 .. Len(inbox[a]) /\ Append(inbox[a], c)[k] = inbox[a][k]
          \/ k = Len(inbox[a]) + 1 /\ Append(inbox[a], c)[k] = c
      BY <2>1, <3>1
    <3> QED
      BY <2>3, <3>2, Zenon
  <2> QED
    BY <1>1, <2>2, <2>3, Zenon
<1>5. \A a \in Allocators : \A k \in 1 .. Len(inbox[a]) :
        inbox[a][k] \in Commands /\ Addressed(a, inbox[a][k])
  <2>1. \A a \in Allocators : \A k \in 1 .. Len(inbox[a]) : inbox[a][k] \in Commands
    BY <1>2
  <2> QED
    BY <2>1, Zenon DEF Mail
<1>6. \A a \in Allocators : \A d \in Commands : Addressed(a, d) =>
        /\ requests'[d.req].made
        /\ d.type \in {"assign", "renew", "inspect", "cancel"} =>
             Past(d.req)' /\ requests'[d.req].selected = a
        /\ d.type = "release" => requests'[d.req].selected \notin {NoAllocator, a}
  BY AddressedKept, Zenon DEF Addressed
<1>7. ASSUME NEW a \in Allocators, NEW k \in 1 .. Len(inbox'[a])
      PROVE  Addressed(a, inbox[a][k])'
  <2>1. inbox'[a][k] = c /\ a \in reached => Addressed(a, inbox[a][k])'
    BY Zenon DEF Addressed
  <2>2. ASSUME k \in 1 .. Len(inbox[a]), inbox'[a][k] = inbox[a][k]
        PROVE  Addressed(a, inbox[a][k])'
    <3>1. inbox'[a][k] \in Commands /\ Addressed(a, inbox'[a][k])
      BY <1>5, <2>2, Zenon
    <3> QED
      BY <1>6, <3>1, Zenon DEF Addressed
  <2> QED
    BY <1>4, <2>1, <2>2, Zenon
<1>8. ASSUME NEW a \in Allocators
      PROVE  InOrder(inbox[a])'
  <2> SUFFICES ASSUME NEW k \in 1 .. Len(inbox'[a]), NEW l \in 1 .. Len(inbox'[a]), k < l,
                      inbox'[a][l].type = "assign", inbox'[a][k].req = inbox'[a][l].req
               PROVE  inbox'[a][k].type \in {"request", "release"}
    BY Zenon DEF InOrder
  <2>1. k \in 1 .. Len(inbox[a]) /\ inbox'[a][k] = inbox[a][k]
    <3>1. Len(inbox[a]) \in Nat /\ Len(inbox'[a]) <= Len(inbox[a]) + 1
      BY <1>1, <1>2
    <3> QED
      BY <1>4, <3>1
  <2>2. CASE l \in 1 .. Len(inbox[a]) /\ inbox'[a][l] = inbox[a][l]
    <3>1. InOrder(inbox[a])
      BY Zenon DEF Mail
    <3> QED
      BY <2>1, <2>2, <3>1, Zenon DEF InOrder
  <2>3. CASE inbox'[a][l] = c
    <3>1. inbox[a][k] \in Commands /\ Addressed(a, inbox[a][k])
      BY <1>5, <2>1, Zenon
    <3>2. ~Past(inbox[a][k].req)
      BY <2>1, <2>3, Zenon
    <3>3. inbox[a][k].type \in {"request", "assign", "renew", "inspect", "cancel", "release"}
      BY <3>1, Zenon DEF Commands
    <3> QED
      BY <2>1, <3>1, <3>2, <3>3, Zenon DEF Addressed
  <2> QED
    BY <1>4, <2>2, <2>3, Zenon
<1>9. StillOut
  <2> SUFFICES ASSUME NEW i \in Request, Past(i), Unassigned(i)
               PROVE  Unassigned(i)'
    BY Zenon DEF StillOut
  <2> SUFFICES ASSUME NEW a \in Allocators, NEW k \in 1 .. Len(inbox'[a]),
                      inbox'[a][k].type = "assign", inbox'[a][k].req = i
               PROVE  FALSE
    BY Zenon DEF Unassigned
  <2>1. ASSUME inbox'[a][k] = c
        PROVE  FALSE
    <3>1. c.type = "assign" /\ c.req = i
      BY <2>1, Zenon
    <3> QED
      BY <3>1, Zenon
  <2>2. k \in 1 .. Len(inbox[a]) /\ inbox'[a][k] = inbox[a][k]
    BY <1>4, <2>1, Zenon
  <2> QED
    BY <2>2, Zenon DEF Unassigned
<1> QED
  BY <1>3, <1>7, <1>8, <1>9, Zenon DEF Mail

LEMMA MailServed ==
  ASSUME Typed, Mail, Kept, NEW b \in Allocators, inbox[b] # <<>>, Served(b)
  PROVE  inbox' \in [Allocators -> Seq(Commands)] /\ Mail' /\ StillOut
<1>1. \A a \in Allocators : inbox'[a] = IF a = b THEN Tail(inbox[b]) ELSE inbox[a]
  BY Zenon DEF Typed, Served
<1>2. \A a \in Allocators : inbox[a] \in Seq(Commands)
  BY Zenon DEF Typed
<1>3. inbox' \in [Allocators -> Seq(Commands)]
  <2>1. \A a \in Allocators : inbox'[a] \in Seq(Commands)
    <3>1. Tail(inbox[b]) \in Seq(Commands)
      BY <1>2
    <3> QED
      BY <1>1, <1>2, <3>1, Zenon
  <2> QED
    BY <2>1, Zenon DEF Served, Typed
<1>4. \A a \in Allocators : \A k \in 1 .. Len(inbox[a]) :
        inbox[a][k] \in Commands /\ Addressed(a, inbox[a][k])
  <2>1. \A a \in Allocators : \A k \in 1 .. Len(inbox[a]) : inbox[a][k] \in Commands
    BY <1>2
  <2> QED
    BY <2>1, Zenon DEF Mail
<1>5. ASSUME NEW a \in Allocators, a # b
      PROVE  inbox'[a] = inbox[a]
  BY <1>1, <1>5, Zenon
<1>6. ASSUME NEW k \in 1 .. Len(inbox'[b])
      PROVE  k + 1 \in 1 .. Len(inbox[b]) /\ inbox'[b][k] = inbox[b][k + 1]
  <2>1. inbox'[b] = Tail(inbox[b]) /\ inbox[b] \in Seq(Commands)
    BY <1>1, <1>2, Zenon
  <2> QED
    BY <2>1
<1>7. ASSUME NEW a \in Allocators, NEW k \in 1 .. Len(inbox'[a])
      PROVE  \E l \in 1 .. Len(inbox[a]) : inbox'[a][k] = inbox[a][l]
  BY <1>5, <1>6, Zenon
<1>8. \A a \in Allocators : \A d \in Commands : Addressed(a, d) =>
        /\ requests'[d.req].made
        /\ d.type \in {"assign", "renew", "inspect", "cancel"} =>
             Past(d.req)' /\ requests'[d.req].selected = a
        /\ d.type = "release" => requests'[d.req].selected \notin {NoAllocator, a}
  BY AddressedKept, Zenon DEF Addressed
<1>9. ASSUME NEW a \in Allocators, NEW k \in 1 .. Len(inbox'[a])
      PROVE  Addressed(a, inbox[a][k])'
  <2>1. PICK l \in 1 .. Len(inbox[a]) : inbox'[a][k] = inbox[a][l]
    BY <1>7, Zenon
  <2>2. inbox'[a][k] \in Commands /\ Addressed(a, inbox'[a][k])
    BY <1>4, <2>1, Zenon
  <2> QED
    BY <1>8, <2>2, Zenon DEF Addressed
<1>10. ASSUME NEW a \in Allocators
       PROVE  InOrder(inbox[a])'
  <2>1. InOrder(inbox[a])
    BY Zenon DEF Mail
  <2>2. CASE a # b
    BY <1>5, <2>1, <2>2, Zenon DEF InOrder
  <2>3. CASE a = b
    <3> SUFFICES ASSUME NEW k \in 1 .. Len(inbox'[b]), NEW l \in 1 .. Len(inbox'[b]), k < l,
                        inbox'[b][l].type = "assign", inbox'[b][k].req = inbox'[b][l].req
                 PROVE  inbox'[b][k].type \in {"request", "release"}
      BY <2>3, Zenon DEF InOrder
    <3>1. k + 1 \in 1 .. Len(inbox[b]) /\ inbox'[b][k] = inbox[b][k + 1]
      BY <1>6, Zenon
    <3>2. l + 1 \in 1 .. Len(inbox[b]) /\ inbox'[b][l] = inbox[b][l + 1]
      BY <1>6, Zenon
    <3>3. k + 1 < l + 1
      OBVIOUS
    <3> QED
      BY <2>1, <2>3, <3>1, <3>2, <3>3, Zenon DEF InOrder
  <2> QED
    BY <2>2, <2>3, Zenon
<1>11. StillOut
  <2> SUFFICES ASSUME NEW i \in Request, Unassigned(i),
                      NEW a \in Allocators, NEW k \in 1 .. Len(inbox'[a]),
                      inbox'[a][k].type = "assign", inbox'[a][k].req = i
               PROVE  FALSE
    BY Zenon DEF StillOut, Unassigned
  <2>1. PICK l \in 1 .. Len(inbox[a]) : inbox'[a][k] = inbox[a][l]
    BY <1>7, Zenon
  <2>2. inbox[a][l].type = "assign" /\ inbox[a][l].req = i
    BY <2>1, Zenon
  <2> QED
    BY <2>2, Zenon DEF Unassigned
<1> QED
  BY <1>3, <1>9, <1>10, <1>11, Zenon DEF Mail

-----------------------------------------------------------------------------
(* The other parts of the invariant in a step that leaves most as it is.   *)

LEMMA LostKept ==
  ASSUME Kept, StillOut,
         \A i \in Request : Lost(i) => work'[i] \in {"none", "gone", "evicted"}
  PROVE  StaysLost
BY Zenon DEF StaysLost, Kept, StillOut, Lost

LEMMA ToldKept ==
  ASSUME StaysLost, NEW m, m.req \in Request, Told(m),
         \/ work'[m.req] = work[m.req]
         \/ work[m.req] = "none"
         \/ work[m.req] = "running" /\ work'[m.req] \in {"completed", "evicted", "cancelled"}
  PROVE  Told(m)'
BY Zenon DEF Told, StaysLost

LEMMA ObservedStep ==
  ASSUME Typed, Observed, Kept, StillOut, StaysLost, work' = work, replies' \subseteq replies,
         requests' \in [Request -> Records],
         \A i \in Request : requests'[i].parent \in {0, requests[i].parent}
                              \/ Lost(requests'[i].parent),
         \A i \in Request : Terminal(executions'[i].state) => work[i] = executions'[i].state,
         \A i \in Request : executions'[i].lost => Lost(i)
  PROVE  Observed'
<1>1. ASSUME NEW m \in replies'
      PROVE  Told(m)'
  <2>1. m.req \in Request /\ Told(m)
    BY Zenon DEF Typed, Observed
  <2> QED
    BY <2>1, ToldKept, Zenon
<1>2. ASSUME NEW i \in Request
      PROVE  Believed(i)'
  <2>1. Believed(i)
    BY Zenon DEF Observed
  <2>2. (work[i] # "none" => Past(i) /\ Unassigned(i))'
    BY <2>1, Zenon DEF Believed, Kept, StillOut
  <2>3. (requests[i].parent # 0 => Lost(requests[i].parent))'
    <3> SUFFICES ASSUME requests'[i].parent # 0
                 PROVE  Lost(requests[i].parent)'
      BY Zenon
    <3>1. requests'[i].parent \in Request
      BY DEF Request, Records
    <3>2. Lost(requests'[i].parent)
      BY <2>1, Zenon DEF Believed
    <3> QED
      BY <3>1, <3>2, Zenon DEF StaysLost, Lost, Past, Unassigned
  <2> QED
    BY <2>2, <2>3, Zenon DEF Believed, StaysLost, Terminal, Revision
<1> QED
  BY <1>1, <1>2, Zenon DEF Observed

LEMMA PlacedSame ==
  ASSUME Typed, Placed, Kept, StaysLost, ctl' = ctl, result' = result,
         \A i \in Request : /\ requests'[i].made = requests[i].made
                            /\ requests'[i].selected = requests[i].selected
  PROVE  Placed'
<1>1. 1 \in Request /\ \A n \in 0 .. MaxRequests : n # 0 => n \in Request
  BY RunAssumption DEF Request
<1>2. /\ ctl.active \in 0 .. MaxRequests /\ ctl.cur \in 0 .. MaxRequests
      /\ ctl.holder \in 0 .. MaxRequests /\ ctl.from \in {"run", "hold", "renew"}
      /\ result.attempt \in 0 .. MaxRequests
  BY Zenon DEF Typed, Controls, Outcomes
<1>3. ctl.pc = "rerequest" => Replaced \in Request
  BY <1>1, <1>2, Zenon DEF Placed, Replaced
<1>4. (ctl.pc = "rerequest" => Lost(Replaced))'
  <2> SUFFICES ASSUME ctl.pc = "rerequest"
               PROVE  Lost(Replaced)'
    BY Zenon
  <2>1. PICK x \in Request : x = Replaced
    BY <1>3, Zenon
  <2>2. Replaced' = x
    BY <2>1, Zenon DEF Replaced
  <2>3. Lost(x)'
    BY <2>1, Zenon DEF Placed, StaysLost
  <2> QED
    BY <2>2, <2>3, Zenon DEF Lost, Past, Unassigned
<1>5. /\ (ctl.active # 0 => Past(ctl.active))'
      /\ (ctl.holder # 0 => Past(ctl.holder))'
      /\ (result.attempt # 0 => Past(result.attempt))'
  BY <1>1, <1>2, Zenon DEF Placed, Kept, Past
<1>6. /\ (ctl.pc = "idle" => ~requests[1].made)'
      /\ (ctl.pc \in {"hold", "maintain", "await", "wait", "inspect"} => ctl.active # 0)'
      /\ (ctl.from # "run" => ctl.active # 0)'
      /\ (ctl.pc \in {"rerequest", "rebind"} => ctl.from # "run")'
      /\ (ctl.pc \in {"maintain", "await"} \/ ctl.from = "renew" => ctl.holder # 0)'
  BY <1>1, Zenon DEF Placed
<1>7. /\ (ctl.pc \in {"collect", "assign", "rebind"} => ctl.cur # 0 /\ requests[ctl.cur].made)'
      /\ (ctl.pc = "collect" => requests[ctl.cur].selected = NoAllocator)'
      /\ (ctl.pc \in {"assign", "rebind"} => requests[ctl.cur].selected # NoAllocator)'
  BY <1>1, <1>2, Zenon DEF Placed
<1> QED
  BY <1>4, <1>5, <1>6, <1>7, Zenon DEF Placed

LEMMA Indices ==
  ASSUME Typed
  PROVE  /\ 1 \in Request /\ Request \subseteq 0 .. MaxRequests
         /\ \A n \in 0 .. MaxRequests : n # 0 => n \in Request
         /\ ctl.pc \in Position
         /\ ctl.active \in 0 .. MaxRequests /\ ctl.cur \in 0 .. MaxRequests
         /\ ctl.holder \in 0 .. MaxRequests /\ ctl.from \in {"run", "hold", "renew"}
         /\ result.attempt \in 0 .. MaxRequests
<1>1. 1 \in Request /\ Request \subseteq 0 .. MaxRequests
  BY RunAssumption DEF Request
<1>2. \A n \in 0 .. MaxRequests : n # 0 => n \in Request
  BY RunAssumption DEF Request
<1> QED
  BY <1>1, <1>2, Zenon DEF Typed, Controls, Outcomes

\* Only the position changes.
Moves(p) == ctl' = [ctl EXCEPT !.pc = p]

LEMMA MoveSets ==
  ASSUME Typed, NEW p \in Position, Moves(p)
  PROVE  /\ ctl' \in Controls
         /\ ctl'.pc = p /\ ctl'.active = ctl.active /\ ctl'.cur = ctl.cur
         /\ ctl'.holder = ctl.holder /\ ctl'.from = ctl.from
BY Zenon DEF Typed, Controls, Moves

\* A request stays as it is, but for the allocators it was sent to.
SameRequests ==
  /\ requests' \in [Request -> Records]
  /\ \A i \in Request :
       /\ requests'[i].made = requests[i].made /\ requests'[i].parent = requests[i].parent
       /\ requests'[i].selected = requests[i].selected
       /\ requests'[i].offers = requests[i].offers

\* What the controller refers to is still past its assignment.
LEMMA PastKept ==
  ASSUME Typed, Placed, Kept, ctl'.active = ctl.active, ctl'.holder = ctl.holder, result' = result
  PROVE  /\ (ctl.active # 0 => Past(ctl.active))' /\ (ctl.holder # 0 => Past(ctl.holder))'
         /\ (result.attempt # 0 => Past(result.attempt))'
<1>1. \A i \in Request : Past(i) => Past(i)'
  BY Zenon DEF Kept
<1>2. /\ ctl.active # 0 => ctl.active \in Request /\ Past(ctl.active)
      /\ ctl.holder # 0 => ctl.holder \in Request /\ Past(ctl.holder)
      /\ result.attempt # 0 => result.attempt \in Request /\ Past(result.attempt)
  BY Indices, Zenon DEF Placed
<1>3. (ctl.active # 0 => Past(ctl.active))'
  BY <1>1, <1>2, Zenon DEF Past
<1>4. (ctl.holder # 0 => Past(ctl.holder))'
  BY <1>1, <1>2, Zenon DEF Past
<1>5. (result.attempt # 0 => Past(result.attempt))'
  BY <1>1, <1>2, Zenon DEF Past
<1> QED
  BY <1>3, <1>4, <1>5, Zenon

LEMMA PlacedMoves ==
  ASSUME Typed, Placed, Kept,
         NEW p \in {"hold", "await", "wait", "inspect", "return", "done"}, Moves(p),
         result'.attempt \in {0, ctl.active, result.attempt},
         p \in {"hold", "await", "wait", "inspect"} => ctl.active # 0,
         p = "await" => ctl.holder # 0
  PROVE  ctl' \in Controls /\ Placed'
<1>1. /\ ctl' \in Controls
      /\ ctl'.pc = p /\ ctl'.active = ctl.active /\ ctl'.cur = ctl.cur
      /\ ctl'.holder = ctl.holder /\ ctl'.from = ctl.from
  BY MoveSets, Zenon DEF Position
<1>2. /\ \A n \in 0 .. MaxRequests : n # 0 => n \in Request
      /\ ctl.active \in 0 .. MaxRequests /\ ctl.holder \in 0 .. MaxRequests
      /\ result.attempt \in 0 .. MaxRequests
  BY Indices, Zenon
<1>3. \A i \in Request : Past(i) => Past(i)'
  BY Zenon DEF Kept
<1>4. /\ (ctl.active # 0 => Past(ctl.active))'
      /\ (ctl.holder # 0 => Past(ctl.holder))'
  BY <1>1, <1>2, <1>3, Zenon DEF Placed, Past
<1>5. (result.attempt # 0 => Past(result.attempt))'
  BY <1>1, <1>2, <1>3, Zenon DEF Placed, Past
<1>6. ctl'.pc \notin {"idle", "maintain", "collect", "assign", "rebind", "rerequest"}
  BY <1>1, Zenon
<1> QED
  BY <1>1, <1>4, <1>5, <1>6, Zenon DEF Placed

LEMMA PlacedAt ==
  ASSUME Typed, Placed, ctl' \in Controls, result' = result,
         \A i \in Request : Past(i) => Past(i)',
         ctl'.pc \in {"hold", "maintain", "wait", "rerequest", "rebind"},
         NEW a \in Request, ctl'.active = a, Past(a)',
         NEW h \in 0 .. MaxRequests, ctl'.holder = h, h # 0 => Past(h)',
         ctl'.pc = "maintain" \/ ctl'.from = "renew" => h # 0,
         ctl'.pc \in {"rerequest", "rebind"} => ctl'.from # "run",
         ctl'.pc = "rerequest" => /\ ctl'.from = "hold" => Lost(a)'
                                  /\ ctl'.from # "hold" => Lost(h)',
         ctl'.pc = "rebind" => /\ ctl'.cur # 0 /\ requests'[ctl'.cur].made
                               /\ requests'[ctl'.cur].selected # NoAllocator
  PROVE  Placed'
<1>1. a # 0 /\ \A n \in 0 .. MaxRequests : n # 0 => n \in Request
  BY RunAssumption DEF Request
<1>2. result.attempt \in 0 .. MaxRequests
  BY Indices, Zenon
<1>3. (result.attempt # 0 => Past(result.attempt))'
  BY <1>1, <1>2, Zenon DEF Placed, Past
<1>4. (ctl.active # 0 => Past(ctl.active))' /\ (ctl.holder # 0 => Past(ctl.holder))'
  BY Zenon DEF Past
<1>5. (ctl.pc = "rerequest" => Lost(Replaced))'
  BY Zenon DEF Replaced, Lost, Past, Unassigned
<1>6. ctl'.pc \notin {"idle", "await", "collect", "assign"}
  BY Zenon
<1> QED
  BY <1>1, <1>3, <1>4, <1>5, <1>6, Zenon DEF Placed

LEMMA AttemptFailed ==
  ASSUME Typed, Placed, AttemptFails
  PROVE  \E p \in {"wait", "return"} :
           /\ Moves(p) /\ result' \in Outcomes
           /\ result'.attempt \in {0, ctl.active, result.attempt}
           /\ p = "wait" => ctl.active # 0
<1>1. ctl.from \in {"run", "hold", "renew"} /\ ctl.active \in 0 .. MaxRequests
  BY Indices, Zenon
<1>2. CASE ctl.from = "run"
  <2>1. Returns("error", 0)
    BY <1>2, Zenon DEF AttemptFails
  <2>2. result' \in Outcomes /\ result'.attempt = 0
    BY <2>1, RunAssumption DEF Returns, Outcomes
  <2> QED
    BY <2>1, <2>2, Zenon DEF Returns, Moves
<1>3. CASE ctl.from = "hold"
  <2>1. Returns("error", ctl.active)
    BY <1>3, Zenon DEF AttemptFails
  <2>2. result' \in Outcomes /\ result'.attempt = ctl.active
    BY <1>1, <2>1, Zenon DEF Returns, Outcomes
  <2> QED
    BY <2>1, <2>2, Zenon DEF Returns, Moves
<1>4. CASE ctl.from = "renew"
  <2>1. Moves("wait") /\ result' = result
    BY <1>4, Zenon DEF AttemptFails, Moves
  <2> QED
    BY <1>4, <2>1, Zenon DEF Placed, Typed
<1> QED
  BY <1>1, <1>2, <1>3, <1>4, Zenon

\* A step of the client that changes no request and no allocator.
LEMMA ClientStep ==
  ASSUME RunInv, SameRequests, Kept, StillOut, Mail', Placed',
         inbox' \in [Allocators -> Seq(Commands)],
         ctl' \in Controls, result' \in Outcomes, executions' \in [Request -> Leases],
         offered' = offered, work' = work, replies' \subseteq replies,
         \A i \in Request : Terminal(executions'[i].state) => work[i] = executions'[i].state,
         \A i \in Request : executions'[i].lost => Lost(i)
  PROVE  RunInv'
<1>1. Typed'
  BY Zenon DEF RunInv, Typed, SameRequests
<1>2. Numbered'
  BY Zenon DEF RunInv, Numbered, SameRequests
<1>3. StaysLost
  BY LostKept, Zenon DEF Lost
<1>4. Observed'
  <2>1. \A i \in Request : requests'[i].parent \in {0, requests[i].parent}
    BY Zenon DEF SameRequests
  <2> QED
    BY <1>3, <2>1, ObservedStep, Zenon DEF RunInv, SameRequests
<1>5. Settling'
  <2>1. ASSUME NEW i \in Request
        PROVE  Decided(i)'
    <3>1. Decided(i)
      BY Zenon DEF RunInv, Settling
    <3>2. /\ requests'[i].made = requests[i].made
          /\ requests'[i].selected = requests[i].selected
          /\ requests'[i].offers = requests[i].offers /\ offered'[i] = offered[i]
      BY Zenon DEF SameRequests
    <3> QED
      BY <3>1, <3>2 DEF Decided
  <2> QED
    BY <2>1, Zenon DEF Settling
<1> QED
  BY <1>1, <1>2, <1>4, <1>5, Zenon DEF RunInv

-----------------------------------------------------------------------------
(* Steps of the controller that send nothing.                              *)

\* What the client believes stays true in a step that leaves it alone.
LEMMA BeliefsSame ==
  ASSUME RunInv
  PROVE  /\ \A i \in Request : Terminal(executions[i].state) => work[i] = executions[i].state
         /\ \A i \in Request : executions[i].lost => Lost(i)
BY Zenon DEF RunInv, Observed, Believed

LEMMA SameUnchanged ==
  ASSUME RunInv, requests' = requests
  PROVE  SameRequests
BY Zenon DEF RunInv, Typed, SameRequests

LEMMA KeptMoves ==
  ASSUME Typed, SameRequests, ctl'.pc # "assign" \/ ctl' = ctl
  PROVE  Kept
BY KeptSame, Zenon DEF SameRequests

\* The controller moves on, with what it knows.
LEMMA QuietStep ==
  ASSUME RunInv, ctl' \in Controls, ctl'.pc # "assign", Placed', result' \in Outcomes,
         executions' \in [Request -> Leases],
         \A i \in Request : Terminal(executions'[i].state) => work[i] = executions'[i].state,
         \A i \in Request : executions'[i].lost => Lost(i),
         UNCHANGED <<requests, inbox, replies, offered, work>>
  PROVE  RunInv'
<1>1. Typed /\ Mail /\ SameRequests
  BY SameUnchanged, Zenon DEF RunInv
<1>2. Kept
  BY <1>1, KeptMoves, Zenon
<1>3. Mail' /\ StillOut
  BY <1>1, <1>2, MailSame, Zenon
<1>4. inbox' \in [Allocators -> Seq(Commands)] /\ replies' \subseteq replies
  BY <1>1, Zenon DEF Typed
<1> QED
  BY <1>1, <1>2, <1>3, <1>4, ClientStep, Zenon

\* The controller moves on; nothing else changes but the result.
LEMMA QuietMove ==
  ASSUME RunInv,
         NEW p \in {"hold", "await", "wait", "inspect", "return", "done"}, Moves(p),
         result' \in Outcomes, result'.attempt \in {0, ctl.active, result.attempt},
         p \in {"hold", "await", "wait", "inspect"} => ctl.active # 0,
         p = "await" => ctl.holder # 0,
         UNCHANGED <<requests, executions, inbox, replies, offered, work>>
  PROVE  RunInv'
<1>1. Typed /\ Placed /\ SameRequests
  BY SameUnchanged, Zenon DEF RunInv
<1>2. ctl'.pc # "assign"
  BY <1>1, MoveSets, Zenon DEF Position
<1>3. ctl' \in Controls /\ Placed'
  BY <1>1, <1>2, KeptMoves, PlacedMoves, Zenon
<1>4. executions' \in [Request -> Leases]
  BY <1>1, Zenon DEF Typed
<1> QED
  BY <1>2, <1>3, <1>4, BeliefsSame, QuietStep, Zenon

LEMMA QuietFailure ==
  ASSUME RunInv, AttemptFails,
         UNCHANGED <<requests, executions, inbox, replies, offered, work>>
  PROVE  RunInv'
<1>1. PICK p \in {"wait", "return"} :
        /\ Moves(p) /\ result' \in Outcomes
        /\ result'.attempt \in {0, ctl.active, result.attempt}
        /\ p = "wait" => ctl.active # 0
  BY AttemptFailed, Zenon DEF RunInv
<1> QED
  BY <1>1, QuietMove, Zenon

LEMMA QuietReturn ==
  ASSUME RunInv, NEW kind \in {"error", "state"}, NEW n \in {0, ctl.active}, Returns(kind, n),
         UNCHANGED <<requests, executions, inbox, replies, offered, work>>
  PROVE  RunInv'
<1>1. n \in 0 .. MaxRequests
  BY Indices, RunAssumption DEF RunInv
<1>2. result' \in Outcomes /\ result'.attempt = n
  BY <1>1, Zenon DEF Returns, Outcomes
<1> QED
  BY <1>2, QuietMove, Zenon DEF Returns, Moves

LEMMA CollectCancelledKeeps ==
  ASSUME RunInv, CollectCancelled
  PROVE  RunInv'
BY QuietFailure, Zenon DEF CollectCancelled

LEMMA InspectReturnsKeeps ==
  ASSUME RunInv, InspectReturns
  PROVE  RunInv'
<1>1. ctl.active # 0 /\ result \in Outcomes
  BY Zenon DEF RunInv, Placed, Typed, InspectReturns
<1>2. CASE Moves("hold") /\ UNCHANGED result
  BY <1>1, <1>2, QuietMove, Zenon DEF InspectReturns
<1>3. CASE Returns("error", ctl.active)
  BY <1>3, QuietReturn, Zenon DEF InspectReturns
<1> QED
  BY <1>2, <1>3, Zenon DEF InspectReturns, Moves

LEMMA WaitKeeps ==
  ASSUME RunInv, WaitCancelled \/ WaitSignalled
  PROVE  RunInv'
<1>1. ctl.active # 0 /\ result \in Outcomes
  BY Zenon DEF RunInv, Placed, Typed, WaitCancelled, WaitSignalled
<1>2. CASE WaitCancelled
  BY <1>2, QuietReturn, Zenon DEF WaitCancelled
<1>3. CASE WaitSignalled
  BY <1>1, <1>3, QuietMove, Zenon DEF WaitSignalled, Moves
<1> QED
  BY <1>2, <1>3, Zenon

LEMMA QuietKept ==
  ASSUME RunInv, ctl'.pc # "assign", UNCHANGED <<requests, inbox, work>>
  PROVE  \A i \in Request : (Past(i) => Past(i)') /\ (Lost(i) => Lost(i)')
<1>1. \A i \in Request : Past(i) => Past(i)'
  BY Zenon DEF Past
<1> QED
  BY <1>1, Zenon DEF Lost, Unassigned

\* The attempt the controller holds, and the one it renews.
LEMMA Held ==
  ASSUME RunInv
  PROVE  /\ ctl.holder \in 0 .. MaxRequests
         /\ ctl.holder # 0 => ctl.holder \in Request /\ Past(ctl.holder)
         /\ ctl.active # 0 => ctl.active \in Request /\ Past(ctl.active)
BY Indices, Zenon DEF RunInv, Placed

\* Where the controller goes from an attempt that is lost, or due for renewal.
LEMMA holdRunKeeps ==
  ASSUME RunInv, holdRun
  PROVE  RunInv'
<1>1. Typed /\ Placed /\ ctl \in Controls /\ result \in Outcomes
      /\ executions \in [Request -> Leases]
  BY Zenon DEF RunInv, Typed
<1>2. PICK i \in Request : i = ctl.active /\ i # 0 /\ Past(i)
  BY <1>1, Held, Zenon DEF Placed, holdRun
<1>3. PICK third \in BOOLEAN :
        \/ Returns("state", i)
        \/ executions[i].lost /\ ctl' = [ctl EXCEPT !.pc = "rerequest", !.from = "hold"]
             /\ result' = result
        \/ ctl' = [ctl EXCEPT !.pc = "maintain", !.holder = i, !.again = FALSE]
             /\ result' = result
        \/ Moves("wait") /\ result' = result
  BY <1>2, Zenon DEF holdRun, Moves
<1>4. UNCHANGED <<requests, executions, inbox, replies, offered, work>>
  BY Zenon DEF holdRun
<1>5. CASE Returns("state", i)
  BY <1>2, <1>4, <1>5, QuietReturn, Zenon
<1>6. CASE executions[i].lost /\ ctl' = [ctl EXCEPT !.pc = "rerequest", !.from = "hold"]
             /\ result' = result
  <2>1. /\ ctl' \in Controls /\ ctl'.pc = "rerequest" /\ ctl'.from = "hold"
        /\ ctl'.active = i /\ ctl'.holder = ctl.holder
    BY <1>1, <1>2, <1>6, Zenon DEF Controls, Position
  <2>2. \A n \in Request : (Past(n) => Past(n)') /\ (Lost(n) => Lost(n)')
    BY <1>4, <2>1, QuietKept, Zenon
  <2>3. Lost(i)
    BY <1>6, BeliefsSame, Zenon
  <2>4. PICK h \in 0 .. MaxRequests : h = ctl.holder /\ (h # 0 => h \in Request /\ Past(h))
    BY Held, Zenon
  <2>5. Placed'
    BY <1>1, <1>2, <1>6, <2>1, <2>2, <2>3, <2>4, PlacedAt, Zenon
  <2> QED
    BY <1>1, <1>4, <1>6, <2>1, <2>5, BeliefsSame, QuietStep, Zenon
<1>7. CASE ctl' = [ctl EXCEPT !.pc = "maintain", !.holder = i, !.again = FALSE]
             /\ result' = result
  <2>1. i \in 0 .. MaxRequests
    BY <1>1, Indices, Zenon
  <2>2. /\ ctl' \in Controls /\ ctl'.pc = "maintain" /\ ctl'.from = ctl.from
        /\ ctl'.active = i /\ ctl'.holder = i
    BY <1>1, <1>2, <1>7, <2>1, Zenon DEF Controls, Position
  <2>3. \A n \in Request : Past(n) => Past(n)'
    BY <1>4, <2>2, QuietKept, Zenon
  <2>4. Placed'
    BY <1>1, <1>2, <1>7, <2>1, <2>2, <2>3, PlacedAt, Zenon
  <2> QED
    BY <1>1, <1>4, <1>7, <2>2, <2>4, BeliefsSame, QuietStep, Zenon
<1>8. CASE Moves("wait") /\ result' = result
  BY <1>1, <1>2, <1>4, <1>8, QuietMove, Zenon
<1> QED
  BY <1>3, <1>5, <1>6, <1>7, <1>8, Zenon

LEMMA awaitLeaseAckKeeps ==
  ASSUME RunInv, awaitLeaseAck
  PROVE  RunInv'
<1>1. Typed /\ Placed /\ ctl \in Controls /\ result' = result /\ result \in Outcomes
      /\ executions \in [Request -> Leases]
  BY Zenon DEF RunInv, Typed, awaitLeaseAck
<1>2. PICK i \in Request : i = ctl.active /\ i # 0 /\ Past(i)
  BY <1>1, Held, Zenon DEF Placed, awaitLeaseAck
<1>3. PICK h \in Request : h = ctl.holder /\ h # 0 /\ Past(h)
  BY <1>1, Held, Zenon DEF Placed, awaitLeaseAck
<1>4. UNCHANGED <<requests, executions, inbox, replies, offered, work>>
  BY Zenon DEF awaitLeaseAck
<1>5. h \in 0 .. MaxRequests
  BY <1>1, Indices, Zenon
<1>6. CASE ctl' = [ctl EXCEPT !.pc = "wait", !.active = IF ctl.again THEN ctl.holder ELSE @]
  <2>1. PICK n \in {i, h} : ctl' = [ctl EXCEPT !.pc = "wait", !.active = n]
    BY <1>2, <1>3, <1>6, Zenon
  <2>2. n \in Request /\ n \in 0 .. MaxRequests /\ Past(n)
    BY <1>1, <1>2, <1>3, <2>1, Indices, Zenon
  <2>3. /\ ctl' \in Controls /\ ctl'.pc = "wait" /\ ctl'.from = ctl.from
        /\ ctl'.active = n /\ ctl'.holder = h
    BY <1>1, <1>3, <2>1, <2>2, Zenon DEF Controls, Position
  <2>4. \A k \in Request : Past(k) => Past(k)'
    BY <1>4, <2>3, QuietKept, Zenon
  <2>5. Placed'
    BY <1>1, <1>3, <1>5, <2>2, <2>3, <2>4, PlacedAt, Zenon
  <2> QED
    BY <1>1, <1>4, <2>3, <2>5, BeliefsSame, QuietStep, Zenon
<1>7. CASE executions[h].lost /\ ctl' = [ctl EXCEPT !.pc = "rerequest", !.from = "renew"]
  <2>1. /\ ctl' \in Controls /\ ctl'.pc = "rerequest" /\ ctl'.from = "renew"
        /\ ctl'.active = i /\ ctl'.holder = h
    BY <1>1, <1>2, <1>3, <1>7, Zenon DEF Controls, Position
  <2>2. \A n \in Request : (Past(n) => Past(n)') /\ (Lost(n) => Lost(n)')
    BY <1>4, <2>1, QuietKept, Zenon
  <2>3. Lost(h)
    BY <1>7, BeliefsSame, Zenon
  <2>4. Placed'
    BY <1>1, <1>2, <1>3, <1>5, <2>1, <2>2, <2>3, PlacedAt, Zenon
  <2> QED
    BY <1>1, <1>4, <2>1, <2>4, BeliefsSame, QuietStep, Zenon
<1>8. CASE Moves("wait")
  BY <1>1, <1>2, <1>4, <1>8, QuietMove, Zenon
<1> QED
  BY <1>3, <1>6, <1>7, <1>8, Zenon DEF awaitLeaseAck, Moves

LEMMA LeaseHeld ==
  ASSUME NEW e \in [Request -> Leases], NEW n \in Request, NEW b \in BOOLEAN
  PROVE  /\ [e EXCEPT ![n].held = b] \in [Request -> Leases]
         /\ \A i \in Request : /\ [e EXCEPT ![n].held = b][i].state = e[i].state
                               /\ [e EXCEPT ![n].held = b][i].lost = e[i].lost
BY Zenon DEF Leases

LEMMA LeaseFound ==
  ASSUME NEW e \in [Request -> Leases], NEW n \in Request
  PROVE  /\ [e EXCEPT ![n].lost = FALSE] \in [Request -> Leases]
         /\ \A i \in Request : /\ [e EXCEPT ![n].lost = FALSE][i].state = e[i].state
                               /\ [e EXCEPT ![n].lost = FALSE][i].lost => e[i].lost
BY Zenon DEF Leases

LEMMA LeaseRenewing ==
  ASSUME NEW e \in [Request -> Leases], NEW n \in Request, NEW b \in BOOLEAN
  PROVE  /\ [e EXCEPT ![n].renewing = b] \in [Request -> Leases]
         /\ \A i \in Request : /\ [e EXCEPT ![n].renewing = b][i].state = e[i].state
                               /\ [e EXCEPT ![n].renewing = b][i].lost = e[i].lost
BY Zenon DEF Leases

LEMMA LeaseRenewed ==
  ASSUME NEW e \in [Request -> Leases], NEW n \in Request, NEW b \in BOOLEAN
  PROVE  /\ [e EXCEPT ![n].renewed = b] \in [Request -> Leases]
         /\ \A i \in Request : /\ [e EXCEPT ![n].renewed = b][i].state = e[i].state
                               /\ [e EXCEPT ![n].renewed = b][i].lost = e[i].lost
BY Zenon DEF Leases

LEMMA RebindLeaseIntentKeeps ==
  ASSUME RunInv, RebindLeaseIntent
  PROVE  RunInv' /\ Forward
<1>1. Typed /\ Placed /\ ctl \in Controls /\ result \in Outcomes
      /\ executions \in [Request -> Leases]
  BY Zenon DEF RunInv, Typed
<1>2. UNCHANGED <<requests, inbox, replies, offered, work>>
  BY Zenon DEF RebindLeaseIntent
<1>3. CASE ~executions[Replaced].held
  BY <1>2, <1>3, QuietFailure, Zenon DEF RebindLeaseIntent, Forward
<1>4. CASE executions[Replaced].held
  <2>1. PICK new \in Request : new = ctl.cur /\ new # 0 /\ Past(new)
    BY <1>1, Indices, Zenon DEF Placed, RebindLeaseIntent, Past
  <2>2. PICK old \in Request : old = Replaced
    BY <1>1, Indices, Zenon DEF Placed, RebindLeaseIntent, Replaced
  <2>3. new \in 0 .. MaxRequests
    BY <1>1, Indices, Zenon
  <2>4. executions' = [executions EXCEPT ![old].held = FALSE, ![old].lost = FALSE,
                                         ![new].held = TRUE,  ![new].lost = FALSE]
    BY <1>4, <2>1, <2>2, Zenon DEF RebindLeaseIntent
  <2>5. /\ executions' \in [Request -> Leases]
        /\ \A i \in Request : /\ executions'[i].state = executions[i].state
                              /\ executions'[i].lost => executions[i].lost
    <3> DEFINE e1 == [executions EXCEPT ![old].held = FALSE]
               e2 == [e1 EXCEPT ![old].lost = FALSE]
               e3 == [e2 EXCEPT ![new].held = TRUE]
               e4 == [e3 EXCEPT ![new].lost = FALSE]
    <3> HIDE DEF e1, e2, e3, e4
    <3>1. /\ e1 \in [Request -> Leases]
          /\ \A i \in Request : e1[i].state = executions[i].state /\ e1[i].lost = executions[i].lost
      BY <1>1, LeaseHeld, Zenon DEF e1
    <3>2. /\ e2 \in [Request -> Leases]
          /\ \A i \in Request : e2[i].state = e1[i].state /\ (e2[i].lost => e1[i].lost)
      BY <3>1, LeaseFound, Zenon DEF e2
    <3>3. /\ e3 \in [Request -> Leases]
          /\ \A i \in Request : e3[i].state = e2[i].state /\ e3[i].lost = e2[i].lost
      BY <3>2, LeaseHeld, Zenon DEF e3
    <3>4. /\ e4 \in [Request -> Leases]
          /\ \A i \in Request : e4[i].state = e3[i].state /\ (e4[i].lost => e3[i].lost)
      BY <3>3, LeaseFound, Zenon DEF e4
    <3>5. executions' = e4
      BY <2>4, Zenon DEF e1, e2, e3, e4
    <3> QED
      BY <3>1, <3>2, <3>3, <3>4, <3>5, Zenon
  <2>6. /\ \A i \in Request : Terminal(executions'[i].state) => work[i] = executions'[i].state
        /\ \A i \in Request : executions'[i].lost => Lost(i)
    BY <2>5, BeliefsSame, Zenon DEF Terminal, Revision
  <2>7. CASE ctl.from = "hold"
    <3>1. ctl' = [ctl EXCEPT !.pc = "hold", !.active = new] /\ result' = result
      BY <1>4, <2>1, <2>7, Zenon DEF RebindLeaseIntent
    <3>2. /\ ctl' \in Controls /\ ctl'.pc = "hold" /\ ctl'.from = "hold"
          /\ ctl'.active = new /\ ctl'.holder = ctl.holder
      BY <1>1, <2>3, <2>7, <3>1, Zenon DEF Controls, Position
    <3>3. \A n \in Request : Past(n) => Past(n)'
      BY <1>2, <3>2, QuietKept, Zenon
    <3>4. PICK h \in 0 .. MaxRequests : h = ctl.holder /\ (h # 0 => h \in Request /\ Past(h))
      BY Held, Zenon
    <3>5. Placed'
      BY <1>1, <2>1, <3>1, <3>2, <3>3, <3>4, PlacedAt, Zenon
    <3> QED
      BY <1>1, <1>2, <2>5, <2>6, <3>1, <3>2, <3>5, QuietStep, Zenon DEF Forward
  <2>8. CASE ctl.from # "hold"
    <3>1. PICK i \in Request : i = ctl.active /\ Past(i)
      BY <1>1, Held, Zenon DEF Placed, RebindLeaseIntent
    <3>2. ctl' = [ctl EXCEPT !.pc = "maintain", !.holder = new, !.again = TRUE]
          /\ result' = result
      BY <1>4, <2>1, <2>8, Zenon DEF RebindLeaseIntent
    <3>3. /\ ctl' \in Controls /\ ctl'.pc = "maintain" /\ ctl'.active = i /\ ctl'.holder = new
      BY <1>1, <2>3, <3>1, <3>2, Zenon DEF Controls, Position
    <3>4. \A n \in Request : Past(n) => Past(n)'
      BY <1>2, <3>3, QuietKept, Zenon
    <3>5. Placed'
      BY <1>1, <2>1, <2>3, <3>1, <3>2, <3>3, <3>4, PlacedAt, Zenon
    <3> QED
      BY <1>1, <1>2, <2>5, <2>6, <3>2, <3>3, <3>5, QuietStep, Zenon DEF Forward
  <2> QED
    BY <2>7, <2>8, Zenon
<1> QED
  BY <1>3, <1>4, Zenon

-----------------------------------------------------------------------------
(* Steps of the controller that send a command.                            *)

LEMMA Sent ==
  ASSUME RunInv, SameRequests, ctl'.pc # "assign" \/ ctl' = ctl, work' = work,
         NEW c \in Commands, NEW reached \in SUBSET Allocators,
         inbox' = Posted(reached, c),
         \A a \in reached : Addressed(a, c)',
         c.type = "assign" => ~Past(c.req)
  PROVE  /\ Kept /\ StillOut /\ StaysLost /\ Mail'
         /\ inbox' \in [Allocators -> Seq(Commands)]
<1>1. Typed /\ Mail
  BY Zenon DEF RunInv
<1>2. Kept
  BY <1>1, KeptMoves, Zenon
<1>3. inbox' \in [Allocators -> Seq(Commands)] /\ Mail' /\ StillOut
  BY <1>1, <1>2, MailPosted, Zenon
<1>4. StaysLost
  BY <1>2, <1>3, LostKept, Zenon DEF Lost
<1> QED
  BY <1>2, <1>3, <1>4, Zenon

\* A command to the allocator that was assigned the request.
LEMMA SentToSelected ==
  ASSUME RunInv, SameRequests, ctl'.pc # "assign", work' = work,
         NEW i \in Request, Past(i),
         NEW t \in {"renew", "inspect", "cancel"}, NEW o,
         inbox' = Posted(Reached(requests[i].selected, o), Command(t, i))
  PROVE  /\ Kept /\ StillOut /\ StaysLost /\ Mail'
         /\ inbox' \in [Allocators -> Seq(Commands)]
<1> DEFINE c == Command(t, i)
<1>1. c \in Commands /\ c.type = t /\ c.req = i
  BY Zenon DEF Command, Commands
<1>2. PICK a \in Allocators : a = requests[i].selected
  <2>1. requests[i].selected \in Allocators \cup {NoAllocator}
    BY Zenon DEF RunInv, Typed, Records
  <2> QED
    BY <2>1, Zenon DEF Past
<1>3. Reached(a, o) \in SUBSET Allocators /\ \A b \in Reached(a, o) : b = a
  BY Zenon DEF Reached
<1>4. Past(i)' /\ requests'[i].made /\ requests'[i].selected = a
  BY <1>2, KeptMoves, Zenon DEF RunInv, Kept, SameRequests, Past
<1>5. PICK d \in Commands : d = c
  BY <1>1, Zenon
<1>6. d.type = t /\ d.req = i
  BY <1>1, <1>5, Zenon
<1>7. \A b \in Reached(a, o) : Addressed(b, d)'
  BY <1>3, <1>4, <1>6, Zenon DEF Addressed, Past
<1>8. d.type # "assign"
  BY <1>6, Zenon
<1>9. inbox' = Posted(Reached(a, o), d)
  BY <1>2, <1>5, Zenon
<1> QED
  BY <1>3, <1>7, <1>8, <1>9, Sent, Zenon

LEMMA WaitTickKeeps ==
  ASSUME RunInv, WaitTick
  PROVE  RunInv' /\ Forward
<1>1. Typed /\ Placed /\ SameRequests /\ result \in Outcomes
      /\ executions \in [Request -> Leases]
  BY SameUnchanged, Zenon DEF RunInv, Typed, WaitTick
<1>2. PICK i \in Request : i = ctl.active /\ i # 0 /\ Past(i)
  BY <1>1, Held, Zenon DEF Placed, WaitTick
<1>3. PICK o \in SendOutcomes(requests[i].selected, Sending) :
        /\ inbox' = Posted(Reached(requests[i].selected, o), Command("inspect", i))
        /\ \/ Moves("inspect") /\ result' = result
           \/ Returns("error", i)
           \/ Moves("hold") /\ result' = result
  BY <1>2, Zenon DEF WaitTick, Moves
<1>4. PICK p \in {"inspect", "hold", "return"} :
        /\ Moves(p) /\ result' \in Outcomes
        /\ result'.attempt \in {0, ctl.active, result.attempt}
  <2>1. ASSUME Returns("error", i)
        PROVE  result' \in Outcomes /\ result'.attempt = i
    <3>1. i \in 0 .. MaxRequests
      BY <1>1, Indices, Zenon
    <3> QED
      BY <2>1, <3>1, Zenon DEF Returns, Outcomes
  <2> QED
    BY <1>1, <1>2, <1>3, <2>1, Zenon DEF Returns, Moves
<1>5. ctl'.pc # "assign"
  BY <1>1, <1>4, MoveSets, Zenon DEF Position
<1>6. work' = work /\ offered' = offered /\ replies' \subseteq replies
  BY Zenon DEF WaitTick, Unanswered
<1>7. Kept /\ StillOut /\ Mail' /\ inbox' \in [Allocators -> Seq(Commands)]
  BY <1>1, <1>2, <1>3, <1>5, <1>6, SentToSelected, Zenon
<1>8. ctl' \in Controls /\ Placed'
  BY <1>1, <1>2, <1>4, <1>7, PlacedMoves, Zenon
<1>9. /\ executions' \in [Request -> Leases]
      /\ \A n \in Request : /\ executions'[n].state = executions[n].state
                            /\ executions'[n].lost = executions[n].lost
  <2>1. executions' = [executions EXCEPT ![i].inspected = TRUE]
    BY <1>2, Zenon DEF WaitTick
  <2> QED
    BY <1>1, <2>1, Zenon DEF Leases
<1>10. /\ \A n \in Request : Terminal(executions'[n].state) => work[n] = executions'[n].state
       /\ \A n \in Request : executions'[n].lost => Lost(n)
  BY <1>9, BeliefsSame, Zenon DEF Terminal, Revision
<1> QED
  BY <1>1, <1>4, <1>6, <1>7, <1>8, <1>9, <1>10, ClientStep, Zenon DEF Forward

LEMMA ReturnKeeps ==
  ASSUME RunInv, Return
  PROVE  RunInv'
<1>1. Typed /\ Placed /\ SameRequests /\ result' = result /\ result \in Outcomes
      /\ executions' = executions /\ executions \in [Request -> Leases]
      /\ Moves("done") /\ work' = work /\ offered' = offered /\ replies' \subseteq replies
  BY SameUnchanged, Zenon DEF RunInv, Typed, Return, Moves
<1>2. ctl'.pc # "assign"
  BY <1>1, MoveSets, Zenon DEF Position
<1>3. CASE inbox' = inbox
  BY <1>1, <1>3, QuietMove, Zenon DEF Return
<1>4. CASE inbox' # inbox
  <2>1. PICK i \in Request : i = result.attempt /\ Past(i)
    BY <1>1, <1>4, Indices, Zenon DEF Return, Placed
  <2>2. \E o \in SendOutcomes(requests[i].selected, endpoint # "closed") :
          inbox' = Posted(Reached(requests[i].selected, o), Command("cancel", i))
    BY <1>4, <2>1, Zenon DEF Return
  <2>3. Kept /\ StillOut /\ Mail' /\ inbox' \in [Allocators -> Seq(Commands)]
    BY <1>1, <1>2, <2>1, <2>2, SentToSelected, Zenon
  <2>4. ctl' \in Controls /\ Placed'
    BY <1>1, <2>3, PlacedMoves, Zenon
  <2> QED
    BY <1>1, <2>3, <2>4, BeliefsSame, ClientStep, Zenon
<1> QED
  BY <1>3, <1>4, Zenon

LEMMA MaintainKeeps ==
  ASSUME RunInv, Maintain
  PROVE  RunInv' /\ Forward
<1>1. Typed /\ Placed /\ SameRequests /\ result' = result /\ result \in Outcomes
      /\ ctl \in Controls /\ executions \in [Request -> Leases] /\ requests' = requests
      /\ work' = work /\ offered' = offered
  BY SameUnchanged, Zenon DEF RunInv, Typed, Maintain
<1>2. PICK i \in Request : i = ctl.active /\ i # 0 /\ Past(i)
  BY <1>1, Held, Zenon DEF Placed, Maintain
<1>3. PICK h \in Request : h = ctl.holder /\ h # 0 /\ Past(h)
  BY <1>1, Held, Zenon DEF Placed, Maintain
<1>4. CASE executions[h].lost \/ executions[h].state = "evicted"
  <2>1. /\ executions' = [executions EXCEPT ![h].lost = TRUE]
        /\ ctl' = [ctl EXCEPT !.pc = "rerequest", !.from = "renew"]
        /\ UNCHANGED <<inbox, replies>>
    BY <1>3, <1>4, Zenon DEF Maintain
  <2>2. Lost(h)
    <3>1. Believed(h)
      BY Zenon DEF RunInv, Observed
    <3>2. executions[h].state = "evicted" => Terminal(executions[h].state)
      BY Zenon DEF Terminal, Revision
    <3> QED
      BY <1>4, <3>1, <3>2, Zenon DEF Believed, Lost
  <2>3. /\ executions' \in [Request -> Leases]
        /\ \A n \in Request : /\ executions'[n].state = executions[n].state
                              /\ executions'[n].lost => executions[n].lost \/ n = h
    BY <1>1, <2>1, Zenon DEF Leases
  <2>4. /\ \A n \in Request : Terminal(executions'[n].state) => work[n] = executions'[n].state
        /\ \A n \in Request : executions'[n].lost => Lost(n)
    BY <2>2, <2>3, BeliefsSame, Zenon DEF Terminal, Revision
  <2>5. /\ ctl' \in Controls /\ ctl'.pc = "rerequest" /\ ctl'.from = "renew"
        /\ ctl'.active = i /\ ctl'.holder = h
    BY <1>1, <1>2, <1>3, <2>1, Zenon DEF Controls, Position
  <2>6. \A n \in Request : (Past(n) => Past(n)') /\ (Lost(n) => Lost(n)')
    BY <1>1, <2>1, <2>5, QuietKept, Zenon
  <2>7. h \in 0 .. MaxRequests
    BY <1>1, Indices, Zenon
  <2>8. Placed'
    BY <1>1, <1>2, <1>3, <2>2, <2>5, <2>6, <2>7, PlacedAt, Zenon
  <2> QED
    BY <1>1, <2>1, <2>3, <2>4, <2>5, <2>8, QuietStep, Zenon DEF Forward
<1>5. CASE ~(executions[h].lost \/ executions[h].state = "evicted") /\ Terminal(executions[h].state)
  <2>1. Moves("wait") /\ UNCHANGED <<requests, executions, inbox, replies, offered, work>>
    BY <1>1, <1>3, <1>5, Zenon DEF Maintain, Moves
  <2> QED
    BY <1>1, <1>2, <2>1, QuietMove, Zenon DEF Forward
<1>6. CASE ~(executions[h].lost \/ executions[h].state = "evicted") /\ ~Terminal(executions[h].state)
  <2>1. executions' = [executions EXCEPT ![h].renewing = TRUE, ![h].renewed = TRUE,
                                         ![h].held = TRUE]
    BY <1>3, <1>6, Zenon DEF Maintain
  <2>2. /\ executions' \in [Request -> Leases]
        /\ \A n \in Request : /\ executions'[n].state = executions[n].state
                              /\ executions'[n].lost = executions[n].lost
    <3> DEFINE e1 == [executions EXCEPT ![h].renewing = TRUE]
               e2 == [e1 EXCEPT ![h].renewed = TRUE]
               e3 == [e2 EXCEPT ![h].held = TRUE]
    <3> HIDE DEF e1, e2, e3
    <3>1. /\ e1 \in [Request -> Leases]
          /\ \A n \in Request : e1[n].state = executions[n].state /\ e1[n].lost = executions[n].lost
      BY <1>1, LeaseRenewing, Zenon DEF e1
    <3>2. /\ e2 \in [Request -> Leases]
          /\ \A n \in Request : e2[n].state = e1[n].state /\ e2[n].lost = e1[n].lost
      BY <3>1, LeaseRenewed, Zenon DEF e2
    <3>3. /\ e3 \in [Request -> Leases]
          /\ \A n \in Request : e3[n].state = e2[n].state /\ e3[n].lost = e2[n].lost
      BY <3>2, LeaseHeld, Zenon DEF e3
    <3>4. executions' = e3
      BY <2>1, Zenon DEF e1, e2, e3
    <3> QED
      BY <3>1, <3>2, <3>3, <3>4, Zenon
  <2>3. /\ \A n \in Request : Terminal(executions'[n].state) => work[n] = executions'[n].state
        /\ \A n \in Request : executions'[n].lost => Lost(n)
    BY <2>2, BeliefsSame, Zenon DEF Terminal, Revision
  <2>4. PICK o : inbox' = Posted(Reached(requests[h].selected, o), Command("renew", h))
                 /\ ctl' = [ctl EXCEPT !.pc = IF o.ok THEN "await" ELSE "wait"]
    BY <1>3, <1>6, Zenon DEF Maintain
  <2>5. PICK p \in {"await", "wait"} : Moves(p)
    BY <2>4, Zenon DEF Moves
  <2>6. ctl'.pc # "assign"
    BY <1>1, <2>5, MoveSets, Zenon DEF Position
  <2>7. Kept /\ StillOut /\ Mail' /\ inbox' \in [Allocators -> Seq(Commands)]
    BY <1>1, <1>3, <2>4, <2>6, SentToSelected, Zenon
  <2>8. ctl' \in Controls /\ Placed'
    BY <1>1, <1>2, <1>3, <2>5, <2>7, PlacedMoves, Zenon
  <2>9. replies' \subseteq replies
    BY <1>3, <1>6, Zenon DEF Maintain, Unanswered
  <2> QED
    BY <1>1, <2>2, <2>3, <2>7, <2>8, <2>9, ClientStep, Zenon DEF Forward
<1> QED
  BY <1>4, <1>5, <1>6, Zenon

LEMMA AssignKeeps ==
  ASSUME RunInv, Assign
  PROVE  RunInv'
<1>1. Typed /\ Placed /\ SameRequests /\ result \in Outcomes /\ ctl \in Controls
      /\ executions' = executions /\ executions \in [Request -> Leases]
      /\ work' = work /\ offered' = offered /\ replies' \subseteq replies
  BY SameUnchanged, Zenon DEF RunInv, Typed, Assign
<1>2. PICK i \in Request : /\ i = ctl.cur /\ i # 0 /\ requests[i].made
                           /\ requests[i].selected # NoAllocator
  BY <1>1, Indices, Zenon DEF Placed, Assign
<1>3. ~Past(i)
  BY <1>2, Zenon DEF Past, Assign
<1>4. PICK a \in Allocators : a = requests[i].selected
  <2>1. requests[i].selected \in Allocators \cup {NoAllocator}
    BY <1>1, Zenon DEF Typed, Records
  <2> QED
    BY <1>2, <2>1, Zenon
<1>5. PICK o : /\ inbox' = Posted(Reached(a, o), Command("assign", i))
               /\ \/ AttemptFails
                  \/ ctl.from = "run" /\ ctl' = [ctl EXCEPT !.pc = "hold", !.active = i]
                       /\ result' = result
                  \/ ctl.from # "run" /\ Moves("rebind") /\ result' = result
  BY <1>2, <1>4, Zenon DEF Assign, Moves
<1>6. PICK c \in Commands : c = Command("assign", i) /\ c.type = "assign" /\ c.req = i
  <2>1. /\ Command("assign", i) \in Commands
        /\ Command("assign", i).type = "assign" /\ Command("assign", i).req = i
    BY Zenon DEF Command, Commands
  <2> QED
    BY <2>1, Zenon
<1>7. ASSUME ctl'.pc # "assign"
      PROVE  /\ Kept /\ StillOut /\ Mail' /\ inbox' \in [Allocators -> Seq(Commands)]
             /\ Past(i)'
  <2>1. Reached(a, o) \in SUBSET Allocators /\ \A b \in Reached(a, o) : b = a
    BY Zenon DEF Reached
  <2>2. Past(i)' /\ requests'[i].made /\ requests'[i].selected = a
    BY <1>1, <1>2, <1>4, <1>7, Zenon DEF SameRequests, Past
  <2>3. \A b \in Reached(a, o) : Addressed(b, c)'
    BY <1>6, <2>1, <2>2, Zenon DEF Addressed, Past
  <2> QED
    BY <1>1, <1>3, <1>5, <1>6, <1>7, <2>1, <2>2, <2>3, Sent, Zenon
<1>8. CASE AttemptFails
  <2>1. PICK p \in {"wait", "return"} :
          /\ Moves(p) /\ result' \in Outcomes
          /\ result'.attempt \in {0, ctl.active, result.attempt}
          /\ p = "wait" => ctl.active # 0
    BY <1>1, <1>8, AttemptFailed, Zenon
  <2>2. ctl'.pc # "assign"
    BY <1>1, <2>1, MoveSets, Zenon DEF Position
  <2>3. ctl' \in Controls /\ Placed'
    BY <1>1, <1>7, <2>1, <2>2, PlacedMoves, Zenon
  <2> QED
    BY <1>1, <1>7, <2>1, <2>2, <2>3, BeliefsSame, ClientStep, Zenon
<1>9. PICK h \in 0 .. MaxRequests : h = ctl.holder /\ (h # 0 => h \in Request /\ Past(h))
  BY Held, Zenon
<1>10. CASE ctl.from = "run" /\ ctl' = [ctl EXCEPT !.pc = "hold", !.active = i] /\ result' = result
  <2>1. i \in 0 .. MaxRequests
    BY <1>1, Indices, Zenon
  <2>2. /\ ctl' \in Controls /\ ctl'.pc = "hold" /\ ctl'.from = "run"
        /\ ctl'.active = i /\ ctl'.holder = h
    BY <1>1, <1>9, <1>10, <2>1, Zenon DEF Controls, Position
  <2>3. Placed'
    BY <1>1, <1>7, <1>9, <1>10, <2>2, PlacedAt, Zenon DEF Kept
  <2> QED
    BY <1>1, <1>7, <1>10, <2>2, <2>3, BeliefsSame, ClientStep, Zenon
<1>11. CASE ctl.from # "run" /\ Moves("rebind") /\ result' = result
  <2>1. PICK n \in Request : n = ctl.active /\ Past(n)
    BY <1>1, <1>11, Held, Zenon DEF Placed
  <2>2. /\ ctl' \in Controls /\ ctl'.pc = "rebind" /\ ctl'.from # "run" /\ ctl'.cur = i
        /\ ctl'.active = n /\ ctl'.holder = h /\ ctl'.from = ctl.from
    BY <1>1, <1>2, <1>9, <1>11, <2>1, MoveSets, Zenon DEF Position
  <2>3. requests'[i].made /\ requests'[i].selected # NoAllocator /\ (ctl.from = "renew" => h # 0)
    BY <1>1, <1>2, <1>9, Zenon DEF SameRequests, Placed
  <2>4. Placed'
    BY <1>1, <1>2, <1>7, <1>9, <1>11, <2>1, <2>2, <2>3, PlacedAt, Zenon DEF Kept
  <2> QED
    BY <1>1, <1>7, <1>11, <2>2, <2>4, BeliefsSame, ClientStep, Zenon
<1> QED
  BY <1>5, <1>8, <1>10, <1>11, Zenon

LEMMA SendReleaseKeeps ==
  ASSUME RunInv, NEW i \in Request, NEW a \in Allocators, SendRelease(i, a)
  PROVE  RunInv'
<1>1. Typed /\ Placed /\ SameRequests /\ result' = result /\ ctl' = ctl
      /\ result \in Outcomes /\ ctl \in Controls
      /\ executions' = executions /\ executions \in [Request -> Leases]
      /\ work' = work /\ offered' = offered /\ replies' \subseteq replies
  BY SameUnchanged, Zenon DEF RunInv, Typed, SendRelease
<1>2. requests[i].offers[a] = "releasing"
  BY Zenon DEF SendRelease, PendingReleases
<1>3. requests[i].made /\ requests[i].selected \notin {NoAllocator, a}
  <2>1. Decided(i)
    BY Zenon DEF RunInv, Settling
  <2>2. "releasing" \notin {"none", "live"}
    OBVIOUS
  <2> QED
    BY <1>2, <2>1, <2>2, Zenon DEF Decided
<1>4. PICK o : inbox' = Posted(Reached(a, o), Command("release", i))
  BY Zenon DEF SendRelease
<1>5. PICK c \in Commands : c = Command("release", i) /\ c.type = "release" /\ c.req = i
  <2>1. /\ Command("release", i) \in Commands
        /\ Command("release", i).type = "release" /\ Command("release", i).req = i
    BY Zenon DEF Command, Commands
  <2> QED
    BY <2>1, Zenon
<1>6. Reached(a, o) \in SUBSET Allocators /\ \A b \in Reached(a, o) : b = a
  BY Zenon DEF Reached
<1>7. \A b \in Reached(a, o) : Addressed(b, c)'
  <2>1. requests'[i].made /\ requests'[i].selected \notin {NoAllocator, a}
    BY <1>1, <1>3, Zenon DEF SameRequests
  <2> QED
    BY <1>5, <1>6, <2>1, Zenon DEF Addressed
<1>8. c.type # "assign"
  BY <1>5, Zenon
<1>9. Kept /\ StillOut /\ StaysLost /\ Mail' /\ inbox' \in [Allocators -> Seq(Commands)]
  BY <1>1, <1>4, <1>5, <1>6, <1>7, <1>8, Sent, Zenon
<1>10. Placed'
  BY <1>1, <1>9, PlacedSame, Zenon DEF SameRequests
<1> QED
  BY <1>1, <1>9, <1>10, BeliefsSame, ClientStep, Zenon

LEMMA DiscoverKeeps ==
  ASSUME RunInv, NEW a \in Allocators, Discover(a)
  PROVE  RunInv' /\ Justified
<1>1. Typed /\ Placed /\ Mail /\ result' = result /\ ctl' = ctl
      /\ result \in Outcomes /\ ctl \in Controls /\ requests \in [Request -> Records]
      /\ executions' = executions /\ executions \in [Request -> Leases]
      /\ work' = work /\ offered' = offered /\ replies' \subseteq replies
      /\ inbox \in [Allocators -> Seq(Commands)]
  BY Zenon DEF RunInv, Typed, Discover
<1>2. PICK i \in Request : i = ctl.cur /\ requests[i].made
  BY <1>1, Indices, Zenon DEF Placed, Discover
<1>3. SameRequests
  <2>1. requests' = [requests EXCEPT ![i].sent = @ \cup {a}]
    BY <1>2, Zenon DEF Discover
  <2>2. /\ requests' \in [Request -> Records]
        /\ \A n \in Request : n # i => requests'[n] = requests[n]
        /\ requests'[i] = [requests[i] EXCEPT !.sent = @ \cup {a}] /\ requests[i] \in Records
    BY <1>1, <2>1, Zenon DEF Records
  <2> QED
    BY <2>2 DEF SameRequests, Records
<1>4. PICK o : inbox' = IF a \in requests[i].sent THEN inbox
                        ELSE Posted(Reached(a, o), Command("request", i))
  BY <1>2, Zenon DEF Discover
<1>5. CASE a \in requests[i].sent
  <2>1. inbox' = inbox
    BY <1>4, <1>5, Zenon
  <2>2. Kept
    BY <1>1, <1>3, KeptMoves, Zenon
  <2>3. Mail' /\ StillOut
    BY <1>1, <2>1, <2>2, MailSame, Zenon
  <2>4. StaysLost
    BY <1>1, <2>2, <2>3, LostKept, Zenon DEF Lost
  <2>5. Placed'
    BY <1>1, <1>3, <2>2, <2>4, PlacedSame, Zenon DEF SameRequests
  <2> QED
    BY <1>1, <1>3, <2>1, <2>2, <2>3, <2>5, BeliefsSame, ClientStep, Zenon DEF SameRequests, Justified
<1>6. CASE a \notin requests[i].sent
  <2>1. PICK c \in Commands : c = Command("request", i) /\ c.type = "request" /\ c.req = i
    <3>1. /\ Command("request", i) \in Commands
          /\ Command("request", i).type = "request" /\ Command("request", i).req = i
      BY Zenon DEF Command, Commands
    <3> QED
      BY <3>1, Zenon
  <2>2. inbox' = Posted(Reached(a, o), c)
    BY <1>4, <1>6, <2>1, Zenon
  <2>3. Reached(a, o) \in SUBSET Allocators
    BY Zenon DEF Reached
  <2>4. requests'[c.req].made
    BY <1>2, <1>3, <2>1, Zenon DEF SameRequests
  <2>5. c.type \notin {"assign", "renew", "inspect", "cancel", "release"}
    BY <2>1, Zenon
  <2>6. \A b \in Reached(a, o) : Addressed(b, c)'
    BY <2>4, <2>5, Zenon DEF Addressed
  <2>7. Kept /\ StillOut /\ StaysLost /\ Mail' /\ inbox' \in [Allocators -> Seq(Commands)]
    BY <1>1, <1>3, <2>2, <2>3, <2>5, <2>6, Sent, Zenon
  <2>8. Placed'
    BY <1>1, <1>3, <2>7, PlacedSame, Zenon DEF SameRequests
  <2> QED
    BY <1>1, <1>3, <2>7, <2>8, BeliefsSame, ClientStep, Zenon DEF SameRequests, Justified
<1> QED
  BY <1>5, <1>6, Zenon

-----------------------------------------------------------------------------
(* Making a request.                                                       *)
\* The next request is made, and published to some allocators.
LEMMA Created ==
  ASSUME RunInv, NEW n \in Request, n = NextRequest, NEW parent \in 0 .. MaxRequests,
         parent # 0 => Lost(parent),
         NEW destinations \in SUBSET Allocators, createRequest(parent, destinations),
         NEW reached \in SUBSET Allocators, inbox' = Posted(reached, Command("request", n)),
         ctl'.pc # "assign",
         UNCHANGED <<executions, replies, offered, work>>
  PROVE  /\ requests' \in [Request -> Records] /\ inbox' \in [Allocators -> Seq(Commands)]
         /\ requests'[n].made /\ requests'[n].selected = NoAllocator
         /\ Kept /\ StaysLost /\ Numbered' /\ Mail' /\ Observed' /\ Settling' /\ Justified
<1>1. Typed /\ Mail /\ Numbered /\ Observed /\ requests \in [Request -> Records]
  BY Zenon DEF RunInv, Typed
<1>2. /\ requests' \in [Request -> Records]
      /\ requests'[n].made /\ requests'[n].selected = NoAllocator
      /\ requests'[n].parent = parent
      /\ \A b \in Allocators : requests'[n].offers[b] = "none"
      /\ \A i \in Request : i # n => requests'[i] = requests[i]
  <2> DEFINE r == [noRequest EXCEPT !.made = TRUE, !.parent = parent, !.sent = destinations]
  <2>1. /\ r \in Records /\ r.made /\ r.selected = NoAllocator /\ r.parent = parent
        /\ \A b \in Allocators : r.offers[b] = "none"
    BY RunAssumption, Zenon DEF noRequest, Records, OfferRecord
  <2>2. requests' = [requests EXCEPT ![n] = r]
    BY Zenon DEF createRequest
  <2> HIDE DEF r
  <2>3. requests'[n] = r /\ \A i \in Request : i # n => requests'[i] = requests[i]
    BY <1>1, <2>2, Zenon
  <2>4. requests' \in [Request -> Records]
    BY <1>1, <2>1, <2>2, Zenon
  <2> QED
    BY <2>1, <2>3, <2>4, Zenon
<1>3. n \in Nat /\ \A i \in Request : requests[i].made <=> i < n
  BY <1>1, Fresh, Zenon
<1>4. ~requests[n].made /\ requests[n].selected = NoAllocator
  <2>1. ~requests[n].made
    BY <1>3 DEF Request
  <2> QED
    BY <2>1, Zenon DEF RunInv, Settling, Decided
<1>5. Kept
  BY <1>2, <1>4, Zenon DEF Kept, Past
<1>6. PICK c \in Commands : c = Command("request", n) /\ c.type = "request" /\ c.req = n
  <2>1. /\ Command("request", n) \in Commands
        /\ Command("request", n).type = "request" /\ Command("request", n).req = n
    BY Zenon DEF Command, Commands
  <2> QED
    BY <2>1, Zenon
<1>7. inbox' \in [Allocators -> Seq(Commands)] /\ Mail' /\ StillOut
  <2>1. c.type \notin {"assign", "renew", "inspect", "cancel", "release"}
    BY <1>6, Zenon
  <2>2. requests'[c.req].made
    BY <1>2, <1>6, Zenon
  <2>3. \A b \in reached : Addressed(b, c)'
    BY <2>1, <2>2, Zenon DEF Addressed
  <2> QED
    BY <1>1, <1>5, <1>6, <2>1, <2>3, MailPosted, Zenon
<1>8. StaysLost
  BY <1>5, <1>7, LostKept, Zenon DEF Lost
<1>9. Numbered'
  <2>1. n \in 0 .. MaxRequests
    BY RunAssumption DEF Request
  <2>2. ASSUME NEW i \in Request
        PROVE  requests'[i].made <=> i <= n
    <3>1. CASE i = n
      BY <1>2, <1>3, <3>1
    <3>2. CASE i # n
      <4>1. requests'[i].made <=> i < n
        BY <1>2, <1>3, <3>2, Zenon
      <4>2. i < n <=> i <= n
        BY <1>3, <3>2 DEF Request
      <4> QED
        BY <4>1, <4>2, Zenon
    <3> QED
      BY <3>1, <3>2, Zenon
  <2> QED
    BY <2>1, <2>2, Zenon DEF Numbered
<1>10. Observed'
  <2>1. \A i \in Request : \/ requests'[i].parent \in {0, requests[i].parent}
                           \/ Lost(requests'[i].parent)
    BY <1>2, Zenon
  <2>2. work' = work /\ replies' \subseteq replies /\ executions' = executions
    BY Zenon
  <2> QED
    BY <1>1, <1>2, <1>5, <1>7, <1>8, <2>1, <2>2, BeliefsSame, ObservedStep, Zenon
<1>11. Settling'
  <2>1. \A i \in Request : Decided(i)
    BY Zenon DEF RunInv, Settling
  <2>2. Decided(n)'
    <3>1. \A b \in Allocators : offered'[n][b] # "released" /\ b # NoAllocator
      BY <1>4, <2>1, RunAssumption, Zenon DEF Decided
    <3> QED
      BY <1>2, <3>1, Zenon DEF Decided
  <2>3. ASSUME NEW i \in Request, i # n
        PROVE  Decided(i)'
    <3>1. requests'[i] = requests[i] /\ offered'[i] = offered[i] /\ Decided(i)
      BY <1>2, <2>1, <2>3, Zenon
    <3> QED
      BY <3>1, Zenon DEF Decided
  <2> QED
    BY <2>2, <2>3, Zenon DEF Settling
<1>12. Justified
  <2>1. ASSUME parent # 0
        PROVE  executions[parent].state \notin {"completed", "cancelled"}
    <3>1. parent \in Request /\ work[parent] \in {"none", "gone", "evicted"}
      BY <1>1, <2>1, Indices, Zenon DEF Lost
    <3>2. Terminal(executions[parent].state) => work[parent] = executions[parent].state
      BY <3>1, BeliefsSame, Zenon
    <3>3. Terminal("completed") /\ Terminal("cancelled")
      BY Zenon DEF Terminal, Revision
    <3> QED
      BY <3>1, <3>2, <3>3, Zenon
  <2> QED
    BY <1>2, <2>1, Zenon DEF Justified
<1> QED
  BY <1>2, <1>5, <1>7, <1>8, <1>9, <1>10, <1>11, <1>12, Zenon

\* The controller collects the offers of the request it has made.
LEMMA PlacedCollects ==
  ASSUME Typed, Placed, Kept, NEW n \in Request,
         requests'[n].made, requests'[n].selected = NoAllocator,
         ctl' = [ctl EXCEPT !.pc = "collect", !.cur = n], result' = result
  PROVE  ctl' \in Controls /\ Placed'
<1>1. n # 0 /\ n \in 0 .. MaxRequests
  BY RunAssumption DEF Request
<1>2. /\ ctl' \in Controls /\ ctl'.pc = "collect" /\ ctl'.cur = n
      /\ ctl'.active = ctl.active /\ ctl'.holder = ctl.holder /\ ctl'.from = ctl.from
  BY <1>1, Zenon DEF Typed, Controls, Position
<1>3. /\ (ctl.active # 0 => Past(ctl.active))' /\ (ctl.holder # 0 => Past(ctl.holder))'
      /\ (result.attempt # 0 => Past(result.attempt))'
  BY <1>2, PastKept, Zenon
<1>4. ctl'.pc \notin {"idle", "hold", "maintain", "await", "wait", "inspect", "rerequest",
                      "rebind", "assign"}
  BY <1>2, Zenon
<1>5. (ctl'.from # "run" => ctl'.active # 0) /\ (ctl'.from = "renew" => ctl'.holder # 0)
  BY <1>2, Zenon DEF Placed
<1>6. ctl'.cur # 0 /\ requests'[ctl'.cur].made /\ requests'[ctl'.cur].selected = NoAllocator
  BY <1>1, <1>2, Zenon
<1> QED
  BY <1>2, <1>3, <1>4, <1>5, <1>6, Zenon DEF Placed

LEMMA RunKeeps ==
  ASSUME RunInv, Run
  PROVE  RunInv' /\ Justified
<1>1. Typed /\ Placed /\ Numbered /\ result \in Outcomes
      /\ executions' = executions /\ executions \in [Request -> Leases]
      /\ replies' = replies /\ offered' = offered /\ work' = work
  BY Zenon DEF RunInv, Typed, Run
<1>2. CASE endpoint # "open"
  <2>1. Returns("error", 0) /\ requests' = requests /\ inbox' = inbox
    BY <1>2, Zenon DEF Run
  <2> QED
    BY <1>1, <2>1, QuietReturn, Zenon DEF Justified
<1>3. CASE endpoint = "open"
  <2>1. NextRequest = 1 /\ 1 \in Request
    <3>1. ~requests[1].made /\ 1 \in Request
      BY <1>1, Indices, Zenon DEF Placed, Run
    <3> QED
      BY <1>1, <3>1, Fresh
  <2>2. PICK reached \in SUBSET Bootstrap : inbox' = Posted(reached, Command("request", 1))
    BY <1>3, Zenon DEF Run
  <2>3. /\ createRequest(0, Bootstrap) /\ result' = result
        /\ ctl' = [ctl EXCEPT !.pc = "collect", !.cur = 1]
    BY <1>3, Zenon DEF Run
  <2>4. reached \in SUBSET Allocators /\ Bootstrap \in SUBSET Allocators
    BY RunAssumption, Zenon
  <2>5. 0 \in 0 .. MaxRequests
    BY RunAssumption
  <2>6. ctl'.pc = "collect"
    BY <1>1, <2>3, Zenon DEF Typed, Controls
  <2>7. /\ requests' \in [Request -> Records] /\ inbox' \in [Allocators -> Seq(Commands)]
        /\ requests'[1].made /\ requests'[1].selected = NoAllocator
        /\ Kept /\ Numbered' /\ Mail' /\ Observed' /\ Settling' /\ Justified
    BY <1>1, <2>1, <2>2, <2>3, <2>4, <2>5, <2>6, Created, Zenon
  <2>8. ctl' \in Controls /\ Placed'
    BY <1>1, <2>1, <2>3, <2>7, PlacedCollects, Zenon
  <2>9. Typed'
    BY <1>1, <2>3, <2>7, <2>8, Zenon DEF Typed
  <2> QED
    BY <2>7, <2>8, <2>9, Zenon DEF RunInv
<1> QED
  BY <1>2, <1>3, Zenon

LEMMA reRequestLostKeeps ==
  ASSUME RunInv, reRequestLost
  PROVE  RunInv' /\ Justified
<1>1. Typed /\ Placed /\ Numbered /\ result \in Outcomes
      /\ executions' = executions /\ executions \in [Request -> Leases]
      /\ replies' = replies /\ offered' = offered /\ work' = work
  BY Zenon DEF RunInv, Typed, reRequestLost
<1>2. PICK n \in Request : n = NextRequest
  <2>1. NextRequest \in Nat \ {0} /\ ~(NextRequest > MaxRequests)
    BY <1>1, Fresh, Zenon DEF reRequestLost, Exhausted
  <2>2. NextRequest \in Request
    BY <2>1, RunAssumption DEF Request
  <2> QED
    BY <2>2, Zenon
<1>3. PICK old \in Request : old = Replaced /\ Lost(old)
  BY <1>1, Indices, Zenon DEF Placed, reRequestLost, Replaced
<1>4. old \in 0 .. MaxRequests
  BY <1>1, Indices, Zenon
<1>5. PICK D \in SUBSET Allocators : D = AllocatorDestinations
  BY Zenon DEF AllocatorDestinations
<1>6. createRequest(old, D)
  BY <1>3, <1>5, Zenon DEF reRequestLost
<1>7. PICK reached \in SUBSET Allocators :
        /\ inbox' = Posted(reached, Command("request", n))
        /\ \/ ctl' = [ctl EXCEPT !.pc = "collect", !.cur = n] /\ result' = result
           \/ AttemptFails
  <2>1. PICK k \in {0} \cup {IdOrder[a] : a \in D}, ok \in BOOLEAN :
          /\ inbox' = Posted({a \in {a \in D : IdOrder[a] <= k} : Room(a)}, Command("request", n))
          /\ \/ ctl' = [ctl EXCEPT !.pc = "collect", !.cur = n] /\ result' = result
             \/ AttemptFails
    BY <1>2, <1>5, Zenon DEF reRequestLost
  <2>2. {a \in {a \in D : IdOrder[a] <= k} : Room(a)} \in SUBSET Allocators
    BY Zenon
  <2> QED
    BY <2>1, <2>2, Zenon
<1>8. ASSUME ctl'.pc # "assign"
      PROVE  /\ requests' \in [Request -> Records] /\ inbox' \in [Allocators -> Seq(Commands)]
             /\ requests'[n].made /\ requests'[n].selected = NoAllocator
             /\ Kept /\ Numbered' /\ Mail' /\ Observed' /\ Settling' /\ Justified
  BY <1>1, <1>2, <1>3, <1>4, <1>6, <1>7, <1>8, Created, Zenon
<1>9. CASE ctl' = [ctl EXCEPT !.pc = "collect", !.cur = n] /\ result' = result
  <2>1. ctl'.pc = "collect"
    BY <1>1, <1>9, Zenon DEF Typed, Controls
  <2>2. ctl' \in Controls /\ Placed'
    BY <1>1, <1>8, <1>9, <2>1, PlacedCollects, Zenon
  <2>3. Typed'
    BY <1>1, <1>8, <1>9, <2>1, <2>2, Zenon DEF Typed
  <2> QED
    BY <1>8, <2>1, <2>2, <2>3, Zenon DEF RunInv
<1>10. CASE AttemptFails
  <2>1. PICK p \in {"wait", "return"} :
          /\ Moves(p) /\ result' \in Outcomes
          /\ result'.attempt \in {0, ctl.active, result.attempt}
          /\ p = "wait" => ctl.active # 0
    BY <1>1, <1>10, AttemptFailed, Zenon
  <2>2. ctl'.pc # "assign"
    BY <1>1, <2>1, MoveSets, Zenon DEF Position
  <2>3. ctl' \in Controls /\ Placed'
    BY <1>1, <1>8, <2>1, <2>2, PlacedMoves, Zenon
  <2>4. Typed'
    BY <1>1, <1>8, <2>1, <2>2, <2>3, Zenon DEF Typed
  <2> QED
    BY <1>8, <2>2, <2>3, <2>4, Zenon DEF RunInv
<1> QED
  BY <1>7, <1>9, <1>10, Zenon

-----------------------------------------------------------------------------
(* A message reaches the client.                                           *)

\* The record of one offer changes as far as the selection allows.
LEMMA OfferStep ==
  ASSUME RunInv, NEW i \in Request, NEW a \in Allocators, NEW x \in OfferRecord,
         requests' = [requests EXCEPT ![i].offers[a] = x],
         requests[i].selected = NoAllocator => x \in {"none", "live"},
         requests[i].selected = a => x = "live",
         requests[i].selected \notin {NoAllocator, a} => x # "live",
         UNCHANGED <<ctl, result, executions, inbox, offered, work>>, replies' \subseteq replies
  PROVE  RunInv' /\ Justified
<1>1. Typed /\ Placed /\ Mail /\ Numbered /\ Observed /\ requests \in [Request -> Records]
  BY Zenon DEF RunInv, Typed
<1>2. /\ requests' \in [Request -> Records]
      /\ requests'[i].made = requests[i].made /\ requests'[i].parent = requests[i].parent
      /\ requests'[i].selected = requests[i].selected
      /\ requests'[i].offers = [requests[i].offers EXCEPT ![a] = x]
      /\ requests[i].offers \in [Allocators -> OfferRecord]
  BY <1>1 DEF Records
<1>3. \A n \in Request : n # i => requests'[n] = requests[n]
  BY <1>1, Zenon
<1>4. \A n \in Request : /\ requests'[n].made = requests[n].made
                         /\ requests'[n].parent = requests[n].parent
                         /\ requests'[n].selected = requests[n].selected
  BY <1>2, <1>3, Zenon
<1>5. Kept
  BY <1>4, KeptSame, Zenon
<1>6. Mail' /\ StillOut
  BY <1>1, <1>5, MailSame, Zenon
<1>7. StaysLost
  BY <1>5, <1>6, LostKept, Zenon DEF Lost
<1>8. Placed'
  BY <1>1, <1>4, <1>5, <1>7, PlacedSame, Zenon
<1>9. Observed'
  <2>1. work' = work /\ executions' = executions
    BY Zenon
  <2> QED
    BY <1>1, <1>2, <1>4, <1>5, <1>6, <1>7, <2>1, BeliefsSame, ObservedStep, Zenon
<1>10. Numbered'
  BY <1>1, <1>4, Zenon DEF Numbered
<1>11. Typed'
  BY <1>1, <1>2, Zenon DEF Typed
<1>12. Settling'
  <2>1. \A n \in Request : Decided(n)
    BY Zenon DEF RunInv, Settling
  <2>2. Decided(i)'
    <3>1. Decided(i) /\ offered' = offered
      BY <2>1, Zenon
    <3>2. /\ requests'[i].offers[a] = x
          /\ \A b \in Allocators : b # a => requests'[i].offers[b] = requests[i].offers[b]
      BY <1>2
    <3>3. ASSUME NEW b \in Allocators
          PROVE  /\ requests[i].selected = NoAllocator => requests'[i].offers[b] \in {"none", "live"}
                 /\ requests[i].selected = b => requests'[i].offers[b] = "live"
                 /\ requests[i].selected \notin {NoAllocator, b} => requests'[i].offers[b] # "live"
      <4>1. CASE b = a
        BY <3>2, <4>1, Zenon
      <4>2. CASE b # a
        <5>1. requests'[i].offers[b] = requests[i].offers[b]
          BY <3>2, <4>2, Zenon
        <5> QED
          BY <3>1, <5>1, Zenon DEF Decided
      <4> QED
        BY <4>1, <4>2, Zenon
    <3>4. \A b \in Allocators :
            offered'[i][b] = "released" => requests[i].selected \notin {NoAllocator, b}
      BY <3>1, Zenon DEF Decided
    <3>5. ~requests[i].made => requests[i].selected = NoAllocator
      BY <3>1, Zenon DEF Decided
    <3> QED
      BY <1>2, <3>3, <3>4, <3>5, Zenon DEF Decided
  <2>3. ASSUME NEW n \in Request, n # i
        PROVE  Decided(n)'
    <3>1. requests'[n] = requests[n] /\ offered'[n] = offered[n] /\ Decided(n)
      BY <1>3, <2>1, <2>3, Zenon
    <3> QED
      BY <3>1, Zenon DEF Decided
  <2> QED
    BY <2>2, <2>3, Zenon DEF Settling
<1> QED
  BY <1>4, <1>6, <1>8, <1>9, <1>10, <1>11, <1>12, Zenon DEF RunInv, Justified

\* What the client knows of executions changes, and is true.
LEMMA KnowledgeStep ==
  ASSUME RunInv, executions' \in [Request -> Leases],
         \A i \in Request : Terminal(executions'[i].state) => work[i] = executions'[i].state,
         \A i \in Request : executions'[i].lost => Lost(i),
         UNCHANGED <<ctl, result, requests, inbox, offered, work>>, replies' \subseteq replies
  PROVE  RunInv'
<1>1. Typed /\ Placed /\ Mail /\ SameRequests /\ result' \in Outcomes /\ ctl' \in Controls
      /\ inbox' \in [Allocators -> Seq(Commands)]
  BY SameUnchanged, Zenon DEF RunInv, Typed
<1>2. Kept
  BY <1>1, KeptMoves, Zenon
<1>3. Mail' /\ StillOut
  BY <1>1, <1>2, MailSame, Zenon
<1>4. StaysLost
  BY <1>2, <1>3, LostKept, Zenon DEF Lost
<1>5. Placed'
  BY <1>1, <1>2, <1>4, PlacedSame, Zenon DEF SameRequests
<1> QED
  BY <1>1, <1>2, <1>3, <1>5, ClientStep, Zenon

LEMMA DeliverKeeps ==
  ASSUME RunInv, NEW m \in replies, Deliver(m)
  PROVE  RunInv' /\ Forward /\ Justified
<1>1. PICK i \in Request : i = m.req
  BY Zenon DEF RunInv, Typed
<1>2. PICK a \in Allocators : a = m.from
  BY Zenon DEF RunInv, Typed
<1>3. Told(m) /\ Believed(i) /\ Decided(i)
  BY Zenon DEF RunInv, Observed, Settling
<1>4. UNCHANGED <<ctl, result, inbox, offered, work>> /\ replies' \subseteq replies
  BY Zenon DEF Deliver, handleEnvelope
<1>5. requests \in [Request -> Records] /\ executions \in [Request -> Leases]
  BY Zenon DEF RunInv, Typed
<1>6. requests[i].offers \in [Allocators -> OfferRecord] /\ a # NoAllocator
      /\ requests[i].offers[a] \in OfferRecord
  BY <1>5, RunAssumption DEF Records
<1>7. CASE handleOffer(m)
  <2> DEFINE x == IF requests[i].offers[a] # "none" THEN requests[i].offers[a]
                  ELSE IF requests[i].selected = NoAllocator THEN "live" ELSE "releasing"
  <2>1. requests' = [requests EXCEPT ![i].offers[a] = x] /\ executions' = executions
    BY <1>1, <1>2, <1>7, Zenon DEF handleOffer
  <2>2. /\ x \in OfferRecord
        /\ requests[i].selected = NoAllocator => x \in {"none", "live"}
        /\ requests[i].selected = a => x = "live"
        /\ requests[i].selected \notin {NoAllocator, a} => x # "live"
    BY <1>3, <1>6, Zenon DEF OfferRecord, Decided
  <2> HIDE DEF x
  <2> QED
    BY <1>4, <2>1, <2>2, OfferStep, Zenon DEF Forward
<1>8. CASE handleReleaseAck(m)
  <2> DEFINE x == IF requests[i].offers[a] = "releasing" THEN "acknowledged"
                  ELSE requests[i].offers[a]
  <2>1. requests' = [requests EXCEPT ![i].offers[a] = x] /\ executions' = executions
    BY <1>1, <1>2, <1>8, Zenon DEF handleReleaseAck
  <2>2. /\ x \in OfferRecord
        /\ requests[i].selected = NoAllocator => x \in {"none", "live"}
        /\ requests[i].selected = a => x = "live"
        /\ requests[i].selected \notin {NoAllocator, a} => x # "live"
    BY <1>3, <1>6, Zenon DEF OfferRecord, Decided
  <2> HIDE DEF x
  <2> QED
    BY <1>4, <2>1, <2>2, OfferStep, Zenon DEF Forward
<1>9. CASE executions' = executions /\ requests' = requests
  BY <1>4, <1>5, <1>9, BeliefsSame, KnowledgeStep, Zenon DEF Forward, Justified
<1>10. CASE handleState(m)
  <2>1. requests' = requests /\ m.type = "state"
    BY <1>10, Zenon DEF handleState
  <2>2. /\ m.value \in {"running", "completed", "evicted", "cancelled"}
        /\ m.value # "running" => work[i] = m.value
    BY <1>1, <1>3, <2>1, Zenon DEF Told
  <2>3. m.value = "evicted" => Lost(i)
    BY <1>3, <2>2, Zenon DEF Believed, Lost
  <2>4. CASE executions' = [executions EXCEPT ![i].state = m.value, ![i].lost = TRUE,
                                              ![i].renewing = FALSE] /\ m.value = "evicted"
             /\ Revision(m.value) > Revision(executions[i].state)
    <3> DEFINE e1 == [executions EXCEPT ![i].state = m.value]
               e2 == [e1 EXCEPT ![i].lost = TRUE]
               e3 == [e2 EXCEPT ![i].renewing = FALSE]
    <3> HIDE DEF e1, e2, e3
    <3>1. /\ e1 \in [Request -> Leases] /\ e1[i].state = m.value
          /\ \A n \in Request : n # i => e1[n] = executions[n]
      BY <1>5, <2>2, Zenon DEF e1, Leases, Phase
    <3>2. /\ e2 \in [Request -> Leases] /\ e2[i].state = m.value
          /\ \A n \in Request : n # i => e2[n] = executions[n]
      BY <3>1, Zenon DEF e2, Leases
    <3>3. /\ e3 \in [Request -> Leases] /\ e3[i].state = e2[i].state
          /\ \A n \in Request : n # i => e3[n] = e2[n]
      <4>1. e2 \in [Request -> Leases]
        BY <3>2, Zenon
      <4>2. e3 \in [Request -> Leases] /\ \A n \in Request : e3[n].state = e2[n].state
        BY <4>1, LeaseRenewing, Zenon DEF e3
      <4> QED
        BY <4>1, <4>2, Zenon DEF e3
    <3>4. /\ executions' \in [Request -> Leases] /\ executions'[i].state = m.value
          /\ \A n \in Request : n # i => executions'[n] = executions[n]
      <4>1. executions' = e3
        BY <2>4, Zenon DEF e1, e2, e3
      <4> QED
        BY <3>2, <3>3, <4>1, Zenon
    <3>5. \A n \in Request : Terminal(executions'[n].state) => work[n] = executions'[n].state
      BY <2>2, <2>4, <3>4, BeliefsSame, Zenon
    <3>6. \A n \in Request : executions'[n].lost => Lost(n)
      BY <2>3, <2>4, <3>4, BeliefsSame, Zenon
    <3> QED
      BY <1>4, <2>1, <2>4, <3>4, <3>5, <3>6, KnowledgeStep, Zenon DEF Forward, Justified
  <2>5. CASE executions' = [executions EXCEPT ![i].state = m.value]
             /\ Revision(m.value) > Revision(executions[i].state)
    <3>1. /\ executions' \in [Request -> Leases] /\ executions'[i].state = m.value
          /\ executions'[i].lost = executions[i].lost
          /\ \A n \in Request : n # i => executions'[n] = executions[n]
      BY <1>5, <2>2, <2>5 DEF Leases, Phase
    <3>2. Terminal(m.value) => work[i] = m.value
      <4>1. ~Terminal("running")
        BY DEF Terminal, Revision
      <4> QED
        BY <2>2, <4>1, Zenon
    <3>3. \A n \in Request : Terminal(executions'[n].state) => work[n] = executions'[n].state
      BY <3>1, <3>2, BeliefsSame, Zenon
    <3>4. \A n \in Request : executions'[n].lost => Lost(n)
      BY <3>1, BeliefsSame, Zenon
    <3> QED
      BY <1>4, <2>1, <2>5, <3>1, <3>3, <3>4, KnowledgeStep, Zenon DEF Forward, Justified
  <2>6. CASE Revision(m.value) <= Revision(executions[i].state)
    BY <1>1, <1>9, <1>10, <2>1, <2>6, Zenon DEF handleState
  <2>7. Revision(m.value) <= Revision(executions[i].state)
          \/ Revision(m.value) > Revision(executions[i].state)
    BY DEF Revision
  <2>8. CASE /\ Revision(m.value) > Revision(executions[i].state)
             /\ ~(Revision(m.value) <= Revision(executions[i].state))
    BY <1>1, <1>10, <2>4, <2>5, <2>8, Zenon DEF handleState
  <2> QED
    BY <2>6, <2>7, <2>8, Zenon
<1>11. CASE handleError(m)
  <2>1. requests' = requests /\ m.type = "error"
    BY <1>11, Zenon DEF handleError
  <2>2. CASE executions' = [executions EXCEPT ![i].lost = TRUE, ![i].renewing = FALSE]
             /\ m.value = "NOT_FOUND"
    <3>1. Lost(i)
      BY <1>1, <1>3, <2>1, <2>2, Zenon DEF Told
    <3>2. /\ executions' \in [Request -> Leases] /\ executions'[i].state = executions[i].state
          /\ \A n \in Request : n # i => executions'[n] = executions[n]
      <4> DEFINE e1 == [executions EXCEPT ![i].lost = TRUE]
                 e2 == [e1 EXCEPT ![i].renewing = FALSE]
      <4> HIDE DEF e1, e2
      <4>1. /\ e1 \in [Request -> Leases] /\ e1[i].state = executions[i].state
            /\ \A n \in Request : n # i => e1[n] = executions[n]
        BY <1>5, Zenon DEF e1, Leases
      <4>2. e2 \in [Request -> Leases] /\ \A n \in Request : e2[n].state = e1[n].state
        BY <4>1, LeaseRenewing, Zenon DEF e2
      <4>3. \A n \in Request : n # i => e2[n] = e1[n]
        BY <4>1, Zenon DEF e2
      <4>4. executions' = e2
        BY <2>2, Zenon DEF e1, e2
      <4> QED
        BY <4>1, <4>2, <4>3, <4>4, Zenon
    <3>3. \A n \in Request : Terminal(executions'[n].state) => work[n] = executions'[n].state
      BY <3>2, BeliefsSame, Zenon
    <3>4. \A n \in Request : executions'[n].lost => Lost(n)
      BY <3>1, <3>2, BeliefsSame, Zenon
    <3> QED
      BY <1>4, <2>1, <3>2, <3>3, <3>4, KnowledgeStep, Zenon DEF Forward, Justified
  <2> QED
    BY <1>1, <1>9, <1>11, <2>1, <2>2, Zenon DEF handleError
<1>12. CASE handleRenewAck(m)
  <2>1. requests' = requests
    BY <1>12, Zenon DEF handleRenewAck
  <2>2. CASE executions' = [executions EXCEPT ![i].renewing = FALSE, ![i].renewed = TRUE]
    <3>1. /\ executions' \in [Request -> Leases]
          /\ \A n \in Request : /\ executions'[n].state = executions[n].state
                                /\ executions'[n].lost = executions[n].lost
      <4> DEFINE e1 == [executions EXCEPT ![i].renewing = FALSE]
                 e2 == [e1 EXCEPT ![i].renewed = TRUE]
      <4> HIDE DEF e1, e2
      <4>1. /\ e1 \in [Request -> Leases]
            /\ \A n \in Request : e1[n].state = executions[n].state /\ e1[n].lost = executions[n].lost
        BY <1>5, LeaseRenewing, Zenon DEF e1
      <4>2. /\ e2 \in [Request -> Leases]
            /\ \A n \in Request : e2[n].state = e1[n].state /\ e2[n].lost = e1[n].lost
        BY <4>1, LeaseRenewed, Zenon DEF e2
      <4>3. executions' = e2
        BY <2>2, Zenon DEF e1, e2
      <4> QED
        BY <4>1, <4>2, <4>3, Zenon
    <3>2. /\ \A n \in Request : Terminal(executions'[n].state) => work[n] = executions'[n].state
          /\ \A n \in Request : executions'[n].lost => Lost(n)
      BY <3>1, BeliefsSame, Zenon DEF Terminal, Revision
    <3> QED
      BY <1>4, <2>1, <3>1, <3>2, KnowledgeStep, Zenon DEF Forward, Justified
  <2> QED
    BY <1>1, <1>9, <1>12, <2>1, <2>2, Zenon DEF handleRenewAck
<1> QED
  BY <1>7, <1>8, <1>10, <1>11, <1>12, Zenon DEF Deliver, handleEnvelope

-----------------------------------------------------------------------------
(* Steps of the allocators.                                                *)

\* An execution starts once, ends once, and is forgotten unobserved.
WorkForward ==
  \A i \in Request :
    \/ work'[i] = work[i]
    \/ work[i] = "running" /\ work'[i] \in {"completed", "evicted", "cancelled"}
    \/ work[i] = "none" /\ work'[i] = "running" /\ Past(i) /\ ~Unassigned(i) /\ Unassigned(i)'
    \/ /\ work[i] # "none" /\ work'[i] = "gone" /\ ~Terminal(executions[i].state)
       /\ \A m \in replies : m.req # i

LEMMA ServiceStep ==
  ASSUME RunInv, ServiceOnly, WorkForward,
         inbox' = inbox \/ \E b \in Allocators : inbox[b] # <<>> /\ Served(b),
         work' \in [Request -> Phase \cup {"gone"}],
         offered' \in [Request -> [Allocators ->
                         {"none", "offered", "assigned", "released", "expired"}]],
         \A i \in Request, a \in Allocators :
           offered'[i][a] = "released" => requests[i].selected \notin {NoAllocator, a},
         \A m \in replies' : \/ m \in replies
                             \/ m.req \in Request /\ m.from \in Allocators /\ Told(m)'
  PROVE  RunInv'
<1>1. Typed /\ Placed /\ Mail /\ Numbered /\ Observed /\ requests' = requests /\ ctl' = ctl
      /\ result' = result /\ executions' = executions
  BY Zenon DEF RunInv, ServiceOnly
<1>2. Kept
  BY <1>1, KeptSame, Zenon
<1>3. Mail' /\ StillOut /\ inbox' \in [Allocators -> Seq(Commands)]
  <2>1. CASE inbox' = inbox
    <3>1. inbox' \in [Allocators -> Seq(Commands)]
      BY <1>1, <2>1, Zenon DEF Typed
    <3> QED
      BY <1>1, <1>2, <2>1, <3>1, MailSame, Zenon
  <2>2. CASE \E b \in Allocators : inbox[b] # <<>> /\ Served(b)
    BY <1>1, <1>2, <2>2, MailServed, Zenon
  <2> QED
    BY <2>1, <2>2, Zenon
<1>4. StaysLost
  <2>1. \A i \in Request : Lost(i) => work'[i] \in {"none", "gone", "evicted"}
    BY Zenon DEF WorkForward, Lost
  <2> QED
    BY <1>2, <1>3, <2>1, LostKept, Zenon
<1>5. Placed'
  BY <1>1, <1>2, <1>4, PlacedSame, Zenon
<1>6. ASSUME NEW m \in replies'
      PROVE  m.req \in Request /\ m.from \in Allocators /\ Told(m)'
  <2>1. CASE m \in replies
    <3>1. m.req \in Request /\ m.from \in Allocators /\ Told(m)
      BY <1>1, <2>1, Zenon DEF Typed, Observed
    <3>2. \/ work'[m.req] = work[m.req]
          \/ work[m.req] = "none"
          \/ work[m.req] = "running" /\ work'[m.req] \in {"completed", "evicted", "cancelled"}
      BY <2>1, <3>1, Zenon DEF WorkForward
    <3> QED
      BY <1>4, <3>1, <3>2, ToldKept, Zenon
  <2> QED
    BY <2>1, Zenon
<1>7. ASSUME NEW i \in Request
      PROVE  Believed(i)'
  <2>1. Believed(i)
    BY <1>1, Zenon DEF Observed
  <2>2. (work[i] # "none" => Past(i) /\ Unassigned(i))'
    <3>1. (Past(i) => Past(i)') /\ (Past(i) /\ Unassigned(i) => Unassigned(i)')
      BY <1>2, <1>3, Zenon DEF Kept, StillOut
    <3> QED
      BY <2>1, <3>1, Zenon DEF Believed, WorkForward
  <2>3. (Terminal(executions[i].state) => work[i] = executions[i].state)'
    <3>1. ~Terminal("none") /\ ~Terminal("running")
      BY DEF Terminal, Revision
    <3>2. Terminal(executions[i].state) => work'[i] = executions[i].state
      BY <2>1, <3>1, Zenon DEF Believed, WorkForward
    <3> QED
      BY <1>1, <3>2, Zenon DEF Terminal, Revision
  <2>4. (executions[i].lost => Lost(i))'
    BY <1>1, <1>4, <2>1, Zenon DEF Believed, StaysLost
  <2>5. (requests[i].parent # 0 => Lost(requests[i].parent))'
    <3> SUFFICES ASSUME requests[i].parent # 0
                 PROVE  Lost(requests[i].parent)'
      BY <1>1, Zenon
    <3>1. PICK p \in Request : p = requests[i].parent
      BY <1>1, Indices, Zenon DEF Typed, Records
    <3>2. Lost(p)'
      BY <1>4, <2>1, <3>1, Zenon DEF Believed, StaysLost
    <3> QED
      BY <1>1, <3>1, <3>2, Zenon DEF Lost, Past, Unassigned
  <2> QED
    BY <2>2, <2>3, <2>4, <2>5, Zenon DEF Believed
<1>8. Observed'
  BY <1>6, <1>7, Zenon DEF Observed
<1>9. Typed'
  BY <1>1, <1>3, <1>6, Zenon DEF Typed
<1>10. Numbered'
  BY <1>1, Zenon DEF Numbered
<1>11. Settling'
  <2>1. \A i \in Request : Decided(i)
    BY Zenon DEF RunInv, Settling
  <2> QED
    BY <1>1, <2>1, Zenon DEF Settling, Decided
<1> QED
  BY <1>3, <1>5, <1>8, <1>9, <1>10, <1>11, Zenon DEF RunInv

LEMMA Answered ==
  ASSUME NEW m, Answer(m)
  PROVE  replies' \subseteq replies \cup {m}
BY Zenon DEF Answer

\* The command an allocator handles next; after any but a request or a
\* release, no assignment of that request is left.
LEMMA Handled ==
  ASSUME RunInv, NEW a \in Allocators, inbox[a] # <<>>, Served(a)
  PROVE  /\ Head(inbox[a]) \in Commands /\ Addressed(a, Head(inbox[a]))
         /\ Head(inbox[a]).type \in {"assign", "renew", "inspect", "cancel"} =>
              Past(Head(inbox[a]).req) /\ \A i \in Request : i = Head(inbox[a]).req => Unassigned(i)'
<1>1. Typed /\ Mail
  BY Zenon DEF RunInv
<1>2. \A b \in Allocators : inbox[b] \in Seq(Commands)
  BY <1>1, Zenon DEF Typed
<1>3. 1 \in 1 .. Len(inbox[a]) /\ Head(inbox[a]) = inbox[a][1] /\ Head(inbox[a]) \in Commands
  BY <1>2
<1>4. Addressed(a, Head(inbox[a]))
  BY <1>1, <1>3, Zenon DEF Mail
<1>5. ASSUME Head(inbox[a]).type \in {"assign", "renew", "inspect", "cancel"},
             NEW i \in Request, i = Head(inbox[a]).req
      PROVE  Past(i) /\ Unassigned(i)'
  <2>1. Past(i) /\ requests[i].selected = a
    BY <1>4, <1>5, Zenon DEF Addressed
  <2>2. SUFFICES ASSUME NEW b \in Allocators, NEW k \in 1 .. Len(inbox'[b]),
                        inbox'[b][k].type = "assign", inbox'[b][k].req = i
                 PROVE  FALSE
    BY <2>1, Zenon DEF Unassigned
  <2>3. CASE b # a
    <3>1. inbox'[b] = inbox[b]
      BY <1>1, <2>3, Zenon DEF Served, Typed
    <3>2. Addressed(b, inbox[b][k])
      BY <1>1, <3>1, Zenon DEF Mail
    <3>3. inbox[b][k].type = "assign" /\ inbox[b][k].req = i
      BY <2>2, <3>1, Zenon
    <3> QED
      BY <2>1, <2>3, <3>2, <3>3, Zenon DEF Addressed
  <2>4. CASE b = a
    <3>1. inbox'[a] = Tail(inbox[a]) /\ inbox[a] \in Seq(Commands)
      BY <1>1, <1>2, Zenon DEF Served, Typed
    <3>2. k + 1 \in 1 .. Len(inbox[a]) /\ inbox'[a][k] = inbox[a][k + 1] /\ 1 < k + 1
      BY <2>4, <3>1
    <3>3. InOrder(inbox[a])
      BY <1>1, Zenon DEF Mail
    <3>4. inbox[a][k + 1].type = "assign" /\ inbox[a][1].req = inbox[a][k + 1].req
      BY <1>3, <1>5, <2>2, <2>4, <3>2, Zenon
    <3>5. inbox[a][1].type \in {"request", "release"}
      BY <1>3, <3>2, <3>3, <3>4, Zenon DEF InOrder
    <3> QED
      BY <1>3, <1>5, <3>5, Zenon
  <2> QED
    BY <2>3, <2>4, Zenon
<1> QED
  BY <1>3, <1>4, <1>5, Zenon DEF Addressed

\* An execution ends and its owner is told.
LEMMA EndsKeeps ==
  ASSUME RunInv, NEW i \in Request, NEW phase \in {"completed", "evicted", "cancelled"},
         Ends(i, phase),
         inbox' = inbox \/ \E b \in Allocators : inbox[b] # <<>> /\ Served(b)
  PROVE  RunInv'
<1>1. Typed /\ ServiceOnly /\ work[i] = "running" /\ offered' = offered
      /\ work' = [work EXCEPT ![i] = phase] /\ work \in [Request -> Phase \cup {"gone"}]
  BY Zenon DEF RunInv, Ends, Typed
<1>2. work'[i] = phase /\ \A n \in Request : n # i => work'[n] = work[n]
  BY <1>1, Zenon
<1>3. work' \in [Request -> Phase \cup {"gone"}]
  BY <1>1, Zenon DEF Phase
<1>4. WorkForward
  BY <1>1, <1>2, Zenon DEF WorkForward
<1>5. requests[i].selected \in Allocators
  <2>1. requests[i].selected \in Allocators \cup {NoAllocator}
    BY <1>1, Zenon DEF Typed, Records
  <2>2. Past(i)
    BY <1>1, Zenon DEF RunInv, Observed, Believed
  <2> QED
    BY <2>1, <2>2, Zenon DEF Past
<1> DEFINE r == Reply("state", i, requests[i].selected, "push", phase)
<1>6. /\ r.req = i /\ r.from = requests[i].selected /\ r.type = "state" /\ r.value = phase
  BY Zenon DEF Reply
<1>7. replies' \subseteq replies \cup {r}
  BY Answered, Zenon DEF Ends
<1> HIDE DEF r
<1>8. ASSUME NEW m \in replies', m \notin replies
      PROVE  m.req \in Request /\ m.from \in Allocators /\ Told(m)'
  <2>1. m.req = i /\ m.from = requests[i].selected /\ m.type = "state" /\ m.value = phase
    BY <1>6, <1>7, <1>8, Zenon
  <2> QED
    BY <1>2, <1>5, <2>1, Zenon DEF Told
<1>9. /\ offered' \in [Request -> [Allocators ->
                         {"none", "offered", "assigned", "released", "expired"}]]
      /\ \A n \in Request, a \in Allocators :
           offered'[n][a] = "released" => requests[n].selected \notin {NoAllocator, a}
  BY <1>1, Zenon DEF RunInv, Typed, Settling, Decided
<1> QED
  BY <1>1, <1>3, <1>4, <1>8, <1>9, ServiceStep, Zenon

\* A step that leaves every execution as it is.
LEMMA AnswerStep ==
  ASSUME RunInv, ServiceOnly, work' = work,
         inbox' = inbox \/ \E b \in Allocators : inbox[b] # <<>> /\ Served(b),
         NEW i \in Request, NEW a \in Allocators,
         NEW x \in {"none", "offered", "assigned", "released", "expired"},
         offered' = [offered EXCEPT ![i][a] = x] \/ offered' = offered,
         x = "released" => requests[i].selected \notin {NoAllocator, a},
         \A m \in replies' : \/ m \in replies
                             \/ m.req \in Request /\ m.from \in Allocators /\ Told(m)'
  PROVE  RunInv'
<1>1. /\ work' \in [Request -> Phase \cup {"gone"}]
      /\ offered \in [Request -> [Allocators ->
                        {"none", "offered", "assigned", "released", "expired"}]]
      /\ \A n \in Request, b \in Allocators :
           offered[n][b] = "released" => requests[n].selected \notin {NoAllocator, b}
  BY Zenon DEF RunInv, Typed, Settling, Decided
<1>2. offered' \in [Request -> [Allocators ->
                      {"none", "offered", "assigned", "released", "expired"}]]
  BY <1>1
<1>3. \A n \in Request, b \in Allocators :
        offered'[n][b] = offered[n][b] \/ (n = i /\ b = a /\ offered'[n][b] = x)
  <2>1. CASE offered' = offered
    BY <2>1, Zenon
  <2>2. CASE offered' = [offered EXCEPT ![i][a] = x]
    <3>1. /\ \A n \in Request : n # i => offered'[n] = offered[n]
          /\ offered'[i] = [offered[i] EXCEPT ![a] = x] /\ offered[i] \in [Allocators ->
               {"none", "offered", "assigned", "released", "expired"}]
      BY <1>1, <2>2, Zenon
    <3>2. offered'[i][a] = x /\ \A b \in Allocators : b # a => offered'[i][b] = offered[i][b]
      BY <3>1, Zenon
    <3> QED
      BY <3>1, <3>2, Zenon
  <2> QED
    BY <2>1, <2>2, Zenon
<1>4. \A n \in Request, b \in Allocators :
        offered'[n][b] = "released" => requests[n].selected \notin {NoAllocator, b}
  <2> SUFFICES ASSUME NEW n \in Request, NEW b \in Allocators, offered'[n][b] = "released"
               PROVE  requests[n].selected \notin {NoAllocator, b}
    BY Zenon
  <2>1. CASE offered'[n][b] = offered[n][b]
    BY <1>1, <2>1, Zenon
  <2>2. CASE n = i /\ b = a /\ x = "released"
    BY <2>2, Zenon
  <2> QED
    BY <1>3, <2>1, <2>2, Zenon
<1>5. WorkForward
  BY Zenon DEF WorkForward
<1> QED
  BY <1>1, <1>2, <1>4, <1>5, ServiceStep, Zenon

LEMMA AnswerRequestKeeps ==
  ASSUME RunInv, NEW a \in Allocators, AnswerRequest(a)
  PROVE  RunInv'
<1>1. inbox[a] # <<>> /\ Served(a) /\ ServiceOnly /\ work' = work
  BY Zenon DEF AnswerRequest, Serving
<1>2. PICK i \in Request : i = Head(inbox[a]).req
  BY <1>1, Handled, Zenon DEF Commands
<1> DEFINE r == Reply("offer", i, a, "request", "")
<1>3. r.req = i /\ r.from = a /\ r.type = "offer"
  BY Zenon DEF Reply
<1>4. /\ replies' \subseteq replies \cup {r}
      /\ offered' = [offered EXCEPT ![i][a] = "offered"] \/ offered' = offered
  BY <1>2, Answered, Zenon DEF AnswerRequest
<1> HIDE DEF r
<1>5. \A m \in replies' : \/ m \in replies
                          \/ m.req \in Request /\ m.from \in Allocators /\ Told(m)'
  BY <1>3, <1>4, Zenon DEF Told
<1> QED
  BY <1>1, <1>4, <1>5, AnswerStep, Zenon

LEMMA AnswerReleaseKeeps ==
  ASSUME RunInv, NEW a \in Allocators, AnswerRelease(a)
  PROVE  RunInv'
<1>1. inbox[a] # <<>> /\ Served(a) /\ ServiceOnly /\ work' = work
      /\ Head(inbox[a]).type = "release"
  BY Zenon DEF AnswerRelease, Serving
<1>2. Addressed(a, Head(inbox[a])) /\ Head(inbox[a]) \in Commands
  BY <1>1, Handled, Zenon
<1>3. PICK i \in Request : i = Head(inbox[a]).req
  BY <1>2, Zenon DEF Commands
<1>4. requests[i].selected \notin {NoAllocator, a}
  BY <1>1, <1>2, <1>3, Zenon DEF Addressed
<1> DEFINE r == Reply("releaseAck", i, a, "release", "")
<1>5. r.req = i /\ r.from = a /\ r.type = "releaseAck"
  BY Zenon DEF Reply
<1>6. replies' \subseteq replies \cup {r}
  BY <1>3, Answered, Zenon DEF AnswerRelease
<1>7. PICK x \in {"none", "offered", "assigned", "released", "expired"} :
        offered' = [offered EXCEPT ![i][a] = x]
  <2>1. offered[i][a] \in {"none", "offered", "assigned", "released", "expired"}
    BY Zenon DEF RunInv, Typed
  <2>2. PICK x : x = IF offered[i][a] = "offered" THEN "released" ELSE offered[i][a]
    BY Zenon
  <2>3. offered' = [offered EXCEPT ![i][a] = x]
    BY <1>3, <2>2, Zenon DEF AnswerRelease
  <2>4. x \in {"none", "offered", "assigned", "released", "expired"}
    BY <2>1, <2>2, Zenon
  <2> QED
    BY <2>3, <2>4, Zenon
<1> HIDE DEF r
<1>8. \A m \in replies' : \/ m \in replies
                          \/ m.req \in Request /\ m.from \in Allocators /\ Told(m)'
  BY <1>5, <1>6, Zenon DEF Told
<1> QED
  BY <1>1, <1>4, <1>7, <1>8, AnswerStep, Zenon

LEMMA AnswerQueryKeeps ==
  ASSUME RunInv, NEW a \in Allocators, AnswerQuery(a)
  PROVE  RunInv'
<1>1. inbox[a] # <<>> /\ Served(a) /\ ServiceOnly /\ work' = work /\ offered' = offered
      /\ Head(inbox[a]).type \in {"inspect", "renew"}
  BY Zenon DEF AnswerQuery, Serving
<1>2. PICK i \in Request : i = Head(inbox[a]).req
  BY <1>1, Handled, Zenon DEF Commands
<1>3. Past(i) /\ Unassigned(i)'
  BY <1>1, <1>2, Handled, Zenon
<1>4. Past(i)'
  BY <1>1, <1>3, Zenon DEF ServiceOnly, Past
<1>5. work[i] \in {"none", "running", "completed", "evicted", "cancelled", "gone"}
  BY Zenon DEF RunInv, Typed, Phase
<1>6. PICK r : /\ replies' \subseteq replies \cup {r}
               /\ \/ r = Reply("error", i, a, Head(inbox[a]).type, "NOT_FOUND")
                       /\ work[i] \in {"none", "gone"}
                  \/ r = Reply("state", i, a, "push", work[i]) /\ work[i] \notin {"none", "gone"}
                  \/ r = Reply("renewAck", i, a, "renew", "")
                  \/ r = Reply("error", i, a, "renew", "INVALID_TRANSITION")
  <2>1. CASE work[i] \in {"none", "gone"}
    BY <1>2, <2>1, Answered, Zenon DEF AnswerQuery
  <2>2. CASE work[i] \notin {"none", "gone"} /\ Head(inbox[a]).type = "inspect"
    BY <1>2, <2>2, Answered, Zenon DEF AnswerQuery
  <2>3. CASE work[i] = "running" /\ Head(inbox[a]).type # "inspect"
    <3>1. work[i] \notin {"none", "gone"}
      BY <2>3, Zenon
    <3> QED
      BY <1>2, <2>3, <3>1, Answered, Zenon DEF AnswerQuery
  <2>4. CASE work[i] \notin {"none", "gone", "running"} /\ Head(inbox[a]).type # "inspect"
    <3>1. work[i] \notin {"none", "gone"} /\ work[i] # "running"
      BY <2>4, Zenon
    <3> QED
      BY <1>2, <2>4, <3>1, Answered, Zenon DEF AnswerQuery
  <2> QED
    BY <2>1, <2>2, <2>3, <2>4, Zenon
<1>7. /\ r.req = i /\ r.from = a
      /\ r.type = "state" => r.value = work[i] /\ work[i] \notin {"none", "gone"}
      /\ r.type = "error" /\ r.value = "NOT_FOUND" => work[i] \in {"none", "gone"}
  <2>1. CASE r = Reply("error", i, a, Head(inbox[a]).type, "NOT_FOUND")
               /\ work[i] \in {"none", "gone"}
    BY <2>1, Zenon DEF Reply
  <2>2. CASE r = Reply("state", i, a, "push", work[i]) /\ work[i] \notin {"none", "gone"}
    BY <2>2, Zenon DEF Reply
  <2>3. CASE r = Reply("renewAck", i, a, "renew", "")
    BY <2>3, Zenon DEF Reply
  <2>4. CASE r = Reply("error", i, a, "renew", "INVALID_TRANSITION")
    BY <2>4, Zenon DEF Reply
  <2> QED
    BY <1>6, <2>1, <2>2, <2>3, <2>4, Zenon
<1>8. Told(r)'
  <2>1. work'[i] \in {"none", "gone"} => Lost(i)'
    BY <1>3, <1>4, Zenon DEF Lost
  <2> QED
    BY <1>1, <1>5, <1>7, <2>1, Zenon DEF Told, Lost, Past, Unassigned
<1>9. \A m \in replies' : \/ m \in replies
                          \/ m.req \in Request /\ m.from \in Allocators /\ Told(m)'
  BY <1>6, <1>7, <1>8, Zenon
<1> QED
  BY <1>1, <1>9, AnswerStep, Zenon

LEMMA AnswerAssignKeeps ==
  ASSUME RunInv, NEW a \in Allocators, AnswerAssign(a)
  PROVE  RunInv'
<1>1. inbox[a] # <<>> /\ Served(a) /\ ServiceOnly /\ Head(inbox[a]).type = "assign"
  BY Zenon DEF AnswerAssign, Serving
<1>2. PICK i \in Request : i = Head(inbox[a]).req
  BY <1>1, Handled, Zenon DEF Commands
<1>3. CASE offered[i][a] # "offered"
  <2>1. work' = work /\ offered' = offered /\ replies' = replies
    BY <1>2, <1>3, Zenon DEF AnswerAssign
  <2> QED
    BY <1>1, <2>1, AnswerStep, Zenon
<1>4. CASE offered[i][a] = "offered"
  <2>1. /\ offered' = [offered EXCEPT ![i][a] = "assigned"]
        /\ work' = [work EXCEPT ![i] = "running"]
        /\ Answer(Reply("state", i, a, "push", "running"))
    BY <1>2, <1>4, Zenon DEF AnswerAssign
  <2>2. Past(i) /\ Unassigned(i)'
    BY <1>1, <1>2, Handled, Zenon
  <2>3. work \in [Request -> Phase \cup {"gone"}]
        /\ offered \in [Request -> [Allocators ->
                          {"none", "offered", "assigned", "released", "expired"}]]
    BY Zenon DEF RunInv, Typed
  <2>4. ~Unassigned(i)
    <3>1. 1 \in 1 .. Len(inbox[a]) /\ Head(inbox[a]) = inbox[a][1]
      BY <1>1 DEF RunInv, Typed
    <3> QED
      BY <1>1, <1>2, <3>1, Zenon DEF Unassigned
  <2>5. work[i] = "none"
    BY <2>4, Zenon DEF RunInv, Observed, Believed
  <2>6. work'[i] = "running" /\ \A n \in Request : n # i => work'[n] = work[n]
    BY <2>1, <2>3, Zenon
  <2>7. WorkForward
    BY <2>2, <2>4, <2>5, <2>6, Zenon DEF WorkForward
  <2>8. /\ work' \in [Request -> Phase \cup {"gone"}]
        /\ offered' \in [Request -> [Allocators ->
                           {"none", "offered", "assigned", "released", "expired"}]]
    BY <2>1, <2>3, Zenon DEF Phase
  <2>9. \A n \in Request, b \in Allocators :
          offered'[n][b] = "released" => offered[n][b] = "released"
    BY <2>1, <2>3, Zenon
  <2>10. \A n \in Request, b \in Allocators :
           offered'[n][b] = "released" => requests[n].selected \notin {NoAllocator, b}
    BY <2>9, Zenon DEF RunInv, Settling, Decided
  <2> DEFINE r == Reply("state", i, a, "push", "running")
  <2>11. r.req = i /\ r.from = a /\ r.type = "state" /\ r.value = "running"
    BY Zenon DEF Reply
  <2>12. replies' \subseteq replies \cup {r}
    BY <2>1, Answered, Zenon
  <2> HIDE DEF r
  <2>13. ASSUME NEW m \in replies', m \notin replies
         PROVE  m.req \in Request /\ m.from \in Allocators /\ Told(m)'
    <3>1. m.req = i /\ m.from = a /\ m.type = "state" /\ m.value = "running"
      BY <2>11, <2>12, <2>13, Zenon
    <3> QED
      BY <2>6, <3>1, Zenon DEF Told
  <2> QED
    BY <1>1, <2>7, <2>8, <2>10, <2>13, ServiceStep, Zenon
<1> QED
  BY <1>3, <1>4, Zenon

LEMMA AnswerCancelKeeps ==
  ASSUME RunInv, NEW a \in Allocators, AnswerCancel(a)
  PROVE  RunInv'
<1>1. inbox[a] # <<>> /\ Served(a)
  BY Zenon DEF AnswerCancel, Serving
<1>2. PICK i \in Request : i = Head(inbox[a]).req
  BY <1>1, Handled, Zenon DEF Commands
<1>3. CASE work[i] = "running"
  <2>1. Ends(i, "cancelled")
    BY <1>2, <1>3, Zenon DEF AnswerCancel
  <2> QED
    BY <1>1, <2>1, EndsKeeps, Zenon
<1>4. CASE work[i] # "running"
  <2>1. ServiceOnly /\ work' = work /\ offered' = offered /\ replies' = replies
    BY <1>2, <1>4, Zenon DEF AnswerCancel
  <2> QED
    BY <1>1, <2>1, AnswerStep, Zenon
<1> QED
  BY <1>3, <1>4, Zenon

LEMMA ForgetKeeps ==
  ASSUME RunInv, NEW i \in Request, Forget(i)
  PROVE  RunInv'
<1>1. /\ ServiceOnly /\ offered' = offered /\ inbox' = inbox /\ replies' = replies
      /\ work' = [work EXCEPT ![i] = "gone"] /\ work \in [Request -> Phase \cup {"gone"}]
      /\ ~Terminal(executions[i].state) /\ \A m \in replies : m.req # i
  BY Zenon DEF RunInv, Typed, Forget
<1>2. work[i] # "none"
  BY DEF Forget, Terminal, Revision
<1>3. work'[i] = "gone" /\ \A n \in Request : n # i => work'[n] = work[n]
  BY <1>1, Zenon
<1>4. WorkForward
  BY <1>1, <1>2, <1>3, Zenon DEF WorkForward
<1>5. work' \in [Request -> Phase \cup {"gone"}]
  BY <1>1, Zenon
<1>6. /\ offered' \in [Request -> [Allocators ->
                         {"none", "offered", "assigned", "released", "expired"}]]
      /\ \A n \in Request, a \in Allocators :
           offered'[n][a] = "released" => requests[n].selected \notin {NoAllocator, a}
  BY <1>1, Zenon DEF RunInv, Typed, Settling, Decided
<1> QED
  BY <1>1, <1>4, <1>5, <1>6, ServiceStep, Zenon

LEMMA OfferExpiresKeeps ==
  ASSUME RunInv, NEW i \in Request, NEW a \in Allocators, OfferExpires(i, a)
  PROVE  RunInv'
BY AnswerStep, Zenon DEF OfferExpires

LEMMA InitInv ==
  ASSUME Init
  PROVE  RunInv
<1>1. Typed
  <2>1. ctl \in Controls /\ result \in Outcomes
    BY RunAssumption DEF Init, Controls, Position, Outcomes
  <2>2. requests \in [Request -> Records] /\ executions \in [Request -> Leases]
    BY RunAssumption DEF Init, noRequest, noExecution, Records, Leases, OfferRecord, Phase
  <2>3. inbox \in [Allocators -> Seq(Commands)] /\ work \in [Request -> Phase \cup {"gone"}]
    BY DEF Init, Phase
  <2>4. /\ offered \in [Request -> [Allocators ->
                          {"none", "offered", "assigned", "released", "expired"}]]
        /\ replies = {}
    BY Zenon DEF Init
  <2> QED
    BY <2>1, <2>2, <2>3, <2>4, Zenon DEF Typed
<1>2. \A i \in Request : /\ requests[i] = noRequest /\ ~requests[i].made /\ requests[i].parent = 0
                         /\ requests[i].selected = NoAllocator
                         /\ \A a \in Allocators : requests[i].offers[a] = "none"
  BY Zenon DEF Init, noRequest
<1>3. Numbered
  <2>1. 0 \in 0 .. MaxRequests /\ \A i \in Request : ~(i <= 0)
    BY RunAssumption DEF Request
  <2> QED
    BY <1>2, <2>1, Zenon DEF Numbered
<1>4. Placed
  <2>1. /\ ctl.pc = "idle" /\ ctl.from = "run" /\ ctl.active = 0 /\ ctl.holder = 0
        /\ result.attempt = 0
    BY Zenon DEF Init
  <2>2. 1 \in Request
    BY RunAssumption DEF Request
  <2> QED
    BY <1>2, <2>1, <2>2, Zenon DEF Placed
<1>5. \A a \in Allocators : inbox[a] = <<>>
  BY Zenon DEF Init
<1>6. Mail
  <2>1. \A a \in Allocators : \A k \in 1 .. Len(inbox[a]) : FALSE
    BY <1>5
  <2> QED
    BY <2>1, Zenon DEF Mail, InOrder
<1>7. Observed
  <2>1. \A i \in Request : work[i] = "none" /\ ~Terminal(executions[i].state) /\ ~executions[i].lost
    BY DEF Init, noExecution, Terminal, Revision
  <2> QED
    BY <1>2, <2>1, Zenon DEF Init, Observed, Believed
<1>8. Settling
  <2>1. \A i \in Request, a \in Allocators : offered[i][a] = "none"
    BY Zenon DEF Init
  <2>2. \A a \in Allocators : a # NoAllocator
    BY RunAssumption, Zenon
  <2> QED
    BY <1>2, <2>1, <2>2, Zenon DEF Settling, Decided
<1> QED
  BY <1>1, <1>3, <1>4, <1>6, <1>7, <1>8, Zenon DEF RunInv

-----------------------------------------------------------------------------
(* Selecting the best offer: the ranking is well founded.                  *)

LOCAL INSTANCE WellFoundedInduction

LEMMA Least ==
  ASSUME NEW T \in SUBSET Nat, T # {}
  PROVE  \E x \in T : \A y \in T : x <= y
<1>1. PICK x \in T : \A y \in T : <<y, x>> \notin OpToRel(<, Nat)
  BY NatLessThanWellFounded, WFMin, Zenon
<1>2. \A y \in T : ~(y < x)
  BY <1>1, Zenon DEF OpToRel
<1> QED
  BY <1>2

\* The ranking of offers has a best one.
LEMMA Chosen ==
  ASSUME NEW i \in Request, Unexpired(i) # {}
  PROVE  choose(i) \in Unexpired(i)
<1> DEFINE S == Unexpired(i)
<1>1. S \subseteq Allocators
  BY Zenon DEF Unexpired
<1> HIDE DEF S
<1>2. S # {}
  BY Zenon DEF S
<1>3. PICK h \in {Hops[a] : a \in S} : \A y \in {Hops[a] : a \in S} : h <= y
  <2>1. {Hops[a] : a \in S} \in SUBSET Nat /\ {Hops[a] : a \in S} # {}
    BY <1>1, <1>2, RunAssumption
  <2> QED
    BY <2>1, Least, Zenon
<1> DEFINE N == {a \in S : Hops[a] = h}
           C == IF N \cap Caches = {} THEN N ELSE N \cap Caches
<1>4. C # {} /\ C \subseteq S
  BY <1>3, Zenon
<1>5. PICK d \in {IdOrder[a] : a \in C} : \A y \in {IdOrder[a] : a \in C} : d <= y
  <2>1. {IdOrder[a] : a \in C} \in SUBSET Nat /\ {IdOrder[a] : a \in C} # {}
    BY <1>1, <1>4, RunAssumption
  <2> QED
    BY <2>1, Least, Zenon
<1>6. PICK a \in C : IdOrder[a] = d
  BY <1>5, Zenon
<1>7. ASSUME NEW b \in S \ {a}
      PROVE  Better(a, b)
  <2>1. a \in Allocators /\ b \in Allocators /\ Hops[a] \in Nat /\ Hops[b] \in Nat
        /\ IdOrder[a] \in Nat /\ IdOrder[b] \in Nat /\ IdOrder[a] # IdOrder[b]
    BY <1>1, <1>4, RunAssumption, Zenon
  <2>2. Hops[a] = h /\ Hops[a] <= Hops[b]
    BY <1>3, <1>4
  <2>3. CASE Hops[a] < Hops[b]
    BY <2>3, Zenon DEF Better
  <2>4. CASE Hops[a] = Hops[b] /\ b \notin C
    <3>1. b \in N /\ a \in Caches /\ b \notin Caches
      BY <2>2, <2>4, Zenon
    <3> QED
      BY <2>4, <3>1, Zenon DEF Better
  <2>5. CASE Hops[a] = Hops[b] /\ b \in C
    <3>1. IdOrder[a] <= IdOrder[b]
      BY <1>5, <1>6, <2>5, Zenon
    <3>2. IdOrder[a] < IdOrder[b]
      BY <2>1, <3>1
    <3>3. a \in Caches <=> b \in Caches
      BY <2>5, Zenon
    <3> QED
      BY <2>5, <3>2, <3>3, Zenon DEF Better
  <2> QED
    BY <2>1, <2>2, <2>3, <2>4, <2>5
<1> QED
  BY <1>4, <1>6, <1>7, Zenon DEF choose, S

LEMMA SelectKeeps ==
  ASSUME RunInv, Select
  PROVE  RunInv' /\ Forward /\ Justified
<1>1. Typed /\ Placed /\ Mail /\ Numbered /\ Observed /\ result \in Outcomes /\ ctl \in Controls
      /\ requests \in [Request -> Records] /\ executions \in [Request -> Leases]
      /\ inbox' = inbox /\ work' = work /\ offered' = offered /\ replies' = replies
  BY Zenon DEF RunInv, Typed, Select
<1>2. PICK i \in Request : /\ i = ctl.cur /\ requests[i].made
                           /\ requests[i].selected = NoAllocator
  BY <1>1, Indices, Zenon DEF Placed, Select
<1>3. CASE Unexpired(i) = {}
  BY <1>1, <1>2, <1>3, QuietFailure, Zenon DEF Select, Forward, Justified
<1>4. CASE Unexpired(i) # {}
  <2>1. PICK a \in Unexpired(i) : a = choose(i)
    BY <1>4, Chosen, Zenon
  <2>2. a \in Allocators /\ requests[i].offers[a] # "none" /\ a # NoAllocator
    BY <2>1, RunAssumption, Zenon DEF Unexpired
  <2>3. /\ requests' = [requests EXCEPT ![i].selected = a,
                          ![i].offers = [b \in Allocators |->
                             IF @[b] = "live" /\ b # a THEN "releasing" ELSE @[b]]]
        /\ executions' = [executions EXCEPT ![i].held = TRUE]
        /\ Moves("assign") /\ result' = result
    <3>1. Unexpired(ctl.cur) # {} /\ choose(ctl.cur) = a /\ ctl.cur = i
      BY <1>2, <1>4, <2>1, Zenon
    <3> QED
      BY <3>1, Zenon DEF Select, Moves
  <2>4. \A n \in Request : n # i => requests'[n] = requests[n]
    BY <1>1, <2>3, Zenon
  <2>5. /\ requests' \in [Request -> Records]
        /\ requests'[i].made = requests[i].made /\ requests'[i].parent = requests[i].parent
        /\ requests'[i].selected = a
        /\ \A b \in Allocators : requests'[i].offers[b] =
             IF requests[i].offers[b] = "live" /\ b # a THEN "releasing" ELSE requests[i].offers[b]
    <3> DEFINE f == [b \in Allocators |-> IF requests[i].offers[b] = "live" /\ b # a
                                         THEN "releasing" ELSE requests[i].offers[b]]
    <3>1. requests[i] \in Records
      BY <1>1, Zenon
    <3>2. f \in [Allocators -> OfferRecord]
      BY <3>1, Zenon DEF Records, OfferRecord
    <3> HIDE DEF f
    <3>3. requests'[i] = [[requests[i] EXCEPT !.selected = a] EXCEPT !.offers = f]
      BY <1>1, <2>3 DEF f
    <3>4. /\ requests'[i] \in Records
          /\ requests'[i].made = requests[i].made /\ requests'[i].parent = requests[i].parent
          /\ requests'[i].selected = a /\ requests'[i].offers = f
      BY <2>2, <3>1, <3>2, <3>3, Zenon DEF Records
    <3>5. requests' \in [Request -> Records]
      BY <1>1, <2>3, <2>4, <3>4, Zenon
    <3> QED
      BY <3>4, <3>5, Zenon DEF f
  <2>6. /\ ctl' \in Controls /\ ctl'.pc = "assign" /\ ctl'.active = ctl.active
        /\ ctl'.cur = i /\ ctl'.holder = ctl.holder /\ ctl'.from = ctl.from
    BY <1>1, <1>2, <2>3, MoveSets, Zenon DEF Position
  <2>7. Kept
    <3>1. \A n \in Request : Past(n) => n # i
      BY <1>2, Zenon DEF Past
    <3> QED
      BY <1>2, <2>4, <2>5, <2>6, <3>1, Zenon DEF Kept, Past
  <2>8. Mail' /\ StillOut
    BY <1>1, <2>7, MailSame, Zenon
  <2>9. StaysLost
    BY <1>1, <2>7, <2>8, LostKept, Zenon DEF Lost
  <2>10. /\ executions' \in [Request -> Leases]
         /\ \A n \in Request : /\ executions'[n].state = executions[n].state
                               /\ executions'[n].lost = executions[n].lost
    BY <1>1, <2>3, LeaseHeld, Zenon
  <2>11. /\ \A n \in Request : Terminal(executions'[n].state) => work[n] = executions'[n].state
         /\ \A n \in Request : executions'[n].lost => Lost(n)
    BY <2>10, BeliefsSame, Zenon DEF Terminal, Revision
  <2>12. \A n \in Request : requests'[n].parent = requests[n].parent
                              /\ requests'[n].made = requests[n].made
    BY <2>4, <2>5, Zenon
  <2>13. Observed'
    BY <1>1, <2>5, <2>7, <2>8, <2>9, <2>11, <2>12, ObservedStep, Zenon
  <2>14. Typed'
    BY <1>1, <2>3, <2>5, <2>6, <2>10, Zenon DEF Typed
  <2>15. Numbered'
    BY <1>1, <2>12, Zenon DEF Numbered
  <2>16. Placed'
    <3>1. /\ (ctl.active # 0 => Past(ctl.active))' /\ (ctl.holder # 0 => Past(ctl.holder))'
          /\ (result.attempt # 0 => Past(result.attempt))'
      BY <1>1, <2>3, <2>6, <2>7, PastKept, Zenon
    <3>2. i # 0
      BY DEF Request
    <3>3. ctl'.pc \notin {"idle", "hold", "maintain", "await", "wait", "inspect", "rerequest",
                          "rebind", "collect"}
      BY <2>6, Zenon
    <3>4. (ctl'.from # "run" => ctl'.active # 0) /\ (ctl'.from = "renew" => ctl'.holder # 0)
      BY <1>1, <2>6, Zenon DEF Placed
    <3>5. ctl'.cur # 0 /\ requests'[ctl'.cur].made /\ requests'[ctl'.cur].selected # NoAllocator
      BY <1>2, <2>2, <2>5, <2>6, <3>2, Zenon
    <3> QED
      BY <3>1, <3>3, <3>4, <3>5, Zenon DEF Placed
  <2>17. Settling'
    <3>1. Decided(i) /\ \A n \in Request : Decided(n)
      BY Zenon DEF RunInv, Settling
    <3>2. Decided(i)'
      <4>1. requests[i].offers[a] = "live" /\ \A b \in Allocators : offered'[i][b] # "released"
        BY <1>1, <1>2, <2>2, <3>1, Zenon DEF Decided
      <4> QED
        BY <1>2, <2>2, <2>5, <4>1 DEF Decided
    <3>3. ASSUME NEW n \in Request, n # i
          PROVE  Decided(n)'
      <4>1. requests'[n] = requests[n] /\ offered'[n] = offered[n] /\ Decided(n)
        BY <1>1, <2>4, <3>1, <3>3, Zenon
      <4> QED
        BY <4>1 DEF Decided
    <3> QED
      BY <3>2, <3>3, Zenon DEF Settling
  <2> QED
    BY <2>8, <2>10, <2>12, <2>13, <2>14, <2>15, <2>16, <2>17, Zenon DEF RunInv, Forward, Justified
<1> QED
  BY <1>3, <1>4, Zenon

-----------------------------------------------------------------------------
(* The theorems.                                                           *)

LEMMA NextInv ==
  ASSUME RunInv, [Next]_vars
  PROVE  RunInv' /\ Forward /\ Justified
<1>1. executions' = executions => Forward
  BY Zenon DEF Forward
<1>2. requests' = requests => Justified
  BY Zenon DEF Justified
<1>3. ASSUME Controller
      PROVE  RunInv' /\ Forward /\ Justified
  <2>1. CASE Run \/ reRequestLost
    BY <1>1, <2>1, RunKeeps, reRequestLostKeeps, Zenon DEF Run, reRequestLost
  <2>2. CASE Select
    BY <2>2, SelectKeeps, Zenon
  <2>3. CASE RebindLeaseIntent \/ Maintain \/ WaitTick
    BY <1>2, <2>3, RebindLeaseIntentKeeps, MaintainKeeps, WaitTickKeeps, Zenon
       DEF RebindLeaseIntent, Maintain, WaitTick
  <2>4. CASE CollectCancelled \/ Assign \/ InspectReturns \/ Return
    BY <1>1, <1>2, <2>4, CollectCancelledKeeps, AssignKeeps, InspectReturnsKeeps, ReturnKeeps, Zenon
       DEF CollectCancelled, Assign, InspectReturns, Return
  <2>5. CASE holdRun \/ awaitLeaseAck \/ WaitCancelled \/ WaitSignalled
    BY <1>1, <1>2, <2>5, holdRunKeeps, awaitLeaseAckKeeps, WaitKeeps, Zenon
       DEF holdRun, awaitLeaseAck, WaitCancelled, WaitSignalled
  <2> QED
    BY <1>3, <2>1, <2>2, <2>3, <2>4, <2>5, Zenon DEF Controller
<1>4. ASSUME ServiceOnly
      PROVE  Forward /\ Justified
  BY <1>1, <1>2, <1>4, Zenon DEF ServiceOnly
<1>5. ASSUME NEW a \in Allocators, Allocator(a)
      PROVE  RunInv' /\ Forward /\ Justified
  <2>1. ServiceOnly
    BY <1>5, Zenon DEF Allocator, AnswerRequest, AnswerAssign, AnswerRelease, AnswerQuery,
       AnswerCancel, Ends
  <2> QED
    BY <1>4, <1>5, <2>1, AnswerRequestKeeps, AnswerAssignKeeps, AnswerReleaseKeeps,
       AnswerQueryKeeps, AnswerCancelKeeps, Zenon DEF Allocator
<1>6. ASSUME NEW i \in Request, Complete(i) \/ LeaseExpires(i) \/ Forget(i)
      PROVE  RunInv' /\ Forward /\ Justified
  <2>1. ServiceOnly
    BY <1>6, Zenon DEF Complete, LeaseExpires, Forget, Ends
  <2> QED
    BY <1>4, <1>6, <2>1, EndsKeeps, ForgetKeeps, Zenon DEF Complete, LeaseExpires
<1>7. ASSUME NEW i \in Request, NEW a \in Allocators, SendRelease(i, a) \/ OfferExpires(i, a)
      PROVE  RunInv' /\ Forward /\ Justified
  BY <1>1, <1>2, <1>7, SendReleaseKeeps, OfferExpiresKeeps, Zenon
     DEF SendRelease, OfferExpires, ServiceOnly
<1>8. ASSUME CancelContext \/ Close \/ DrainEnds \/ UNCHANGED vars
      PROVE  RunInv' /\ Forward /\ Justified
  <2>1. UNCHANGED <<requests, executions, ctl, result, inbox, replies, offered, work>>
    BY <1>8, Zenon DEF CancelContext, Close, DrainEnds, vars
  <2>2. executions' \in [Request -> Leases] /\ replies' \subseteq replies
    BY <2>1, Zenon DEF RunInv, Typed
  <2>3. executions' = executions
    BY <2>1, Zenon
  <2> QED
    BY <1>1, <1>2, <2>1, <2>2, <2>3, BeliefsSame, KnowledgeStep, Zenon
<1>9. ASSUME NEW a \in Allocators, Discover(a)
      PROVE  RunInv' /\ Forward /\ Justified
  BY <1>1, <1>9, DiscoverKeeps, Zenon DEF Discover
<1> QED
  BY <1>3, <1>5, <1>6, <1>7, <1>8, <1>9, DeliverKeeps, Zenon DEF Next

(* The invariant: everything the controller, the core of the client and   *)
(* the allocators must agree on about a request, through lost commands,   *)
(* reordered replies and cancellation.                                    *)
THEOREM Coordinated == Spec => []RunInv
<1>1. Init => RunInv
  BY InitInv, Zenon
<1>2. RunInv /\ [Next]_vars => RunInv'
  BY NextInv, Zenon
<1> QED
  BY <1>1, <1>2, PTL DEF Spec

(* LossIsConclusive for every cluster: reRequestLost replaces an execution *)
(* only when it does not run and nothing under way can start it.           *)
THEOREM Conclusive == Spec => []LossIsConclusive
<1>1. RunInv => LossIsConclusive
  <2> SUFFICES ASSUME RunInv, NEW i \in Request, requests[i].parent # 0
               PROVE  /\ work[requests[i].parent] # "running"
                      /\ Unassigned(requests[i].parent)
    BY Zenon DEF LossIsConclusive, Unassigned
  <2> QED
    BY Zenon DEF RunInv, Observed, Believed, Lost
<1> QED
  BY <1>1, Coordinated, PTL

(* OffersSettled for every cluster: Select and handleOfferLocked keep the  *)
(* selected offer and give back every other one.                           *)
THEOREM Settled == Spec => []OffersSettled
<1>1. RunInv => OffersSettled
  <2> SUFFICES ASSUME RunInv, NEW i \in Request, requests[i].selected # NoAllocator,
                      NEW a \in Allocators
               PROVE  IF a = requests[i].selected
                      THEN requests[i].offers[a] = "live" /\ offered[i][a] # "released"
                      ELSE requests[i].offers[a] # "live"
    BY Zenon DEF OffersSettled
  <2>1. Decided(i)
    BY Zenon DEF RunInv, Settling
  <2> QED
    BY <2>1, Zenon DEF Decided
<1> QED
  BY <1>1, Coordinated, PTL

(* ObservedForward for every cluster: handleStateLocked replaces an        *)
(* observed state by a newer one only, whatever arrives in whatever order. *)
THEOREM Newer == Spec => ObservedForward
<1>1. RunInv /\ [Next]_vars => [Forward]_vars
  BY NextInv, Zenon
<1>2. Spec => [][Forward]_vars
  BY <1>1, Coordinated, PTL DEF Spec
<1> QED
  BY <1>2, PTL DEF ObservedForward, Forward

(* KnownResultKept for every cluster: a workload whose result the client   *)
(* knows is never requested again.                                         *)
THEOREM NotRunAgain == Spec => KnownResultKept
<1>1. RunInv /\ [Next]_vars => [Justified]_vars
  BY NextInv, Zenon
<1>2. Spec => [][Justified]_vars
  BY <1>1, Coordinated, PTL DEF Spec
<1> QED
  BY <1>2, PTL DEF KnownResultKept, Justified
=============================================================================
