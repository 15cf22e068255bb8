--------------------------- MODULE RunController ---------------------------
(***************************************************************************)
(* One run of the client: the controller goroutine of client/run.go, the   *)
(* in-memory protocol core of internal/client behind its mutex, and the    *)
(* goroutine that gives unselected offers back.                            *)
(*                                                                         *)
(* Requests are numbered in the order they are created; request i has at   *)
(* most one execution, which is also called i.  Time is abstract: timers   *)
(* fire at any moment, and a renewal already made may or may not be due    *)
(* again.  Every renewal and every inspection has an identifier of its     *)
(* own, and answers to a superseded one are refused: here they are dropped *)
(* when the next one is made.                                              *)
(*                                                                         *)
(* What the allocators do is reduced to what the client can observe of     *)
(* them; the module Allocator has the detail.  Commands to one allocator   *)
(* are handled in the order they were sent, and some never arrive,         *)
(* whatever the sender was told.  Replies are lost and reordered.          *)
(***************************************************************************)
EXTENDS Naturals, Sequences, FiniteSets

CONSTANTS
  Allocators,    \* the allocators of the cluster
  NoAllocator,   \* the selection of a request that has none
  Bootstrap,     \* allocators whose destination the client is configured with
  Hops,          \* network distance of each allocator
  Caches,        \* allocators that already hold the workload image
  IdOrder,       \* the order of the allocators' identities and destinations
  MaxRequests,   \* bound: requests created by one run
  MaxInbox,      \* bound: commands on their way to one allocator
  MaxReplies     \* bound: messages other than states on their way to the client

ASSUME RunAssumption ==
  /\ NoAllocator \notin Allocators
  /\ Bootstrap \subseteq Allocators /\ Caches \subseteq Allocators
  /\ Hops \in [Allocators -> Nat] /\ IdOrder \in [Allocators -> Nat \ {0}]
  /\ \A a, b \in Allocators : IdOrder[a] = IdOrder[b] => a = b
  /\ MaxRequests \in Nat \ {0} /\ MaxInbox \in Nat /\ MaxReplies \in Nat

VARIABLES
  catalog,       \* allocatorCatalog: how each allocator is known
  requests,      \* o.requests, with the allocators each one was sent to
  executions,    \* o.executions
  ctl,           \* the goroutine of Client.Run: position and local variables
  waiter,        \* an acknowledgement is buffered for the renewal being awaited
  stateChanged,  \* c.stateChanged, a channel with room for one signal
  cancelled,     \* the context of Run has ended
  endpoint,      \* the transport and the release goroutine
  result,        \* what Run returned
  inbox,         \* commands on their way to each allocator
  replies,       \* replies and pushed states on their way to the client
  offered,       \* the allocators' side of the offers
  work           \* the allocators' side of the executions

vars == <<catalog, requests, executions, ctl, waiter, stateChanged, cancelled,
          endpoint, result, inbox, replies, offered, work>>

Request == 1..MaxRequests
Known == {"unknown", "session", "discovered"}
OfferRecord == {"none", "live", "releasing", "acknowledged"}
Phase == {"none", "running", "completed", "evicted", "cancelled"}
Position == {"idle", "collect", "assign", "rebind", "rerequest", "hold", "maintain", "await",
             "wait", "inspect", "return", "done"}

Revision(phase) == CASE phase = "none" -> 0
                     [] phase = "running" -> 1
                     [] OTHER -> 2

Terminal(phase) == Revision(phase) = 2

noRequest == [made |-> FALSE, parent |-> 0, sent |-> {}, selected |-> NoAllocator,
              offers |-> [a \in Allocators |-> "none"]]

noExecution == [state |-> "none", held |-> FALSE, lost |-> FALSE, renewed |-> FALSE,
                renewing |-> FALSE, inspected |-> FALSE]

NextRequest == CHOOSE n \in 1..(MaxRequests + 1) : \A i \in Request : requests[i].made <=> i < n

(* The bound on the requests of a run is used up.                          *)
Exhausted == ctl.pc = "rerequest" /\ NextRequest > MaxRequests

----------------------------------------------------------------------------
(* The transport: c.send and the endpoint below it.                        *)

(* The bound on commands; renewals, at most one an execution, come on top. *)
Room(a) == Len(SelectSeq(inbox[a], LAMBDA c : c.type # "renew")) < MaxInbox

(* What can become of a command: whether it arrives, and what the sender   *)
(* is told.  A closed endpoint and an ended context refuse at once.        *)
SendOutcomes(a, open) ==
  {o \in [arrives : BOOLEAN, ok : BOOLEAN] :
     /\ o.arrives => open /\ Room(a)
     /\ o.ok => open}

Sending == endpoint # "closed" /\ ~cancelled

Command(type, i) == [type |-> type, req |-> i]

(* The inboxes once the command has reached the allocators in reached.  A  *)
(* repeated renewal or inspection takes the place of the one under way.    *)
Posted(reached, command) ==
  [a \in Allocators |->
     IF a \notin reached \/ \E k \in 1..Len(inbox[a]) : inbox[a][k] = command THEN inbox[a]
     ELSE Append(inbox[a], command)]

Reached(a, outcome) == IF outcome.arrives THEN {a} ELSE {}

(* The answer to a superseded renewal or inspection of i is refused.       *)
Unanswered(type, i) == {m \in replies : ~(m.of = type /\ m.req = i)}

----------------------------------------------------------------------------
(* The allocator catalog and its ranking of offers.                        *)

Better(a, b) ==
  \/ Hops[a] < Hops[b]
  \/ Hops[a] = Hops[b] /\ a \in Caches /\ b \notin Caches
  \/ /\ Hops[a] = Hops[b]
     /\ a \in Caches <=> b \in Caches
     /\ IdOrder[a] < IdOrder[b]

Unexpired(i) == {a \in Allocators : requests[i].offers[a] # "none" /\ offered[i][a] # "expired"}

choose(i) == CHOOSE a \in Unexpired(i) : \A b \in Unexpired(i) \ {a} : Better(a, b)

AllocatorDestinations == {a \in Allocators : catalog[a] = "discovered"}

(* RegisterAllocator for a peer met in a session: nothing that an earlier  *)
(* announcement said of it is forgotten.                                   *)
Registered(a) == [catalog EXCEPT ![a] = IF @ = "unknown" THEN "session" ELSE @]

----------------------------------------------------------------------------
(* The controller: Run, requestAttempt, reRequestLost.                     *)

Init ==
  /\ catalog = [a \in Allocators |-> "unknown"]
  /\ requests = [i \in Request |-> noRequest]
  /\ executions = [i \in Request |-> noExecution]
  /\ ctl = [pc |-> "idle", active |-> 0, cur |-> 0, holder |-> 0, from |-> "run", again |-> FALSE]
  /\ waiter = FALSE
  /\ stateChanged = FALSE
  /\ cancelled = FALSE
  /\ endpoint = "open"
  /\ result = [kind |-> "none", attempt |-> 0]
  /\ inbox = [a \in Allocators |-> <<>>]
  /\ replies = {}
  /\ offered = [i \in Request |-> [a \in Allocators |-> "none"]]
  /\ work = [i \in Request |-> "none"]

createRequest(parent, destinations) ==
  requests' = [requests EXCEPT ![NextRequest] =
                 [noRequest EXCEPT !.made = TRUE, !.parent = parent, !.sent = destinations]]

(* Run returns, with this result, after its deferred steps.                *)
Returns(kind, attempt) ==
  /\ ctl' = [ctl EXCEPT !.pc = "return"]
  /\ result' = [kind |-> kind, attempt |-> attempt]

(* requestAttempt or reRequestLost returns an error to its caller.         *)
AttemptFails ==
  CASE ctl.from = "run"   -> Returns("error", 0)
    [] ctl.from = "hold"  -> Returns("error", ctl.active)
    [] ctl.from = "renew" -> ctl' = [ctl EXCEPT !.pc = "wait"] /\ UNCHANGED result

(* Run publishes the first request to the configured destinations, each in *)
(* a goroutine of its own whose failure is ignored.  A closed client       *)
(* refuses.                                                                *)
Run ==
  /\ ctl.pc = "idle"
  /\ IF endpoint # "open" THEN Returns("error", 0) /\ UNCHANGED <<requests, inbox>>
     ELSE /\ createRequest(0, Bootstrap)
          /\ \E reached \in SUBSET Bootstrap :
               /\ cancelled => reached = {}
               /\ inbox' = Posted(reached, Command("request", 1))
          /\ ctl' = [ctl EXCEPT !.pc = "collect", !.cur = 1]
          /\ UNCHANGED result
  /\ UNCHANGED <<catalog, executions, waiter, stateChanged, cancelled, endpoint,
                 replies, offered, work>>

(* The execution that reRequestLost replaces.                              *)
Replaced == IF ctl.from = "hold" THEN ctl.active ELSE ctl.holder

(* reRequestLost: the next attempt after the lost execution, sent to every *)
(* announced allocator in turn; the first failing send ends the attempt.   *)
reRequestLost ==
  LET destinations == AllocatorDestinations
      Prefix(n) == {a \in destinations : IdOrder[a] <= n}
  IN /\ ctl.pc = "rerequest"
     /\ ~Exhausted
     /\ createRequest(Replaced, destinations)
     /\ \E n \in {0} \cup {IdOrder[a] : a \in destinations}, ok \in BOOLEAN :
          /\ ok => Prefix(n) = destinations
          /\ ~ok => destinations # {}
          /\ ~Sending => Prefix(n) = {}
          /\ inbox' = Posted({a \in Prefix(n) : Room(a)},
                             Command("request", NextRequest))
          /\ IF ok THEN ctl' = [ctl EXCEPT !.pc = "collect", !.cur = NextRequest] /\ UNCHANGED result
             ELSE AttemptFails
     /\ UNCHANGED <<catalog, executions, waiter, stateChanged, cancelled, endpoint,
                    replies, offered, work>>

(* An announcement read while offers are collected: the allocator enters   *)
(* the catalog and is sent the request unless it already was.              *)
Discover(a) ==
  /\ ctl.pc = "collect"
  /\ catalog[a] # "discovered" \/ a \notin requests[ctl.cur].sent
  /\ catalog' = [catalog EXCEPT ![a] = "discovered"]
  /\ requests' = [requests EXCEPT ![ctl.cur].sent = @ \cup {a}]
  /\ \E o \in SendOutcomes(a, Sending) :
       inbox' = IF a \in requests[ctl.cur].sent THEN inbox
                ELSE Posted(Reached(a, o), Command("request", ctl.cur))
  /\ UNCHANGED <<executions, ctl, waiter, stateChanged, cancelled, endpoint, result,
                 replies, offered, work>>

(* The offer window closes: Select records the assignment and a release    *)
(* intent for every other offer, RecordLeaseIntent the duty to renew.      *)
Select ==
  LET i == ctl.cur IN
  /\ ctl.pc = "collect"
  /\ IF Unexpired(i) = {} THEN AttemptFails /\ UNCHANGED <<requests, executions>>
     ELSE /\ requests' = [requests EXCEPT
               ![i].selected = choose(i),
               ![i].offers = [a \in Allocators |->
                  IF @[a] = "live" /\ a # choose(i) THEN "releasing" ELSE @[a]]]
          /\ executions' = [executions EXCEPT ![i].held = TRUE]
          /\ ctl' = [ctl EXCEPT !.pc = "assign"]
          /\ UNCHANGED result
  /\ UNCHANGED <<catalog, waiter, stateChanged, cancelled, endpoint, inbox, replies, offered, work>>

CollectCancelled ==
  /\ ctl.pc = "collect"
  /\ cancelled
  /\ AttemptFails
  /\ UNCHANGED <<catalog, requests, executions, waiter, stateChanged, cancelled, endpoint,
                 inbox, replies, offered, work>>

(* The assignment is sent; on success the attempt belongs to the caller.   *)
Assign ==
  LET i == ctl.cur  a == requests[i].selected IN
  /\ ctl.pc = "assign"
  /\ \E o \in SendOutcomes(a, Sending) :
       /\ inbox' = Posted(Reached(a, o), Command("assign", i))
       /\ IF ~o.ok THEN AttemptFails
          ELSE /\ ctl' = IF ctl.from = "run" THEN [ctl EXCEPT !.pc = "hold", !.active = i]
                         ELSE [ctl EXCEPT !.pc = "rebind"]
               /\ UNCHANGED result
  /\ UNCHANGED <<catalog, requests, executions, waiter, stateChanged, cancelled, endpoint,
                 replies, offered, work>>

(* RebindLeaseIntent moves the duty to renew to the replacement.           *)
RebindLeaseIntent ==
  LET old == Replaced
      new == ctl.cur
  IN /\ ctl.pc = "rebind"
     /\ IF ~executions[old].held THEN AttemptFails /\ UNCHANGED executions
        ELSE /\ executions' = [executions EXCEPT ![old].held = FALSE, ![old].lost = FALSE,
                                                 ![new].held = TRUE,  ![new].lost = FALSE]
             /\ ctl' = IF ctl.from = "hold" THEN [ctl EXCEPT !.pc = "hold", !.active = new]
                       ELSE [ctl EXCEPT !.pc = "maintain", !.holder = new, !.again = TRUE]
             /\ UNCHANGED result
     /\ UNCHANGED <<catalog, requests, waiter, stateChanged, cancelled, endpoint,
                    inbox, replies, offered, work>>

----------------------------------------------------------------------------
(* The controller: holdRun, renewOrReRequest, awaitLeaseAck.               *)

(* A lease is due at once when it was never renewed, and again whenever a  *)
(* third of it has gone by.                                                *)
LeaseDue(i, third) ==
  /\ third \/ ~executions[i].renewed
  /\ executions[i].held
  /\ ~executions[i].lost
  /\ ~Terminal(executions[i].state)

(* The head of the loop of holdRun.                                        *)
holdRun ==
  LET e == executions[ctl.active] IN
  /\ ctl.pc = "hold"
  /\ \E third \in BOOLEAN :
     CASE Terminal(e.state) /\ ~e.lost -> Returns("state", ctl.active)
       [] e.lost -> ctl' = [ctl EXCEPT !.pc = "rerequest", !.from = "hold"] /\ UNCHANGED result
       [] LeaseDue(ctl.active, third) ->
            /\ ctl' = [ctl EXCEPT !.pc = "maintain", !.holder = ctl.active, !.again = FALSE]
            /\ UNCHANGED result
       [] OTHER -> ctl' = [ctl EXCEPT !.pc = "wait"] /\ UNCHANGED result
  /\ UNCHANGED <<catalog, requests, executions, waiter, stateChanged, cancelled, endpoint,
                 inbox, replies, offered, work>>

(* One turn of renewOrReRequest: Maintain, and the renewal it returns.     *)
Maintain ==
  LET h == ctl.holder
      e == executions[h]
      a == requests[h].selected
  IN /\ ctl.pc = "maintain"
     /\ IF e.lost \/ e.state = "evicted"
        THEN /\ executions' = [executions EXCEPT ![h].lost = TRUE]
             /\ ctl' = [ctl EXCEPT !.pc = "rerequest", !.from = "renew"]
             /\ UNCHANGED <<inbox, replies, waiter>>
        ELSE IF Terminal(e.state)
        THEN ctl' = [ctl EXCEPT !.pc = "wait"] /\ UNCHANGED <<executions, inbox, replies, waiter>>
        ELSE /\ executions' = [executions EXCEPT ![h].renewing = TRUE, ![h].renewed = TRUE,
                                                 ![h].held = TRUE]
             /\ replies' = Unanswered("renew", h)
             /\ waiter' = FALSE
             /\ \E o \in SendOutcomes(a, Sending) :
                  /\ inbox' = Posted(Reached(a, o), Command("renew", h))
                  /\ ctl' = [ctl EXCEPT !.pc = IF o.ok THEN "await" ELSE "wait"]
     /\ UNCHANGED <<catalog, requests, stateChanged, cancelled, endpoint, result, offered, work>>

\* Mutant: a renewal that times out has lost its lease.
awaitLeaseAckOnce ==
  /\ ctl.pc = "await"
  /\ \/ /\ waiter
        /\ ctl' = [ctl EXCEPT !.pc = "wait", !.active = IF ctl.again THEN ctl.holder ELSE @]
     \/ ctl' = IF ~waiter THEN [ctl EXCEPT !.pc = "rerequest", !.from = "renew"]
               ELSE [ctl EXCEPT !.pc = "wait"]
  /\ waiter' = FALSE
  /\ UNCHANGED <<catalog, requests, executions, stateChanged, cancelled, endpoint, result,
                 inbox, replies, offered, work>>

(* awaitLeaseAck returns: the acknowledgement, an error reply, the timeout *)
(* or the end of the context.                                              *)
awaitLeaseAck ==
  /\ ctl.pc = "await"
  /\ \/ /\ waiter
        /\ ctl' = [ctl EXCEPT !.pc = "wait", !.active = IF ctl.again THEN ctl.holder ELSE @]
     \/ ctl' = IF executions[ctl.holder].lost THEN [ctl EXCEPT !.pc = "rerequest", !.from = "renew"]
               ELSE [ctl EXCEPT !.pc = "wait"]
  /\ waiter' = FALSE
  /\ UNCHANGED <<catalog, requests, executions, stateChanged, cancelled, endpoint, result,
                 inbox, replies, offered, work>>

(* The select of holdRun: the end of the context, a signal, or the ticker. *)
WaitCancelled ==
  /\ ctl.pc = "wait"
  /\ cancelled
  /\ Returns("error", ctl.active)
  /\ UNCHANGED <<catalog, requests, executions, waiter, stateChanged, cancelled, endpoint,
                 inbox, replies, offered, work>>

WaitSignalled ==
  /\ ctl.pc = "wait"
  /\ stateChanged
  /\ stateChanged' = FALSE
  /\ ctl' = [ctl EXCEPT !.pc = "hold"]
  /\ UNCHANGED <<catalog, requests, executions, waiter, cancelled, endpoint, result,
                 inbox, replies, offered, work>>

\* Mutant: a tick does not inspect.
WaitTickIdle ==
  /\ ctl.pc = "wait"
  /\ ctl' = [ctl EXCEPT !.pc = "hold"]
  /\ UNCHANGED <<catalog, requests, executions, waiter, stateChanged, cancelled, endpoint, result,
                 inbox, replies, offered, work>>

\* Mutant: a failed inspection does not look at the context.
WaitTickUncancelled ==
  LET i == ctl.active
      a == requests[i].selected
  IN /\ ctl.pc = "wait"
     /\ executions' = [executions EXCEPT ![i].inspected = TRUE]
     /\ replies' = Unanswered("inspect", i)
     /\ \E o \in SendOutcomes(a, Sending) :
          /\ inbox' = Posted(Reached(a, o), Command("inspect", i))
          /\ IF o.ok THEN ctl' = [ctl EXCEPT !.pc = "inspect"] /\ UNCHANGED result
             ELSE ctl' = [ctl EXCEPT !.pc = "hold"] /\ UNCHANGED result
     /\ UNCHANGED <<catalog, requests, waiter, stateChanged, cancelled, endpoint, offered, work>>

WaitTick ==
  LET i == ctl.active
      a == requests[i].selected
  IN /\ ctl.pc = "wait"
     /\ executions' = [executions EXCEPT ![i].inspected = TRUE]
     /\ replies' = Unanswered("inspect", i)
     /\ \E o \in SendOutcomes(a, Sending) :
          /\ inbox' = Posted(Reached(a, o), Command("inspect", i))
          /\ IF o.ok THEN ctl' = [ctl EXCEPT !.pc = "inspect"] /\ UNCHANGED result
             ELSE IF cancelled THEN Returns("error", i)
             ELSE ctl' = [ctl EXCEPT !.pc = "hold"] /\ UNCHANGED result
     /\ UNCHANGED <<catalog, requests, waiter, stateChanged, cancelled, endpoint, offered, work>>

(* Inspect returns: a reply or the timeout, or the end of the context.     *)
InspectReturns ==
  /\ ctl.pc = "inspect"
  /\ \/ ctl' = [ctl EXCEPT !.pc = "hold"] /\ UNCHANGED result
     \/ cancelled /\ Returns("error", ctl.active)
  /\ UNCHANGED <<catalog, requests, executions, waiter, stateChanged, cancelled, endpoint,
                 inbox, replies, offered, work>>

(* Run cancels the execution it reports when its context has ended.        *)
Return ==
  LET i == result.attempt IN
  /\ ctl.pc = "return"
  /\ ctl' = [ctl EXCEPT !.pc = "done"]
  /\ IF result.kind = "error" /\ cancelled /\ i # 0
     THEN \E o \in SendOutcomes(requests[i].selected, endpoint # "closed") :
            inbox' = Posted(Reached(requests[i].selected, o), Command("cancel", i))
     ELSE UNCHANGED inbox
  /\ UNCHANGED <<catalog, requests, executions, waiter, stateChanged, cancelled, endpoint, result,
                 replies, offered, work>>

(* The caller ends the context.                                            *)
CancelContext ==
  /\ ~cancelled
  /\ ctl.pc # "done"
  /\ cancelled' = TRUE
  /\ UNCHANGED <<catalog, requests, executions, ctl, waiter, stateChanged, endpoint, result,
                 inbox, replies, offered, work>>

----------------------------------------------------------------------------
(* handleEnvelope: the sender enters the catalog, the core applies the     *)
(* message, and a message the core accepted is signalled and dispatched.   *)

Reply(type, i, a, kind, value) ==
  [type |-> type, req |-> i, from |-> a, of |-> kind, value |-> value]

\* Mutant: an offer after the selection is kept.
handleOfferLate(m) ==
  /\ m.type = "offer"
  /\ requests' = [requests EXCEPT ![m.req].offers[m.from] =
                    IF @ # "none" THEN @
                    ELSE "live"]
  /\ UNCHANGED <<executions, stateChanged, waiter>>

handleOffer(m) ==
  /\ m.type = "offer"
  /\ requests' = [requests EXCEPT ![m.req].offers[m.from] =
                    IF @ # "none" THEN @
                    ELSE IF requests[m.req].selected = NoAllocator THEN "live" ELSE "releasing"]
  /\ UNCHANGED <<executions, stateChanged, waiter>>

\* Mutant: states are applied in the order they arrive.
handleStateAny(m) ==
  LET i == m.req IN
  /\ m.type = "state"
  /\ executions' = IF m.value = executions[i].state THEN executions
                   ELSE IF m.value = "evicted"
                   THEN [executions EXCEPT ![i].state = m.value, ![i].lost = TRUE, ![i].renewing = FALSE]
                   ELSE [executions EXCEPT ![i].state = m.value]
  /\ stateChanged' = TRUE
  /\ UNCHANGED <<requests, waiter>>

(* A state is applied when its revision is newer.                          *)
handleState(m) ==
  LET i == m.req IN
  /\ m.type = "state"
  /\ executions' = IF Revision(m.value) <= Revision(executions[i].state) THEN executions
                   ELSE IF m.value = "evicted"
                   THEN [executions EXCEPT ![i].state = m.value, ![i].lost = TRUE, ![i].renewing = FALSE]
                   ELSE [executions EXCEPT ![i].state = m.value]
  /\ stateChanged' = TRUE
  /\ UNCHANGED <<requests, waiter>>

\* Mutant: any error loses the lease.
handleErrorAny(m) ==
  LET i == m.req
      pending == IF m.of = "renew" THEN executions[i].renewing ELSE executions[i].inspected
  IN /\ m.type = "error"
     /\ IF ~pending THEN UNCHANGED executions
        ELSE executions' = [executions EXCEPT ![i].lost = TRUE, ![i].renewing = FALSE]
     /\ UNCHANGED <<requests, stateChanged, waiter>>

(* An error answering the pending renewal or the last inspection; only an  *)
(* execution that is gone loses its lease.                                 *)
handleError(m) ==
  LET i == m.req
      pending == IF m.of = "renew" THEN executions[i].renewing ELSE executions[i].inspected
  IN /\ m.type = "error"
     /\ IF ~pending \/ m.value # "NOT_FOUND" THEN UNCHANGED executions
        ELSE executions' = [executions EXCEPT ![i].lost = TRUE, ![i].renewing = FALSE]
     /\ UNCHANGED <<requests, stateChanged, waiter>>

handleRenewAck(m) ==
  LET i == m.req IN
  /\ m.type = "renewAck"
  /\ IF ~executions[i].renewing \/ executions[i].lost THEN UNCHANGED <<executions, waiter>>
     ELSE /\ executions' = [executions EXCEPT ![i].renewing = FALSE, ![i].renewed = TRUE]
          /\ waiter' = (waiter \/ (ctl.pc = "await" /\ ctl.holder = i))
  /\ UNCHANGED <<requests, stateChanged>>

handleReleaseAck(m) ==
  /\ m.type = "releaseAck"
  /\ requests' = [requests EXCEPT ![m.req].offers[m.from] =
                    IF @ = "releasing" THEN "acknowledged" ELSE @]
  /\ UNCHANGED <<executions, stateChanged, waiter>>

handleEnvelope(m) ==
  /\ endpoint # "closed"
  /\ catalog' = Registered(m.from)
  /\ handleOffer(m) \/ handleState(m) \/ handleError(m) \/ handleRenewAck(m) \/ handleReleaseAck(m)
  /\ UNCHANGED <<ctl, cancelled, endpoint, result, inbox, offered, work>>

Deliver(m) == handleEnvelope(m) /\ replies' = replies \ {m}

----------------------------------------------------------------------------
(* The goroutine of StartOfferReleases, and Close.                         *)

PendingReleases == {p \in Request \X Allocators :
                      /\ requests[p[1]].offers[p[2]] = "releasing"
                      /\ offered[p[1]][p[2]] # "expired"}

\* Mutant: a release is done with when it has been sent.
SendReleaseOnce(i, a) ==
  /\ endpoint # "closed"
  /\ <<i, a>> \in PendingReleases
  /\ \E o \in SendOutcomes(a, TRUE) : inbox' = Posted(Reached(a, o), Command("release", i))
  /\ requests' = [requests EXCEPT ![i].offers[a] = "acknowledged"]
  /\ UNCHANGED <<catalog, executions, ctl, waiter, stateChanged, cancelled, endpoint,
                 result, replies, offered, work>>

(* One release is sent, again and again until it is acknowledged; the      *)
(* outcome of the send is ignored.                                         *)
SendRelease(i, a) ==
  /\ endpoint # "closed"
  /\ <<i, a>> \in PendingReleases
  /\ \E o \in SendOutcomes(a, TRUE) : inbox' = Posted(Reached(a, o), Command("release", i))
  /\ UNCHANGED <<catalog, requests, executions, ctl, waiter, stateChanged, cancelled, endpoint,
                 result, replies, offered, work>>

(* Close asks the goroutine to drain, which ends when nothing is pending   *)
(* or after two seconds; then the endpoint is closed.                      *)
Close ==
  /\ endpoint = "open"
  /\ endpoint' = "draining"
  /\ UNCHANGED <<catalog, requests, executions, ctl, waiter, stateChanged, cancelled, result,
                 inbox, replies, offered, work>>

DrainEnds ==
  /\ endpoint = "draining"
  /\ endpoint' = "closed"
  /\ UNCHANGED <<catalog, requests, executions, ctl, waiter, stateChanged, cancelled, result,
                 inbox, replies, offered, work>>

----------------------------------------------------------------------------
(* The allocators, as the client sees them.                                *)

Serving(a, type) == inbox[a] # <<>> /\ Head(inbox[a]).type = type

Served(a) == inbox' = [inbox EXCEPT ![a] = Tail(@)]

(* A message for the client is on its way, or lost.                        *)
Answer(m) ==
  \/ /\ m.type = "state" \/ Cardinality({r \in replies : r.type # "state"}) < MaxReplies
     /\ replies' = replies \cup {m}
  \/ UNCHANGED replies

ServiceOnly == UNCHANGED <<catalog, requests, executions, ctl, waiter, stateChanged, cancelled,
                           endpoint, result>>

(* A request is answered by an offer or refused.                           *)
AnswerRequest(a) ==
  LET i == Head(inbox[a]).req IN
  /\ Serving(a, "request")
  /\ Served(a)
  /\ \/ /\ offered' = [offered EXCEPT ![i][a] = "offered"]
        /\ Answer(Reply("offer", i, a, "request", ""))
     \/ UNCHANGED <<offered, replies>>
  /\ UNCHANGED work
  /\ ServiceOnly

AnswerAssign(a) ==
  LET i == Head(inbox[a]).req IN
  /\ Serving(a, "assign")
  /\ Served(a)
  /\ IF offered[i][a] = "offered"
     THEN /\ offered' = [offered EXCEPT ![i][a] = "assigned"]
          /\ work' = [work EXCEPT ![i] = "running"]
          /\ Answer(Reply("state", i, a, "push", "running"))
     ELSE UNCHANGED <<offered, work, replies>>
  /\ ServiceOnly

AnswerRelease(a) ==
  LET i == Head(inbox[a]).req IN
  /\ Serving(a, "release")
  /\ Served(a)
  /\ offered' = [offered EXCEPT ![i][a] = IF @ = "offered" THEN "released" ELSE @]
  /\ IF offered[i][a] = "assigned" THEN UNCHANGED replies
     ELSE Answer(Reply("releaseAck", i, a, "release", ""))
  /\ UNCHANGED work
  /\ ServiceOnly

(* An inspection or a renewal of an execution the allocator does not have  *)
(* is answered NOT_FOUND.                                                  *)
AnswerQuery(a) ==
  LET c == Head(inbox[a])  i == c.req IN
  /\ Serving(a, "inspect") \/ Serving(a, "renew")
  /\ Served(a)
  /\ Answer(IF work[i] \in {"none", "gone"} THEN Reply("error", i, a, c.type, "NOT_FOUND")
            ELSE IF c.type = "inspect" THEN Reply("state", i, a, "push", work[i])
            ELSE IF work[i] = "running" THEN Reply("renewAck", i, a, "renew", "")
            ELSE Reply("error", i, a, "renew", "INVALID_TRANSITION"))
  /\ UNCHANGED <<offered, work>>
  /\ ServiceOnly

(* The execution ends, and the allocator tells its owner.                  *)
Ends(i, phase) ==
  /\ work[i] = "running"
  /\ work' = [work EXCEPT ![i] = phase]
  /\ Answer(Reply("state", i, requests[i].selected, "push", phase))
  /\ UNCHANGED offered
  /\ ServiceOnly

AnswerCancel(a) ==
  LET i == Head(inbox[a]).req IN
  /\ Serving(a, "cancel")
  /\ Served(a)
  /\ IF work[i] = "running" THEN Ends(i, "cancelled") ELSE UNCHANGED <<offered, work, replies>> /\ ServiceOnly

Complete(i) == Ends(i, "completed") /\ UNCHANGED inbox
LeaseExpires(i) == Ends(i, "evicted") /\ UNCHANGED inbox

(* Retention outlasts every message and the few seconds in which a run     *)
(* returns a result it has seen: a record is dropped when no message about *)
(* it is left and the client has not learned its end.                      *)
Forget(i) ==
  /\ work[i] \in Phase /\ Terminal(work[i])
  /\ ~Terminal(executions[i].state)
  /\ \A m \in replies : m.req # i
  /\ \A a \in Allocators : \A k \in 1..Len(inbox[a]) : inbox[a][k].req # i
  /\ work' = [work EXCEPT ![i] = "gone"]
  /\ UNCHANGED <<offered, inbox, replies>>
  /\ ServiceOnly

OfferExpires(i, a) ==
  /\ offered[i][a] = "offered"
  /\ offered' = [offered EXCEPT ![i][a] = "expired"]
  /\ UNCHANGED <<work, inbox, replies>>
  /\ ServiceOnly

----------------------------------------------------------------------------
Controller ==
  \/ Run \/ reRequestLost \/ Select \/ CollectCancelled \/ Assign \/ RebindLeaseIntent
  \/ holdRun \/ Maintain \/ awaitLeaseAck \/ WaitCancelled \/ WaitSignalled \/ WaitTick
  \/ InspectReturns \/ Return

Allocator(a) ==
  AnswerRequest(a) \/ AnswerAssign(a) \/ AnswerRelease(a) \/ AnswerQuery(a) \/ AnswerCancel(a)

Next ==
  \/ Controller
  \/ \E a \in Allocators : Discover(a)
  \/ CancelContext
  \/ \E m \in replies : Deliver(m)
  \/ \E i \in Request, a \in Allocators : SendRelease(i, a)
  \/ Close \/ DrainEnds
  \/ \E a \in Allocators : Allocator(a)
  \/ \E i \in Request : Complete(i) \/ LeaseExpires(i) \/ Forget(i)
  \/ \E i \in Request, a \in Allocators : OfferExpires(i, a)

Spec == Init /\ [][Next]_vars

(* Goroutines run, allocators work through their commands, and the         *)
(* transport does not lose every inspection, every answer or every release *)
(* of an endless series.  Nothing is assumed about leases, workloads,      *)
(* contexts or Close.                                                      *)
InspectionArrives ==
  WaitTick /\ \E a \in Allocators :
    inbox'[a] # <<>> /\ inbox'[a][Len(inbox'[a])] = Command("inspect", ctl.active)

Fairness ==
  /\ WF_vars(Controller)
  /\ SF_vars(InspectionArrives)
  /\ \A a \in Allocators :
       /\ WF_vars(Allocator(a))
       /\ SF_vars(Serving(a, "inspect") /\ AnswerQuery(a) /\ replies' # replies)
  /\ \A type \in {"state", "other"} :
       WF_vars(\E m \in replies : (m.type = "state" <=> type = "state") /\ Deliver(m))
  /\ SF_vars(\E i \in Request, a \in Allocators : SendRelease(i, a) /\ inbox' # inbox)

----------------------------------------------------------------------------
(* Rescheduling follows conclusive loss, never a timeout: the execution    *)
(* that a request replaces (reRequestLost) is not running at its allocator *)
(* and no assignment under way can start it.                               *)
LossIsConclusive ==
  \A i \in Request :
    LET p == requests[i].parent IN
    p # 0 => /\ work[p] # "running"
             /\ \A a \in Allocators : \A k \in 1..Len(inbox[a]) :
                  ~(inbox[a][k].type = "assign" /\ inbox[a][k].req = p /\ offered[p][a] = "offered")

(* Selecting one offer and releasing the others are one decision (Select,  *)
(* handleOfferLocked): the selected offer is never given back, and every   *)
(* other offer of a decided request is, whenever it arrives.               *)
OffersSettled ==
  \A i \in Request : requests[i].selected # NoAllocator =>
    \A a \in Allocators :
      IF a = requests[i].selected
      THEN requests[i].offers[a] = "live" /\ offered[i][a] # "released"
      ELSE requests[i].offers[a] # "live"

(* handleStateLocked replaces an observed state by a newer one only, and a *)
(* final state never, in whatever order states arrive.                     *)
ObservedForward ==
  [][\A i \in Request :
       executions'[i].state # executions[i].state =>
         Revision(executions'[i].state) > Revision(executions[i].state)]_vars

(* A workload whose result the client knows is not run again: an error     *)
(* that answers a renewal made before the end (markRenewalFailureLocked)   *)
(* does not turn a result into a lost lease.                               *)
KnownResultKept ==
  [][\A i \in Request :
       ~requests[i].made /\ requests'[i].made /\ requests'[i].parent # 0 =>
         executions[requests'[i].parent].state \notin {"completed", "cancelled"}]_vars

(* A run returns once its context has ended: no send, reply or timer it    *)
(* waits for keeps it (the selects of client/run.go).                      *)
CancelReturns == []<>(~cancelled \/ ctl.pc = "done" \/ Exhausted)

(* A run returns once its workload has completed, although the allocator   *)
(* may push that state in vain: inspection finds it (holdRun).             *)
CompletionReturns ==
  []<>(\/ ctl.active = 0 \/ ctl.pc = "done" \/ Exhausted \/ endpoint # "open"
       \/ work[ctl.active] # "completed")

(* While the client lives, the reservation behind every offer it did not   *)
(* select ends, though releases and their acknowledgements are lost        *)
(* (StartOfferReleases).                                                   *)
LosersReturned ==
  []<>(\/ endpoint # "open"
       \/ \A i \in Request, a \in Allocators :
            /\ requests[i].selected \notin {NoAllocator, a}
            /\ requests[i].offers[a] # "none"
            => offered[i][a] # "offered")
====
