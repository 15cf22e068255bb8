------------------------------- MODULE Tunnel -------------------------------
(* The tunnels of a run: RunTunnel on the client (client/tunnel.go), the mesh   *)
(* pair that it dials, the allocator's edge with its accept loop and splices    *)
(* (internal/tunnel/yggdrasil, cmd/r1sd/tunnel_edge.go), the registry of        *)
(* bindings and sessions (internal/tunnel) and the commands of the allocator    *)
(* around it (internal/allocator/tunnel.go).  One client with one edge key and  *)
(* one allocator, which runs every attempt of the run; the key of a peer is     *)
(* that of its node, so the maps of a mux have one key each.  The bytes of a    *)
(* stream are in Stream; here a pair carries at most one stream.                *)
EXTENDS Integers, Sequences, Functions

CONSTANTS
    Executions,          \* the attempts of the run
    None,
    MaxPairs,            \* bound: pairs of the allocator's edge in use at once
    MaxPendingSessions,  \* capacity of mux.inbound
    MaxFrames,           \* bound: frames on the way in one direction
    MaxDials,            \* bound: dials that establish a pair
    MaxFaults            \* bound: lost frames, timeouts and repeated preambles

ASSUME TunnelAssumption ==
    /\ MaxPairs \in Nat \ {0} /\ MaxPendingSessions \in Nat \ {0}
    /\ MaxFrames \in Nat \ {0} /\ MaxDials \in Nat /\ MaxFaults \in Nat
    /\ None \notin Executions

VARIABLES
    phase,        \* allocator: the phase of each execution
    records,      \* allocator: the tunnel registry
    edge,         \* allocator: the mux, its pairs, their sessions and splices
    loop,         \* allocator: runAcceptLoop
    tun,          \* client: RunTunnel and the Dial that holds its mutex
    mesh,         \* client: the mux of its edge and its pair
    ask,          \* tunnel-open commands: the awaited one and one given up
    toAllocator,  \* frames on the way to the allocator, in order
    toClient,     \* frames on the way to the client, in order
    spent         \* what the bounds count: dials and faults

core == <<phase, records>>
client == <<tun, mesh, ask>>
net == <<toAllocator, toClient>>
vars == <<core, edge, loop, client, net, spent>>

Pairs == 1 .. MaxPairs
NoPair == 0

Frame(kind, e) == [kind |-> kind, exec |-> e]
Close == Frame("close", None)

\* writeFrame sends a datagram; one that finds the mesh full is lost.
Sent(queue, f) == IF Len(queue) < MaxFrames THEN Append(queue, f) ELSE queue

\* A fault: a timeout that fires early, a lost frame, a restart.
Fault ==
    /\ spent.faults < MaxFaults
    /\ spent' = [spent EXCEPT !.faults = @ + 1]

(***************************************************************************)
(* Records.  A pair of the allocator carries the session opened for it: the *)
(* execution and whether the registry has closed its done channel.          *)
(***************************************************************************)
newPair ==
    [closed |-> FALSE, raw |-> None, session |-> None, done |-> FALSE,
     authorized |-> FALSE, splice |-> "none", cancelled |-> FALSE,
     stream |-> "none"]

Unused == [newPair EXCEPT !.closed = TRUE]

newMux == [pair |-> NoPair, pending |-> NoPair, inbound |-> <<>>, blocked |-> NoPair,
           pairs |-> [p \in Pairs |-> Unused]]

NewRegistry == [e \in Executions |-> [bound |-> FALSE, session |-> NoPair]]

NewRunTunnel ==
    [active |-> None, pair |-> FALSE, exec |-> None, at |-> "idle", closed |-> FALSE]

newEdge == [registered |-> FALSE, pending |-> FALSE, queued |-> 0, blocked |-> FALSE,
            closed |-> TRUE, accepted |-> FALSE, ready |-> FALSE, streamed |-> FALSE]

Accepting == [at |-> "accept", pair |-> NoPair, exec |-> None]

NoAsk == [exec |-> None, at |-> "none"]

Init ==
    /\ phase = [e \in Executions |-> "running"]
    /\ records = NewRegistry
    /\ edge = newMux
    /\ loop = Accepting
    /\ tun = NewRunTunnel /\ mesh = newEdge
    /\ ask = [current |-> NoAsk, late |-> NoAsk]
    /\ toAllocator = <<>> /\ toClient = <<>>
    /\ spent = [dials |-> 0, faults |-> 0]

(***************************************************************************)
(* The registry (registry.go, session.go).                                  *)
(***************************************************************************)
\* Active: the session of pair p is the one the registry issued and keeps.
Active(p) ==
    edge.pairs[p].session # None /\ records[edge.pairs[p].session].session = p

\* The session opened for pair p is not done.
Live(p) == edge.pairs[p].session # None /\ ~edge.pairs[p].done

\* The edge g once the done channel of the session of e is closed.
Done(g, e) ==
    LET p == records[e].session
    IN  IF p = NoPair THEN g ELSE [g EXCEPT !.pairs[p].done = TRUE]

CloseSession(e) == [records EXCEPT ![e].session = NoPair]

Invalidate(e) == [records EXCEPT ![e] = [bound |-> FALSE, session |-> NoPair]]

\* Release ends the session of pair p and never a newer one.
Release(p) == IF Active(p) THEN CloseSession(edge.pairs[p].session) ELSE records
Released(g, p) == IF Active(p) THEN [g EXCEPT !.pairs[p].done = TRUE] ELSE g

(***************************************************************************)
(* Pairs and the mux of the allocator (pair.go, mux.go).                    *)
(***************************************************************************)
\* removePair takes the key out of both maps, whichever pair they hold.
removePair(g) == [g EXCEPT !.pair = NoPair, !.pending = NoPair]

\* terminate closes the pair, once, and removes its key.
terminate(g, p) ==
    IF g.pairs[p].closed THEN g
    ELSE [removePair(g) EXCEPT !.pairs[p].closed = TRUE, !.pairs[p].raw = None,
                               !.pairs[p].stream = IF @ = "queued" THEN "ended" ELSE @]

\* endAll tells the peer, once.
Notice(p) == IF edge.pairs[p].closed THEN toClient ELSE Sent(toClient, Close)

\* An identity nothing refers to any more.
Free(p) ==
    /\ edge.pairs[p].closed
    /\ ~Live(p)
    /\ edge.pairs[p].splice \in {"none", "over"}
    /\ edge.pairs[p].stream \in {"none", "ended"}
    /\ loop.pair # p /\ p \notin Range(edge.inbound) /\ edge.blocked # p

\* A stream is accepted on a validated pair whose session is on (ResolveTarget).
Authorizes(g, p) ==
    g.pairs[p].authorized /\ ~g.pairs[p].done /\ ~g.pairs[p].closed

openAllocatorStream(g, p) ==
    IF Authorizes(g, p) /\ g.pairs[p].stream = "none"
    THEN [g EXCEPT !.pairs[p].stream = "queued"] ELSE g

\* A close ends the pair.  Of the preambles only the first is ever read.
ingestPairFrame(g, p, f) ==
    IF f.kind = "close" THEN terminate(g, p)
    ELSE IF g.pairs[p].raw = None THEN [g EXCEPT !.pairs[p].raw = f.exec] ELSE g

ingest(g, p, f) ==
    IF f.kind = "open" THEN openAllocatorStream(g, p) ELSE ingestPairFrame(g, p, f)

\* A stream of pair p is refused or ends: the client is told while the pair is open.
StreamEnds(g, p) ==
    IF g.pairs[p].closed THEN toClient ELSE Sent(toClient, Frame("end", None))

Answer(g, p, f) ==
    IF f.kind = "open" /\ ~Authorizes(g, p) THEN StreamEnds(g, p) ELSE toClient

\* openPending registers the pair and queues it for Accept; with the queue full
\* the read loop waits.
openPending(p) ==
    LET g == [edge EXCEPT !.pairs[p] = newPair, !.pending = p]
    IN  IF Len(g.inbound) < MaxPendingSessions
        THEN [g EXCEPT !.inbound = Append(@, p)]
        ELSE [g EXCEPT !.blocked = p]

\* readLoop: a frame goes to the pair of its peer, to the pending pair, or opens
\* a pending pair.
readLoop ==
    /\ toAllocator # <<>> /\ edge.blocked = NoPair
    /\ toAllocator' = Tail(toAllocator)
    /\ LET f == Head(toAllocator)
           Into(g, p) == edge' = ingest(g, p, f) /\ toClient' = Answer(g, p, f)
       IN  \/ edge.pair # NoPair /\ Into(edge, edge.pair)
           \/ edge.pair = NoPair /\ edge.pending # NoPair /\ Into(edge, edge.pending)
           \/ /\ edge.pair = NoPair /\ edge.pending = NoPair
              /\ \E p \in Pairs :
                    /\ Free(p) /\ \A q \in 1 .. p - 1 : ~Free(q)
                    /\ Into(openPending(p), p)
    /\ UNCHANGED <<core, loop, client, spent>>

\* The blocked openPending finds room, or gives up and drops the pending pair.
QueuePending ==
    /\ edge.blocked # NoPair /\ Len(edge.inbound) < MaxPendingSessions
    /\ edge' = [edge EXCEPT !.inbound = Append(@, edge.blocked), !.blocked = NoPair]
    /\ UNCHANGED <<core, loop, client, net, spent>>

QueueTimeout ==
    /\ edge.blocked # NoPair
    /\ LET g == [edge EXCEPT !.blocked = NoPair]
       IN  IF edge.pending = NoPair
           THEN edge' = [g EXCEPT !.pairs[edge.blocked] = Unused] /\ UNCHANGED toClient
           ELSE edge' = terminate(g, edge.pending) /\ toClient' = Notice(edge.pending)
    /\ UNCHANGED <<core, loop, client, toAllocator, spent>>

(***************************************************************************)
(* The accept loop (tunnel_edge.go runAcceptLoop with Listener.Accept,      *)
(* OpenTunnelSession and Promote): one goroutine, one pair at a time.       *)
(***************************************************************************)
Goto(at) == loop' = [loop EXCEPT !.at = at]
Edge == UNCHANGED <<client, toAllocator>>
Timely == UNCHANGED spent

\* mux.accept takes the oldest pending pair out of the queue.
accept == [edge EXCEPT !.inbound = Tail(@)]

\* Listener.Accept reads its preamble next, or drops it: it has expired.
Accept ==
    /\ loop.at = "accept" /\ edge.inbound # <<>>
    /\ edge' = accept
    /\ \E at \in {"read", "drop"} :
          /\ loop' = [at |-> at, pair |-> Head(edge.inbound), exec |-> None]
          /\ IF at = "drop" THEN Fault ELSE Timely
    /\ UNCHANGED <<core, toClient>> /\ Edge

\* The execution named by the first pair-level frame that has arrived, or None.
readPairFrame(p) == edge.pairs[p].raw

\* readPreamble returns the execution the client named; without one it fails when
\* the pair ends or in time, and Accept then ends the pair.
readPreamble ==
    /\ loop.at = "read"
    /\ LET p == loop.pair
       IN  \/ /\ readPairFrame(p) # None
              /\ loop' = [loop EXCEPT !.at = "check", !.exec = readPairFrame(p)]
              /\ UNCHANGED <<edge, toClient>> /\ Timely
           \/ /\ readPairFrame(p) = None
              /\ Goto("drop")
              /\ edge' = terminate(edge, p) /\ toClient' = Notice(p)
              /\ Timely
    /\ UNCHANGED core /\ Edge

\* dropPending takes whatever pair is pending under the key, then ends it.
dropPending ==
    /\ loop.at = "drop"
    /\ loop' = IF edge.pending = NoPair THEN Accepting
               ELSE [loop EXCEPT !.at = "reject", !.pair = edge.pending]
    /\ edge' = [edge EXCEPT !.pending = NoPair]
    /\ UNCHANGED <<core, toClient>> /\ Edge /\ Timely

\* OpenTunnelSession: the execution is live, ...
CheckExecution ==
    /\ loop.at = "check"
    /\ Goto(IF phase[loop.exec] = "over" THEN "reject" ELSE "open")
    /\ UNCHANGED <<core, edge, toClient>> /\ Edge /\ Timely

\* ... the registry opens the one session of its binding, ...
Open ==
    /\ loop.at = "open"
    /\ LET e == loop.exec
           p == loop.pair
       IN  IF records[e].bound /\ records[e].session = NoPair
           THEN /\ records' = [records EXCEPT ![e].session = p]
                /\ edge' = [edge EXCEPT !.pairs[p].session = e]
                /\ Goto("recheck")
           ELSE Goto("reject") /\ UNCHANGED <<records, edge>>
    /\ UNCHANGED <<phase, toClient>> /\ Edge /\ Timely

\* Mutant: the execution is not looked at again after the session is open.
RecheckExecution_once ==
    /\ loop.at = "recheck"
    /\ Goto("promote")
    /\ UNCHANGED <<core, edge, toClient>> /\ Edge /\ Timely

\* ... and the execution is still live.
RecheckExecution ==
    /\ loop.at = "recheck"
    /\ IF phase[loop.exec] = "over"
       THEN /\ records' = CloseSession(loop.exec)
            /\ edge' = Done(edge, loop.exec)
            /\ Goto("reject")
       ELSE Goto("promote") /\ UNCHANGED <<records, edge>>
    /\ UNCHANGED <<phase, toClient>> /\ Edge /\ Timely

\* A failed Promote: CloseTunnel, then Reject.
GiveUp(p) ==
    /\ records' = Release(p) /\ edge' = Released(edge, p)
    /\ Goto("reject") /\ UNCHANGED toClient

\* Mutant: a stale validation is applied to a pending pair that superseded it.
promote_superseded ==
    /\ loop.at = "promote"
    /\ LET p == loop.pair
       IN  IF edge.pair = NoPair
           THEN /\ edge' = [edge EXCEPT !.pending = NoPair, !.pair = p]
                /\ Goto("authorize") /\ UNCHANGED <<records, toClient>>
           ELSE GiveUp(p)
    /\ UNCHANGED phase /\ Edge /\ Timely

promote ==
    /\ loop.at = "promote"
    /\ LET p == loop.pair
       IN  IF edge.pending = p /\ edge.pair = NoPair
           THEN /\ edge' = [edge EXCEPT !.pending = NoPair, !.pair = p]
                /\ Goto("authorize") /\ UNCHANGED <<records, toClient>>
           ELSE GiveUp(p)
    /\ UNCHANGED phase /\ Edge /\ Timely

\* Authorize pins the session, ...
Authorize ==
    /\ loop.at = "authorize"
    /\ LET p == loop.pair
       IN  IF ~edge.pairs[p].closed /\ ~edge.pairs[p].done
           THEN /\ edge' = [edge EXCEPT !.pairs[p].authorized = TRUE]
                /\ Goto("confirm") /\ UNCHANGED <<records, toClient>>
           ELSE GiveUp(p)
    /\ UNCHANGED phase /\ Edge /\ Timely

\* ... and sends the accept frame; the loop then starts spliceSessionStreams.
writeAccept ==
    /\ loop.at = "confirm"
    /\ LET p == loop.pair
       IN  IF ~edge.pairs[p].closed
           THEN /\ edge' = [edge EXCEPT !.pairs[p].splice = "accepting"]
                /\ toClient' = Sent(toClient, Frame("accept", None))
                /\ loop' = Accepting /\ UNCHANGED records
           ELSE GiveUp(p)
    /\ UNCHANGED phase /\ Edge /\ Timely

Reject ==
    /\ loop.at = "reject"
    /\ edge' = terminate(edge, loop.pair) /\ toClient' = Notice(loop.pair)
    /\ loop' = Accepting
    /\ UNCHANGED core /\ Edge /\ Timely

(***************************************************************************)
(* The splices of a promoted pair and the goroutines that watch its session.*)
(***************************************************************************)
\* The goroutine of Authorize.
AuthorizeWatch(p) ==
    /\ edge.pairs[p].authorized /\ edge.pairs[p].done /\ ~edge.pairs[p].closed
    /\ edge' = terminate(edge, p) /\ toClient' = Notice(p)
    /\ UNCHANGED <<core, loop>> /\ Edge /\ Timely

\* The goroutine of spliceSessionStreams: it cancels the context of the splices
\* and closes the pair.
SpliceWatch(p) ==
    LET c == edge.pairs[p]
    IN  /\ c.splice # "none" /\ (c.done \/ c.cancelled) /\ ~(c.cancelled /\ c.closed)
        /\ edge' = terminate([edge EXCEPT !.pairs[p].cancelled = TRUE], p)
        /\ toClient' = Notice(p)
        /\ UNCHANGED <<core, loop>> /\ Edge /\ Timely

\* AcceptStream hands the next stream to spliceToTarget, ...
AcceptStream(p) ==
    /\ edge.pairs[p].splice = "accepting" /\ edge.pairs[p].stream = "queued"
    /\ ~edge.pairs[p].closed /\ ~edge.pairs[p].done
    /\ edge' = [edge EXCEPT !.pairs[p].stream = "dial"]
    /\ UNCHANGED <<core, loop, toClient>> /\ Edge /\ Timely

\* Mutant: spliceSessionStreams returns without CloseTunnel.
SpliceReturns_keepsSession(p) ==
    LET c == edge.pairs[p]
    IN  /\ c.splice = "accepting"
        /\ c.closed \/ (c.done /\ c.stream = "queued")
        /\ edge' = [edge EXCEPT
                        !.pairs[p].splice = "over", !.pairs[p].cancelled = TRUE,
                        !.pairs[p].stream = IF c.stream = "queued" THEN "ended" ELSE @]
        /\ UNCHANGED <<core, loop, toClient>> /\ Edge /\ Timely

\* ... or fails, and spliceSessionStreams returns: cancel, then CloseTunnel.
SpliceReturns(p) ==
    LET c == edge.pairs[p]
    IN  /\ c.splice = "accepting"
        /\ c.closed \/ (c.done /\ c.stream = "queued")
        /\ records' = Release(p)
        /\ edge' = [Released(edge, p) EXCEPT
                        !.pairs[p].splice = "over", !.pairs[p].cancelled = TRUE,
                        !.pairs[p].stream = IF c.stream = "queued" THEN "ended" ELSE @]
        /\ UNCHANGED <<phase, loop, toClient>> /\ Edge /\ Timely

\* DialTunnelTarget checks the session and the execution, ...
DialTunnelTarget(p) ==
    LET c == edge.pairs[p]
        ok == Active(p) /\ phase[c.session] = "running" /\ ~c.done
    IN  /\ c.stream = "dial"
        /\ edge' = [edge EXCEPT !.pairs[p].stream = IF ok THEN "dialing" ELSE "ended"]
        /\ toClient' = IF ok THEN toClient ELSE StreamEnds(edge, p)
        /\ UNCHANGED <<core, loop>> /\ Edge /\ Timely

\* ... dials the container, which may fail, and checks the session once more.
DialReturns(p) ==
    /\ edge.pairs[p].stream = "dialing"
    /\ \/ /\ Active(p)
          /\ edge' = [edge EXCEPT !.pairs[p].stream = "relay"] /\ UNCHANGED toClient
       \/ /\ edge' = [edge EXCEPT !.pairs[p].stream = "ended"]
          /\ toClient' = StreamEnds(edge, p)
    /\ UNCHANGED <<core, loop>> /\ Edge /\ Timely

\* relay: bytes of the container go to the client; either side may end it.
Relay(p) ==
    /\ edge.pairs[p].stream = "relay" /\ ~edge.pairs[p].closed
    /\ \/ /\ Len(toClient) < MaxFrames /\ Frame("data", None) \notin Range(toClient)
          /\ toClient' = Append(toClient, Frame("data", None)) /\ UNCHANGED edge
       \/ /\ edge' = [edge EXCEPT !.pairs[p].stream = "ended"]
          /\ toClient' = StreamEnds(edge, p)
    /\ UNCHANGED <<core, loop>> /\ Edge /\ Timely

\* The context is cancelled or the pair's streams have ended.
RelayStops(p) ==
    /\ edge.pairs[p].stream = "relay" /\ (edge.pairs[p].cancelled \/ edge.pairs[p].closed)
    /\ edge' = [edge EXCEPT !.pairs[p].stream = "ended"]
    /\ toClient' = StreamEnds(edge, p)
    /\ UNCHANGED <<core, loop>> /\ Edge /\ Timely

(***************************************************************************)
(* The allocator core: the ends of executions and the tunnel-open command.  *)
(***************************************************************************)
Cancel(e) ==
    /\ phase[e] = "running"
    /\ phase' = [phase EXCEPT ![e] = "cancelling"]
    /\ UNCHANGED <<records, edge, loop, client, net, spent>>

\* Mutant: the binding is removed and its session left open.
Finish_keepsSession(e) ==
    /\ phase[e] # "over"
    /\ phase' = [phase EXCEPT ![e] = "over"]
    /\ records' = [records EXCEPT ![e].bound = FALSE]
    /\ UNCHANGED <<edge, loop, client, net, spent>>

\* finishLocked commits the last phase and invalidates the tunnel.
Finish(e) ==
    /\ phase[e] # "over"
    /\ phase' = [phase EXCEPT ![e] = "over"]
    /\ edge' = Done(edge, e)
    /\ records' = Invalidate(e)
    /\ UNCHANGED <<loop, client, net, spent>>

\* handleTunnelOpen checks the execution under the allocator's mutex, ...
handleTunnelOpen(k) ==
    /\ ask[k].at = "sent"
    /\ ask' = [ask EXCEPT ![k].at =
                   IF phase[ask[k].exec] = "over" THEN "refused" ELSE "bind"]
    /\ UNCHANGED <<core, edge, loop, tun, mesh, net, spent>>

\* ... and binds without it.
Bind(k) ==
    /\ ask[k].at = "bind"
    /\ records' = [records EXCEPT ![ask[k].exec].bound = TRUE]
    /\ ask' = [ask EXCEPT ![k].at = "acked"]
    /\ UNCHANGED <<phase, edge, loop, tun, mesh, net, spent>>

\* close of the mux ends the pair, and tells its peer, but not the pending one.
endAll == IF edge.pair = NoPair THEN toClient ELSE Sent(toClient, Close)

\* The daemon stops or crashes and starts again: executions are recovered, the
\* registry and the edge are new, commands being served are lost.
Restart ==
    /\ Fault
    /\ records' = NewRegistry /\ edge' = newMux /\ loop' = Accepting
    /\ toClient' \in {toClient, endAll}
    /\ ask' = [k \in DOMAIN ask |->
                  IF ask[k].at = "bind" THEN NoAsk ELSE ask[k]]
    /\ UNCHANGED <<phase, tun, mesh, toAllocator>>

(***************************************************************************)
(* The client: RunTunnel and its mux, on which nobody accepts.              *)
(***************************************************************************)
Allocator == UNCHANGED <<core, edge, loop>>

\* Close of the client's pair: the peer is told and the key is removed.
ClosePair ==
    IF mesh.closed THEN UNCHANGED <<mesh, toAllocator>>
    ELSE /\ mesh' = [mesh EXCEPT !.closed = TRUE, !.accepted = FALSE,
                                 !.registered = FALSE, !.pending = FALSE]
         /\ toAllocator' = Sent(toAllocator, Close)

\* SetActive names the next attempt; the run moves on only when the former one is
\* over (LossIsConclusive in RunController).
SetActive(e) ==
    /\ tun.at = "idle" /\ ~tun.closed /\ e # tun.active
    /\ tun.active # None => phase[tun.active] = "over"
    /\ tun' = [tun EXCEPT !.active = e, !.pair = FALSE, !.exec = None]
    /\ IF tun.pair THEN ClosePair ELSE UNCHANGED <<mesh, toAllocator>>
    /\ UNCHANGED <<ask, toClient>> /\ Allocator /\ Timely

\* The declaration the client sends for its active execution.
TunnelOpen == [exec |-> tun.active, at |-> "sent"]

\* Dial without a pair: establishLocked asks the allocator to open the tunnel.
Dial ==
    /\ tun.at = "idle" /\ ~tun.closed /\ tun.active # None
    /\ ~tun.pair \/ tun.exec # tun.active
    /\ spent.dials < MaxDials /\ spent' = [spent EXCEPT !.dials = @ + 1]
    /\ tun' = [tun EXCEPT !.at = "open"]
    /\ ask' = [ask EXCEPT !.current = TunnelOpen]
    /\ UNCHANGED <<mesh, net>> /\ Allocator

\* The command is refused or not answered in time; it may still be on the way.
OpenTunnelFails ==
    /\ tun.at = "open"
    /\ tun' = [tun EXCEPT !.at = "idle"]
    /\ ask' = [current |-> NoAsk,
               late |-> IF ask.current.at \in {"sent", "bind"} THEN ask.current ELSE ask.late]
    /\ IF ask.current.at \in {"refused", "none"} THEN Timely ELSE Fault
    /\ UNCHANGED <<mesh, net>> /\ Allocator

\* The allocator's answer to the open that is awaited.
handleTunnelOpenAck == tun.at = "open" /\ ask.current.at = "acked"

\* The mesh knows no path to the allocator in time.
awaitPathFails ==
    /\ handleTunnelOpenAck
    /\ tun' = [tun EXCEPT !.at = "idle"] /\ ask' = [ask EXCEPT !.current = NoAsk]
    /\ Fault
    /\ UNCHANGED <<mesh, net>> /\ Allocator

\* register makes a pair for the allocator's key.
register ==
    [mesh EXCEPT !.registered = TRUE, !.closed = FALSE, !.accepted = FALSE,
                 !.ready = FALSE, !.streamed = FALSE]

\* establishLocked goes on: register, unless the key is busy, and a first preamble.
establishLocked ==
    /\ handleTunnelOpenAck
    /\ ask' = [ask EXCEPT !.current = NoAsk]
    /\ IF mesh.registered
       THEN tun' = [tun EXCEPT !.at = "idle"] /\ UNCHANGED <<mesh, toAllocator>>
       ELSE /\ tun' = [tun EXCEPT !.at = "handshake"]
            /\ mesh' = register
            /\ toAllocator' = Sent(toAllocator, Frame("preamble", tun.active))
    /\ UNCHANGED toClient /\ Allocator /\ Timely

\* WritePreamble sends the preamble again, ...
WritePreamble ==
    /\ tun.at = "handshake" /\ ~mesh.closed /\ ~mesh.accepted
    /\ Len(toAllocator) < MaxFrames
    /\ toAllocator' = Append(toAllocator, Frame("preamble", tun.active))
    /\ Fault
    /\ UNCHANGED <<client, toClient>> /\ Allocator

\* ... until the allocator accepts; the Dial goes on with OpenStream, ...
awaitAccept ==
    /\ tun.at = "handshake" /\ mesh.accepted
    /\ mesh' = [mesh EXCEPT !.accepted = FALSE, !.ready = TRUE]
    /\ tun' = [tun EXCEPT !.at = "stream", !.pair = TRUE, !.exec = tun.active]
    /\ UNCHANGED <<ask, net>> /\ Allocator /\ Timely

\* ... or the pair ends, or the deadline passes: the pair is closed.
HandshakeFails ==
    /\ tun.at = "handshake" /\ ~mesh.accepted
    /\ tun' = [tun EXCEPT !.at = "idle"]
    /\ ClosePair
    /\ IF mesh.closed THEN Timely ELSE Fault
    /\ UNCHANGED <<ask, toClient>> /\ Allocator

\* OpenStream of the pair just established or of the one at hand; on a pair that
\* has ended it fails, and the pair stays.
OpenStream ==
    /\ ~tun.closed /\ tun.pair /\ tun.exec = tun.active /\ tun.at \in {"idle", "stream"}
    /\ tun' = [tun EXCEPT !.at = "idle"]
    /\ IF mesh.closed THEN UNCHANGED <<mesh, toAllocator>>
       ELSE /\ ~mesh.streamed
            /\ mesh' = [mesh EXCEPT !.streamed = TRUE]
            /\ toAllocator' = Sent(toAllocator, Frame("open", None))
    /\ UNCHANGED <<ask, toClient>> /\ Allocator /\ Timely

\* Close ends the pair and the edge; frames that come later are not read.
CloseTunnel ==
    /\ tun.at = "idle" /\ ~tun.closed
    /\ tun' = [tun EXCEPT !.closed = TRUE, !.pair = FALSE]
    /\ ClosePair
    /\ UNCHANGED <<ask, toClient>> /\ Allocator /\ Timely

\* Mutant: the first answer of the allocator is taken for its accept.
readLoopClient_anyAnswer ==
    /\ toClient # <<>> /\ ~mesh.blocked
    /\ toClient' = Tail(toClient)
    /\ mesh' = [mesh EXCEPT !.accepted = mesh.registered /\ ~mesh.ready]
    /\ UNCHANGED <<tun, ask, toAllocator>> /\ Allocator /\ Timely

\* readLoop on the client: a frame that finds no pair opens a pending one, which
\* stays in the queue of inbound pairs.
readLoopClient ==
    /\ toClient # <<>> /\ ~mesh.blocked
    /\ toClient' = Tail(toClient)
    /\ LET f == Head(toClient)
           ended == f.kind = "close"
           full == mesh.queued = MaxPendingSessions
       IN  mesh' =
             IF tun.closed THEN mesh
             ELSE IF mesh.registered
             THEN IF ended
                  THEN [mesh EXCEPT !.closed = TRUE, !.accepted = FALSE,
                                    !.registered = FALSE, !.pending = FALSE]
                  ELSE [mesh EXCEPT !.accepted = @ \/ (f.kind = "accept" /\ ~mesh.ready)]
             ELSE IF mesh.pending THEN [mesh EXCEPT !.pending = ~ended]
             ELSE [mesh EXCEPT !.pending = ~ended, !.blocked = full,
                               !.queued = IF full THEN @ ELSE @ + 1]
    /\ UNCHANGED <<tun, ask, toAllocator>> /\ Allocator /\ Timely

\* The blocked openPending of the client gives up and drops its pending pair,
\* which tells the allocator and removes the key.
ClientQueueTimeout ==
    /\ mesh.blocked
    /\ mesh' = [mesh EXCEPT !.blocked = FALSE, !.pending = FALSE,
                            !.registered = @ /\ ~mesh.pending]
    /\ toAllocator' = IF mesh.pending THEN Sent(toAllocator, Close) ELSE toAllocator
    /\ UNCHANGED <<tun, ask, toClient>> /\ Allocator /\ Timely

\* A frame is lost on the way.
Lose ==
    /\ \/ toAllocator # <<>> /\ toAllocator' = Tail(toAllocator) /\ UNCHANGED toClient
       \/ toClient # <<>> /\ toClient' = Tail(toClient) /\ UNCHANGED toAllocator
    /\ Fault
    /\ UNCHANGED client /\ Allocator

Promote == promote \/ Authorize \/ writeAccept

AcceptLoop ==
    \/ Accept \/ readPreamble \/ dropPending
    \/ CheckExecution \/ Open \/ RecheckExecution
    \/ Promote \/ Reject

Splices(p) ==
    \/ AuthorizeWatch(p) \/ SpliceWatch(p) \/ AcceptStream(p) \/ SpliceReturns(p)
    \/ DialTunnelTarget(p) \/ DialReturns(p) \/ RelayStops(p)

RunTunnel ==
    \/ \E e \in Executions : SetActive(e)
    \/ Dial \/ OpenTunnelFails \/ awaitPathFails \/ establishLocked
    \/ WritePreamble \/ awaitAccept \/ HandshakeFails \/ OpenStream \/ CloseTunnel

Next ==
    \/ AcceptLoop
    \/ \E p \in Pairs : Splices(p) \/ Relay(p)
    \/ readLoop \/ QueuePending \/ QueueTimeout
    \/ \E e \in Executions : Cancel(e) \/ Finish(e)
    \/ \E k \in {"current", "late"} : handleTunnelOpen(k) \/ Bind(k)
    \/ Restart \/ Lose
    \/ RunTunnel
    \/ readLoopClient \/ ClientQueueTimeout

\* Goroutines of the allocator that can take a step take it.
Fairness ==
    /\ WF_vars(AcceptLoop)
    /\ WF_vars(QueuePending \/ QueueTimeout)
    /\ \A p \in Pairs :
          /\ WF_vars(AuthorizeWatch(p)) /\ WF_vars(SpliceWatch(p))
          /\ WF_vars(AcceptStream(p) \/ SpliceReturns(p))
          /\ WF_vars(DialTunnelTarget(p) \/ DialReturns(p) \/ RelayStops(p))

Spec == Init /\ [][Next]_vars /\ Fairness

(***************************************************************************)
(* Properties.                                                              *)
(***************************************************************************)
Spliced(p) == edge.pairs[p].stream \in {"queued", "dial", "dialing", "relay"}

\* The two ends agree: while no frame is lost and no wait runs out, a client whose
\* pair is ready has at the allocator the authorized pair of the same attempt, or
\* its close is on the way (WritePreamble, Authorize, terminate, removePair).
NeverHalfOpen ==
    spent.faults = 0 /\ tun.pair /\ ~mesh.closed /\ Close \notin Range(toClient) =>
        /\ edge.pair # NoPair /\ edge.pairs[edge.pair].authorized
        /\ edge.pairs[edge.pair].session = tun.exec

\* The mux routes the client to a pair that is alive, and to its authorized one:
\* removal by key, by the end or the rejection of another pair, never leaves a dead
\* pair in the way of the next dial nor takes the authorized one out (removePair,
\* promote).
RoutesToLivePair ==
    /\ edge.pair # NoPair => ~edge.pairs[edge.pair].closed
    /\ \A p \in Pairs :
          edge.pairs[p].authorized /\ ~edge.pairs[p].closed => edge.pair = p

\* A live session is the one its execution's record holds, so there is one per
\* execution; only the accept loop, before it looks again, may hold one for an
\* execution that is over (OpenTunnelSession, Bind after Invalidate).
SessionsAreRecorded ==
    \A p \in Pairs :
        Live(p) => /\ records[edge.pairs[p].session].session = p
                   /\ \/ phase[edge.pairs[p].session] # "over"
                      \/ loop.at = "recheck" /\ loop.pair = p

\* The end of an execution takes its tunnel down: the session, the pair and the
\* relay to the container all end (Invalidate and the goroutines that wait on it).
TunnelEnds ==
    \A e \in Executions :
        phase[e] = "over" ~>
            \A p \in Pairs :
                edge.pairs[p].session = e =>
                    edge.pairs[p].done /\ edge.pairs[p].closed /\ ~Spliced(p)

\* A pair that has ended gives its session back, so that a later connection to the
\* execution is not refused as busy for ever (CloseTunnel on every way out).
SessionIsReleased ==
    \A p \in Pairs : []<>~(edge.pairs[p].closed /\ Live(p))
=============================================================================
