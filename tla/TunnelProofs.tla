---------------------------- MODULE TunnelProofs ----------------------------
(***************************************************************************)
(* The mux of the allocator routes its client to a pair that is alive, and *)
(* every live session is the one its execution's record holds, for any     *)
(* number of pairs, executions, frames, dials and faults.  A stream of a   *)
(* pair is within its window, and its flow control does not block it.      *)
(***************************************************************************)
EXTENDS Tunnel, TLAPS

PairState ==
    [closed : BOOLEAN, raw : Executions \cup {None}, session : Executions \cup {None},
     done : BOOLEAN, authorized : BOOLEAN, splice : {"none", "accepting", "over"},
     cancelled : BOOLEAN, stream : {"none", "queued", "dial", "dialing", "relay", "ended"}]

Mux == [pair : 0 .. MaxPairs, pending : 0 .. MaxPairs, inbound : Seq(Pairs),
        blocked : 0 .. MaxPairs, pairs : [Pairs -> PairState]]

Registry == [Executions -> [bound : BOOLEAN, session : 0 .. MaxPairs]]

Loops == [at : {"accept", "read", "drop", "check", "open", "recheck", "promote",
                "authorize", "confirm", "reject"},
          pair : 0 .. MaxPairs, exec : Executions \cup {None}]

Clients == [active : Executions \cup {None}, pair : BOOLEAN, exec : Executions \cup {None},
            at : {"idle", "open", "handshake", "stream"}, closed : BOOLEAN]

Frames == [kind : {"preamble", "open", "close"}, exec : Executions \cup {None}]

Typed ==
    /\ phase \in [Executions -> {"running", "cancelling", "over"}]
    /\ records \in Registry /\ edge \in Mux /\ loop \in Loops
    /\ tun \in Clients /\ toAllocator \in Seq(Frames)

\* What the accept loop, at l, holds of the mux g.
Held(g, l) ==
    /\ l.at # "accept" => l.pair # NoPair
    /\ l.at \in {"check", "open", "recheck"} => l.exec # None
    /\ l.at = "recheck" => g.pairs[l.pair].session = l.exec
    /\ l.at = "confirm" /\ ~g.pairs[l.pair].closed => g.pairs[l.pair].authorized
    /\ l.at \in {"authorize", "confirm"} /\ ~g.pairs[l.pair].closed => g.pair = l.pair

\* A pair waits for the accept loop in one place, and the loop holds another.
Queued(g, l) ==
    /\ \A j, k \in 1 .. Len(g.inbound) : g.inbound[j] = g.inbound[k] => j = k
    /\ \A k \in 1 .. Len(g.inbound) : g.inbound[k] # g.blocked
    /\ l.at \in {"read", "check", "open", "recheck", "promote"} =>
          l.pair # g.blocked /\ \A k \in 1 .. Len(g.inbound) : g.inbound[k] # l.pair

\* The pending pair is the newest one that waits: the blocked one, the last in the
\* queue, or, with the queue empty, the one the accept loop holds.
Newest(g, l) ==
    \/ g.pending = g.blocked
    \/ g.blocked = NoPair /\ g.inbound # <<>> /\ g.pending = g.inbound[Len(g.inbound)]
    \/ g.blocked = NoPair /\ g.inbound = <<>> /\ l.at # "accept" /\ g.pending = l.pair

\* Whom the mux routes the client to: no pair waits while one is promoted.
Routed(g, l) ==
    /\ g.pending # NoPair => ~g.pairs[g.pending].closed /\ Newest(g, l)
    /\ g.blocked # NoPair => g.pair = NoPair /\ g.pending \in {NoPair, g.blocked}
    /\ g.pair # NoPair =>
          /\ ~g.pairs[g.pair].closed
          /\ g.inbound = <<>> /\ g.blocked = NoPair /\ g.pending = NoPair
          /\ l.at = "accept" \/ l.pair = g.pair

\* A pair is spliced when it is authorized, and promoted while it is that and open.
Authorized(g) ==
    \A p \in Pairs :
        /\ g.pairs[p].splice # "none" => g.pairs[p].authorized
        /\ g.pairs[p].authorized /\ ~g.pairs[p].closed => g.pair = p

Good(g, l) == Held(g, l) /\ Queued(g, l) /\ Routed(g, l) /\ Authorized(g)

\* The live sessions of the mux g are recorded in r.
Recorded(f, r, g, l) ==
    \A p \in Pairs : g.pairs[p].session # None /\ ~g.pairs[p].done =>
        /\ r[g.pairs[p].session].session = p
        /\ f[g.pairs[p].session] # "over" \/ (l.at = "recheck" /\ l.pair = p)

TunnelInv == Typed /\ Good(edge, loop) /\ Recorded(phase, records, edge, loop)

-----------------------------------------------------------------------------
(* Changes of the mux.                                                     *)

\* What a change of pair c to d leaves alone when it only ends or feeds it.
Alike(c, d) ==
    /\ d.session = c.session /\ d.done = c.done
    /\ d.authorized = c.authorized /\ d.splice = c.splice

LEMMA Places ==
    /\ NoPair \in 0 .. MaxPairs /\ NoPair \notin Pairs
    /\ \A p \in 0 .. MaxPairs : p # NoPair => p \in Pairs
    /\ \A p \in Pairs : p \in 0 .. MaxPairs
BY TunnelAssumption DEF Pairs, NoPair

\* Pair p of g becomes c.
LEMMA PairChanged ==
    ASSUME NEW g \in Mux, NEW p \in Pairs, NEW c \in PairState
    PROVE  LET h == [g EXCEPT !.pairs[p] = c]
           IN  /\ h \in Mux /\ h.pairs[p] = c
               /\ \A q \in Pairs : q # p => h.pairs[q] = g.pairs[q]
               /\ h.pair = g.pair /\ h.pending = g.pending
               /\ h.inbound = g.inbound /\ h.blocked = g.blocked
BY Zenon DEF Mux

LEMMA Terminated ==
    ASSUME NEW g \in Mux, NEW p \in Pairs
    PROVE  LET h == terminate(g, p)
           IN  /\ h \in Mux /\ h.inbound = g.inbound /\ h.blocked = g.blocked
               /\ h.pairs[p].closed /\ Alike(g.pairs[p], h.pairs[p])
               /\ \A q \in Pairs : q # p => h.pairs[q] = g.pairs[q]
               /\ IF g.pairs[p].closed THEN h = g ELSE h.pair = NoPair /\ h.pending = NoPair
<1> DEFINE h == terminate(g, p)
           c == [g.pairs[p] EXCEPT !.closed = TRUE, !.raw = None,
                                   !.stream = IF @ = "queued" THEN "ended" ELSE @]
           f == removePair(g)
<1>1. g.pairs[p] \in PairState
  BY Zenon DEF Mux
<1>2. CASE g.pairs[p].closed
  BY <1>1, <1>2, Zenon DEF terminate, Alike
<1>3. CASE ~g.pairs[p].closed
  <2>1. c \in PairState /\ c.closed /\ Alike(g.pairs[p], c)
    BY <1>1, Zenon DEF PairState, Alike
  <2>2. /\ f \in Mux /\ f.pair = NoPair /\ f.pending = NoPair /\ f.pairs = g.pairs
        /\ f.inbound = g.inbound /\ f.blocked = g.blocked
    BY Places, Zenon DEF Mux, removePair
  <2>3. h = [f EXCEPT !.pairs[p] = c]
    BY <1>3, <2>2, Zenon DEF terminate
  <2> HIDE DEF h, c, f
  <2>4. /\ h \in Mux /\ h.pairs[p] = c
        /\ \A q \in Pairs : q # p => h.pairs[q] = f.pairs[q]
        /\ h.pair = f.pair /\ h.pending = f.pending
        /\ h.inbound = f.inbound /\ h.blocked = f.blocked
    BY <2>1, <2>2, <2>3, PairChanged
  <2>5. /\ h \in Mux /\ h.inbound = g.inbound /\ h.blocked = g.blocked
        /\ h.pairs[p].closed /\ Alike(g.pairs[p], h.pairs[p])
        /\ \A q \in Pairs : q # p => h.pairs[q] = g.pairs[q]
        /\ IF g.pairs[p].closed THEN h = g ELSE h.pair = NoPair /\ h.pending = NoPair
    BY <1>3, <2>1, <2>2, <2>4, Zenon
  <2> QED
    BY <2>5, Zenon DEF h
<1> QED
  BY <1>2, <1>3, Zenon

-----------------------------------------------------------------------------
(* What keeps a mux good.                                                  *)

\* What happens inside pairs that neither end nor lose their authorization.
LEMMA InsideGood ==
    ASSUME NEW g \in Mux, NEW h \in Mux, NEW l \in Loops, Good(g, l),
           h.pair = g.pair, h.pending = g.pending, h.inbound = g.inbound, h.blocked = g.blocked,
           \A q \in Pairs : /\ h.pairs[q].closed = g.pairs[q].closed
                            /\ h.pairs[q].authorized = g.pairs[q].authorized
                            /\ h.pairs[q].splice # "none" => g.pairs[q].authorized
                            /\ l.at = "recheck" => h.pairs[q].session = g.pairs[q].session
    PROVE  Good(h, l)
<1>1. l.pair # NoPair => l.pair \in Pairs
  BY Places, Zenon DEF Loops
<1>2. /\ g.pair # NoPair => g.pair \in Pairs
      /\ g.pending # NoPair => g.pending \in Pairs
  BY Places, Zenon DEF Mux
<1>3. Held(h, l)
  BY <1>1, Zenon DEF Good, Held
<1>4. Queued(h, l)
  BY Zenon DEF Good, Queued
<1>5. Routed(h, l)
  BY <1>2, Zenon DEF Good, Routed, Newest
<1>6. Authorized(h)
  BY Zenon DEF Good, Authorized
<1> QED
  BY <1>3, <1>4, <1>5, <1>6, Zenon DEF Good

\* The end of a pair, when no other pair is promoted.
LEMMA TerminateGood ==
    ASSUME NEW g \in Mux, NEW l \in Loops, Good(g, l), NEW p \in Pairs,
           g.pairs[p].closed \/ g.pair \in {NoPair, p}
    PROVE  Good(terminate(g, p), l)
<1> DEFINE h == terminate(g, p)
<1>1. /\ h \in Mux /\ h.inbound = g.inbound /\ h.blocked = g.blocked
      /\ h.pairs[p].closed /\ Alike(g.pairs[p], h.pairs[p])
      /\ \A q \in Pairs : q # p => h.pairs[q] = g.pairs[q]
      /\ IF g.pairs[p].closed THEN h = g ELSE h.pair = NoPair /\ h.pending = NoPair
  BY Terminated, Zenon
<1> HIDE DEF h
<1>2. CASE g.pairs[p].closed
  BY <1>1, <1>2, Zenon DEF h
<1>3. CASE ~g.pairs[p].closed
  <2>1. /\ h.pair = NoPair /\ h.pending = NoPair /\ g.pair \in {NoPair, p}
        /\ \A q \in Pairs : Alike(g.pairs[q], h.pairs[q])
        /\ \A q \in Pairs : ~h.pairs[q].closed => q # p /\ ~g.pairs[q].closed
    BY <1>1, <1>3, Zenon DEF Alike
  <2>2. l.pair # NoPair => l.pair \in Pairs
    BY Places, Zenon DEF Loops
  <2>3. Held(h, l)
    BY <2>1, <2>2, Zenon DEF Good, Held, Alike
  <2>4. Queued(h, l)
    BY <1>1, Zenon DEF Good, Queued
  <2>5. Routed(h, l)
    BY <1>1, <2>1, Zenon DEF Routed
  <2>6. Authorized(h)
    <3> SUFFICES ASSUME NEW q \in Pairs
                 PROVE  /\ h.pairs[q].splice # "none" => h.pairs[q].authorized
                        /\ h.pairs[q].authorized /\ ~h.pairs[q].closed => h.pair = q
      BY Zenon DEF Authorized
    <3>1. /\ g.pairs[q].splice # "none" => g.pairs[q].authorized
          /\ g.pairs[q].authorized /\ ~g.pairs[q].closed => g.pair = q
      BY Zenon DEF Good, Authorized
    <3>2. q # NoPair
      BY Places, Zenon
    <3> QED
      BY <2>1, <3>1, <3>2, Zenon DEF Alike
  <2> QED
    BY <2>3, <2>4, <2>5, <2>6, Zenon DEF Good, h
<1> QED
  BY <1>2, <1>3, Zenon

\* Live sessions that end, and steps of the accept loop but its second look.
LEMMA RecordedSame ==
    ASSUME NEW f, NEW r, NEW g, NEW h, NEW l, NEW m, Recorded(f, r, g, l),
           \A q \in Pairs : h.pairs[q].session # None /\ ~h.pairs[q].done =>
                                /\ ~g.pairs[q].done
                                /\ h.pairs[q].session = g.pairs[q].session,
           l.at = "recheck" => m.at = "recheck" /\ m.pair = l.pair
    PROVE  Recorded(f, r, h, m)
BY Zenon DEF Recorded

-----------------------------------------------------------------------------
(* Steps of the allocator's edge and its accept loop.                      *)

\* The invariant, in terms of the state after a step of the allocator.
LEMMA StepInv ==
    ASSUME Typed, phase' \in [Executions -> {"running", "cancelling", "over"}],
           records' \in Registry, edge' \in Mux, loop' \in Loops,
           tun' \in Clients, toAllocator' \in Seq(Frames),
           Good(edge', loop'), Recorded(phase', records', edge', loop')
    PROVE  TunnelInv'
<1>1. Typed'
  BY Zenon DEF Typed
<1>2. Good(edge, loop)'
  BY Zenon
<1>3. Recorded(phase, records, edge, loop)'
  BY Zenon
<1> QED
  BY <1>1, <1>2, <1>3, Zenon DEF TunnelInv

LEMMA LoopGood ==
    ASSUME NEW g \in Mux, NEW l \in Loops, NEW m \in Loops, Good(g, l), Held(g, m),
           l.at # "accept", m.at # "accept", m.pair = l.pair,
           m.at \in {"read", "check", "open", "recheck", "promote"} =>
               l.at \in {"read", "check", "open", "recheck", "promote"}
    PROVE  Good(g, m)
<1>1. Queued(g, m)
  BY Zenon DEF Good, Queued
<1>2. Routed(g, m)
  BY Zenon DEF Good, Routed, Newest
<1> QED
  BY <1>1, <1>2, Zenon DEF Good

\* The accept loop is through with its pair, which is not pending.
LEMMA AcceptingGood ==
    ASSUME NEW g \in Mux, NEW l \in Loops, Good(g, l),
           g.pending # NoPair => g.pending # l.pair
    PROVE  Good(g, Accepting) /\ Accepting \in Loops
<1>1. Accepting \in Loops /\ Accepting.at = "accept"
  BY Places DEF Loops, Accepting
<1>2. Held(g, Accepting) /\ Queued(g, Accepting)
  BY <1>1, Zenon DEF Good, Held, Queued
<1>3. Routed(g, Accepting)
  BY <1>1, Zenon DEF Good, Routed, Newest
<1> QED
  BY <1>1, <1>2, <1>3, Zenon DEF Good

\* A change inside a pair that keeps its session, or ends it.
LEMMA PairKeeps ==
    ASSUME NEW f, NEW r, NEW g \in Mux, NEW l \in Loops, Good(g, l), Recorded(f, r, g, l),
           NEW p \in Pairs, NEW c \in PairState,
           c.closed = g.pairs[p].closed, c.authorized = g.pairs[p].authorized,
           c.splice # "none" => c.authorized, c.session = g.pairs[p].session,
           g.pairs[p].done => c.done
    PROVE  LET h == [g EXCEPT !.pairs[p] = c]
           IN  h \in Mux /\ Good(h, l) /\ Recorded(f, r, h, l)
<1> DEFINE h == [g EXCEPT !.pairs[p] = c]
<1>1. /\ h \in Mux /\ h.pairs[p] = c
      /\ \A q \in Pairs : q # p => h.pairs[q] = g.pairs[q]
      /\ h.pair = g.pair /\ h.pending = g.pending
      /\ h.inbound = g.inbound /\ h.blocked = g.blocked
  BY Zenon DEF Mux
<1> HIDE DEF h
<1>2. \A q \in Pairs : /\ h.pairs[q].closed = g.pairs[q].closed
                       /\ h.pairs[q].authorized = g.pairs[q].authorized
                       /\ h.pairs[q].splice # "none" => g.pairs[q].authorized
                       /\ h.pairs[q].session = g.pairs[q].session
                       /\ g.pairs[q].done => h.pairs[q].done
  <2> TAKE q \in Pairs
  <2>1. g.pairs[q].splice # "none" => g.pairs[q].authorized
    BY Zenon DEF Good, Authorized
  <2>2. CASE q = p
    BY <1>1, <2>2, Zenon
  <2>3. CASE q # p
    BY <1>1, <2>1, <2>3, Zenon
  <2> QED
    BY <2>2, <2>3, Zenon
<1>3. \A q \in Pairs : /\ h.pairs[q].closed = g.pairs[q].closed
                       /\ h.pairs[q].authorized = g.pairs[q].authorized
                       /\ h.pairs[q].splice # "none" => g.pairs[q].authorized
                       /\ l.at = "recheck" => h.pairs[q].session = g.pairs[q].session
  BY <1>2, Zenon
<1>4. Good(h, l)
  BY <1>1, <1>3, InsideGood
<1>5. \A q \in Pairs : h.pairs[q].session # None /\ ~h.pairs[q].done =>
                          ~g.pairs[q].done /\ h.pairs[q].session = g.pairs[q].session
  BY <1>2, Zenon
<1>6. Recorded(f, r, h, l)
  BY <1>5, RecordedSame, Zenon
<1> QED
  BY <1>1, <1>4, <1>6, Zenon DEF h

LEMMA TerminateKeeps ==
    ASSUME NEW f, NEW r, NEW g \in Mux, NEW l \in Loops, Good(g, l), Recorded(f, r, g, l),
           NEW p \in Pairs, g.pairs[p].closed \/ g.pair \in {NoPair, p}
    PROVE  LET h == terminate(g, p)
           IN  h \in Mux /\ Good(h, l) /\ Recorded(f, r, h, l)
<1> DEFINE h == terminate(g, p)
<1>1. /\ h \in Mux /\ Alike(g.pairs[p], h.pairs[p])
      /\ \A q \in Pairs : q # p => h.pairs[q] = g.pairs[q]
  BY Terminated, Zenon
<1>2. Good(h, l)
  BY TerminateGood, Zenon
<1> HIDE DEF h
<1>3. \A q \in Pairs : h.pairs[q].session # None /\ ~h.pairs[q].done =>
                          ~g.pairs[q].done /\ h.pairs[q].session = g.pairs[q].session
  BY <1>1, Zenon DEF Alike
<1>4. Recorded(f, r, h, l)
  BY <1>3, RecordedSame, Zenon
<1> QED
  BY <1>1, <1>2, <1>4, Zenon DEF h

\* What TunnelInv says of the state before a step of the allocator.
LEMMA Before ==
    ASSUME TunnelInv
    PROVE  /\ Typed /\ phase \in [Executions -> {"running", "cancelling", "over"}]
           /\ records \in Registry /\ edge \in Mux /\ loop \in Loops
           /\ tun \in Clients /\ toAllocator \in Seq(Frames)
           /\ Good(edge, loop) /\ Recorded(phase, records, edge, loop)
           /\ \A p \in Pairs : edge.pairs[p] \in PairState
BY Zenon DEF TunnelInv, Typed, Mux

\* Release ends the session of p, if it is the recorded one.
LEMMA ReleaseKeeps ==
    ASSUME TunnelInv, NEW p \in Pairs
    PROVE  LET h == Released(edge, p)
           IN  /\ h \in Mux /\ Good(h, loop) /\ Release(p) \in Registry
               /\ Recorded(phase, Release(p), h, loop)
               /\ h.pairs[p].closed = edge.pairs[p].closed
               /\ h.pairs[p].authorized = edge.pairs[p].authorized
               /\ h.pairs[p].stream = edge.pairs[p].stream
<1> DEFINE h == Released(edge, p)
           c == [edge.pairs[p] EXCEPT !.done = TRUE]
           e == edge.pairs[p].session
<1>0. edge \in Mux /\ records \in Registry
  BY Before, Zenon
<1>1. CASE ~Active(p)
  BY <1>1, Before, Zenon DEF Release, Released
<1>2. CASE Active(p)
  <2> DEFINE k == [edge EXCEPT !.pairs[p] = c]
             t == [records EXCEPT ![e].session = NoPair]
  <2>1. h = k /\ Release(p) = t
    BY <1>2, Zenon DEF Released, Release, CloseSession
  <2>2. /\ c \in PairState /\ c.closed = edge.pairs[p].closed /\ c.done
        /\ c.authorized = edge.pairs[p].authorized /\ c.splice = edge.pairs[p].splice
        /\ c.session = edge.pairs[p].session /\ c.stream = edge.pairs[p].stream
    BY Before, Zenon DEF PairState
  <2>3. e \in Executions /\ records[e].session = p
    BY <1>2, Before, Zenon DEF Active, PairState
  <2>4. c.splice # "none" => c.authorized
    BY <2>2, Before, Zenon DEF Good, Authorized
  <2>0. c \in PairState /\ e \in Executions /\ NoPair \in 0 .. MaxPairs
    BY <2>2, <2>3, Places, Zenon
  <2> HIDE DEF c, h, e
  <2>5. k \in Mux /\ Good(k, loop) /\ Recorded(phase, records, k, loop)
    BY <2>2, <2>4, Before, PairKeeps, Zenon
  <2>6. k.pairs[p] = c /\ \A q \in Pairs : q # p => k.pairs[q] = edge.pairs[q]
    BY <1>0, <2>0, Zenon DEF Mux
  <2>7. /\ t \in Registry /\ t[e].session = NoPair
        /\ \A x \in Executions : x # e => t[x] = records[x]
    BY <1>0, <2>0, Zenon DEF Registry
  <2> HIDE DEF k, t
  <2>8. Recorded(phase, t, k, loop)
    <3> SUFFICES ASSUME NEW q \in Pairs, k.pairs[q].session # None, ~k.pairs[q].done
                 PROVE  /\ t[k.pairs[q].session].session = q
                        /\ \/ phase[k.pairs[q].session] # "over"
                           \/ loop.at = "recheck" /\ loop.pair = q
      BY Zenon DEF Recorded
    <3>1. q # p
      BY <2>2, <2>6, Zenon
    <3>2. /\ records[k.pairs[q].session].session = q
          /\ phase[k.pairs[q].session] # "over" \/ (loop.at = "recheck" /\ loop.pair = q)
      BY <2>5, Zenon DEF Recorded
    <3>3. k.pairs[q].session \in Executions /\ k.pairs[q].session # e
      BY <2>3, <2>5, <3>1, <3>2, Zenon DEF Mux, PairState
    <3> QED
      BY <2>7, <3>2, <3>3, Zenon
  <2>9. /\ k.pairs[p].closed = edge.pairs[p].closed
        /\ k.pairs[p].authorized = edge.pairs[p].authorized
        /\ k.pairs[p].stream = edge.pairs[p].stream
    BY <2>2, <2>6, Zenon
  <2> QED
    BY <2>1, <2>5, <2>7, <2>8, <2>9, Zenon DEF h
<1> QED
  BY <1>1, <1>2, Zenon

-----------------------------------------------------------------------------
(* Steps of the client and the network, and of the allocator's core.       *)

LEMMA ClientStep ==
    ASSUME TunnelInv, Allocator, tun' \in Clients, toAllocator' \in Seq(Frames)
    PROVE  TunnelInv'
<1>1. phase' = phase /\ records' = records /\ edge' = edge /\ loop' = loop
  BY Zenon DEF Allocator, core
<1> QED
  BY <1>1, Before, StepInv, Zenon

LEMMA SentFrame ==
    ASSUME TunnelInv, NEW k \in {"preamble", "open", "close"}, NEW e \in Executions \cup {None}
    PROVE  /\ Sent(toAllocator, Frame(k, e)) \in Seq(Frames)
           /\ Append(toAllocator, Frame(k, e)) \in Seq(Frames)
<1>1. Frame(k, e) \in Frames
  BY Zenon DEF Frame, Frames
<1>2. toAllocator \in Seq(Frames)
  BY Before, Zenon
<1>3. Append(toAllocator, Frame(k, e)) \in Seq(Frames)
  BY <1>1, <1>2
<1> QED
  BY <1>2, <1>3, Zenon DEF Sent

LEMMA ClosePairSent ==
    ASSUME TunnelInv, ClosePair
    PROVE  toAllocator' \in Seq(Frames)
BY Before, SentFrame, Zenon DEF ClosePair, Close

LEMMA RunTunnelKeeps ==
    ASSUME TunnelInv, RunTunnel
    PROVE  TunnelInv'
<1>1. tun \in Clients /\ toAllocator \in Seq(Frames) /\ tun.active \in Executions \cup {None}
  BY Before, Zenon DEF Clients
<1>2. ASSUME NEW e \in Executions, SetActive(e) PROVE TunnelInv'
  <2>1. tun' \in Clients
    BY <1>1, <1>2, Zenon DEF SetActive, Clients
  <2>2. toAllocator' \in Seq(Frames)
    BY <1>1, <1>2, ClosePairSent, Zenon DEF SetActive
  <2> QED
    BY <1>2, <2>1, <2>2, ClientStep, Zenon DEF SetActive
<1>3. ASSUME Dial \/ OpenTunnelFails \/ awaitPathFails PROVE TunnelInv'
  <2>1. tun' \in Clients
    BY <1>1, <1>3, Zenon DEF Dial, OpenTunnelFails, awaitPathFails, Clients
  <2>2. toAllocator' = toAllocator /\ Allocator
    BY <1>3, Zenon DEF Dial, OpenTunnelFails, awaitPathFails, net
  <2> QED
    BY <1>1, <2>1, <2>2, ClientStep, Zenon
<1>4. ASSUME establishLocked PROVE TunnelInv'
  <2>1. tun' \in Clients
    BY <1>1, <1>4, Zenon DEF establishLocked, Clients
  <2>2. toAllocator' \in Seq(Frames)
    BY <1>1, <1>4, SentFrame, Zenon DEF establishLocked
  <2> QED
    BY <1>4, <2>1, <2>2, ClientStep, Zenon DEF establishLocked
<1>5. ASSUME WritePreamble PROVE TunnelInv'
  BY <1>1, <1>5, SentFrame, ClientStep, Zenon DEF WritePreamble, client
<1>6. ASSUME awaitAccept PROVE TunnelInv'
  <2>1. tun' \in Clients
    BY <1>1, <1>6, Zenon DEF awaitAccept, Clients
  <2> QED
    BY <1>1, <1>6, <2>1, ClientStep, Zenon DEF awaitAccept, net
<1>7. ASSUME HandshakeFails \/ CloseTunnel PROVE TunnelInv'
  <2>1. tun' \in Clients
    BY <1>1, <1>7, Zenon DEF HandshakeFails, CloseTunnel, Clients
  <2>2. ClosePair /\ Allocator
    BY <1>7, Zenon DEF HandshakeFails, CloseTunnel
  <2> QED
    BY <2>1, <2>2, ClosePairSent, ClientStep, Zenon
<1>8. ASSUME OpenStream PROVE TunnelInv'
  <2>1. tun' \in Clients
    BY <1>1, <1>8, Zenon DEF OpenStream, Clients
  <2>2. toAllocator' \in Seq(Frames)
    BY <1>1, <1>8, SentFrame, Zenon DEF OpenStream
  <2> QED
    BY <1>8, <2>1, <2>2, ClientStep, Zenon DEF OpenStream
<1> QED
  BY <1>2, <1>3, <1>4, <1>5, <1>6, <1>7, <1>8, Zenon DEF RunTunnel

LEMMA NetworkKeeps ==
    ASSUME TunnelInv, \/ readLoopClient \/ ClientQueueTimeout \/ Lose
                      \/ \E k \in {"current", "late"} : handleTunnelOpen(k)
    PROVE  TunnelInv'
<1>1. tun \in Clients /\ toAllocator \in Seq(Frames)
  BY Before, Zenon
<1>2. toAllocator # <<>> => Tail(toAllocator) \in Seq(Frames)
  BY <1>1
<1>3. CASE readLoopClient
  BY <1>1, <1>3, ClientStep, Zenon DEF readLoopClient
<1>4. CASE ClientQueueTimeout
  <2>1. toAllocator' \in Seq(Frames)
    BY <1>1, <1>4, SentFrame, Zenon DEF ClientQueueTimeout, Close
  <2> QED
    BY <1>1, <1>4, <2>1, ClientStep, Zenon DEF ClientQueueTimeout
<1>5. CASE Lose
  BY <1>1, <1>2, <1>5, ClientStep, Zenon DEF Lose, client
<1>6. CASE \E k \in {"current", "late"} : handleTunnelOpen(k)
  BY <1>1, <1>6, ClientStep, Zenon DEF handleTunnelOpen, Allocator, net
<1> QED
  BY <1>3, <1>4, <1>5, <1>6, Zenon

\* The registry closes the done channel of the session of e.
LEMMA DoneKeeps ==
    ASSUME TunnelInv, NEW e \in Executions
    PROVE  LET h == Done(edge, e)
           IN  /\ h \in Mux /\ Good(h, loop) /\ Recorded(phase, records, h, loop)
               /\ \A q \in Pairs : h.pairs[q].session = e => h.pairs[q].done
<1> DEFINE p == records[e].session
           c == [edge.pairs[p] EXCEPT !.done = TRUE]
           k == [edge EXCEPT !.pairs[p] = c]
           h == Done(edge, e)
<1>1. p \in 0 .. MaxPairs /\ None \notin Executions
  BY Before, TunnelAssumption, Zenon DEF Registry
<1>2. ASSUME NEW q \in Pairs, edge.pairs[q].session = e, ~edge.pairs[q].done
      PROVE  p = q
  BY <1>1, <1>2, Before, Zenon DEF Recorded
<1>3. CASE p = NoPair
  BY <1>2, <1>3, Before, Places, Zenon DEF Done
<1>4. CASE p # NoPair
  <2>1. h = k /\ p \in Pairs
    BY <1>1, <1>4, Places, Zenon DEF Done
  <2> HIDE DEF h, p
  <2>0. edge.pairs[p] \in PairState
    BY <2>1, Before, Zenon
  <2>2. /\ c \in PairState /\ c.closed = edge.pairs[p].closed /\ c.done
        /\ c.authorized = edge.pairs[p].authorized /\ c.splice = edge.pairs[p].splice
        /\ c.session = edge.pairs[p].session
    BY <2>0, Zenon DEF PairState
  <2> HIDE DEF c
  <2>3. c.splice # "none" => c.authorized
    <3>1. edge.pairs[p].splice # "none" => edge.pairs[p].authorized
      BY <2>1, Before, Zenon DEF Good, Authorized
    <3> QED
      BY <2>2, <3>1, Zenon
  <2>4. k \in Mux /\ Good(k, loop) /\ Recorded(phase, records, k, loop)
    BY <2>1, <2>2, <2>3, Before, PairKeeps, Zenon
  <2>5. k.pairs[p] = c /\ \A q \in Pairs : q # p => k.pairs[q] = edge.pairs[q]
    BY <2>1, Before, Zenon DEF Mux
  <2> HIDE DEF k
  <2>6. \A q \in Pairs : k.pairs[q].session = e => k.pairs[q].done
    BY <1>2, <2>2, <2>5, Zenon
  <2> QED
    BY <2>1, <2>4, <2>6, Zenon DEF h
<1> QED
  BY <1>3, <1>4, Zenon

LEMMA FinishKeeps ==
    ASSUME TunnelInv, NEW e \in Executions, Finish(e)
    PROVE  TunnelInv'
<1> DEFINE h == Done(edge, e)
<1>1. /\ h \in Mux /\ Good(h, loop) /\ Recorded(phase, records, h, loop)
      /\ \A q \in Pairs : h.pairs[q].session = e => h.pairs[q].done
  BY DoneKeeps, Zenon
<1>2. /\ edge' = h /\ loop' = loop /\ tun' = tun /\ toAllocator' = toAllocator
      /\ phase' = [phase EXCEPT ![e] = "over"] /\ records' = Invalidate(e)
  BY Zenon DEF Finish, client, net
<1> HIDE DEF h
<1>3. /\ phase' \in [Executions -> {"running", "cancelling", "over"}] /\ records' \in Registry
      /\ \A x \in Executions : x # e => phase'[x] = phase[x] /\ records'[x] = records[x]
  BY <1>2, Before, Places, Zenon DEF Invalidate, Registry
<1>4. Recorded(phase', records', h, loop)
  <2> SUFFICES ASSUME NEW q \in Pairs, h.pairs[q].session # None, ~h.pairs[q].done
               PROVE  /\ records'[h.pairs[q].session].session = q
                      /\ \/ phase'[h.pairs[q].session] # "over"
                         \/ loop.at = "recheck" /\ loop.pair = q
    BY Zenon DEF Recorded
  <2>1. h.pairs[q].session \in Executions /\ h.pairs[q].session # e
    BY <1>1, Zenon DEF Mux, PairState
  <2> QED
    BY <1>1, <1>3, <2>1, Zenon DEF Recorded
<1>5. Good(edge', loop') /\ Recorded(phase', records', edge', loop') /\ edge' \in Mux
  BY <1>1, <1>2, <1>4, Zenon
<1> QED
  BY <1>2, <1>3, <1>5, Before, StepInv, Zenon

LEMMA CancelKeeps ==
    ASSUME TunnelInv, NEW e \in Executions, Cancel(e)
    PROVE  TunnelInv'
<1>1. /\ edge' = edge /\ loop' = loop /\ tun' = tun /\ toAllocator' = toAllocator
      /\ records' = records /\ phase' = [phase EXCEPT ![e] = "cancelling"]
  BY Zenon DEF Cancel, client, net
<1>2. /\ phase' \in [Executions -> {"running", "cancelling", "over"}]
      /\ \A x \in Executions : phase[x] # "over" => phase'[x] # "over"
  BY <1>1, Before, Zenon
<1>3. Recorded(phase', records, edge, loop)
  BY <1>2, Before, Zenon DEF Recorded, PairState
<1> QED
  BY <1>1, <1>2, <1>3, Before, StepInv, Zenon

LEMMA BindKeeps ==
    ASSUME TunnelInv, NEW k, Bind(k)
    PROVE  TunnelInv'
<1>1. /\ edge' = edge /\ loop' = loop /\ tun' = tun /\ toAllocator' = toAllocator
      /\ phase' = phase /\ records' = [records EXCEPT ![ask[k].exec].bound = TRUE]
  BY Zenon DEF Bind, net
<1>2. PICK e : records' = [records EXCEPT ![e].bound = TRUE]
  BY <1>1, Zenon
<1>3. records' \in Registry /\ \A x \in Executions : records'[x].session = records[x].session
  <2>1. records \in Registry
    BY Before, Zenon
  <2>2. records' = [x \in Executions |->
                       IF x = e THEN [records[x] EXCEPT !.bound = TRUE] ELSE records[x]]
    BY <1>2, <2>1, Zenon DEF Registry
  <2>3. ASSUME NEW x \in Executions
        PROVE  /\ records'[x] \in [bound : BOOLEAN, session : 0 .. MaxPairs]
               /\ records'[x].session = records[x].session
    BY <2>1, <2>2, Zenon DEF Registry
  <2> QED
    BY <2>2, <2>3, Zenon DEF Registry
<1>4. Recorded(phase, records', edge, loop)
  <2> SUFFICES ASSUME NEW q \in Pairs, edge.pairs[q].session # None, ~edge.pairs[q].done
               PROVE  /\ records'[edge.pairs[q].session].session = q
                      /\ \/ phase[edge.pairs[q].session] # "over"
                         \/ loop.at = "recheck" /\ loop.pair = q
    BY Zenon DEF Recorded
  <2>1. edge.pairs[q].session \in Executions
    BY Before, Zenon DEF PairState
  <2> QED
    BY <1>3, <2>1, Before, Zenon DEF Recorded
<1> QED
  BY <1>1, <1>3, <1>4, Before, StepInv, Zenon

\* An edge with no pairs, as the daemon starts it.
LEMMA NewEdge ==
    /\ newMux \in Mux /\ NewRegistry \in Registry /\ Accepting \in Loops
    /\ Good(newMux, Accepting)
    /\ \A f, r : Recorded(f, r, newMux, Accepting)
<1>1. Accepting \in Loops /\ Accepting.at = "accept" /\ NewRegistry \in Registry
  BY Places, Zenon DEF Loops, Accepting, NewRegistry, Registry
<1>2. /\ Unused \in PairState /\ Unused.closed /\ ~Unused.authorized
      /\ Unused.splice = "none" /\ Unused.session = None
  BY Zenon DEF Unused, newPair, PairState
<1> HIDE DEF Unused
<1>3. /\ newMux.pair = NoPair /\ newMux.pending = NoPair /\ newMux.blocked = NoPair
      /\ newMux.inbound = <<>> /\ \A p \in Pairs : newMux.pairs[p] = Unused
  BY Zenon DEF newMux
<1>4. newMux \in Mux
  <2>1. <<>> \in Seq(Pairs)
    OBVIOUS
  <2> QED
    BY <1>2, <2>1, Places, Zenon DEF newMux, Mux
<1>5. Len(newMux.inbound) = 0
  BY <1>3
<1>6. Held(newMux, Accepting) /\ Authorized(newMux)
  BY <1>1, <1>2, <1>3, Zenon DEF Held, Authorized
<1>7. Queued(newMux, Accepting)
  BY <1>1, <1>5 DEF Queued
<1>8. Routed(newMux, Accepting)
  BY <1>3, Zenon DEF Routed
<1>9. \A f, r : Recorded(f, r, newMux, Accepting)
  BY <1>2, <1>3, Zenon DEF Recorded
<1> QED
  BY <1>1, <1>4, <1>6, <1>7, <1>8, <1>9, Zenon DEF Good

LEMMA RestartKeeps ==
    ASSUME TunnelInv, Restart
    PROVE  TunnelInv'
<1>1. /\ edge' = newMux /\ loop' = Accepting /\ records' = NewRegistry
      /\ phase' = phase /\ tun' = tun /\ toAllocator' = toAllocator
  BY Zenon DEF Restart
<1>2. /\ edge' \in Mux /\ loop' \in Loops /\ records' \in Registry
      /\ Good(edge', loop') /\ Recorded(phase', records', edge', loop')
  BY <1>1, NewEdge, Zenon
<1> QED
  BY <1>1, <1>2, Before, StepInv, Zenon

LEMMA InitInv ==
    ASSUME Init
    PROVE  TunnelInv
<1>1. /\ tun \in Clients /\ phase \in [Executions -> {"running", "cancelling", "over"}]
  BY Zenon DEF Init, NewRunTunnel, Clients
<1>2. toAllocator \in Seq(Frames)
  BY DEF Init
<1>3. Typed
  BY <1>1, <1>2, NewEdge, Zenon DEF Init, Typed
<1> QED
  BY <1>3, NewEdge, Zenon DEF Init, TunnelInv

-----------------------------------------------------------------------------
(* The splices of a pair and the goroutines that watch its session.        *)

LEMMA EdgeStep ==
    ASSUME TunnelInv, phase' = phase, Edge, records' \in Registry, loop' \in Loops,
           edge' \in Mux, Good(edge', loop'), Recorded(phase, records', edge', loop')
    PROVE  TunnelInv'
<1>1. tun' = tun /\ toAllocator' = toAllocator
  BY Zenon DEF Edge, client
<1> QED
  BY <1>1, Before, StepInv, Zenon

LEMMA StreamKeeps ==
    ASSUME TunnelInv, NEW p \in Pairs,
           NEW s \in {"none", "queued", "dial", "dialing", "relay", "ended"},
           edge' = [edge EXCEPT !.pairs[p].stream = s], UNCHANGED <<core, loop>>, Edge
    PROVE  TunnelInv'
<1> DEFINE c == [edge.pairs[p] EXCEPT !.stream = s]
           h == [edge EXCEPT !.pairs[p] = c]
<1>1. edge.pairs[p] \in PairState
  BY Before, Zenon
<1>2. /\ c \in PairState /\ c.closed = edge.pairs[p].closed /\ c.done = edge.pairs[p].done
      /\ c.authorized = edge.pairs[p].authorized /\ c.splice = edge.pairs[p].splice
      /\ c.session = edge.pairs[p].session
  BY <1>1, Zenon DEF PairState
<1>3. edge.pairs[p].splice # "none" => edge.pairs[p].authorized
  BY Before, Zenon DEF Good, Authorized
<1>4. edge' = h
  BY Zenon
<1> HIDE DEF c
<1>5. h \in Mux /\ Good(h, loop) /\ Recorded(phase, records, h, loop)
  BY <1>2, <1>3, Before, PairKeeps, Zenon
<1>6. phase' = phase /\ records' = records /\ loop' = loop
  BY Zenon DEF core
<1> HIDE DEF h
<1> QED
  BY <1>4, <1>5, <1>6, Before, EdgeStep, Zenon

LEMMA StreamsKeep ==
    ASSUME TunnelInv, NEW p \in Pairs,
           AcceptStream(p) \/ DialTunnelTarget(p) \/ DialReturns(p) \/ RelayStops(p) \/ Relay(p)
    PROVE  TunnelInv'
<1>1. UNCHANGED <<core, loop>> /\ Edge
  BY Zenon DEF AcceptStream, DialTunnelTarget, DialReturns, RelayStops, Relay, core
<1>2. CASE edge' = edge
  <2>1. phase' = phase /\ records' = records /\ loop' = loop
    BY <1>1, Zenon DEF core
  <2> QED
    BY <1>1, <1>2, <2>1, Before, EdgeStep, Zenon
<1>3. ASSUME edge' # edge
      PROVE  \E s \in {"none", "queued", "dial", "dialing", "relay", "ended"} :
                edge' = [edge EXCEPT !.pairs[p].stream = s]
  BY <1>3, Zenon DEF AcceptStream, DialTunnelTarget, DialReturns, RelayStops, Relay
<1> QED
  BY <1>1, <1>2, <1>3, StreamKeeps, Zenon

\* The pair of a session that is over ends: it is the promoted one, or has ended.
LEMMA AuthorizeWatchKeeps ==
    ASSUME TunnelInv, NEW p \in Pairs, AuthorizeWatch(p)
    PROVE  TunnelInv'
<1> DEFINE h == terminate(edge, p)
<1>1. edge.pair = p
  BY Before, Zenon DEF AuthorizeWatch, Good, Authorized
<1>2. h \in Mux /\ Good(h, loop) /\ Recorded(phase, records, h, loop)
  BY <1>1, Before, TerminateKeeps, Zenon
<1>3. phase' = phase /\ records' = records /\ loop' = loop /\ Edge /\ edge' = h
  BY Zenon DEF AuthorizeWatch, core
<1> HIDE DEF h
<1> QED
  BY <1>2, <1>3, Before, EdgeStep, Zenon

LEMMA SpliceWatchKeeps ==
    ASSUME TunnelInv, NEW p \in Pairs, SpliceWatch(p)
    PROVE  TunnelInv'
<1> DEFINE c == [edge.pairs[p] EXCEPT !.cancelled = TRUE]
           k == [edge EXCEPT !.pairs[p] = c]
           h == terminate(k, p)
<1>1. edge.pairs[p] \in PairState /\ edge \in Mux
  BY Before, Zenon
<1>2. /\ c \in PairState /\ c.closed = edge.pairs[p].closed /\ c.done = edge.pairs[p].done
      /\ c.authorized = edge.pairs[p].authorized /\ c.splice = edge.pairs[p].splice
      /\ c.session = edge.pairs[p].session
  BY <1>1, Zenon DEF PairState
<1>3. /\ edge.pairs[p].splice # "none" /\ edge.pairs[p].authorized
      /\ edge.pairs[p].closed \/ edge.pair = p
  BY Before, Zenon DEF SpliceWatch, Good, Authorized
<1>4. edge' = h /\ phase' = phase /\ records' = records /\ loop' = loop /\ Edge
  BY Zenon DEF SpliceWatch, core
<1> HIDE DEF c, h
<1>5. k \in Mux /\ Good(k, loop) /\ Recorded(phase, records, k, loop)
  BY <1>2, <1>3, Before, PairKeeps, Zenon
<1>6. k.pairs[p] = c /\ k.pair = edge.pair
  BY <1>1, Zenon DEF Mux
<1> HIDE DEF k
<1>7. k.pairs[p].closed \/ k.pair \in {NoPair, p}
  BY <1>2, <1>3, <1>6, Zenon
<1>8. h \in Mux /\ Good(h, loop) /\ Recorded(phase, records, h, loop)
  BY <1>5, <1>7, Before, TerminateKeeps, Zenon DEF h
<1> QED
  BY <1>4, <1>8, Before, EdgeStep, Zenon

LEMMA SpliceReturnsKeeps ==
    ASSUME TunnelInv, NEW p \in Pairs, SpliceReturns(p)
    PROVE  TunnelInv'
<1> DEFINE k == Released(edge, p)
           c == [k.pairs[p] EXCEPT !.splice = "over", !.cancelled = TRUE,
                                   !.stream = IF edge.pairs[p].stream = "queued"
                                              THEN "ended" ELSE @]
           h == [k EXCEPT !.pairs[p] = c]
<1>1. /\ k \in Mux /\ Good(k, loop) /\ Release(p) \in Registry
      /\ Recorded(phase, Release(p), k, loop)
      /\ k.pairs[p].authorized = edge.pairs[p].authorized
  BY ReleaseKeeps, Zenon
<1>2. k.pairs[p].authorized
  BY <1>1, Before, Zenon DEF SpliceReturns, Good, Authorized
<1>3. /\ edge' = h /\ phase' = phase /\ records' = Release(p) /\ loop' = loop /\ Edge
  BY <1>1, Zenon DEF SpliceReturns
<1> HIDE DEF k
<1>4. k.pairs[p] \in PairState
  BY <1>1, Zenon DEF Mux
<1>5. /\ c \in PairState /\ c.closed = k.pairs[p].closed /\ c.done = k.pairs[p].done
      /\ c.authorized = k.pairs[p].authorized /\ c.session = k.pairs[p].session
  BY <1>4, Zenon DEF PairState
<1> HIDE DEF c
<1>6. h \in Mux /\ Good(h, loop) /\ Recorded(phase, Release(p), h, loop)
  BY <1>1, <1>2, <1>5, Before, PairKeeps, Zenon
<1> HIDE DEF h
<1> QED
  BY <1>1, <1>3, <1>6, Before, EdgeStep, Zenon

-----------------------------------------------------------------------------
(* The accept loop.                                                        *)

LEMMA Empty ==
    ASSUME NEW t \in Seq(Pairs)
    PROVE  t = <<>> <=> Len(t) = 0
OBVIOUS

LEMMA Tails ==
    ASSUME NEW s \in Seq(Pairs), s # <<>>
    PROVE  /\ Head(s) \in Pairs /\ Head(s) = s[1] /\ Tail(s) \in Seq(Pairs)
           /\ Len(s) \in Nat /\ Len(s) >= 1 /\ Len(Tail(s)) = Len(s) - 1
           /\ \A k \in 1 .. Len(Tail(s)) : Tail(s)[k] = s[k + 1] /\ k + 1 \in 2 .. Len(s)
           /\ Len(s) > 1 => Tail(s) # <<>> /\ Tail(s)[Len(Tail(s))] = s[Len(s)]
           /\ Len(s) = 1 => Tail(s) = <<>>
           /\ Len(s) = 1 \/ Len(s) > 1
<1>1. /\ Head(s) \in Pairs /\ Head(s) = s[1] /\ Tail(s) \in Seq(Pairs)
      /\ Len(s) \in Nat /\ Len(s) >= 1 /\ Len(Tail(s)) = Len(s) - 1
      /\ \A k \in 1 .. Len(Tail(s)) : Tail(s)[k] = s[k + 1] /\ k + 1 \in 2 .. Len(s)
  OBVIOUS
<1>2. Len(s) = 1 \/ Len(s) > 1
  BY <1>1
<1>3. Len(s) > 1 => Tail(s) # <<>> /\ Tail(s)[Len(Tail(s))] = s[Len(s)]
  <2>1. Len(s) > 1 => Len(Tail(s)) > 0 /\ Len(Tail(s)) \in 1 .. Len(Tail(s))
    BY <1>1
  <2>2. Len(s) > 1 => Tail(s)[Len(Tail(s))] = s[Len(s)]
    BY <1>1, <2>1
  <2>3. Len(s) > 1 => Len(Tail(s)) # 0
    BY <1>1, SMTT(30)
  <2> QED
    BY <1>1, <2>2, <2>3, Empty, Zenon
<1>4. Len(s) = 1 => Tail(s) = <<>>
  <2>1. Len(s) = 1 => Len(Tail(s)) = 0
    BY <1>1
  <2> QED
    BY <1>1, <2>1, Empty, Zenon
<1> QED
  BY <1>1, <1>2, <1>3, <1>4, Zenon

\* The pair the accept loop holds, and who is promoted then.
LEMMA Holds ==
    ASSUME TunnelInv, loop.at # "accept"
    PROVE  /\ loop.pair \in Pairs /\ edge.pair \in {NoPair, loop.pair}
           /\ edge.pairs[loop.pair] \in PairState
<1>1. loop.pair # NoPair
  BY Before, Zenon DEF Good, Held
<1>2. loop.pair \in Pairs
  BY <1>1, Before, Places, Zenon DEF Loops
<1>3. edge.pair \in {NoPair, loop.pair}
  BY Before, Zenon DEF Good, Routed
<1> QED
  BY <1>2, <1>3, Before, Zenon

LEMMA AcceptKeeps ==
    ASSUME TunnelInv, Accept
    PROVE  TunnelInv'
<1> DEFINE s == edge.inbound
           h == [edge EXCEPT !.inbound = Tail(s)]
<1>1. /\ edge \in Mux /\ s \in Seq(Pairs) /\ s # <<>> /\ loop.at = "accept"
      /\ Queued(edge, loop) /\ Routed(edge, loop) /\ Authorized(edge)
  BY Before, Zenon DEF Accept, Mux, Good
<1>2. /\ Head(s) \in Pairs /\ Head(s) = s[1] /\ Tail(s) \in Seq(Pairs)
      /\ Len(s) \in Nat /\ Len(s) >= 1 /\ Len(Tail(s)) = Len(s) - 1
      /\ \A k \in 1 .. Len(Tail(s)) : Tail(s)[k] = s[k + 1] /\ k + 1 \in 2 .. Len(s)
      /\ Len(s) > 1 => Tail(s) # <<>> /\ Tail(s)[Len(Tail(s))] = s[Len(s)]
      /\ Len(s) = 1 => Tail(s) = <<>>
      /\ Len(s) = 1 \/ Len(s) > 1
  BY <1>1, Tails, Zenon
<1>3. /\ h \in Mux /\ h.inbound = Tail(s) /\ h.blocked = edge.blocked
      /\ h.pair = edge.pair /\ h.pending = edge.pending /\ h.pairs = edge.pairs
  BY <1>1, <1>2, Zenon DEF Mux
<1>4. PICK at \in {"read", "drop"} : loop' = [at |-> at, pair |-> Head(s), exec |-> None]
  BY Zenon DEF Accept
<1>5. /\ loop' \in Loops /\ loop'.at = at /\ loop'.pair = Head(s) /\ Head(s) # NoPair
  BY <1>2, <1>4, Places, Zenon DEF Loops
<1>6. edge' = h /\ phase' = phase /\ records' = records /\ Edge
  BY Zenon DEF Accept, accept, core
<1> HIDE DEF h
<1>7. Held(h, loop')
  BY <1>5, Zenon DEF Held
<1>8. Queued(h, loop')
  <2>1. \A j, k \in 1 .. Len(s) : s[j] = s[k] => j = k
    BY <1>1, Zenon DEF Queued
  <2>2. \A k \in 1 .. Len(s) : s[k] # edge.blocked
    BY <1>1, Zenon DEF Queued
  <2> HIDE DEF s
  <2>3. \A j, k \in 1 .. Len(Tail(s)) : Tail(s)[j] = Tail(s)[k] => j = k
    BY <1>2, <2>1
  <2>4. \A k \in 1 .. Len(Tail(s)) : Tail(s)[k] # edge.blocked /\ Tail(s)[k] # Head(s)
    BY <1>2, <2>1, <2>2
  <2>5. Head(s) # edge.blocked
    BY <1>2, <2>2
  <2> QED
    BY <1>3, <1>5, <2>3, <2>4, <2>5, Zenon DEF Queued
<1>9. Routed(h, loop')
  <2>1. edge.pair = NoPair /\ edge.blocked # NoPair => edge.pending \in {NoPair, edge.blocked}
    BY <1>1, Zenon DEF Routed
  <2>2. ASSUME edge.pending # NoPair
        PROVE  ~edge.pairs[edge.pending].closed
    BY <1>1, <2>2, Zenon DEF Routed
  <2>3. edge.pair = NoPair
    BY <1>1, Zenon DEF Routed
  <2>4. ASSUME edge.pending # NoPair
        PROVE  \/ edge.pending = edge.blocked
               \/ edge.blocked = NoPair /\ edge.pending = s[Len(s)]
    BY <1>1, <2>4, Zenon DEF Routed, Newest
  <2>5. ASSUME edge.pending # NoPair
        PROVE  Newest(h, loop')
    <3>1. CASE Len(s) = 1
      BY <1>2, <1>3, <1>5, <2>4, <2>5, <3>1, Zenon DEF Newest
    <3>2. CASE Len(s) > 1
      BY <1>2, <1>3, <2>4, <2>5, <3>2, Zenon DEF Newest
    <3> QED
      BY <1>2, <3>1, <3>2, Zenon
  <2> QED
    BY <1>1, <1>3, <2>2, <2>3, <2>5, Zenon DEF Routed
<1>10. Authorized(h)
  BY <1>1, <1>3, Zenon DEF Authorized
<1>11. Recorded(phase, records, h, loop')
  BY <1>1, <1>3, Before, Zenon DEF Recorded
<1> QED
  BY <1>5, <1>6, <1>7, <1>8, <1>9, <1>10, <1>11, <1>3, Before, EdgeStep, Zenon DEF Good

\* The accept loop, at l, goes on to drop or reject its pair.
LEMMA GotoGood ==
    ASSUME NEW f, NEW r, NEW g \in Mux, NEW l \in Loops, Good(g, l), Recorded(f, r, g, l),
           l.at \notin {"accept", "recheck"}, NEW at \in {"drop", "reject"}
    PROVE  LET m == [l EXCEPT !.at = at]
           IN  m \in Loops /\ Good(g, m) /\ Recorded(f, r, g, m)
<1> DEFINE m == [l EXCEPT !.at = at]
<1>1. m \in Loops /\ m.at = at /\ m.pair = l.pair
  BY Zenon DEF Loops
<1> HIDE DEF m
<1>2. Held(g, m)
  BY <1>1, Zenon DEF Good, Held
<1>3. Good(g, m)
  BY <1>1, <1>2, LoopGood, Zenon
<1>4. Recorded(f, r, g, m)
  BY Zenon DEF Recorded
<1> QED
  BY <1>1, <1>3, <1>4, Zenon DEF m

LEMMA readPreambleKeeps ==
    ASSUME TunnelInv, readPreamble
    PROVE  TunnelInv'
<1> DEFINE p == loop.pair
<1>1. loop.at = "read" /\ phase' = phase /\ records' = records /\ Edge
  BY Zenon DEF readPreamble, core
<1>2. p \in Pairs /\ edge.pair \in {NoPair, p} /\ edge.pairs[p] \in PairState
  BY <1>1, Holds, Zenon
<1>3. CASE /\ readPairFrame(p) # None /\ UNCHANGED edge
           /\ loop' = [loop EXCEPT !.at = "check", !.exec = readPairFrame(p)]
  <2>1. readPairFrame(p) \in Executions \cup {None}
    BY <1>2, Zenon DEF readPairFrame, PairState
  <2>2. loop' \in Loops /\ loop'.at = "check" /\ loop'.pair = loop.pair /\ loop'.exec # None
    BY <1>3, <2>1, Before, Zenon DEF Loops
  <2>3. Held(edge, loop')
    BY <1>1, <2>2, Before, Zenon DEF Good, Held
  <2>4. Good(edge, loop')
    BY <1>1, <2>2, <2>3, Before, LoopGood, Zenon
  <2>5. Recorded(phase, records, edge, loop')
    BY <1>1, Before, Zenon DEF Recorded
  <2> QED
    BY <1>1, <1>3, <2>2, <2>4, <2>5, Before, EdgeStep, Zenon
<1>4. CASE Goto("drop") /\ edge' = terminate(edge, p)
  <2> DEFINE h == terminate(edge, p)
             m == [loop EXCEPT !.at = "drop"]
  <2>1. h \in Mux /\ Good(h, loop) /\ Recorded(phase, records, h, loop)
    BY <1>2, Before, TerminateKeeps, Zenon
  <2> HIDE DEF h, p
  <2>2. m \in Loops /\ Good(h, m) /\ Recorded(phase, records, h, m)
    BY <1>1, <2>1, Before, GotoGood, Zenon
  <2>3. edge' = h /\ loop' = m
    BY <1>4, Zenon DEF h, Goto
  <2> HIDE DEF m
  <2> QED
    BY <1>1, <2>1, <2>2, <2>3, Before, EdgeStep, Zenon
<1> QED
  BY <1>3, <1>4, Zenon DEF readPreamble

LEMMA dropPendingKeeps ==
    ASSUME TunnelInv, dropPending
    PROVE  TunnelInv'
<1> DEFINE h == [edge EXCEPT !.pending = NoPair]
<1>1. /\ loop.at = "drop" /\ phase' = phase /\ records' = records /\ Edge /\ edge' = h
      /\ loop' = IF edge.pending = NoPair THEN Accepting
                 ELSE [loop EXCEPT !.at = "reject", !.pair = edge.pending]
  BY Zenon DEF dropPending, core
<1>2. /\ h \in Mux /\ h.pairs = edge.pairs /\ h.pair = edge.pair /\ h.pending = NoPair
      /\ h.inbound = edge.inbound /\ h.blocked = edge.blocked
  BY Before, Places, Zenon DEF Mux
<1> HIDE DEF h
<1>3. /\ loop' \in Loops /\ loop'.at \in {"accept", "reject"}
      /\ loop'.at = "accept" \/ (loop'.pair = edge.pending /\ edge.pending # NoPair)
  <2>1. CASE edge.pending = NoPair
    BY <1>1, <2>1, NewEdge, Zenon DEF Accepting
  <2>2. CASE edge.pending # NoPair
    BY <1>1, <2>2, Before, Zenon DEF Loops, Mux
  <2> QED
    BY <2>1, <2>2, Zenon
<1>0. Queued(edge, loop) /\ Routed(edge, loop) /\ Authorized(edge)
  BY Before, Zenon DEF Good
<1>4. Held(h, loop') /\ Queued(h, loop') /\ Authorized(h)
  <2>1. Held(h, loop')
    BY <1>3, Zenon DEF Held
  <2>2. Queued(h, loop')
    BY <1>0, <1>2, <1>3, Zenon DEF Queued
  <2>3. Authorized(h)
    BY <1>0, <1>2, Zenon DEF Authorized
  <2> QED
    BY <2>1, <2>2, <2>3, Zenon
<1>5. Routed(h, loop')
  BY <1>0, <1>2, <1>3, Zenon DEF Routed
<1>6. Good(h, loop')
  BY <1>4, <1>5, Zenon DEF Good
<1>7. Recorded(phase, records, h, loop')
  BY <1>1, <1>2, Before, Zenon DEF Recorded
<1> QED
  BY <1>1, <1>2, <1>3, <1>6, <1>7, Before, EdgeStep, Zenon

LEMMA CheckExecutionKeeps ==
    ASSUME TunnelInv, CheckExecution
    PROVE  TunnelInv'
<1>1. /\ loop.at = "check" /\ phase' = phase /\ records' = records /\ edge' = edge /\ Edge
      /\ \E at \in {"reject", "open"} : loop' = [loop EXCEPT !.at = at]
  BY Zenon DEF CheckExecution, core, Goto
<1>2. /\ loop' \in Loops /\ loop'.at \in {"reject", "open"}
      /\ loop'.pair = loop.pair /\ loop'.exec = loop.exec
  BY <1>1, Before, Zenon DEF Loops
<1>3. Held(edge, loop')
  BY <1>1, <1>2, Before, Zenon DEF Good, Held
<1>4. Good(edge, loop')
  BY <1>1, <1>2, <1>3, Before, LoopGood, Zenon
<1>5. Recorded(phase, records, edge, loop')
  BY <1>1, Before, Zenon DEF Recorded
<1> QED
  BY <1>1, <1>2, <1>4, <1>5, Before, EdgeStep, Zenon

LEMMA OpenKeeps ==
    ASSUME TunnelInv, Open
    PROVE  TunnelInv'
<1> DEFINE e == loop.exec
           p == loop.pair
<1>1. loop.at = "open" /\ phase' = phase /\ Edge
  BY Zenon DEF Open
<1>2. p \in Pairs /\ p \in 0 .. MaxPairs /\ edge.pairs[p] \in PairState
  BY <1>1, Holds, Places, Zenon
<1>3. e \in Executions
  BY <1>1, Before, Zenon DEF Good, Held, Loops
<1>4. CASE /\ records[e].session = NoPair /\ Goto("recheck")
           /\ records' = [records EXCEPT ![e].session = p]
           /\ edge' = [edge EXCEPT !.pairs[p].session = e]
  <2> DEFINE c == [edge.pairs[p] EXCEPT !.session = e]
             h == [edge EXCEPT !.pairs[p] = c]
             m == [loop EXCEPT !.at = "recheck"]
             t == [records EXCEPT ![e].session = p]
  <2>1. edge' = h /\ loop' = m /\ records' = t
    BY <1>4, Zenon DEF Goto
  <2>2. m \in Loops /\ m.at = "recheck" /\ m.pair = p /\ m.exec = e
    BY Before, Zenon DEF Loops
  <2> HIDE DEF p, e
  <2>3. /\ c \in PairState /\ c.closed = edge.pairs[p].closed /\ c.session = e
        /\ c.authorized = edge.pairs[p].authorized /\ c.splice = edge.pairs[p].splice
    BY <1>2, <1>3, Zenon DEF PairState
  <2>4. t \in Registry /\ t[e].session = p /\ \A x \in Executions : x # e => t[x] = records[x]
    BY <1>2, <1>3, Before, Zenon DEF Registry
  <2> HIDE DEF c, m, t
  <2>5. /\ h \in Mux /\ h.pairs[p] = c
        /\ \A q \in Pairs : q # p => h.pairs[q] = edge.pairs[q]
        /\ h.pair = edge.pair /\ h.pending = edge.pending
        /\ h.inbound = edge.inbound /\ h.blocked = edge.blocked
    <3>1. edge \in Mux /\ c \in PairState
      BY <2>3, Before, Zenon
    <3> QED
      BY <1>2, <3>1, Zenon DEF Mux
  <2> HIDE DEF h
  <2>6. Good(h, loop)
    <3>1. ASSUME NEW q \in Pairs
          PROVE  /\ h.pairs[q].closed = edge.pairs[q].closed
                 /\ h.pairs[q].authorized = edge.pairs[q].authorized
                 /\ h.pairs[q].splice # "none" => edge.pairs[q].authorized
      <4>1. edge.pairs[q].splice # "none" => edge.pairs[q].authorized
        BY Before, Zenon DEF Good, Authorized
      <4> QED
        BY <2>3, <2>5, <4>1, Zenon
    <3>2. edge \in Mux /\ loop \in Loops /\ Good(edge, loop)
      BY Before, Zenon
    <3> QED
      BY <1>1, <2>5, <3>1, <3>2, InsideGood
  <2>7. Held(h, m)
    <3>1. h.pairs[m.pair].session = m.exec
      BY <2>2, <2>3, <2>5, Zenon
    <3>2. m.pair # NoPair /\ m.exec # None
      BY <1>2, <1>3, <2>2, Places, TunnelAssumption, Zenon
    <3> QED
      BY <2>2, <3>1, <3>2, Zenon DEF Held
  <2>8. Good(h, m)
    BY <1>1, <2>2, <2>5, <2>6, <2>7, Before, LoopGood, Zenon DEF p
  <2>9. Recorded(phase, t, h, m)
    <3> SUFFICES ASSUME NEW q \in Pairs, h.pairs[q].session # None, ~h.pairs[q].done
                 PROVE  /\ t[h.pairs[q].session].session = q
                        /\ \/ phase[h.pairs[q].session] # "over"
                           \/ m.at = "recheck" /\ m.pair = q
      BY Zenon DEF Recorded
    <3>1. CASE q = p
      BY <2>2, <2>3, <2>4, <2>5, <3>1, Zenon
    <3>2. CASE q # p
      <4>1. h.pairs[q] = edge.pairs[q]
        BY <2>5, <3>2, Zenon
      <4>2. /\ records[edge.pairs[q].session].session = q
            /\ phase[edge.pairs[q].session] # "over" /\ edge.pairs[q].session \in Executions
        BY <1>1, <4>1, Before, Zenon DEF Recorded, PairState
      <4>3. edge.pairs[q].session # e
        BY <1>4, <4>2, Places, Zenon
      <4> QED
        BY <2>4, <4>1, <4>2, <4>3, Zenon
    <3> QED
      BY <3>1, <3>2, Zenon
  <2> QED
    BY <1>1, <2>1, <2>2, <2>4, <2>5, <2>8, <2>9, EdgeStep, Zenon
<1>5. CASE Goto("reject") /\ UNCHANGED <<records, edge>>
  <2> DEFINE m == [loop EXCEPT !.at = "reject"]
  <2>1. m \in Loops /\ Good(edge, m) /\ Recorded(phase, records, edge, m)
    BY <1>1, Before, GotoGood, Zenon
  <2>2. loop' = m /\ records' = records /\ edge' = edge
    BY <1>5, Zenon DEF Goto
  <2> HIDE DEF m
  <2> QED
    BY <1>1, <2>1, <2>2, Before, EdgeStep, Zenon
<1> QED
  BY <1>4, <1>5, Zenon DEF Open

LEMMA RecheckExecutionKeeps ==
    ASSUME TunnelInv, RecheckExecution
    PROVE  TunnelInv'
<1> DEFINE e == loop.exec
           p == loop.pair
<1>1. loop.at = "recheck" /\ phase' = phase /\ Edge
  BY Zenon DEF RecheckExecution
<1>2. p \in Pairs /\ e \in Executions /\ edge.pairs[p].session = e
  BY <1>1, Holds, Before, Zenon DEF Good, Held, Loops
<1>3. PICK at \in {"reject", "promote"} :
          /\ loop' = [loop EXCEPT !.at = at]
          /\ IF phase[e] = "over" THEN records' = CloseSession(e) /\ edge' = Done(edge, e)
             ELSE records' = records /\ edge' = edge
  BY Zenon DEF RecheckExecution, Goto
<1>4. loop' \in Loops /\ loop'.at = at /\ loop'.pair = p
  BY <1>3, Before, Zenon DEF Loops
<1>5. CASE phase[e] = "over"
  <2> DEFINE h == Done(edge, e)
             t == [records EXCEPT ![e].session = NoPair]
  <2>1. /\ h \in Mux /\ Good(h, loop) /\ Recorded(phase, records, h, loop)
        /\ \A q \in Pairs : h.pairs[q].session = e => h.pairs[q].done
    BY <1>2, DoneKeeps, Zenon
  <2>2. edge' = h /\ records' = t
    BY <1>3, <1>5, Zenon DEF CloseSession
  <2> HIDE DEF h, e
  <2>3. t \in Registry /\ \A x \in Executions : x # e => t[x] = records[x]
    BY <1>2, Before, Places, Zenon DEF Registry
  <2> HIDE DEF t
  <2>4. Held(h, loop')
    BY <1>2, <1>4, Places, Zenon DEF Held
  <2>5. Good(h, loop')
    BY <1>1, <1>4, <2>1, <2>4, Before, LoopGood, Zenon
  <2>6. Recorded(phase, t, h, loop')
    <3> SUFFICES ASSUME NEW q \in Pairs, h.pairs[q].session # None, ~h.pairs[q].done
                 PROVE  t[h.pairs[q].session].session = q /\ phase[h.pairs[q].session] # "over"
      BY Zenon DEF Recorded
    <3>1. h.pairs[q].session \in Executions /\ h.pairs[q].session # e
      BY <2>1, Zenon DEF Mux, PairState
    <3>2. q # p
      BY <1>1, <2>1, <3>1, Zenon DEF Good, Held, e
    <3> QED
      BY <2>1, <2>3, <3>1, <3>2, Zenon DEF Recorded
  <2> QED
    BY <1>1, <1>4, <2>1, <2>2, <2>3, <2>5, <2>6, EdgeStep, Zenon
<1>6. CASE phase[e] # "over"
  <2>1. Held(edge, loop')
    BY <1>2, <1>4, Places, Zenon DEF Held
  <2>2. Good(edge, loop')
    BY <1>1, <1>4, <2>1, Before, LoopGood, Zenon
  <2>3. Recorded(phase, records, edge, loop')
    BY <1>2, <1>6, Before, Zenon DEF Recorded
  <2> QED
    BY <1>1, <1>3, <1>4, <1>6, <2>2, <2>3, Before, EdgeStep, Zenon
<1> QED
  BY <1>5, <1>6, Zenon

\* A failed Promote gives the session back.
LEMMA GiveUpKeeps ==
    ASSUME TunnelInv, loop.at \in {"promote", "authorize", "confirm"},
           GiveUp(loop.pair), phase' = phase, Edge
    PROVE  TunnelInv'
<1> DEFINE p == loop.pair
           h == Released(edge, p)
           m == [loop EXCEPT !.at = "reject"]
<1>1. p \in Pairs
  BY Holds, Zenon
<1>2. /\ h \in Mux /\ Good(h, loop) /\ Release(p) \in Registry
      /\ Recorded(phase, Release(p), h, loop)
  BY <1>1, ReleaseKeeps, Zenon
<1>3. edge' = h /\ records' = Release(p) /\ loop' = m
  BY Zenon DEF GiveUp, Goto
<1> HIDE DEF h, p
<1>4. m \in Loops /\ Good(h, m) /\ Recorded(phase, Release(p), h, m)
  BY <1>2, Before, GotoGood, Zenon
<1> HIDE DEF m
<1> QED
  BY <1>2, <1>3, <1>4, EdgeStep, Zenon

\* A pair is promoted when it is the newest, so no other waits.
LEMMA promoteKeeps ==
    ASSUME TunnelInv, promote
    PROVE  TunnelInv'
<1> DEFINE p == loop.pair
<1>1. loop.at = "promote" /\ phase' = phase /\ Edge
  BY Zenon DEF promote
<1>2. p \in Pairs /\ p \in 0 .. MaxPairs /\ p # NoPair
  BY <1>1, Holds, Places, Zenon
<1>3. CASE /\ edge.pending = p /\ edge.pair = NoPair /\ Goto("authorize")
           /\ edge' = [edge EXCEPT !.pending = NoPair, !.pair = p] /\ UNCHANGED records
  <2> DEFINE h == [edge EXCEPT !.pending = NoPair, !.pair = p]
             m == [loop EXCEPT !.at = "authorize"]
  <2>1. edge' = h /\ loop' = m /\ records' = records
    BY <1>3, Zenon DEF Goto
  <2>2. m \in Loops /\ m.at = "authorize" /\ m.pair = p
    BY Before, Zenon DEF Loops
  <2>3. Queued(edge, loop) /\ Routed(edge, loop) /\ Authorized(edge) /\ edge \in Mux
    BY Before, Zenon DEF Good
  <2>4. edge.inbound \in Seq(Pairs)
    BY <2>3, Zenon DEF Mux
  <2>5. edge.inbound # <<>> => Len(edge.inbound) \in 1 .. Len(edge.inbound)
    BY <2>4
  <2>6. p # edge.blocked /\ \A k \in 1 .. Len(edge.inbound) : edge.inbound[k] # p
    BY <1>1, <2>3, Zenon DEF Queued
  <2> HIDE DEF p, m
  <2>7. edge.inbound = <<>> /\ edge.blocked = NoPair /\ ~edge.pairs[p].closed
    BY <1>2, <1>3, <2>3, <2>5, <2>6, Zenon DEF Routed, Newest
  <2>8. /\ h \in Mux /\ h.pairs = edge.pairs /\ h.pair = p /\ h.pending = NoPair
        /\ h.inbound = edge.inbound /\ h.blocked = edge.blocked
    BY <1>2, <2>3, Places, Zenon DEF Mux
  <2> HIDE DEF h
  <2>9. Held(h, m)
    BY <1>2, <2>2, <2>8, Zenon DEF Held
  <2>10. Queued(h, m)
    BY <2>2, <2>3, <2>8, Zenon DEF Queued
  <2>11. Routed(h, m)
    BY <2>2, <2>7, <2>8, Zenon DEF Routed
  <2>12. Authorized(h)
    BY <1>3, <2>3, <2>8, Places, Zenon DEF Authorized
  <2>13. Good(h, m)
    BY <2>9, <2>10, <2>11, <2>12, Zenon DEF Good
  <2>14. Recorded(phase, records, h, m)
    BY <1>1, <2>8, Before, Zenon DEF Recorded
  <2> QED
    BY <1>1, <2>1, <2>2, <2>8, <2>13, <2>14, Before, EdgeStep, Zenon
<1>4. CASE GiveUp(p)
  BY <1>1, <1>4, GiveUpKeeps, Zenon
<1> QED
  BY <1>3, <1>4, Zenon DEF promote

LEMMA AuthorizeKeeps ==
    ASSUME TunnelInv, Authorize
    PROVE  TunnelInv'
<1> DEFINE p == loop.pair
<1>1. loop.at = "authorize" /\ phase' = phase /\ Edge
  BY Zenon DEF Authorize
<1>2. p \in Pairs /\ p # NoPair /\ edge.pairs[p] \in PairState
  BY <1>1, Holds, Places, Zenon
<1>3. CASE /\ ~edge.pairs[p].closed /\ Goto("confirm") /\ UNCHANGED records
           /\ edge' = [edge EXCEPT !.pairs[p].authorized = TRUE]
  <2> DEFINE c == [edge.pairs[p] EXCEPT !.authorized = TRUE]
             h == [edge EXCEPT !.pairs[p] = c]
             m == [loop EXCEPT !.at = "confirm"]
  <2>1. edge' = h /\ loop' = m /\ records' = records
    BY <1>3, Zenon DEF Goto
  <2>2. m \in Loops /\ m.at = "confirm" /\ m.pair = p
    BY Before, Zenon DEF Loops
  <2>3. /\ Queued(edge, loop) /\ Routed(edge, loop) /\ Authorized(edge) /\ edge \in Mux
        /\ edge.pair = p
    BY <1>1, <1>3, Before, Zenon DEF Good, Held
  <2> HIDE DEF p, m
  <2>4. /\ c \in PairState /\ c.closed = edge.pairs[p].closed /\ c.authorized
        /\ c.session = edge.pairs[p].session /\ c.done = edge.pairs[p].done
    BY <1>2, Zenon DEF PairState
  <2> HIDE DEF c
  <2>5. /\ h \in Mux /\ h.pairs[p] = c
        /\ \A q \in Pairs : q # p => h.pairs[q] = edge.pairs[q]
        /\ h.pair = edge.pair /\ h.pending = edge.pending
        /\ h.inbound = edge.inbound /\ h.blocked = edge.blocked
    <3>1. edge \in Mux /\ c \in PairState
      BY <2>3, <2>4, Zenon
    <3> QED
      BY <1>2, <3>1, Zenon DEF Mux
  <2> HIDE DEF h
  <2>6. Held(h, m)
    BY <1>2, <2>2, <2>3, <2>4, <2>5, Zenon DEF Held
  <2>7. Queued(h, m)
    BY <2>2, <2>3, <2>5, Zenon DEF Queued
  <2>8. Routed(h, m)
    BY <1>2, <1>3, <2>2, <2>3, <2>4, <2>5, Zenon DEF Routed
  <2>9. Authorized(h)
    BY <2>3, <2>4, <2>5, Zenon DEF Authorized
  <2>10. Good(h, m)
    BY <2>6, <2>7, <2>8, <2>9, Zenon DEF Good
  <2>11. \A q \in Pairs : h.pairs[q].session # None /\ ~h.pairs[q].done =>
                             ~edge.pairs[q].done /\ h.pairs[q].session = edge.pairs[q].session
    BY <2>4, <2>5, Zenon
  <2>12. Recorded(phase, records, h, m)
    BY <1>1, <2>11, Before, RecordedSame, Zenon
  <2> QED
    BY <1>1, <2>1, <2>2, <2>5, <2>10, <2>12, Before, EdgeStep, Zenon
<1>4. CASE GiveUp(p)
  BY <1>1, <1>4, GiveUpKeeps, Zenon
<1> QED
  BY <1>3, <1>4, Zenon DEF Authorize

LEMMA writeAcceptKeeps ==
    ASSUME TunnelInv, writeAccept
    PROVE  TunnelInv'
<1> DEFINE p == loop.pair
<1>1. loop.at = "confirm" /\ phase' = phase /\ Edge
  BY Zenon DEF writeAccept
<1>2. p \in Pairs /\ edge.pairs[p] \in PairState
  BY <1>1, Holds, Zenon
<1>3. CASE /\ ~edge.pairs[p].closed /\ loop' = Accepting /\ UNCHANGED records
           /\ edge' = [edge EXCEPT !.pairs[p].splice = "accepting"]
  <2> DEFINE c == [edge.pairs[p] EXCEPT !.splice = "accepting"]
             h == [edge EXCEPT !.pairs[p] = c]
  <2>1. edge' = h /\ records' = records
    BY <1>3, Zenon
  <2>2. edge.pair = p /\ edge.pairs[p].authorized
    BY <1>1, <1>3, Before, Zenon DEF Good, Held
  <2>3. edge.pending = NoPair
    BY <1>2, <2>2, Before, Places, Zenon DEF Good, Routed
  <2> HIDE DEF p
  <2>4. /\ c \in PairState /\ c.closed = edge.pairs[p].closed
        /\ c.authorized = edge.pairs[p].authorized
        /\ c.session = edge.pairs[p].session /\ c.done = edge.pairs[p].done
    BY <1>2, Zenon DEF PairState
  <2> HIDE DEF c
  <2>5. h \in Mux /\ Good(h, loop) /\ Recorded(phase, records, h, loop)
    BY <1>2, <2>2, <2>4, Before, PairKeeps, Zenon
  <2>6. h.pending = NoPair
    BY <2>3, Before, Zenon DEF Mux
  <2> HIDE DEF h
  <2>7. Good(h, Accepting) /\ Accepting \in Loops
    BY <2>5, <2>6, Before, AcceptingGood, Zenon
  <2>8. Recorded(phase, records, h, Accepting)
    BY <1>1, <2>5, Zenon DEF Recorded
  <2> QED
    BY <1>1, <1>3, <2>1, <2>5, <2>7, <2>8, Before, EdgeStep, Zenon
<1>4. CASE GiveUp(p)
  BY <1>1, <1>4, GiveUpKeeps, Zenon
<1> QED
  BY <1>3, <1>4, Zenon DEF writeAccept

LEMMA RejectKeeps ==
    ASSUME TunnelInv, Reject
    PROVE  TunnelInv'
<1> DEFINE p == loop.pair
           h == terminate(edge, p)
<1>1. /\ loop.at = "reject" /\ phase' = phase /\ records' = records /\ Edge
      /\ edge' = h /\ loop' = Accepting
  BY Zenon DEF Reject, core
<1>2. p \in Pairs /\ edge.pair \in {NoPair, p} /\ edge \in Mux
  BY <1>1, Holds, Before, Zenon
<1>3. h \in Mux /\ Good(h, loop) /\ Recorded(phase, records, h, loop)
  BY <1>2, Before, TerminateKeeps, Zenon
<1>4. h.pairs[p].closed
  <2>1. p \in Pairs /\ edge \in Mux
    BY <1>2, Zenon
  <2> HIDE DEF p
  <2> QED
    BY <2>1, Terminated, Zenon
<1> HIDE DEF h
<1>5. h.pending # NoPair => h.pending # p
  BY <1>3, <1>4, Zenon DEF Good, Routed
<1>6. Good(h, Accepting) /\ Accepting \in Loops
  BY <1>3, <1>5, Before, AcceptingGood, Zenon
<1>7. Recorded(phase, records, h, Accepting)
  BY <1>1, <1>3, Zenon DEF Recorded
<1> QED
  BY <1>1, <1>3, <1>6, <1>7, Before, EdgeStep, Zenon

LEMMA AcceptLoopKeeps ==
    ASSUME TunnelInv, AcceptLoop
    PROVE  TunnelInv'
BY AcceptKeeps, readPreambleKeeps, dropPendingKeeps, CheckExecutionKeeps, OpenKeeps,
   RecheckExecutionKeeps, promoteKeeps, AuthorizeKeeps, writeAcceptKeeps, RejectKeeps, Zenon
   DEF AcceptLoop, Promote

-----------------------------------------------------------------------------
(* The read loop and its queue of pending pairs.                           *)

LEMMA IngestKeeps ==
    ASSUME NEW f, NEW r, NEW g \in Mux, NEW l \in Loops, Good(g, l), Recorded(f, r, g, l),
           NEW p \in Pairs, g.pair \in {NoPair, p}, NEW fr \in Frames
    PROVE  LET h == ingest(g, p, fr)
           IN  h \in Mux /\ Good(h, l) /\ Recorded(f, r, h, l)
<1> DEFINE b == [g.pairs[p] EXCEPT !.stream = "queued"]
           c == [g.pairs[p] EXCEPT !.raw = fr.exec]
<1>1. g.pairs[p] \in PairState /\ fr.exec \in Executions \cup {None}
  BY Zenon DEF Mux, Frames
<1>2. g.pairs[p].splice # "none" => g.pairs[p].authorized
  BY Zenon DEF Good, Authorized
<1>3. /\ b \in PairState /\ b.closed = g.pairs[p].closed
      /\ b.authorized = g.pairs[p].authorized /\ b.splice = g.pairs[p].splice
      /\ b.session = g.pairs[p].session /\ b.done = g.pairs[p].done
  BY <1>1, Zenon DEF PairState
<1>4. /\ c \in PairState /\ c.closed = g.pairs[p].closed
      /\ c.authorized = g.pairs[p].authorized /\ c.splice = g.pairs[p].splice
      /\ c.session = g.pairs[p].session /\ c.done = g.pairs[p].done
  BY <1>1, Zenon DEF PairState
<1>5. ingest(g, p, fr) \in {g, terminate(g, p), [g EXCEPT !.pairs[p] = b],
                            [g EXCEPT !.pairs[p] = c]}
  BY Zenon DEF ingest, ingestPairFrame, openAllocatorStream
<1> HIDE DEF b, c
<1>6. LET h == [g EXCEPT !.pairs[p] = b]
      IN  h \in Mux /\ Good(h, l) /\ Recorded(f, r, h, l)
  BY <1>2, <1>3, PairKeeps, Zenon
<1>7. LET h == [g EXCEPT !.pairs[p] = c]
      IN  h \in Mux /\ Good(h, l) /\ Recorded(f, r, h, l)
  BY <1>2, <1>4, PairKeeps, Zenon
<1>8. LET h == terminate(g, p)
      IN  h \in Mux /\ Good(h, l) /\ Recorded(f, r, h, l)
  BY TerminateKeeps, Zenon
<1> QED
  BY <1>5, <1>6, <1>7, <1>8, Zenon

LEMMA Appended ==
    ASSUME NEW s \in Seq(Pairs), NEW p \in Pairs
    PROVE  /\ Append(s, p) \in Seq(Pairs) /\ Append(s, p) # <<>>
           /\ Append(s, p)[Len(Append(s, p))] = p
           /\ \A k \in 1 .. Len(Append(s, p)) :
                 \/ k \in 1 .. Len(s) /\ Append(s, p)[k] = s[k]
                 \/ k = Len(Append(s, p)) /\ Append(s, p)[k] = p
OBVIOUS

\* The queue s of a good mux, with p behind it.
LEMMA AppendedOnce ==
    ASSUME NEW s \in Seq(Pairs), NEW p \in Pairs,
           \A j, k \in 1 .. Len(s) : s[j] = s[k] => j = k,
           \A k \in 1 .. Len(s) : s[k] # p
    PROVE  \A j, k \in 1 .. Len(Append(s, p)) : Append(s, p)[j] = Append(s, p)[k] => j = k
<1> DEFINE t == Append(s, p)
<1>1. \A k \in 1 .. Len(t) : \/ k \in 1 .. Len(s) /\ t[k] = s[k]
                             \/ k = Len(t) /\ t[k] = p
  BY Appended, Zenon
<1> HIDE DEF t
<1>2. ASSUME NEW j \in 1 .. Len(t), NEW k \in 1 .. Len(t), t[j] = t[k]
      PROVE  j = k
  <2>1. CASE j \in 1 .. Len(s) /\ t[j] = s[j]
    BY <1>1, <1>2, <2>1, Zenon
  <2>2. CASE j = Len(t) /\ t[j] = p
    BY <1>1, <1>2, <2>2, Zenon
  <2> QED
    BY <1>1, <2>1, <2>2, Zenon
<1> QED
  BY <1>2, Zenon DEF t

LEMMA OpenPendingKeeps ==
    ASSUME TunnelInv, NEW p \in Pairs, Free(p),
           edge.blocked = NoPair, edge.pair = NoPair, edge.pending = NoPair
    PROVE  LET h == openPending(p)
           IN  /\ h \in Mux /\ Good(h, loop) /\ Recorded(phase, records, h, loop)
               /\ h.pair = NoPair
<1> DEFINE s == edge.inbound
           g == [edge EXCEPT !.pairs[p] = newPair, !.pending = p]
           h == openPending(p)
<1>1. /\ edge \in Mux /\ s \in Seq(Pairs) /\ loop \in Loops /\ p \in 0 .. MaxPairs /\ p # NoPair
      /\ Held(edge, loop) /\ Queued(edge, loop) /\ Authorized(edge)
  BY Before, Places, Zenon DEF Mux, Good
<1>2. /\ newPair \in PairState /\ ~newPair.closed /\ ~newPair.authorized
      /\ newPair.splice = "none" /\ newPair.session = None
  BY Zenon DEF newPair, PairState
<1> HIDE DEF newPair
<1>3. DOMAIN s = 1 .. Len(s) /\ \A k \in 1 .. Len(s) : s[k] \in Pairs /\ s[k] # NoPair
  BY <1>1, Places
<1>4. loop.pair # p /\ \A k \in 1 .. Len(s) : s[k] # p
  BY <1>3, Zenon DEF Free, Range
<1>5. /\ g \in Mux /\ g.pair = NoPair /\ g.pending = p /\ g.inbound = s /\ g.blocked = NoPair
      /\ g.pairs[p] = newPair /\ \A q \in Pairs : q # p => g.pairs[q] = edge.pairs[q]
  BY <1>1, <1>2, Zenon DEF Mux
<1>6. \/ h = [g EXCEPT !.inbound = Append(@, p)]
      \/ h = [g EXCEPT !.blocked = p]
  BY Zenon DEF openPending
<1> HIDE DEF g, h
<1>7. /\ h \in Mux /\ h.pair = NoPair /\ h.pending = p /\ h.pairs = g.pairs
      /\ \/ h.inbound = Append(s, p) /\ h.blocked = NoPair
         \/ h.inbound = s /\ h.blocked = p
  <2>1. Append(s, p) \in Seq(Pairs)
    BY <1>1, Appended, Zenon
  <2>2. CASE h = [g EXCEPT !.inbound = Append(@, p)]
    BY <1>5, <2>1, <2>2, Zenon DEF Mux
  <2>3. CASE h = [g EXCEPT !.blocked = p]
    BY <1>1, <1>5, <2>3, Zenon DEF Mux
  <2> QED
    BY <1>6, <2>2, <2>3, Zenon
<1>8. h.pairs[p] = newPair /\ \A q \in Pairs : q # p => h.pairs[q] = edge.pairs[q]
  BY <1>5, <1>7, Zenon
<1>9. Held(h, loop)
  <2>1. loop.at # "accept" => loop.pair # NoPair /\ h.pairs[loop.pair] = edge.pairs[loop.pair]
    BY <1>1, <1>4, <1>8, Places, Zenon DEF Held, Loops
  <2> QED
    BY <1>1, <1>7, <2>1, Zenon DEF Held
<1>10. Queued(h, loop)
  <2>1. CASE h.inbound = Append(s, p) /\ h.blocked = NoPair
    <3>1. \A j, k \in 1 .. Len(Append(s, p)) : Append(s, p)[j] = Append(s, p)[k] => j = k
      BY <1>1, <1>4, AppendedOnce, Zenon DEF Queued
    <3>2. \A k \in 1 .. Len(Append(s, p)) : Append(s, p)[k] # NoPair
      BY <1>1, <1>3, Appended, Zenon
    <3>3. loop.at \in {"read", "check", "open", "recheck", "promote"} =>
              /\ loop.pair # NoPair
              /\ \A k \in 1 .. Len(Append(s, p)) : Append(s, p)[k] # loop.pair
      BY <1>1, <1>4, Appended, Zenon DEF Held, Queued
    <3> QED
      BY <2>1, <3>1, <3>2, <3>3, Zenon DEF Queued
  <2>2. CASE h.inbound = s /\ h.blocked = p
    BY <1>1, <1>4, <2>2, Zenon DEF Queued
  <2> QED
    BY <1>7, <2>1, <2>2, Zenon
<1>11. Routed(h, loop)
  <2>1. Append(s, p) # <<>> /\ Append(s, p)[Len(Append(s, p))] = p
    BY <1>1, Appended, Zenon
  <2>2. Newest(h, loop)
    BY <1>7, <2>1, Zenon DEF Newest
  <2> QED
    BY <1>2, <1>7, <1>8, <2>2, Zenon DEF Routed
<1>12. Authorized(h)
  <2> SUFFICES ASSUME NEW q \in Pairs
               PROVE  /\ h.pairs[q].splice # "none" => h.pairs[q].authorized
                      /\ h.pairs[q].authorized /\ ~h.pairs[q].closed => h.pair = q
    BY Zenon DEF Authorized
  <2>1. CASE q = p
    BY <1>2, <1>8, <2>1, Zenon
  <2>2. CASE q # p
    <3>1. h.pairs[q] = edge.pairs[q] /\ h.pair = edge.pair
      BY <1>7, <1>8, <2>2, Zenon
    <3> QED
      BY <1>1, <3>1, Zenon DEF Authorized
  <2> QED
    BY <2>1, <2>2, Zenon
<1>13. \A q \in Pairs : h.pairs[q].session # None /\ ~h.pairs[q].done =>
                            ~edge.pairs[q].done /\ h.pairs[q].session = edge.pairs[q].session
  BY <1>2, <1>8, Zenon
<1>14. Recorded(phase, records, h, loop)
  BY <1>13, Before, RecordedSame, Zenon
<1> QED
  BY <1>7, <1>9, <1>10, <1>11, <1>12, <1>14, Zenon DEF Good, h

LEMMA readLoopKeeps ==
    ASSUME TunnelInv, readLoop
    PROVE  TunnelInv'
<1> DEFINE f == Head(toAllocator)
<1>1. /\ phase' = phase /\ records' = records /\ loop' = loop /\ tun' = tun
      /\ toAllocator' = Tail(toAllocator) /\ toAllocator # <<>> /\ edge.blocked = NoPair
  BY Zenon DEF readLoop, core, client
<1>2. toAllocator' \in Seq(Frames) /\ f \in Frames
  <2>1. toAllocator \in Seq(Frames)
    BY Before, Zenon
  <2> QED
    BY <1>1, <2>1
<1>3. edge' \in Mux /\ Good(edge', loop) /\ Recorded(phase, records, edge', loop)
  <2> HIDE DEF f
  <2>1. CASE edge.pair # NoPair /\ edge' = ingest(edge, edge.pair, f)
    <3>1. edge.pair \in Pairs
      BY <2>1, Before, Places, Zenon DEF Mux
    <3>2. LET h == ingest(edge, edge.pair, f)
          IN  h \in Mux /\ Good(h, loop) /\ Recorded(phase, records, h, loop)
      BY <1>2, <3>1, Before, IngestKeeps, Zenon
    <3> QED
      BY <2>1, <3>2, Zenon
  <2>2. CASE /\ edge.pair = NoPair /\ edge.pending # NoPair
             /\ edge' = ingest(edge, edge.pending, f)
    <3>1. edge.pending \in Pairs
      BY <2>2, Before, Places, Zenon DEF Mux
    <3>2. LET h == ingest(edge, edge.pending, f)
          IN  h \in Mux /\ Good(h, loop) /\ Recorded(phase, records, h, loop)
      BY <1>2, <2>2, <3>1, Before, IngestKeeps, Zenon
    <3> QED
      BY <2>2, <3>2, Zenon
  <2>3. CASE /\ edge.pair = NoPair /\ edge.pending = NoPair
             /\ \E p \in Pairs : Free(p) /\ edge' = ingest(openPending(p), p, f)
    <3>1. PICK p \in Pairs : Free(p) /\ edge' = ingest(openPending(p), p, f)
      BY <2>3, Zenon
    <3>2. LET h == openPending(p)
          IN  /\ h \in Mux /\ Good(h, loop) /\ Recorded(phase, records, h, loop)
              /\ h.pair = NoPair
      BY <1>1, <2>3, <3>1, OpenPendingKeeps, Zenon
    <3>3. LET h == ingest(openPending(p), p, f)
          IN  h \in Mux /\ Good(h, loop) /\ Recorded(phase, records, h, loop)
      BY <1>2, <3>2, Before, IngestKeeps, Zenon
    <3> QED
      BY <3>1, <3>3, Zenon
  <2> QED
    BY <2>1, <2>2, <2>3, Zenon DEF readLoop, f
<1> QED
  BY <1>1, <1>2, <1>3, Before, StepInv, Zenon

LEMMA QueuePendingKeeps ==
    ASSUME TunnelInv, QueuePending
    PROVE  TunnelInv'
<1> DEFINE s == edge.inbound
           p == edge.blocked
           h == [edge EXCEPT !.inbound = Append(s, p), !.blocked = NoPair]
<1>1. /\ phase' = phase /\ records' = records /\ loop' = loop /\ Edge
      /\ edge' = h /\ p # NoPair
  BY Zenon DEF QueuePending, core, net, Edge
<1>2. /\ edge \in Mux /\ s \in Seq(Pairs) /\ p \in Pairs /\ NoPair \in 0 .. MaxPairs
      /\ Held(edge, loop) /\ Queued(edge, loop) /\ Routed(edge, loop) /\ Authorized(edge)
  BY <1>1, Before, Places, Zenon DEF Mux, Good
<1>3. /\ Append(s, p) \in Seq(Pairs) /\ Append(s, p) # <<>>
      /\ Append(s, p)[Len(Append(s, p))] = p
  BY <1>2, Appended, Zenon
<1>4. /\ h \in Mux /\ h.pair = edge.pair /\ h.pending = edge.pending /\ h.pairs = edge.pairs
      /\ h.inbound = Append(s, p) /\ h.blocked = NoPair
  BY <1>2, <1>3, Zenon DEF Mux
<1>5. \A k \in 1 .. Len(s) : s[k] \in Pairs /\ s[k] # NoPair
  BY <1>2, Places
<1> HIDE DEF h
<1>6. Held(h, loop) /\ Authorized(h)
  BY <1>2, <1>4, Zenon DEF Held, Authorized
<1>7. Queued(h, loop)
  <2>1. \A j, k \in 1 .. Len(Append(s, p)) : Append(s, p)[j] = Append(s, p)[k] => j = k
    BY <1>2, AppendedOnce, Zenon DEF Queued
  <2>2. \A k \in 1 .. Len(Append(s, p)) : Append(s, p)[k] # NoPair
    BY <1>1, <1>2, <1>5, Appended, Zenon
  <2>3. loop.at \in {"read", "check", "open", "recheck", "promote"} =>
            /\ loop.pair # NoPair
            /\ \A k \in 1 .. Len(Append(s, p)) : Append(s, p)[k] # loop.pair
    BY <1>2, Appended, Zenon DEF Held, Queued
  <2> QED
    BY <1>4, <2>1, <2>2, <2>3, Zenon DEF Queued
<1>8. Routed(h, loop)
  <2>1. edge.pair = NoPair /\ edge.pending \in {NoPair, p}
    BY <1>1, <1>2, Zenon DEF Routed
  <2>2. edge.pending # NoPair => ~edge.pairs[edge.pending].closed
    BY <1>2, Zenon DEF Routed
  <2> QED
    BY <1>3, <1>4, <2>1, <2>2, Zenon DEF Routed, Newest
<1>9. Recorded(phase, records, h, loop)
  BY <1>4, Before, Zenon DEF Recorded
<1> QED
  BY <1>1, <1>4, <1>6, <1>7, <1>8, <1>9, Before, EdgeStep, Zenon DEF Good

LEMMA QueueTimeoutKeeps ==
    ASSUME TunnelInv, QueueTimeout
    PROVE  TunnelInv'
<1> DEFINE p == edge.blocked
           g == [edge EXCEPT !.blocked = NoPair]
<1>1. phase' = phase /\ records' = records /\ loop' = loop /\ Edge /\ p # NoPair
  BY Zenon DEF QueueTimeout, core, Edge
<1>2. /\ edge \in Mux /\ p \in Pairs /\ NoPair \in 0 .. MaxPairs
      /\ Held(edge, loop) /\ Queued(edge, loop) /\ Routed(edge, loop) /\ Authorized(edge)
  BY <1>1, Before, Places, Zenon DEF Mux, Good
<1>3. edge.pair = NoPair /\ edge.pending \in {NoPair, p}
  BY <1>1, <1>2, Zenon DEF Routed
<1>4. /\ g \in Mux /\ g.pair = NoPair /\ g.pending = edge.pending /\ g.pairs = edge.pairs
      /\ g.inbound = edge.inbound /\ g.blocked = NoPair
  BY <1>2, <1>3, Zenon DEF Mux
<1>5. /\ Unused \in PairState /\ Unused.closed /\ ~Unused.authorized
      /\ Unused.splice = "none" /\ Unused.session = None
  BY Zenon DEF Unused, newPair, PairState
<1>6. /\ edge' \in Mux /\ edge'.pair = NoPair /\ edge'.pending = NoPair
      /\ edge'.blocked = NoPair /\ edge'.inbound = edge.inbound /\ edge'.pairs[p].closed
      /\ edge'.pairs[p] = Unused \/ Alike(edge.pairs[p], edge'.pairs[p])
      /\ \A q \in Pairs : q # p => edge'.pairs[q] = edge.pairs[q]
  <2>1. CASE edge.pending = NoPair
    <3>1. edge' = [g EXCEPT !.pairs[p] = Unused]
      BY <2>1, Zenon DEF QueueTimeout
    <3>0. g \in Mux /\ p \in Pairs /\ Unused \in PairState
      BY <1>2, <1>4, <1>5, Zenon
    <3> HIDE DEF g, p, Unused
    <3>2. LET h == [g EXCEPT !.pairs[p] = Unused]
          IN  /\ h \in Mux /\ h.pairs[p] = Unused
              /\ \A q \in Pairs : q # p => h.pairs[q] = g.pairs[q]
              /\ h.pair = g.pair /\ h.pending = g.pending
              /\ h.inbound = g.inbound /\ h.blocked = g.blocked
      BY <3>0, Zenon DEF Mux
    <3> QED
      BY <1>4, <1>5, <2>1, <3>1, <3>2, Zenon
  <2>2. CASE edge.pending # NoPair
    <3>1. edge.pending = p /\ ~edge.pairs[p].closed
      BY <1>2, <1>3, <2>2, Zenon DEF Routed
    <3>2. edge' = terminate(g, p)
      BY <2>2, <3>1, Zenon DEF QueueTimeout
    <3> HIDE DEF g
    <3>3. LET h == terminate(g, p)
          IN  /\ h \in Mux /\ h.inbound = g.inbound /\ h.blocked = g.blocked
              /\ h.pairs[p].closed /\ Alike(g.pairs[p], h.pairs[p])
              /\ \A q \in Pairs : q # p => h.pairs[q] = g.pairs[q]
              /\ IF g.pairs[p].closed THEN h = g ELSE h.pair = NoPair /\ h.pending = NoPair
      BY <1>2, <1>4, Terminated, Zenon
    <3>4. /\ edge' \in Mux /\ edge'.inbound = g.inbound /\ edge'.blocked = g.blocked
          /\ edge'.pairs[p].closed /\ Alike(g.pairs[p], edge'.pairs[p])
          /\ \A q \in Pairs : q # p => edge'.pairs[q] = g.pairs[q]
          /\ IF g.pairs[p].closed THEN edge' = g ELSE edge'.pair = NoPair /\ edge'.pending = NoPair
      BY <3>2, <3>3, Zenon
    <3> QED
      BY <1>4, <3>1, <3>4, Zenon
  <2> QED
    BY <2>1, <2>2, Zenon
<1> HIDE DEF p, g, Unused
<1>7. Held(edge', loop)
  <2>1. CASE loop.pair = p
    BY <1>2, <1>6, <2>1, Zenon DEF Held, Queued, p
  <2>2. CASE loop.pair # p
    <3>1. loop.at # "accept" => edge'.pairs[loop.pair] = edge.pairs[loop.pair]
      BY <1>6, <2>2, Holds, Zenon
    <3> QED
      BY <1>2, <1>3, <1>6, <3>1, Zenon DEF Held
  <2> QED
    BY <2>1, <2>2, Zenon
<1>8. Queued(edge', loop)
  <2>1. \A k \in 1 .. Len(edge.inbound) : edge.inbound[k] # NoPair
    <3>1. edge.inbound \in Seq(Pairs)
      BY <1>2, Zenon DEF Mux
    <3> QED
      BY <3>1, Places
  <2>2. loop.at # "accept" => loop.pair # NoPair
    BY <1>2, Zenon DEF Held
  <2> QED
    BY <1>2, <1>6, <2>1, <2>2, Zenon DEF Queued
<1>9. Routed(edge', loop)
  BY <1>6, Zenon DEF Routed
<1>10. Authorized(edge')
  <2> SUFFICES ASSUME NEW q \in Pairs
               PROVE  /\ edge'.pairs[q].splice # "none" => edge'.pairs[q].authorized
                      /\ edge'.pairs[q].authorized /\ ~edge'.pairs[q].closed => edge'.pair = q
    BY Zenon DEF Authorized
  <2>1. /\ edge.pairs[q].splice # "none" => edge.pairs[q].authorized
        /\ edge.pairs[q].authorized /\ ~edge.pairs[q].closed => edge.pair = q
    BY <1>2, Zenon DEF Authorized
  <2>2. CASE q = p
    BY <1>5, <1>6, <2>1, <2>2, Zenon DEF Alike
  <2>3. CASE q # p
    BY <1>3, <1>6, <2>1, <2>3, Zenon
  <2> QED
    BY <2>2, <2>3, Zenon
<1>11. \A q \in Pairs : edge'.pairs[q].session # None /\ ~edge'.pairs[q].done =>
                            ~edge.pairs[q].done /\ edge'.pairs[q].session = edge.pairs[q].session
  BY <1>5, <1>6, Zenon DEF Alike
<1>12. Recorded(phase, records, edge', loop)
  BY <1>11, Before, RecordedSame, Zenon
<1> QED
  BY <1>1, <1>6, <1>7, <1>8, <1>9, <1>10, <1>12, Before, EdgeStep, Zenon DEF Good

-----------------------------------------------------------------------------
(* Every step.                                                             *)

LEMMA NextKeeps ==
    ASSUME TunnelInv, Next
    PROVE  TunnelInv'
<1>1. ASSUME NEW p \in Pairs, Splices(p) \/ Relay(p) PROVE TunnelInv'
  BY <1>1, AuthorizeWatchKeeps, SpliceWatchKeeps, SpliceReturnsKeeps, StreamsKeep, Zenon
     DEF Splices
<1>2. ASSUME NEW e \in Executions, Cancel(e) \/ Finish(e) PROVE TunnelInv'
  BY <1>2, CancelKeeps, FinishKeeps, Zenon
<1>3. ASSUME NEW k \in {"current", "late"}, handleTunnelOpen(k) \/ Bind(k) PROVE TunnelInv'
  BY <1>3, NetworkKeeps, BindKeeps, Zenon
<1>4. ASSUME readLoop \/ QueuePending \/ QueueTimeout PROVE TunnelInv'
  BY <1>4, readLoopKeeps, QueuePendingKeeps, QueueTimeoutKeeps, Zenon
<1>5. ASSUME Restart \/ Lose \/ RunTunnel \/ readLoopClient \/ ClientQueueTimeout
      PROVE  TunnelInv'
  BY <1>5, RestartKeeps, NetworkKeeps, RunTunnelKeeps, Zenon
<1> QED
  BY <1>1, <1>2, <1>3, <1>4, <1>5, AcceptLoopKeeps, Zenon DEF Next

LEMMA StutterKeeps ==
    ASSUME TunnelInv, UNCHANGED vars
    PROVE  TunnelInv'
<1>1. Allocator /\ tun' = tun /\ toAllocator' = toAllocator
  BY Zenon DEF vars, client, net, Allocator
<1> QED
  BY <1>1, Before, ClientStep, Zenon

\* The inductive invariant of the allocator's edge: the mux, the queue of pending
\* pairs, the accept loop and the registry of sessions agree (mux.go, pair.go,
\* tunnel_edge.go, registry.go).
THEOREM Edged == Spec => []TunnelInv
<1>1. Init => TunnelInv
  BY InitInv, Zenon
<1>2. TunnelInv /\ [Next]_vars => TunnelInv'
  BY NextKeeps, StutterKeeps, Zenon
<1> QED
  BY <1>1, <1>2, PTL DEF Spec

\* Whatever frames, timeouts, rejections and restarts come together, the mux routes
\* the client to a pair that is alive and to the authorized one, if there is one:
\* removePair by key never takes out the wrong pair (terminate, promote).
THEOREM Routes == Spec => []RoutesToLivePair
<1>1. TunnelInv => RoutesToLivePair
  BY Zenon DEF TunnelInv, Good, Routed, Authorized, RoutesToLivePair
<1> QED
  BY <1>1, Edged, PTL

\* A live session is the one session of its execution's record, and outlives the
\* execution only until the accept loop looks again (OpenTunnelSession, Invalidate).
THEOREM SessionsRecorded == Spec => []SessionsAreRecorded
<1>1. TunnelInv => SessionsAreRecorded
  BY Zenon DEF TunnelInv, Recorded, SessionsAreRecorded, Live
<1> QED
  BY <1>1, Edged, PTL

\* One container of an execution serves one client session at a time: two pairs of
\* the edge never carry live sessions of the same execution (Registry.Open).
THEOREM OneSession ==
    Spec => [](\A p, q \in Pairs :
                  Live(p) /\ Live(q) /\ edge.pairs[p].session = edge.pairs[q].session => p = q)
<1>1. TunnelInv => \A p, q \in Pairs :
          Live(p) /\ Live(q) /\ edge.pairs[p].session = edge.pairs[q].session => p = q
  <2> SUFFICES ASSUME TunnelInv, NEW p \in Pairs, NEW q \in Pairs, Live(p), Live(q),
                      edge.pairs[p].session = edge.pairs[q].session
               PROVE  p = q
    BY Zenon
  <2>1. /\ records[edge.pairs[p].session].session = p
        /\ records[edge.pairs[q].session].session = q
    BY Zenon DEF TunnelInv, Recorded, Live
  <2> QED
    BY <2>1, Zenon
<1> QED
  BY <1>1, Edged, PTL

-----------------------------------------------------------------------------
(***************************************************************************)
(* The flow control of a stream of the tunnel is safe and does not block   *)
(* itself, for every window, threshold and segment size that               *)
(* CreditAssumption allows.                                                *)
(***************************************************************************)
CONSTANTS Window, Threshold, MaxSeg
VARIABLES window, flight, avail, unread, pending, granted, lost

Flow == INSTANCE StreamCredit

LEMMA InitCredit == ASSUME Flow!CreditAssumption PROVE Flow!Init => Flow!CreditInv
  BY DEF Flow!CreditAssumption, Flow!Init, Flow!CreditInv, Flow!Amounts, Flow!Conserved

\* What is lost is accounted.
LEMMA Shrink ==
    ASSUME NEW w \in Nat, NEW f \in Nat, NEW u \in Nat, NEW p \in Nat, NEW g \in Nat,
           NEW l \in Nat, NEW a \in Nat,
           NEW f2 \in 0 .. f, NEW u2 \in 0 .. u, NEW p2 \in 0 .. p, NEW g2 \in 0 .. g
    PROVE  LET k == l + (f - f2) + (u - u2) + (p - p2) + (g - g2) IN
           /\ k \in Nat
           /\ w + f2 + u2 + p2 + g2 + k = w + f + u + p + g + l
           /\ f + w + p + g <= a => f2 + w + p2 + g2 <= a
  OBVIOUS

\* One case per way a byte or a grant moves.
LEMMA NextCredit == ASSUME Flow!CreditAssumption PROVE Flow!CreditInv /\ [Flow!Next]_(Flow!vars) => Flow!CreditInv'
<1> SUFFICES ASSUME Flow!CreditInv, [Flow!Next]_(Flow!vars)
             PROVE  Flow!CreditInv'
  OBVIOUS
<1> USE DEF Flow!CreditAssumption, Flow!CreditInv, Flow!Amounts, Flow!Conserved
<1>1. ASSUME NEW n \in 1 .. Window, Flow!Send(n)
      PROVE  Flow!CreditInv'
  BY <1>1 DEF Flow!Send
<1>2. ASSUME NEW n \in 1 .. Window, Flow!Receive(n)
      PROVE  Flow!CreditInv'
  BY <1>2 DEF Flow!Receive
<1>3. ASSUME NEW n \in 1 .. Window, Flow!Read(n)
      PROVE  Flow!CreditInv'
  <2>1. CASE pending + n >= Threshold
    BY <1>3, <2>1 DEF Flow!Read
  <2>2. CASE ~(pending + n >= Threshold)
    BY <1>3, <2>2 DEF Flow!Read
  <2> QED
    BY <2>1, <2>2, Zenon
<1>4. ASSUME NEW n \in 1 .. Window, Flow!Credit(n)
      PROVE  Flow!CreditInv'
  BY <1>4 DEF Flow!Credit
<1>5. CASE Flow!Lose
  <2>1. /\ flight' \in 0 .. flight /\ unread' \in 0 .. unread
        /\ pending' \in 0 .. pending /\ granted' \in 0 .. granted
        /\ window' = window /\ avail' = avail
        /\ lost' = lost + (flight - flight') + (unread - unread')
                        + (pending - pending') + (granted - granted')
    BY <1>5, Zenon DEF Flow!Lose
  <2>2. /\ lost' \in Nat
        /\ window + flight' + unread' + pending' + granted' + lost' = Window
        /\ flight' + window + pending' + granted' <= avail
    <3> SUFFICES ASSUME NEW f2 \in 0 .. flight, NEW u2 \in 0 .. unread,
                        NEW p2 \in 0 .. pending, NEW g2 \in 0 .. granted
                 PROVE  LET k == lost + (flight - f2) + (unread - u2)
                                      + (pending - p2) + (granted - g2) IN
                        /\ k \in Nat
                        /\ window + f2 + u2 + p2 + g2 + k = Window
                        /\ f2 + window + p2 + g2 <= avail
      BY <2>1, Zenon
    <3>1. /\ window \in Nat /\ flight \in Nat /\ avail \in Nat /\ unread \in Nat
          /\ pending \in Nat /\ granted \in Nat /\ lost \in Nat
      OBVIOUS
    <3> QED
      BY <3>1, Shrink
  <2>3. /\ flight' \in Nat /\ unread' \in Nat /\ granted' \in Nat
        /\ pending' \in 0 .. Threshold - 1 /\ window' \in Nat /\ avail' \in Nat
    BY <1>5 DEF Flow!Lose
  <2> QED
    BY <2>1, <2>2, <2>3, Zenon
<1>6. CASE UNCHANGED Flow!vars
  BY <1>6, Zenon DEF Flow!vars
<1> QED
  BY <1>1, <1>2, <1>3, <1>4, <1>5, <1>6, Zenon DEF Flow!Next

\* The inductive invariant holds in every reachable state.
THEOREM CreditInvariance == ASSUME Flow!CreditAssumption PROVE Flow!Spec => []Flow!CreditInv
  BY InitCredit, NextCredit, PTL DEF Flow!Spec

\* Every byte of the receive window is unsent, in flight, unread, kept back,
\* granted or lost: neither sendData nor Read makes or drops credit.
THEOREM CreditIsConserved == ASSUME Flow!CreditAssumption PROVE Flow!Spec => []Flow!Conserved
<1>1. Flow!CreditInv => Flow!Conserved
  BY Zenon DEF Flow!CreditInv
<1> QED
  BY <1>1, CreditInvariance, PTL

\* ingest never meets more data than recvAvail has room for.
THEOREM WindowIsRespected == ASSUME Flow!CreditAssumption PROVE Flow!Spec => []Flow!NoOverrun
<1>1. Flow!CreditInv => Flow!NoOverrun
  BY DEF Flow!CreditAssumption, Flow!CreditInv, Flow!Amounts, Flow!NoOverrun
<1> QED
  BY <1>1, CreditInvariance, PTL

\* A writer that waits in sendData waits for something to be read or granted: the
\* credit that windowUpdateThreshold holds back never blocks it on its own.
THEOREM ThresholdNeverBlocks == ASSUME Flow!CreditAssumption PROVE Flow!Spec => []Flow!NoStall
<1>1. Flow!CreditInv => Flow!NoStall
  BY DEF Flow!CreditAssumption, Flow!CreditInv, Flow!Amounts, Flow!Conserved, Flow!NoStall
<1> QED
  BY <1>1, CreditInvariance, PTL
=============================================================================
