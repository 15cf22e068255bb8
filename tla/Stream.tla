------------------------------- MODULE Stream -------------------------------
(***************************************************************************)
(* internal/tunnel/yggdrasil/stream.go: one logical stream of an           *)
(* authenticated pair.  At either end goroutines read, write and close the *)
(* stream, and the pair's read loop ingests the frames of the peer.        *)
(* s.mu protects the record of the stream; frames are written after it is  *)
(* released, so a frame is a step of its own.  The mesh delivers the       *)
(* packets of a pair in order.                                             *)
(***************************************************************************)
EXTENDS Integers, Sequences, SequencesExt, FiniteSets

CONSTANTS
    streamWindowSize,
    windowUpdateThreshold,
    maxSeg,             \* the largest payload of a frame
    Payloads,           \* how many bytes the application at each end may write
    Closes,             \* the calls that may end a direction, a stream or the pair
    Reasons,            \* the reasons that callers at each end give
    None

End == {"client", "allocator"}
Other(e) == IF e = "client" THEN "allocator" ELSE "client"

ASSUME StreamAssumption ==
    /\ streamWindowSize \in Nat /\ windowUpdateThreshold \in Nat \ {0} /\ maxSeg \in Nat \ {0}
    /\ maxSeg + windowUpdateThreshold - 1 <= streamWindowSize
    /\ Payloads \subseteq [End -> Nat]
    /\ Closes \subseteq {"CloseRead", "Close", "PairClose"}

VARIABLES
    stream,     \* streamConn of each end
    pair,       \* pairConn of each end: "open", "closing" (the close frame is out), "closed"
    goroutine,  \* what the callers at each end are doing
    wire,       \* the packets on their way to each end
    marks       \* history: how much each end had sent when it half-closed and when it tore down

vars == <<stream, pair, goroutine, wire, marks>>

reasonCodes ==
    [closed |-> 1, execution_ended |-> 2, grant_rejected |-> 3, grant_expired |-> 4,
     grant_revoked |-> 5, unauthorized |-> 6, session_failed |-> 7, mesh_unreachable |-> 8]

reasonFromCode(code) ==
    IF \E r \in DOMAIN reasonCodes : reasonCodes[r] = code
    THEN CHOOSE r \in DOMAIN reasonCodes : reasonCodes[r] = code
    ELSE "session_failed"

newStream ==
    [inbox |-> <<>>, eof |-> FALSE, peerErr |-> None, ending |-> FALSE, closed |-> FALSE,
     readDone |-> FALSE, writeEOF |-> FALSE, recvAvail |-> streamWindowSize,
     grantPending |-> 0, peerWindow |-> streamWindowSize]

\* A caller: the n bytes it writes, the segment to send, the bytes reserved for a
\* frame not yet written, the grant not yet written, what was sent and read, and how
\* each loop ended.
idle(n) ==
    [payload |-> n, segment |-> 0, reserved |-> <<>>, grant |-> 0, sent |-> <<>>, got |-> <<>>,
     writer |-> "open", reader |-> "open"]

Init ==
    /\ stream = [e \in End |-> newStream]
    /\ pair = [e \in End |-> "open"]
    /\ goroutine \in {[e \in End |-> idle(p[e])] : p \in Payloads}
    /\ wire = [e \in End |-> <<>>]
    /\ marks = [e \in End |-> [eof |-> -1, reason |-> -1, why |-> {}]]

\* writeFrame: nothing is sent once the pair is closed.
writeFrame(e, f) ==
    wire' = IF pair[e] = "closed" THEN wire ELSE [wire EXCEPT ![Other(e)] = Append(@, f)]

Torn(e, r) ==
    marks' = [marks EXCEPT ![e] =
        [@ EXCEPT !.reason = IF @ = -1 THEN Len(goroutine[e].sent) ELSE @, !.why = @ \cup {r}]]

-----------------------------------------------------------------------------
(* Writing.                                                                *)

Unwritten(e) == goroutine[e].payload - Len(goroutine[e].sent)

Writing(e) == goroutine[e].writer = "open" /\ goroutine[e].reserved = <<>>

\* The next segment of what the caller writes: Write cuts it at maxSeg.
Write(e, n) ==
    /\ Writing(e) /\ goroutine[e].segment = 0 /\ n <= Unwritten(e)
    /\ goroutine' = [goroutine EXCEPT ![e].segment = n]
    /\ UNCHANGED <<stream, pair, wire, marks>>

\* Mutant: any window is room enough.
sendDataUnchecked(e) ==
    LET n == goroutine[e].segment IN
    /\ Writing(e) /\ n > 0 /\ stream[e].peerWindow > 0
    /\ ~stream[e].closed /\ ~stream[e].writeEOF /\ stream[e].peerErr = None
    /\ stream' = [stream EXCEPT ![e].peerWindow = @ - n]
    /\ goroutine' = [goroutine EXCEPT ![e].segment = 0, ![e].reserved =
            [i \in 1 .. n |-> Len(goroutine[e].sent) + i]]
    /\ UNCHANGED <<pair, wire, marks>>

\* sendData waits until the window has room for the whole segment.
sendData(e) ==
    LET n == goroutine[e].segment IN
    /\ Writing(e) /\ n > 0 /\ stream[e].peerWindow >= n
    /\ ~stream[e].closed /\ ~stream[e].writeEOF /\ stream[e].peerErr = None
    /\ stream' = [stream EXCEPT ![e].peerWindow = @ - n]
    /\ goroutine' = [goroutine EXCEPT ![e].segment = 0, ![e].reserved =
            [i \in 1 .. n |-> Len(goroutine[e].sent) + i]]
    /\ UNCHANGED <<pair, wire, marks>>

\* The frame goes out, unless the pair was closed meanwhile.
writeData(e) ==
    LET b == goroutine[e].reserved IN
    /\ b # <<>>
    /\ writeFrame(e, [type |-> "data", bytes |-> b])
    /\ goroutine' = [goroutine EXCEPT ![e].reserved = <<>>,
            ![e].sent = IF pair[e] = "closed" THEN @ ELSE @ \o b,
            ![e].writer = IF pair[e] = "closed" THEN "failed" ELSE @]
    /\ UNCHANGED <<stream, pair, marks>>

writeFails(e) ==
    /\ Writing(e) /\ goroutine[e].segment > 0
    /\ stream[e].closed \/ stream[e].writeEOF \/ stream[e].peerErr # None
    /\ goroutine' = [goroutine EXCEPT ![e].writer = "failed"]
    /\ UNCHANGED <<stream, pair, wire, marks>>

\* The writer half-closes once it has written everything, as relay does.
CloseWrite(e) ==
    /\ Writing(e) /\ Unwritten(e) = 0
    /\ goroutine' = [goroutine EXCEPT ![e].writer = "done"]
    /\ IF stream[e].closed \/ pair[e] = "closed"
       THEN UNCHANGED <<stream, wire, marks>>
       ELSE /\ stream' = [stream EXCEPT ![e].writeEOF = TRUE]
            /\ writeFrame(e, [type |-> "eof"])
            /\ marks' = [marks EXCEPT ![e].eof = Len(goroutine[e].sent)]
    /\ UNCHANGED pair

-----------------------------------------------------------------------------
(* Reading.                                                                *)

Reading(e) == goroutine[e].reader = "open" /\ goroutine[e].grant = 0

\* Mutant: credit is kept back at the threshold.
ReadLate(e, n) ==
    LET s == stream[e]
        due == s.grantPending + n
    IN
    /\ Reading(e) /\ ~s.readDone /\ n <= Len(s.inbox)
    /\ stream' = [stream EXCEPT
            ![e].inbox = SubSeq(@, n + 1, Len(@)), ![e].recvAvail = @ + n,
            ![e].grantPending = IF due > windowUpdateThreshold THEN 0 ELSE due]
    /\ goroutine' = [goroutine EXCEPT
            ![e].got = @ \o SubSeq(s.inbox, 1, n),
            ![e].grant = IF due > windowUpdateThreshold THEN due ELSE 0]
    /\ UNCHANGED <<pair, wire, marks>>

\* Read returns n buffered bytes; a grant is due at the threshold.
Read(e, n) ==
    LET s == stream[e]
        due == s.grantPending + n
    IN
    /\ Reading(e) /\ ~s.readDone /\ n <= Len(s.inbox)
    /\ stream' = [stream EXCEPT
            ![e].inbox = SubSeq(@, n + 1, Len(@)), ![e].recvAvail = @ + n,
            ![e].grantPending = IF due >= windowUpdateThreshold THEN 0 ELSE due]
    /\ goroutine' = [goroutine EXCEPT
            ![e].got = @ \o SubSeq(s.inbox, 1, n),
            ![e].grant = IF due >= windowUpdateThreshold THEN due ELSE 0]
    /\ UNCHANGED <<pair, wire, marks>>

writeGrant(e) ==
    /\ goroutine[e].grant > 0
    /\ writeFrame(e, [type |-> "update", n |-> goroutine[e].grant])
    /\ goroutine' = [goroutine EXCEPT ![e].grant = 0]
    /\ UNCHANGED <<stream, pair, marks>>

\* end(nil): closed without notice, unless another goroutine is ending the stream.
Ended(s) == IF s.ending THEN s ELSE [s EXCEPT !.ending = TRUE, !.closed = TRUE]

\* Mutant: a reason is returned before the bytes that came before it.
ReadEndsEarly(e) ==
    LET s == stream[e] IN
    /\ Reading(e)
    /\ \/ /\ s.readDone
          /\ goroutine' = [goroutine EXCEPT ![e].reader = "aborted"]
          /\ stream' = stream
       \/ /\ ~s.readDone /\ s.peerErr # None
          /\ goroutine' = [goroutine EXCEPT ![e].reader =
                IF s.peerErr.from = e THEN "aborted" ELSE s.peerErr.reason]
          /\ stream' = [stream EXCEPT ![e] = Ended(@)]
       \/ /\ ~s.readDone /\ s.inbox = <<>> /\ s.peerErr = None /\ s.eof
          /\ goroutine' = [goroutine EXCEPT ![e].reader = "eof"]
          /\ stream' = stream
       \/ /\ ~s.readDone /\ s.inbox = <<>> /\ s.peerErr = None /\ ~s.eof /\ s.closed
          /\ goroutine' = [goroutine EXCEPT ![e].reader = "aborted"]
          /\ stream' = stream
    /\ UNCHANGED <<pair, wire, marks>>

\* How Read returns with nothing read.
ReadEnds(e) ==
    LET s == stream[e] IN
    /\ Reading(e)
    /\ \/ /\ s.readDone
          /\ goroutine' = [goroutine EXCEPT ![e].reader = "aborted"]
          /\ stream' = stream
       \/ /\ ~s.readDone /\ s.inbox = <<>> /\ s.peerErr # None
          /\ goroutine' = [goroutine EXCEPT ![e].reader =
                IF s.peerErr.from = e THEN "aborted" ELSE s.peerErr.reason]
          /\ stream' = [stream EXCEPT ![e] = Ended(@)]
       \/ /\ ~s.readDone /\ s.inbox = <<>> /\ s.peerErr = None /\ s.eof
          /\ goroutine' = [goroutine EXCEPT ![e].reader = "eof"]
          /\ stream' = stream
       \/ /\ ~s.readDone /\ s.inbox = <<>> /\ s.peerErr = None /\ ~s.eof /\ s.closed
          /\ goroutine' = [goroutine EXCEPT ![e].reader = "aborted"]
          /\ stream' = stream
    /\ UNCHANGED <<pair, wire, marks>>

\* Mutant: what is dropped counts as room again.
CloseReadReturns(e) ==
    /\ "CloseRead" \in Closes /\ ~stream[e].readDone
    /\ stream' = [stream EXCEPT ![e].readDone = TRUE, ![e].inbox = <<>>,
                    ![e].recvAvail = @ + Len(stream[e].inbox)]
    /\ UNCHANGED <<pair, goroutine, wire, marks>>

CloseRead(e) ==
    /\ "CloseRead" \in Closes /\ ~stream[e].readDone
    /\ stream' = [stream EXCEPT ![e].readDone = TRUE, ![e].inbox = <<>>]
    /\ UNCHANGED <<pair, goroutine, wire, marks>>

-----------------------------------------------------------------------------
(* Teardown.                                                               *)

\* Close and CloseWithReason: end, up to the close frame; and from there on.
Close(e, r) ==
    /\ "Close" \in Closes /\ ~stream[e].ending
    /\ stream' = [stream EXCEPT ![e].ending = TRUE]
    /\ writeFrame(e, [type |-> "close", code |-> reasonCodes[r]])
    /\ Torn(e, r)
    /\ UNCHANGED <<pair, goroutine>>

Closed(e) ==
    /\ stream[e].ending /\ ~stream[e].closed
    /\ stream' = [stream EXCEPT ![e].closed = TRUE]
    /\ UNCHANGED <<pair, goroutine, wire, marks>>

\* The streams of a pair that ends: one that was removed keeps its own outcome.
Terminated(s, from, r) ==
    IF s.closed THEN s ELSE Ended([s EXCEPT !.peerErr = [from |-> from, reason |-> r]])

\* pairConn.endAll: the peer is told first.
PairClose(e, r) ==
    /\ "PairClose" \in Closes /\ pair[e] = "open"
    /\ pair' = [pair EXCEPT ![e] = "closing"]
    /\ writeFrame(e, [type |-> "pairclose", code |-> reasonCodes[r]])
    /\ Torn(e, r)
    /\ UNCHANGED <<stream, goroutine>>

\* Mutant: the streams of the pair are not ended.
PairClosedOnly(e) ==
    /\ pair[e] = "closing"
    /\ pair' = [pair EXCEPT ![e] = "closed"]
    /\ stream' = stream
    /\ UNCHANGED <<goroutine, wire, marks>>

PairClosed(e) ==
    /\ pair[e] = "closing"
    /\ pair' = [pair EXCEPT ![e] = "closed"]
    /\ stream' = [stream EXCEPT ![e] = Terminated(@, e, "closed")]
    /\ UNCHANGED <<goroutine, wire, marks>>

-----------------------------------------------------------------------------
(* The read loop.                                                          *)

\* streamConn.ingest for a stream that is still registered.
ingested(e, s, f) ==
    CASE f.type = "data" /\ Len(f.bytes) <= s.recvAvail ->
            [s EXCEPT !.recvAvail = @ - Len(f.bytes), !.inbox = @ \o f.bytes]
      [] f.type = "data" /\ Len(f.bytes) > s.recvAvail -> Ended(s)
      [] f.type = "eof" -> [s EXCEPT !.eof = TRUE]
      [] f.type = "update" -> [s EXCEPT !.peerWindow = @ + f.n]
      [] f.type = "close" ->
            IF s.peerErr = None
            THEN [s EXCEPT !.peerErr = [from |-> Other(e), reason |-> reasonFromCode(f.code)]]
            ELSE s

\* pairConn.ingest; the mux drops the packets of a pair it no longer has.  The
\* notice of a flow-control violation is left out: NoOverrun.
ingest(e) ==
    LET f == Head(wire[e]) IN
    /\ wire[e] # <<>>
    /\ wire' = [wire EXCEPT ![e] = Tail(@)]
    /\ \/ /\ pair[e] = "closed" \/ (f.type # "pairclose" /\ stream[e].closed)
          /\ UNCHANGED <<stream, pair>>
       \/ /\ pair[e] # "closed" /\ f.type # "pairclose" /\ ~stream[e].closed
          /\ stream' = [stream EXCEPT ![e] = ingested(e, @, f)]
          /\ UNCHANGED pair
       \/ /\ pair[e] = "open" /\ f.type = "pairclose"
          /\ pair' = [pair EXCEPT ![e] = "closed"]
          /\ stream' = [stream EXCEPT ![e] =
                Terminated(@, Other(e), reasonFromCode(f.code))]
    /\ UNCHANGED <<goroutine, marks>>

-----------------------------------------------------------------------------
Step(e) ==
    \/ \E n \in 1 .. maxSeg : Write(e, n)
    \/ sendData(e)
    \/ writeData(e)
    \/ writeFails(e)
    \/ CloseWrite(e)
    \/ \E n \in 1 .. streamWindowSize : Read(e, n)
    \/ writeGrant(e)
    \/ ReadEnds(e)
    \/ Closed(e)
    \/ PairClosed(e)
    \/ ingest(e)

Next ==
    \/ \E e \in End : Step(e) \/ CloseRead(e)
    \/ \E e \in End : \E r \in Reasons[e] : Close(e, r) \/ PairClose(e, r)

Spec == Init /\ [][Next]_vars

\* Goroutines that can go on do, and packets arrive.
Fairness ==
    \A e \in End :
        /\ WF_vars(\E n \in 1 .. maxSeg : Write(e, n))
        /\ WF_vars(sendData(e)) /\ WF_vars(writeData(e)) /\ WF_vars(writeFails(e))
        /\ WF_vars(CloseWrite(e)) /\ WF_vars(writeGrant(e)) /\ WF_vars(ReadEnds(e))
        /\ WF_vars(\E n \in 1 .. streamWindowSize : Read(e, n))
        /\ WF_vars(Closed(e)) /\ WF_vars(PairClosed(e)) /\ WF_vars(ingest(e))

FairSpec == Spec /\ Fairness

-----------------------------------------------------------------------------
(* Properties.                                                             *)

Outcome(e) ==
    IF goroutine[e].reader \in {"open", "eof", "aborted"} THEN goroutine[e].reader ELSE "reason"

Pipe(e) == INSTANCE ByteStream WITH
    sent <- goroutine[e].sent, got <- goroutine[Other(e)].got,
    eofAt <- marks[e].eof, reasonAt <- marks[e].reason, outcome <- Outcome(Other(e))

\* Each direction is the pipe that tunnel.Conn promises: Read returns the bytes of
\* the peer in order, and its end of file or its reason only after them.
ReliablePipe ==
    /\ \A e \in End : Pipe(e)!Init
    /\ [][\A e \in End : [Pipe(e)!Next]_(Pipe(e)!vars)]_vars

Count(frames, Amount(_)) == FoldLeft(LAMBDA n, f : n + Amount(f), 0, frames)
Data(f) == IF f.type = "data" THEN Len(f.bytes) ELSE 0
Grant(f) == IF f.type = "update" THEN f.n ELSE 0
InFlight(e) == Len(goroutine[e].reserved) + Count(wire[Other(e)], Data)
Granted(e) == goroutine[Other(e)].grant + Count(wire[e], Grant)

Credit(e) == INSTANCE StreamCredit WITH
    Window <- streamWindowSize, Threshold <- windowUpdateThreshold, MaxSeg <- maxSeg,
    window <- stream[e].peerWindow, flight <- InFlight(e),
    avail <- stream[Other(e)].recvAvail, unread <- Len(stream[Other(e)].inbox),
    pending <- stream[Other(e)].grantPending, granted <- Granted(e),
    lost <- streamWindowSize - stream[e].peerWindow - InFlight(e)
              - Len(stream[Other(e)].inbox) - stream[Other(e)].grantPending - Granted(e)

\* The bytes and the window updates of each direction move as StreamCredit says.
CreditKept ==
    /\ \A e \in End : Credit(e)!Init
    /\ [][\A e \in End : [Credit(e)!Next]_(Credit(e)!vars)]_vars

\* ingest never takes a peer that follows sendData for one that overruns the window.
NeverOverrun ==
    \A e \in End : wire[e] # <<>> /\ Head(wire[e]).type = "data" /\ ~stream[e].closed =>
        Len(Head(wire[e]).bytes) <= stream[e].recvAvail

\* Everything written is read and both readers see the end, unless an end closes or
\* aborts reading: a writer blocked on the window is always woken (sendData, Read).
AllDelivered ==
    \/ <>(\E e \in End : marks[e].why # {} \/ stream[e].readDone)
    \/ \A e \in End :
        <>[](goroutine[e].reader = "eof" /\ Len(goroutine[e].got) = goroutine[Other(e)].payload)

\* A teardown frees every caller: none blocks for ever once either end closed.
TeardownReleases ==
    \A e \in End : marks[e].why # {} ~> \A d \in End :
        goroutine[d].reader # "open" /\ goroutine[d].writer # "open"
=============================================================================
