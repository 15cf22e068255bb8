---------------------------- MODULE StreamCredit ----------------------------
(***************************************************************************)
(* The flow control of one direction of a stream, in numbers of bytes:     *)
(* where each byte of the receive window is.                               *)
(***************************************************************************)
EXTENDS Integers

CONSTANTS
    Window,     \* streamWindowSize
    Threshold,  \* windowUpdateThreshold
    MaxSeg      \* pairConn.maxSeg

\* What the protocol needs of its constants.
CreditAssumption ==
    /\ Window \in Nat /\ Threshold \in Nat \ {0} /\ MaxSeg \in Nat \ {0}
    /\ MaxSeg + Threshold - 1 <= Window

VARIABLES
    window,   \* what the writer may still send (peerWindow)
    flight,   \* sent and not received
    avail,    \* what the reader may still accept (recvAvail)
    unread,   \* received and not read (inbox)
    pending,  \* read and not granted back (grantPending)
    granted,  \* granted back and not known to the writer
    lost      \* discarded on either side: never granted back

vars == <<window, flight, avail, unread, pending, granted, lost>>

Init ==
    /\ window = Window /\ avail = Window
    /\ flight = 0 /\ unread = 0 /\ pending = 0 /\ granted = 0 /\ lost = 0

Send(n) ==
    /\ n \in 1 .. MaxSeg /\ n <= window
    /\ window' = window - n /\ flight' = flight + n
    /\ UNCHANGED <<avail, unread, pending, granted, lost>>

Receive(n) ==
    /\ n \in 1 .. flight
    /\ flight' = flight - n /\ avail' = avail - n /\ unread' = unread + n
    /\ UNCHANGED <<window, pending, granted, lost>>

Read(n) ==
    /\ n \in 1 .. unread
    /\ unread' = unread - n /\ avail' = avail + n
    /\ IF pending + n >= Threshold
       THEN pending' = 0 /\ granted' = granted + pending + n
       ELSE pending' = pending + n /\ granted' = granted
    /\ UNCHANGED <<window, flight, lost>>

Credit(n) ==
    /\ n \in 1 .. granted
    /\ granted' = granted - n /\ window' = window + n
    /\ UNCHANGED <<flight, avail, unread, pending, lost>>

\* Bytes or credit are dropped: the stream is closed or its read side aborted.
\* What the reader drops from its inbox stays accounted in avail.
Lose ==
    /\ flight' \in 0 .. flight /\ unread' \in 0 .. unread
    /\ pending' \in 0 .. pending /\ granted' \in 0 .. granted
    /\ lost' = lost + (flight - flight') + (unread - unread')
                    + (pending - pending') + (granted - granted')
    /\ UNCHANGED <<window, avail>>

Next ==
    \/ \E n \in 1 .. Window : Send(n) \/ Receive(n) \/ Read(n) \/ Credit(n)
    \/ Lose

Spec == Init /\ [][Next]_vars

-----------------------------------------------------------------------------
Amounts ==
    /\ window \in Nat /\ flight \in Nat /\ avail \in Nat /\ unread \in Nat
    /\ pending \in 0 .. Threshold - 1 /\ granted \in Nat /\ lost \in Nat

\* Every byte of the window is in one place.
Conserved == window + flight + unread + pending + granted + lost = Window

\* Data in flight never exceeds what the reader accepts: ingest never takes the
\* branch that ends the stream for a flow-control violation.
NoOverrun == flight <= avail

\* A writer that waits for a full segment waits for something: data to be read,
\* or credit on its way.  The threshold below which credit is kept back is never
\* what blocks it.
NoStall ==
    window < MaxSeg /\ lost = 0 => flight > 0 \/ unread > 0 \/ granted > 0

\* The inductive invariant.
CreditInv ==
    /\ Amounts
    /\ Conserved
    /\ flight + window + pending + granted <= avail
=============================================================================
