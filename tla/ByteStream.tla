----------------------------- MODULE ByteStream -----------------------------
(***************************************************************************)
(* What a tunnel.Conn promises about one direction: a reliable ordered     *)
(* byte pipe with half-close and classified teardown.  A reader sees the   *)
(* end of the stream, or the reason the writer gave, only after the bytes  *)
(* that were written before it.                                            *)
(***************************************************************************)
EXTENDS Integers, Sequences, SequencesExt

VARIABLES
    sent,      \* the bytes the writer handed to the transport, in order
    got,       \* the bytes Read returned, in order
    eofAt,     \* how much was sent before CloseWrite, -1 before that
    reasonAt,  \* how much was sent before the teardown by the writer, -1 before that
    outcome    \* how reading ended

vars == <<sent, got, eofAt, reasonAt, outcome>>

Init ==
    /\ sent = <<>> /\ got = <<>>
    /\ eofAt = -1 /\ reasonAt = -1
    /\ outcome = "open"

Write ==
    /\ eofAt = -1
    /\ IsStrictPrefix(sent, sent')
    /\ UNCHANGED <<got, eofAt, reasonAt, outcome>>

Read ==
    /\ outcome = "open"
    /\ IsStrictPrefix(got, got') /\ IsPrefix(got', sent)
    /\ UNCHANGED <<sent, eofAt, reasonAt, outcome>>

CloseWrite ==
    /\ eofAt = -1 /\ eofAt' = Len(sent)
    /\ UNCHANGED <<sent, got, reasonAt, outcome>>

\* Close or CloseWithReason by the writer.
CloseWithReason ==
    /\ reasonAt = -1 /\ reasonAt' = Len(sent)
    /\ UNCHANGED <<sent, got, eofAt, outcome>>

\* Reading ends; only the reader's own side may cut it short.
End ==
    /\ outcome = "open"
    /\ \/ outcome' = "eof" /\ eofAt # -1 /\ Len(got) >= eofAt
       \/ outcome' = "reason" /\ reasonAt # -1 /\ Len(got) >= reasonAt
       \/ outcome' = "aborted"
    /\ UNCHANGED <<sent, got, eofAt, reasonAt>>

Next == Write \/ Read \/ CloseWrite \/ CloseWithReason \/ End

Spec == Init /\ [][Next]_vars
=============================================================================
