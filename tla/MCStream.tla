------------------------------ MODULE MCStream ------------------------------
(* Small instances of Stream: a window just wide enough for a full segment   *)
(* above what the threshold keeps back.                                      *)
EXTENDS Stream

\* More than the window, or little.
Sizes == {[client |-> n, allocator |-> 0] : n \in {2, 4}}
\* The client closes; the allocator ends the session of an execution.
Usual == [client |-> {"closed"}, allocator |-> {"execution_ended"}]

VARIABLE closes

\* A behaviour has calls of one kind that close; or of none, and then more data.
OneKindNext ==
    \E e \in End :
        \/ Step(e)
        \/ "CloseRead" \in closes /\ CloseRead(e)
        \/ \E r \in Reasons[e] : "Close" \in closes /\ Close(e, r)
        \/ \E r \in Reasons[e] : "PairClose" \in closes /\ PairClose(e, r)

OneKindInit ==
    /\ Init
    /\ IF goroutine["client"].payload = 4 THEN closes = {} ELSE closes \in {{c} : c \in Closes}

OneKindSpec ==
    /\ OneKindInit
    /\ [][OneKindNext /\ UNCHANGED closes]_<<vars, closes>>
    /\ Fairness
=============================================================================
