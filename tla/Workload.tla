------------------------------ MODULE Workload ------------------------------
(***************************************************************************)
(* What the allocator may rely on a runtime.Runtime for, about one         *)
(* execution ID: its workload runs at most once, does not run when an open *)
(* runtime reports its end or after, and not when a Stop succeeds.         *)
(***************************************************************************)
EXTENDS Naturals

CONSTANT Stopper  \* the calls of Stop

VARIABLES
    phase,     \* of the workload: "absent", "live" or "over"
    reported,  \* the reporter was told the outcome
    stopped,   \* the calls of Stop that succeeded
    open       \* the runtime was not closed

vars == <<phase, reported, stopped, open>>

Init == phase = "absent" /\ reported = FALSE /\ stopped = {} /\ open = TRUE

Launch ==
    /\ phase = "absent" /\ ~reported /\ phase' = "live"
    /\ UNCHANGED <<reported, stopped, open>>

Exit ==
    /\ phase = "live" /\ phase' = "over"
    /\ UNCHANGED <<reported, stopped, open>>

Report ==
    /\ phase = "live" => ~open
    /\ ~reported /\ reported' = TRUE
    /\ UNCHANGED <<phase, stopped, open>>

Stop(c) ==
    /\ phase # "live" /\ c \notin stopped
    /\ stopped' = stopped \cup {c}
    /\ UNCHANGED <<phase, reported, open>>

\* The process closes its runtime, and the next one opens it again.
Close == open' = FALSE /\ UNCHANGED <<phase, reported, stopped>>
Open == open' = TRUE /\ UNCHANGED <<phase, reported, stopped>>

Next == Close \/ Open \/ Launch \/ Exit \/ Report \/ \E c \in Stopper : Stop(c)

Spec == Init /\ [][Next]_vars
=============================================================================
