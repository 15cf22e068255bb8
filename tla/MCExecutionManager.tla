------------------------ MODULE MCExecutionManager --------------------------
EXTENDS ExecutionManager

\* A start and one for the same or another specification, a stop, the recovery after a restart
\* and a forget.
Calls == [c1 |-> "start", c2 |-> "start", c3 |-> "stop", c4 |-> "recover", c5 |-> "forget"]
Specs == [c \in {"c1", "c2", "c3", "c4", "c5"} |-> IF c = "c2" THEN {"f", "g"} ELSE {"f"}]

\* Two stops of one start, and its end.
Stops == [c1 |-> "start", c2 |-> "stop", c3 |-> "stop", c4 |-> "forget"]
Same == [c \in {"c1", "c2", "c3", "c4"} |-> {"f"}]
=============================================================================
