------------------------------ MODULE MCTunnel ------------------------------
(* Two attempts of a run, in three scenarios.  "faulty": one dial, and anything *)
(* may go wrong once.  "successive": a dial of each attempt, or two of one,     *)
(* while nothing is lost, no wait runs out and containers send nothing.         *)
(* "abandoned": the client may give up a handshake and dial the same attempt    *)
(* again; no stream is opened.                                                  *)
EXTENDS Tunnel

CONSTANTS e1, e2

VARIABLE scenario

ScenarioInit == Init /\ scenario \in {"faulty", "successive", "abandoned"}

\* Only the active attempt moves on, and it ends at once.
EndsActive ==
    \A e \in Executions : phase'[e] # phase[e] => e = tun.active /\ phase'[e] = "over"

Within ==
    \/ scenario = "faulty" /\ spent'.dials <= 1
    \/ /\ scenario = "successive" /\ spent'.faults = 0 /\ ~tun'.closed /\ EndsActive
       /\ Frame("data", None) \notin Range(toClient')
    \/ /\ scenario = "abandoned" /\ tun'.active # e2 /\ ~mesh'.streamed /\ EndsActive
       /\ ~tun'.closed
       /\ spent'.faults # spent.faults => tun.at = "handshake" /\ tun'.at = "idle"

ScenarioNext == Next /\ Within /\ UNCHANGED scenario

ScenarioSpec == ScenarioInit /\ [][ScenarioNext]_<<vars, scenario>> /\ Fairness
=============================================================================
