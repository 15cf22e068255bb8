------------------------------ MODULE MCLogTail -----------------------------
(* Two scenarios.  "store": executions share the log budget and nobody reads.   *)
(* "tail": a client copies the output of the attempts, and only they have logs. *)
EXTENDS LogTail

VARIABLE scenario

OneAttempt == <<"e1">>
TwoAttempts == <<"e1", "e2">>

ScenarioInit == Init /\ scenario \in {"store", "tail"}

Within ==
    \/ scenario = "store" /\ UNCHANGED tailVars
    \/ scenario = "tail" /\ \A e \in Execution \ Range(Attempts) : dir'[e] = dir[e]

ScenarioNext == Next /\ Within /\ UNCHANGED scenario

ScenarioSpec == ScenarioInit /\ [][ScenarioNext]_<<vars, scenario>> /\ Fairness
=============================================================================
