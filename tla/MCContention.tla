---------------------------- MODULE MCContention ----------------------------
(* Several small workloads of the allocator in one instance: competing clients, *)
(* renewals, offers nobody takes, and every kind of command.                   *)
EXTENDS MCAllocator

VARIABLE scenario

\* A behaviour delivers commands of one scenario, within the bounds of that
\* scenario: its last instant, its faults and the handlers at work at once.
Scenario(commands, time, crashes, serving) ==
    [commands |-> commands, time |-> time, faults |-> crashes, serving |-> serving]

\* Several clients or handlers, time with faults, and a replay cache of one entry.
Scenarios ==
    {Scenario(EveryKind, 0, 1, 1), Scenario(Unattended, 0, 0, 2), Scenario(Cancelled, 1, 0, 2),
     Scenario(Cancelled, 0, 1, 2), Scenario(Cancelled, 1, 1, 1),
     Scenario(Renewed, 2, 0, 1), Scenario(Competing, 0, 0, 1), Scenario(Abandoned, 1, 1, 1)}

Within(s) ==
    /\ checked' \subseteq s.commands
    /\ clock' <= s.time
    /\ faults' <= s.faults
    /\ Cardinality(checked' \cup {m \in Messages : handler'[m].at # "idle"}) <= s.serving

ScenarioInit == Init /\ scenario \in Scenarios

ScenarioSpec ==
    /\ ScenarioInit
    /\ [][Next /\ Within(scenario) /\ UNCHANGED scenario]_<<vars, scenario>>

AllCommands == EveryKind \cup Renewed \cup Competing \cup Abandoned
=============================================================================
