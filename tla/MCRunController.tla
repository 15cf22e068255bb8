-------------------------- MODULE MCRunController --------------------------
(* Small instances of RunController.  A behaviour plays one scenario: the    *)
(* allocators there are, the requests the run may make, the executions that  *)
(* may end, and whether leases run out, the context ends, the client is      *)
(* closed or offers expire.                                                  *)
EXTENDS RunController

CONSTANTS a1, a2

VARIABLE scenario

\* Both allocators are equally far; the identity of a1 sorts first.
Near == [a \in Allocators |-> 1]
Order == [a \in Allocators |-> IF a = a1 THEN 1 ELSE 2]

Scenario(allocators, made, ends, faults) ==
    [allocators |-> allocators, made |-> made, ends |-> ends, faults |-> faults]

Scenarios ==
    {Scenario({a1}, 2, {1}, {"evict"}),
     Scenario({a1, a2}, 1, {1}, {}),
     Scenario({a1}, 1, {1}, {"evict", "cancel", "close", "expire"})}

Within(s) ==
    /\ cancelled' => "cancel" \in s.faults
    /\ endpoint' # "open" => "close" \in s.faults
    /\ (\E i \in Request, a \in Allocators : offered'[i][a] = "expired") => "expire" \in s.faults
    /\ ctl.pc = "done" => "close" \in s.faults
    /\ \A i \in Request : requests'[i].made => i <= s.made
    /\ \A i \in Request : work'[i] \notin {"none", "running"} => i \in s.ends
    /\ (\E i \in Request : work'[i] = "evicted") => "evict" \in s.faults
    /\ \A a \in Allocators \ s.allocators : inbox'[a] = <<>> /\ catalog'[a] = "unknown"

ScenarioInit == Init /\ scenario \in Scenarios

ScenarioNext == Next /\ Within(scenario) /\ UNCHANGED scenario

ScenarioSpec == ScenarioInit /\ [][ScenarioNext]_<<vars, scenario>>

ScenarioFairSpec == ScenarioSpec /\ Fairness
=============================================================================
