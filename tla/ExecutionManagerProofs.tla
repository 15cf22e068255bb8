----------------------- MODULE ExecutionManagerProofs -----------------------
(***************************************************************************)
(* The registry keeps a monitored process registered and an unreported     *)
(* exit readable, and the adapter implements Workload, for every set of    *)
(* calls.                                                                  *)
(***************************************************************************)
EXTENDS ExecutionManager, TLAPS

Monitored == {"waiting", "reporting", "cleaning"}
Places ==
    [start |-> {"call", "ready", "load", "create", "task", "run", "finish", "returned"},
     recover |-> {"call", "ready", "load", "finish", "returned"},
     stop |-> {"call", "kill", "killed", "finishing", "backend", "backendTask", "backendKill",
               "backendWait", "returned"},
     forget |-> {"call", "returned"}]

Results == {"none", "ok", "closed", "conflict", "missing", "failed", "cancelled", "lost"}

Execution ==
    [fingerprint : Fingerprints, ready : BOOLEAN, startErr : Results, task : Nat,
     stopping : BOOLEAN, stopFailure : BOOLEAN, finishing : BOOLEAN, done : BOOLEAN,
     doneErr : BOOLEAN, monitor : {"none", "over"} \cup Monitored, suppress : BOOLEAN]

Place == Places.start \cup Places.recover \cup Places.stop \cup Places.forget

Call == [at : Place, entry : Nat, task : Nat, own : SUBSET {"container", "task"},
         result : Results]

Typed ==
    /\ closed \in BOOLEAN /\ faults \in Nat /\ crashes \in Nat
    /\ execution \in Seq(Execution) /\ entry \in 0 .. Len(execution)
    /\ caller \in [Caller -> Call] /\ \A c \in Caller : caller[c].at \in Places[Op[c]]
    /\ container \in {"none"} \cup Fingerprints
    /\ task \in [id : Nat, status : {"none", "created"} \cup Started]
    /\ made \in Nat
    /\ exited \subseteq 1 .. made /\ ran \subseteq 1 .. made

\* The objects of containerd: a task needs a container, one that has not stopped
\* has not exited, and whatever ran has exited or is the task there is.
Objects ==
    /\ task.id <= made
    /\ task.status = "none" <=> task = NoTask
    /\ task.id = 0 <=> task = NoTask
    /\ container = "none" => task = NoTask
    /\ task.status = "stopped" => task.id \in exited
    /\ task.status \in {"created", "running", "killed"} => task.id \notin exited
    /\ ran \subseteq exited \cup {task.id}

\* A call of Stop was made.
Disturbed == \E c \in Caller : Op[c] = "stop" /\ caller[c].at # "call"

\* A Forget was made.
Forgotten == \E c \in Caller : Op[c] = "forget" /\ caller[c].at # "call"

\* The monitor of a process that was started: what it knows of the exit.
MonitorOK(i) ==
    LET x == execution[i] IN
    /\ x.monitor \in Monitored => entry = i
    /\ x.monitor # "none" => x.ready /\ ran \subseteq exited \cup {x.task}
    /\ x.done <=> x.monitor = "over"
    /\ x.finishing <=> x.monitor \in {"reporting", "cleaning", "over"}
    /\ x.finishing /\ ~closed => ran \subseteq exited
    /\ x.done /\ ~x.doneErr => ran \subseteq exited
    /\ x.stopping => Disturbed
    /\ x.monitor = "cleaning" => reported # {} \/ Disturbed

\* A process was started, or taken over from an earlier attempt.
Begun == ran # {} \/ reported # {} \/ \E i \in 1 .. Len(execution) : execution[i].monitor # "none"

\* The call of start or recover that made the entry.
Owner(c) == caller[c].at \in {"load", "create", "task", "run", "finish"}

CallOK(c) ==
    LET x == caller[c] IN
    /\ x.at \in {"ready", "kill", "killed", "finishing"} => x.entry \in 1 .. Len(execution)
    /\ Owner(c) => entry # 0 /\ x.entry = entry /\ ~execution[entry].ready
    /\ Op[c] = "start" /\ Owner(c) /\ (x.at = "finish" => x.result # "ok") => ~Begun
    /\ Op[c] = "start" /\ Owner(c) => crashes = 0
    /\ Op[c] = "recover" /\ Owner(c) => crashes > 0
    /\ x.at = "finish" /\ x.result = "ok" => ran \subseteq exited \cup {x.task}
    /\ x.at = "finishing" => execution[x.entry].finishing /\ ran \subseteq exited
    /\ Op[c] = "stop" /\ x.at # "returned" => x.result = "none"

\* An exit that nobody reported or asked for is still to be read.
Kept ==
    ran # {} /\ reported = {} /\ ~Disturbed =>
        task.id \in ran /\ task.status \in {"running", "stopped"}

ManagerInv ==
    /\ Typed /\ Objects
    /\ \A i \in 1 .. Len(execution) : MonitorOK(i)
    /\ \A c \in Caller : CallOK(c)
    /\ \A c, d \in Caller : Owner(c) /\ Owner(d) => c = d
    /\ Begun => entry # 0 \/ crashes > 0 \/ Forgotten
    /\ Kept

-----------------------------------------------------------------------------
(* Steps that change no record of the registry.                            *)

\* Call c goes on, the others stay where they are.
Moved(c) ==
    /\ caller' \in [Caller -> Call] /\ caller'[c].at \in Places[Op[c]] \ {"call"}
    /\ \A d \in Caller \ {c} : caller'[d] = caller[d]

\* What was begun by a call stays begun.
LEMMA StillBegun ==
    ASSUME NEW c \in Caller, Moved(c)
    PROVE  (Disturbed => Disturbed') /\ (Forgotten => Forgotten')
  BY Zenon DEF Moved, Disturbed, Forgotten

\* A step of a call in containerd.
LEMMA CallStep ==
    ASSUME ManagerInv, NEW c \in Caller, Moved(c), CallOK(c)', Owner(c)' => Owner(c),
           container' \in {"none"} \cup Fingerprints, made' \in Nat, made' >= made,
           task' \in [id : Nat, status : {"none", "created"} \cup Started],
           exited' \subseteq 1 .. made', faults' \in Nat,
           Objects', Kept', exited \subseteq exited', UNCHANGED <<memory, ran, reported, crashes>>
    PROVE  ManagerInv'
<1>1. /\ Typed /\ (\A i \in 1 .. Len(execution) : MonitorOK(i))
      /\ (\A d \in Caller : CallOK(d)) /\ \A d, e \in Caller : Owner(d) /\ Owner(e) => d = e
      /\ Begun => entry # 0 \/ crashes > 0 \/ Forgotten
  BY Zenon DEF ManagerInv
<1>2. UNCHANGED <<closed, entry, execution>>
  BY Zenon DEF memory
<1>3. Typed'
  <2>1. \A d \in Caller : caller'[d].at \in Places[Op[d]]
    BY <1>1, Zenon DEF Moved, Typed
  <2>2. ran \subseteq 1 .. made'
    BY <1>1 DEF Typed
  <2> QED
    BY <1>1, <1>2, <2>1, <2>2, Zenon DEF Typed, Moved
<1>4. (Disturbed => Disturbed') /\ (Forgotten => Forgotten')
  BY StillBegun, Zenon
<1>5. \A i \in 1 .. Len(execution') : MonitorOK(i)'
  BY <1>1, <1>2, <1>4, Zenon DEF MonitorOK
<1>6. Begun' <=> Begun
  BY <1>2, Zenon DEF Begun
<1>7. \A d \in Caller : CallOK(d)'
  <2>1. ASSUME NEW d \in Caller, d # c
        PROVE  CallOK(d)'
    <3>1. caller'[d] = caller[d] /\ CallOK(d)
      BY <1>1, <2>1, Zenon DEF Moved
    <3> QED
      BY <1>2, <1>6, <3>1, Zenon DEF CallOK, Owner
  <2> QED
    BY <2>1, Zenon
<1>8. \A d, e \in Caller : Owner(d)' /\ Owner(e)' => d = e
  BY <1>1, Zenon DEF Owner, Moved
<1> QED
  BY <1>1, <1>2, <1>3, <1>4, <1>5, <1>6, <1>7, <1>8, Zenon DEF ManagerInv

\* A step of a call that leaves containerd alone as well.
LEMMA LocalStep ==
    ASSUME ManagerInv, NEW c \in Caller, Moved(c), CallOK(c)', Owner(c)' => Owner(c),
           faults' \in Nat, UNCHANGED <<memory, backend, reported, crashes>>
    PROVE  ManagerInv'
<1>1. Typed /\ Objects /\ Kept
  BY Zenon DEF ManagerInv
<1>2. Objects' /\ UNCHANGED <<container, task, made, exited, ran>>
  BY <1>1, Zenon DEF Objects, backend
<1>3. Kept'
  BY <1>1, <1>2, StillBegun, Zenon DEF Kept
<1> QED
  BY <1>1, <1>2, <1>3, CallStep DEF Typed

\* The places of a call, by what it calls.
LEMMA PlacesOf ==
    ASSUME ManagerInv, NEW c \in Caller
    PROVE  /\ caller[c] \in Call /\ CallOK(c)
           /\ Op[c] \in {"start", "recover", "stop", "forget"}
           /\ caller[c].at \in Places[Op[c]]
           /\ Places.start = {"call", "ready", "load", "create", "task", "run", "finish",
                              "returned"}
           /\ Places.recover = {"call", "ready", "load", "finish", "returned"}
           /\ Places.stop = {"call", "kill", "killed", "finishing", "backend", "backendTask",
                             "backendKill", "backendWait", "returned"}
           /\ Places.forget = {"call", "returned"}
<1>1. Typed /\ CallOK(c)
  BY Zenon DEF ManagerInv
<1> QED
  BY <1>1, ManagerAssumption, Zenon DEF Typed, Places

\* The records of the registry.
LEMMA RecordOf ==
    ASSUME ManagerInv, NEW i \in 1 .. Len(execution)
    PROVE  execution[i] \in Execution
<1>1. execution \in Seq(Execution)
  BY Zenon DEF ManagerInv, Typed
<1> QED
  BY <1>1

\* A call returns: it holds no reservation any more.
LEMMA ReturnsMoved ==
    ASSUME ManagerInv, NEW c \in Caller, NEW r \in Results, Returns(c, r)
    PROVE  /\ Moved(c) /\ caller'[c].at = "returned" /\ caller'[c].result = r
           /\ CallOK(c)' /\ ~Owner(c)'
<1>1. caller \in [Caller -> Call]
  BY Zenon DEF ManagerInv, Typed
<1>2. "returned" \in Places[Op[c]] /\ "returned" \in Place
  BY PlacesOf, Zenon DEF Place
<1>3. Moved(c) /\ caller'[c].at = "returned" /\ caller'[c].result = r
  BY <1>1, <1>2, Zenon DEF Returns, Moved, Call
<1> QED
  BY <1>3, Zenon DEF CallOK, Owner

\* A call goes on to its next critical section or backend call.
LEMMA GoesMoved ==
    ASSUME ManagerInv, NEW c \in Caller, NEW pc \in Places[Op[c]] \ {"call"}, Goes(c, pc)
    PROVE  /\ Moved(c) /\ caller'[c] = [caller[c] EXCEPT !.at = pc] /\ caller'[c].at = pc
           /\ caller'[c].entry = caller[c].entry /\ caller'[c].result = caller[c].result
           /\ caller'[c].task = caller[c].task
<1>1. caller \in [Caller -> Call]
  BY Zenon DEF ManagerInv, Typed
<1>2. pc \in Place
  BY PlacesOf, Zenon DEF Place
<1> QED
  BY <1>1, <1>2, Zenon DEF Goes, Moved, Call

\* A start or recover goes to finishStart with its result.
LEMMA FinishingMoved ==
    ASSUME ManagerInv, NEW c \in Caller, Op[c] \in {"start", "recover"}, Owner(c),
           NEW r \in Results, NEW i \in Nat, Finishing(c, r, i)
    PROVE  /\ Moved(c) /\ caller'[c].at = "finish" /\ caller'[c].result = r
           /\ caller'[c].task = i /\ caller'[c].entry = caller[c].entry
           /\ Owner(c)'
<1>1. caller \in [Caller -> Call]
  BY Zenon DEF ManagerInv, Typed
<1>2. "finish" \in Places[Op[c]] /\ "finish" \in Place
  BY PlacesOf, Zenon DEF Place
<1> QED
  BY <1>1, <1>2, Zenon DEF Finishing, Moved, Call, Owner

-----------------------------------------------------------------------------
(* start and recover.                                                      *)

\* A second Start or Recover waits for the attempt under way (manager.go
\* waitUntilReady).
LEMMA waitUntilReadyOK ==
    ASSUME ManagerInv, NEW c \in Caller, waitUntilReady(c)
    PROVE  ManagerInv'
<1>1. caller[c].entry \in 1 .. Len(execution) /\ Typed
  BY PlacesOf, Zenon DEF waitUntilReady, CallOK, ManagerInv
<1>2. \E r \in Results : Returns(c, r)
  <2>1. execution[caller[c].entry].startErr \in Results
    BY <1>1, RecordOf, Zenon DEF Execution
  <2> QED
    BY <2>1, Zenon DEF waitUntilReady, Results
<1>3. /\ faults' \in Nat /\ UNCHANGED <<memory, backend, reported, crashes>>
  BY <1>1 DEF waitUntilReady, Cancel, bounds, Typed
<1> QED
  BY <1>2, <1>3, ReturnsMoved, LocalStep, Zenon

\* A start looks the container of its execution up.
LEMMA loadContainerOK ==
    ASSUME ManagerInv, NEW c \in Caller, loadContainer(c)
    PROVE  ManagerInv'
<1>1. /\ Op[c] = "start" /\ caller[c].at = "load" /\ Owner(c) /\ Typed
      /\ UNCHANGED <<memory, backend, reported, crashes>> /\ faults' \in Nat
  BY Zenon DEF loadContainer, At, Owner, ManagerInv, Typed, bounds
<1>2. Begun' = Begun /\ UNCHANGED <<entry, execution, ran, exited>> /\ ran = {}
  BY <1>1, PlacesOf, Zenon DEF Begun, memory, backend, CallOK
<1>3. CASE \E pc \in {"create", "task", "run"} : Goes(c, pc)
  <2>1. PICK pc \in {"create", "task", "run"} : Goes(c, pc)
    BY <1>3, Zenon
  <2>2. pc \in Places[Op[c]] \ {"call"}
    BY <1>1, PlacesOf, Zenon
  <2>3. CallOK(c)'
    BY <1>1, <1>2, <2>1, <2>2, GoesMoved, PlacesOf, Zenon DEF CallOK, Owner
  <2> QED
    BY <1>1, <2>1, <2>2, <2>3, GoesMoved, LocalStep, Zenon
<1>4. CASE \E r \in {"conflict", "ok"}, i \in Nat : Finishing(c, r, i)
  <2>1. PICK r \in {"conflict", "ok"}, i \in Nat : Finishing(c, r, i)
    BY <1>4, Zenon
  <2>2. CallOK(c)'
    BY <1>1, <1>2, <2>1, FinishingMoved, PlacesOf DEF CallOK, Owner, Results
  <2> QED
    BY <1>1, <2>1, <2>2, FinishingMoved, LocalStep DEF Results
<1>5. task.id \in Nat
  BY <1>1, Zenon DEF Typed
<1> QED
  BY <1>3, <1>4, <1>5, Zenon DEF loadContainer

\* A start goes from one of its backend calls to another.
LEMMA Starting ==
    ASSUME ManagerInv, NEW c \in Caller, Op[c] = "start",
           caller[c].at \in {"load", "create", "task", "run"}
    PROVE  /\ Owner(c) /\ ran = {} /\ reported = {} /\ entry \in 1 .. Len(execution)
           /\ caller[c].entry = entry /\ Fingerprint(c) \in Fingerprints
           /\ \A i \in 1 .. Len(execution) : execution[i].monitor = "none"
<1>1. Owner(c) /\ CallOK(c) /\ ~Begun /\ caller[c].entry = entry /\ entry # 0 /\ crashes = 0
  BY PlacesOf, Zenon DEF Owner, CallOK
<1>2. entry \in 1 .. Len(execution)
  BY <1>1 DEF ManagerInv, Typed
<1>3. Fingerprint(c) \in Fingerprints
  BY <1>1, <1>2, RecordOf, Zenon DEF Fingerprint, Execution
<1> QED
  BY <1>1, <1>2, <1>3, Zenon DEF Begun

\* A start that goes on leaves the registry alone and still owns its entry.
LEMMA StartingOn ==
    ASSUME ManagerInv, NEW c \in Caller, Op[c] = "start",
           caller[c].at \in {"load", "create", "task", "run"},
           caller'[c].at \in {"load", "create", "task", "run"},
           caller'[c].entry = caller[c].entry, UNCHANGED <<memory, ran, reported, crashes>>
    PROVE  CallOK(c)'
<1>1. Owner(c) /\ CallOK(c) /\ ~Begun /\ crashes = 0
  BY PlacesOf, Zenon DEF Owner, CallOK
<1>2. ~Begun' /\ UNCHANGED <<entry, execution>>
  BY <1>1, Zenon DEF Begun, memory
<1> QED
  BY <1>1, <1>2, Zenon DEF CallOK, Owner

\* A start creates the container, or finds that another process made it.
LEMMA newContainerOK ==
    ASSUME ManagerInv, NEW c \in Caller, newContainer(c)
    PROVE  ManagerInv'
<1>1. /\ Op[c] = "start" /\ caller[c].at = "create" /\ Typed /\ Objects
      /\ UNCHANGED <<memory, task, made, exited, ran, reported, crashes>> /\ faults' \in Nat
  BY Zenon DEF newContainer, At, ManagerInv, Typed, bounds
<1>2. /\ Moved(c) /\ caller'[c].at \in {"load", "task"} /\ caller'[c].entry = caller[c].entry
      /\ container' \in {"none"} \cup Fingerprints /\ (container' = "none" => container = "none")
  <2>1. CASE container = "none"
    <3>1. caller' = [caller EXCEPT ![c].at = "task", ![c].own = {"container"}]
          /\ container' = Fingerprint(c) /\ container' # "none"
      BY <1>1, <2>1, Starting, ManagerAssumption, Zenon DEF newContainer
    <3>2. "task" \in Places[Op[c]] /\ "task" \in Place
      BY <1>1, PlacesOf, Zenon DEF Place
    <3>3. [caller[c] EXCEPT !.at = "task", !.own = {"container"}] \in Call
      BY <1>1, <3>2, Zenon DEF Call, Typed
    <3>4. /\ caller'[c] = [caller[c] EXCEPT !.at = "task", !.own = {"container"}]
          /\ caller' \in [Caller -> Call] /\ \A d \in Caller \ {c} : caller'[d] = caller[d]
      BY <1>1, <3>1, <3>3, Zenon DEF Typed
    <3>5. caller'[c].at = "task" /\ caller'[c].entry = caller[c].entry
      BY <1>1, <3>4 DEF Typed, Call
    <3> QED
      BY <1>1, <2>1, <3>1, <3>2, <3>4, <3>5, Starting, Zenon DEF Moved
  <2>2. CASE container # "none"
    <3>1. Goes(c, "load") /\ container' = container
      BY <2>2, Zenon DEF newContainer
    <3> QED
      BY <1>1, <3>1, GoesMoved, PlacesOf, Zenon DEF Typed
  <2> QED
    BY <2>1, <2>2, Zenon
<1>3. CallOK(c)' /\ Owner(c) /\ ran = {}
  BY <1>1, <1>2, Starting, StartingOn, Zenon
<1>4. Objects' /\ Kept'
  BY <1>1, <1>2, <1>3, Zenon DEF Objects, Kept
<1> QED
  BY <1>1, <1>2, <1>3, <1>4, CallStep DEF Typed

\* A start creates the task.
LEMMA newTaskOK ==
    ASSUME ManagerInv, NEW c \in Caller, newTask(c)
    PROVE  ManagerInv'
<1>1. /\ Op[c] = "start" /\ caller[c].at = "task" /\ Typed /\ Objects /\ container # "none"
      /\ UNCHANGED <<memory, container, exited, ran, reported, crashes>> /\ faults' \in Nat
      /\ made' = made + 1 /\ task' = [id |-> made', status |-> "created"]
      /\ caller' = [caller EXCEPT ![c].at = "run", ![c].own = caller[c].own \cup {"task"}]
  BY Zenon DEF newTask, At, ManagerInv, Typed, bounds
<1>2. Moved(c) /\ caller'[c].at = "run" /\ caller'[c].entry = caller[c].entry
  <2>1. "run" \in Places[Op[c]] /\ "run" \in Place
    BY <1>1, PlacesOf, Zenon DEF Place
  <2>2. caller[c].own \cup {"task"} \in SUBSET {"container", "task"}
    BY <1>1, Zenon DEF Call, Typed
  <2> DEFINE own == caller[c].own \cup {"task"}
  <2>3. /\ caller \in [Caller -> Call] /\ own \in SUBSET {"container", "task"}
        /\ caller' = [caller EXCEPT ![c].at = "run", ![c].own = own]
    BY <1>1, <2>2, Zenon DEF Typed
  <2> HIDE DEF own
  <2> QED
    BY <2>1, <2>3, Zenon DEF Moved, Call
<1>3. CallOK(c)' /\ Owner(c) /\ ran = {}
  BY <1>1, <1>2, Starting, StartingOn, Zenon
<1>4. Objects' /\ Kept'
  BY <1>1, <1>3 DEF Objects, Kept, Typed, NoTask
<1> QED
  BY <1>1, <1>2, <1>3, <1>4, CallStep DEF Typed

\* A start lets the task run.
LEMMA startTaskOK ==
    ASSUME ManagerInv, NEW c \in Caller, startTask(c)
    PROVE  ManagerInv'
<1>1. /\ Op[c] = "start" /\ caller[c].at = "run" /\ Typed /\ Objects /\ task.status = "created"
      /\ UNCHANGED <<closed, entry, execution, container, made, exited, reported, faults, crashes>>
      /\ task' = [task EXCEPT !.status = "running"] /\ ran' = ran \cup {task.id}
      /\ Finishing(c, "ok", task.id)
      /\ \A d \in Caller : CallOK(d)
      /\ \A d, e \in Caller : Owner(d) /\ Owner(e) => d = e
      /\ \A i \in 1 .. Len(execution) : MonitorOK(i)
  BY Zenon DEF startTask, At, ManagerInv, memory, bounds
<1>2. /\ Owner(c) /\ ran = {} /\ \A i \in 1 .. Len(execution) : execution[i].monitor = "none"
      /\ task.id \in Nat /\ task.id # 0 /\ task.id \in 1 .. made
      /\ entry \in 1 .. Len(execution) /\ caller[c].entry = entry
  BY <1>1, Starting DEF Typed, Objects, NoTask
<1>3. /\ Moved(c) /\ caller'[c].at = "finish" /\ caller'[c].result = "ok"
      /\ caller'[c].task = task.id /\ caller'[c].entry = caller[c].entry /\ Owner(c)'
  BY <1>1, <1>2, FinishingMoved, Zenon DEF Results
<1>4. /\ ran' = {task.id} /\ task'.id = task.id /\ task'.status = "running"
      /\ task' \in [id : Nat, status : {"none", "created"} \cup Started]
  BY <1>1, <1>2, Zenon DEF Typed, Started
<1>5. Typed'
  <2>1. \A d \in Caller : caller'[d].at \in Places[Op[d]]
    BY <1>1, <1>3, Zenon DEF Moved, Typed
  <2> QED
    BY <1>1, <1>2, <1>3, <1>4, <2>1, Zenon DEF Typed, Moved
<1>6. Objects' /\ Kept'
  BY <1>1, <1>2, <1>4, Zenon DEF Objects, Kept, NoTask
<1>7. \A i \in 1 .. Len(execution') : MonitorOK(i)'
  BY <1>1, <1>2, <1>3, StillBegun DEF MonitorOK, Monitored
<1>8. \A d \in Caller : CallOK(d)'
  <2>1. ASSUME NEW d \in Caller, d # c
        PROVE  CallOK(d)'
    <3>1. caller'[d] = caller[d] /\ CallOK(d) /\ ~Owner(d) /\ caller[d].at # "finishing"
      BY <1>1, <1>2, <1>3, <2>1, Zenon DEF Moved, CallOK, MonitorOK
    <3> QED
      BY <1>1, <3>1, Zenon DEF CallOK, Owner
  <2>2. CallOK(c)'
    BY <1>1, <1>2, <1>3, <1>4, PlacesOf, Zenon DEF CallOK, Owner
  <2> QED
    BY <2>1, <2>2, Zenon
<1>9. \A d, e \in Caller : Owner(d)' /\ Owner(e)' => d = e
  BY <1>1, <1>2, <1>3 DEF Owner, Moved
<1> QED
  BY <1>1, <1>2, <1>5, <1>6, <1>7, <1>8, <1>9 DEF ManagerInv

\* What the backend deletes has exited.
LEMMA Deleted ==
    ASSUME ManagerInv, NEW S, Delete(S), UNCHANGED <<made, ran>>
    PROVE  /\ Objects' /\ exited \subseteq exited' /\ exited' \subseteq 1 .. made'
           /\ container' \in {"none"} \cup Fingerprints /\ made' \in Nat /\ made' >= made
           /\ task' \in [id : Nat, status : {"none", "created"} \cup Started]
<1>1. Typed /\ Objects
  BY Zenon DEF ManagerInv
<1>2. NoTask \in [id : Nat, status : {"none", "created"} \cup Started]
  BY Zenon DEF NoTask
<1>3. CASE "task" \in S /\ task # NoTask
  <2>1. task' = NoTask /\ exited' = exited \cup {task.id}
    BY <1>3, Zenon DEF Delete
  <2>2. task.id \in 1 .. made
    BY <1>1, <1>3 DEF Typed, Objects
  <2>3. container' \in {"none"} \cup Fingerprints /\ (container' = "none" => task' = NoTask)
    BY <1>1, <2>1, Zenon DEF Delete, Typed
  <2>4. task'.id = 0 /\ task'.status = "none"
    BY <2>1, Zenon DEF NoTask
  <2>5. ran' \subseteq exited' \cup {task'.id}
    BY <1>1, <2>1, Zenon DEF Objects
  <2>6. Objects'
    BY <1>1, <2>1, <2>3, <2>4, <2>5 DEF Typed, Objects
  <2>7. exited \subseteq exited' /\ exited' \subseteq 1 .. made'
    BY <1>1, <2>1, <2>2, Zenon DEF Typed
  <2> QED
    BY <1>1, <1>2, <2>1, <2>3, <2>6, <2>7 DEF Typed
<1>4. CASE ~("task" \in S /\ task # NoTask)
  <2>1. task' = task /\ exited' = exited
    BY <1>4, Zenon DEF Delete
  <2>2. container' \in {"none"} \cup Fingerprints /\ (container' = "none" => task' = NoTask)
    BY <1>1, <2>1, Zenon DEF Delete, Typed, Objects
  <2> QED
    BY <1>1, <2>1, <2>2 DEF Typed, Objects
<1> QED
  BY <1>3, <1>4, Zenon

\* A backend call of a start fails, and what the start made is removed.
LEMMA startFailsOK ==
    ASSUME ManagerInv, NEW c \in Caller, startFails(c)
    PROVE  ManagerInv'
<1>1. /\ Op[c] = "start" /\ caller[c].at \in {"load", "create", "task", "run"} /\ Typed
      /\ UNCHANGED <<memory, made, ran, reported, crashes>> /\ faults' \in Nat
      /\ Finishing(c, "failed", 0) /\ \E S : Delete(S)
  BY DEF startFails, ManagerInv, Typed, bounds, Fault
<1>2. Owner(c) /\ ran = {}
  BY <1>1, Starting, Zenon
<1>3. /\ Moved(c) /\ caller'[c].at = "finish" /\ caller'[c].result = "failed"
      /\ caller'[c].entry = caller[c].entry
  BY <1>1, <1>2, FinishingMoved, Zenon DEF Results
<1>4. CallOK(c)'
  <2>1. CallOK(c) /\ ~Begun /\ crashes = 0
    BY <1>1, <1>2, PlacesOf, Zenon DEF CallOK
  <2>2. ~Begun' /\ UNCHANGED <<entry, execution>>
    BY <1>1, <2>1, Zenon DEF Begun, memory
  <2> QED
    BY <1>1, <1>2, <1>3, <2>1, <2>2, Zenon DEF CallOK, Owner
<1>5. Kept'
  BY <1>1, <1>2, Zenon DEF Kept
<1> QED
  BY <1>1, <1>2, <1>3, <1>4, <1>5, Deleted, CallStep, Zenon

\* A recover attaches to the task that an earlier process left.
LEMMA recoverOK ==
    ASSUME ManagerInv, NEW c \in Caller, recover(c) \/ recoverFails(c)
    PROVE  ManagerInv'
<1>1. /\ Op[c] = "recover" /\ caller[c].at = "load" /\ Typed /\ Objects /\ Owner(c)
      /\ UNCHANGED <<memory, made, ran, reported, crashes>> /\ faults' \in Nat
  BY DEF recover, recoverFails, At, ManagerInv, Typed, bounds, backend, Fault, Owner
<1>2. PICK r \in {"missing", "conflict", "ok", "failed"}, i \in Nat :
        /\ Finishing(c, r, i) /\ (r = "ok" => i = task.id)
  BY <1>1, Zenon DEF recover, recoverFails, Typed
<1>3. /\ Objects' /\ exited \subseteq exited' /\ exited' \subseteq 1 .. made'
      /\ container' \in {"none"} \cup Fingerprints /\ made' \in Nat /\ made' >= made
      /\ task' \in [id : Nat, status : {"none", "created"} \cup Started]
  <2>1. CASE recover(c)
    BY <1>1, <2>1, Deleted, Zenon DEF recover
  <2>2. CASE recoverFails(c)
    BY <1>1, <2>2 DEF recoverFails, backend, Objects, Typed
  <2> QED
    BY <2>1, <2>2, Zenon
<1>4. /\ Moved(c) /\ caller'[c].at = "finish" /\ caller'[c].result = r
      /\ caller'[c].entry = caller[c].entry /\ caller'[c].task = i
  BY <1>1, <1>2, FinishingMoved DEF Results
<1>5. CallOK(c)'
  <2>1. CallOK(c) /\ UNCHANGED <<entry, execution>> /\ ran \subseteq exited \cup {task.id}
    BY <1>1, PlacesOf, Zenon DEF memory, Objects
  <2> QED
    BY <1>1, <1>2, <1>3, <1>4, <2>1, Zenon DEF CallOK, Owner
<1>6. Kept'
  <2>1. Kept /\ (Disturbed => Disturbed')
    BY <1>4, StillBegun, Zenon DEF ManagerInv
  <2>2. task' = task \/ task.status \notin Started
    BY Zenon DEF recover, recoverFails, Delete, backend
  <2> QED
    BY <1>1, <2>1, <2>2, Zenon DEF Kept, Started
<1> QED
  BY <1>1, <1>3, <1>4, <1>5, <1>6, CallStep, Zenon

-----------------------------------------------------------------------------
(* Steps that change one record of the registry.                           *)

\* The callers that move, if any, own no entry, and the record stays ready and
\* started if it was.
LEMMA RecordStep ==
    ASSUME ManagerInv, NEW i \in 1 .. Len(execution), NEW y \in Execution,
           execution' = [execution EXCEPT ![i] = y], y.ready = execution[i].ready,
           execution[i].finishing => y.finishing,
           y.monitor = "none" <=> execution[i].monitor = "none", MonitorOK(i)',
           caller' \in [Caller -> Call], \A d \in Caller : caller'[d].at \in Places[Op[d]],
           \A d \in Caller : \/ caller'[d] = caller[d]
                             \/ CallOK(d)' /\ ~Owner(d)' /\ caller'[d].at # "call",
           container' \in {"none"} \cup Fingerprints,
           task' \in [id : Nat, status : {"none", "created"} \cup Started], faults' \in Nat,
           Objects', Kept', reported # {} => reported' # {}, reported' # {} => Begun,
           UNCHANGED <<closed, entry, made, exited, ran, crashes>>
    PROVE  ManagerInv'
<1>1. /\ Typed /\ (\A j \in 1 .. Len(execution) : MonitorOK(j))
      /\ (\A d \in Caller : CallOK(d)) /\ \A d, e \in Caller : Owner(d) /\ Owner(e) => d = e
      /\ Begun => entry # 0 \/ crashes > 0 \/ Forgotten
  BY Zenon DEF ManagerInv
<1>2. /\ execution' \in Seq(Execution) /\ Len(execution') = Len(execution) /\ execution'[i] = y
      /\ \A j \in 1 .. Len(execution) : j # i => execution'[j] = execution[j]
  BY <1>1 DEF Typed
<1>3. Typed'
  BY <1>1, <1>2, Zenon DEF Typed
<1>4. (Disturbed => Disturbed') /\ (Forgotten => Forgotten')
  BY Zenon DEF Disturbed, Forgotten
<1>5. Begun' <=> Begun
  BY <1>2 DEF Begun
<1>6. \A j \in 1 .. Len(execution') : MonitorOK(j)'
  <2>1. ASSUME NEW j \in 1 .. Len(execution), j # i
        PROVE  MonitorOK(j)'
    <3>1. MonitorOK(j) /\ execution'[j] = execution[j]
      BY <1>1, <1>2, <2>1, Zenon
    <3> QED
      BY <1>4, <3>1 DEF MonitorOK
  <2> QED
    BY <1>2, <2>1, Zenon
<1>7. \A d \in Caller : CallOK(d)'
  <2>1. ASSUME NEW d \in Caller, caller'[d] = caller[d]
        PROVE  CallOK(d)'
    <3>1. CallOK(d) /\ entry \in 0 .. Len(execution)
      BY <1>1, Zenon DEF Typed
    <3>2. \A j \in 1 .. Len(execution) : /\ execution'[j].ready = execution[j].ready
                                         /\ execution[j].finishing => execution'[j].finishing
      BY <1>2, Zenon
    <3> QED
      BY <1>2, <1>5, <2>1, <3>1, <3>2 DEF CallOK, Owner
  <2> QED
    BY <2>1, Zenon
<1>8. \A d, e \in Caller : Owner(d)' /\ Owner(e)' => d = e
  BY <1>1, Zenon DEF Owner
<1> QED
  BY <1>1, <1>3, <1>4, <1>5, <1>6, <1>7, <1>8, Zenon DEF ManagerInv

\* finishStart marks the entry ready and starts its monitor, or drops it.
LEMMA finishStartOK ==
    ASSUME ManagerInv, NEW c \in Caller, finishStart(c)
    PROVE  ManagerInv'
<1>0. PICK i \in Nat : i = caller[c].entry
  BY PlacesOf, Zenon DEF Call
<1> DEFINE ok == caller[c].result = "ok"
           y == [execution[i] EXCEPT !.ready = TRUE, !.task = caller[c].task,
                    !.startErr = caller[c].result, !.monitor = IF ok THEN "waiting" ELSE "none"]
<1>1. /\ Typed /\ Objects /\ Kept /\ (\A j \in 1 .. Len(execution) : MonitorOK(j))
      /\ (\A d \in Caller : CallOK(d)) /\ \A d, e \in Caller : Owner(d) /\ Owner(e) => d = e
      /\ Begun => entry # 0 \/ crashes > 0 \/ Forgotten
  BY Zenon DEF ManagerInv
<1>2. /\ caller[c].at = "finish" /\ Goes(c, "returned") /\ Owner(c)
      /\ i = entry /\ i \in 1 .. Len(execution) /\ execution[i] \in Execution
      /\ ~execution[i].ready /\ execution[i].monitor = "none"
      /\ entry' = IF ok THEN entry ELSE 0
      /\ UNCHANGED <<closed, container, task, made, exited, ran, reported, faults, crashes>>
  <2>1. caller[c].at = "finish" /\ Owner(c) /\ i = entry /\ i # 0 /\ ~execution[i].ready
    BY <1>0, <1>1, Zenon DEF finishStart, Owner, CallOK
  <2>2. i \in 1 .. Len(execution)
    BY <1>1, <2>1 DEF Typed
  <2>3. execution[i] \in Execution /\ execution[i].monitor = "none"
    BY <1>1, <2>1, <2>2, RecordOf, Zenon DEF MonitorOK
  <2> QED
    BY <2>1, <2>2, <2>3, Zenon DEF finishStart, backend, bounds
<1>3. /\ Moved(c) /\ caller'[c].at = "returned" /\ ~Owner(c)'
      /\ caller[c] \in Call /\ caller[c].at \in Places[Op[c]]
      /\ caller'[c].result = caller[c].result
  <2>1. "returned" \in Places[Op[c]] \ {"call"}
    BY PlacesOf, Zenon
  <2>2. Goes(c, "returned")
    BY <1>2, Zenon
  <2> QED
    BY <2>1, <2>2, PlacesOf, GoesMoved, Zenon DEF Owner
<1>4. /\ y \in Execution /\ execution' = [execution EXCEPT ![i] = y] /\ y.ready
      /\ y.monitor = (IF ok THEN "waiting" ELSE "none") /\ y.task = caller[c].task
      /\ y.done = execution[i].done /\ y.doneErr = execution[i].doneErr
      /\ y.finishing = execution[i].finishing /\ y.stopping = execution[i].stopping
  <2>1. execution' = [execution EXCEPT ![i].ready = TRUE, ![i].task = caller[c].task,
            ![i].startErr = caller[c].result, ![i].monitor = IF ok THEN "waiting" ELSE "none"]
    BY <1>0, Zenon DEF finishStart
  <2>2. execution' = [execution EXCEPT ![i] = y]
    BY <1>2, <2>1, Zenon
  <2>3. caller[c].task \in Nat /\ caller[c].result \in Results
    BY <1>3, Zenon DEF Call
  <2>4. y \in Execution
    BY <1>2, <2>3, Zenon DEF Execution, Monitored
  <2> QED
    BY <1>2, <2>2, <2>4 DEF Execution
<1> HIDE DEF y
<1>5. /\ execution' \in Seq(Execution) /\ Len(execution') = Len(execution) /\ execution'[i] = y
      /\ \A j \in 1 .. Len(execution) : j # i => execution'[j] = execution[j]
  BY <1>1, <1>2, <1>4 DEF Typed
<1>6. (Disturbed => Disturbed') /\ (Forgotten => Forgotten') /\ Objects' /\ Kept'
  BY <1>1, <1>2, <1>3, StillBegun, Zenon DEF Objects, Kept
<1>7. Typed'
  <2>1. \A d \in Caller : caller'[d].at \in Places[Op[d]]
    BY <1>1, <1>3, Zenon DEF Moved, Typed
  <2>2. entry' \in 0 .. Len(execution')
    BY <1>1, <1>2, <1>5 DEF Typed
  <2> QED
    BY <1>1, <1>2, <1>3, <1>5, <2>1, <2>2, Zenon DEF Typed, Moved
<1>8. \A j \in 1 .. Len(execution') : MonitorOK(j)'
  <2>1. ASSUME NEW j \in 1 .. Len(execution), j # i
        PROVE  MonitorOK(j)'
    BY <1>1, <1>2, <1>5, <1>6, <2>1 DEF MonitorOK
  <2>2. MonitorOK(i)'
    <3>1. ok => ran \subseteq exited \cup {y.task}
      BY <1>1, <1>2, <1>4, Zenon DEF CallOK
    <3> QED
      BY <1>1, <1>2, <1>4, <1>5, <1>6, <3>1 DEF MonitorOK, Monitored
  <2> QED
    BY <1>5, <2>1, <2>2, Zenon
<1>9. \A d \in Caller : CallOK(d)'
  <2>1. ASSUME NEW d \in Caller, d # c
        PROVE  CallOK(d)'
    <3>1. CallOK(d) /\ ~Owner(d) /\ caller'[d] = caller[d] /\ ~Owner(d)'
      BY <1>1, <1>2, <1>3, <2>1, Zenon DEF Moved, Owner
    <3>2. \A j \in 1 .. Len(execution) : execution'[j].finishing = execution[j].finishing
      BY <1>4, <1>5, Zenon
    <3>3. CASE caller[d].at = "finishing"
      BY <1>2, <1>5, <3>1, <3>2, <3>3, Zenon DEF CallOK, Owner
    <3>4. CASE caller[d].at # "finishing"
      BY <1>2, <1>5, <3>1, <3>4, Zenon DEF CallOK, Owner
    <3> QED
      BY <3>3, <3>4, Zenon
  <2>2. CallOK(c)'
    BY <1>3, Zenon DEF CallOK, Owner
  <2> QED
    BY <2>1, <2>2, Zenon
<1>10. Begun' => entry' # 0 \/ crashes' > 0 \/ Forgotten'
  <2>1. CASE ok
    BY <1>2, <2>1
  <2>2. CASE ~ok
    <3>1. Begun' => Begun
      BY <1>2, <1>4, <1>5, <2>2 DEF Begun
    <3>2. Op[c] = "start" => ~Begun
      BY <1>1, <1>2, <2>2, Zenon DEF CallOK
    <3>3. Op[c] # "start" => crashes > 0
      BY <1>1, <1>2, <1>3, PlacesOf, Zenon DEF CallOK
    <3> QED
      BY <1>2, <3>1, <3>2, <3>3, Zenon
  <2> QED
    BY <2>1, <2>2, Zenon
<1>11. \A d, e \in Caller : Owner(d)' /\ Owner(e)' => d = e
  BY <1>1, <1>3, Zenon DEF Owner, Moved
<1> QED
  BY <1>6, <1>7, <1>8, <1>9, <1>10, <1>11, Zenon DEF ManagerInv

\* Start and Recover join the entry there is or reserve a new one.
LEMMA claimOK ==
    ASSUME ManagerInv, NEW c \in Caller, claim(c)
    PROVE  ManagerInv'
<1>1. /\ Op[c] \in {"start", "recover"} /\ caller[c].at = "call" /\ Asked(c)
      /\ UNCHANGED <<closed, container, task, made, exited, ran, reported, faults, crashes>>
      /\ Typed /\ Objects /\ Kept /\ (\A j \in 1 .. Len(execution) : MonitorOK(j))
      /\ (\A d \in Caller : CallOK(d)) /\ \A d, e \in Caller : Owner(d) /\ Owner(e) => d = e
      /\ Begun => entry # 0 \/ crashes > 0 \/ Forgotten
  BY Zenon DEF claim, backend, bounds, ManagerInv
<1>2. CASE UNCHANGED <<entry, execution>> /\ \E r \in {"closed", "conflict"} : Returns(c, r)
  <2>1. PICK r \in {"closed", "conflict"} : Returns(c, r)
    BY <1>2, Zenon
  <2> QED
    BY <1>1, <1>2, <2>1, ReturnsMoved, LocalStep, Zenon DEF Results, memory, backend, Typed
<1>3. CASE /\ UNCHANGED <<entry, execution>> /\ entry # 0
           /\ caller' = [caller EXCEPT ![c].at = "ready", ![c].entry = entry]
  <2>1. entry \in Nat /\ entry \in 1 .. Len(execution)
    BY <1>1, <1>3 DEF Typed
  <2>2. "ready" \in Places[Op[c]] /\ "ready" \in Place
    BY <1>1, PlacesOf, Zenon DEF Place
  <2>3. Moved(c) /\ caller'[c].at = "ready" /\ caller'[c].entry = entry
    BY <1>1, <1>3, <2>1, <2>2, Zenon DEF Moved, Call, Typed
  <2>4. CallOK(c)' /\ ~Owner(c)'
    BY <1>1, <1>3, <2>1, <2>3, Zenon DEF CallOK, Owner
  <2> QED
    BY <1>1, <1>3, <2>3, <2>4, LocalStep, Zenon DEF memory, backend, Typed
<1>4. CASE /\ entry = 0 /\ \E f \in Asks[c] : execution' = Append(execution, newExecution(f))
           /\ entry' = Len(execution')
           /\ caller' = [caller EXCEPT ![c].at = "load", ![c].entry = entry']
  <2>1. PICK f \in Asks[c] : execution' = Append(execution, newExecution(f))
    BY <1>4, Zenon
  <2>2. newExecution(f) \in Execution
    <3>1. f \in Fingerprints
      BY ManagerAssumption, Zenon
    <3> QED
      BY <3>1, Zenon DEF newExecution, Execution, Results
  <2>3. /\ execution' \in Seq(Execution) /\ Len(execution') = Len(execution) + 1
        /\ execution'[Len(execution) + 1] = newExecution(f) /\ Len(execution) \in Nat
        /\ \A j \in 1 .. Len(execution) : execution'[j] = execution[j]
    <3>1. execution \in Seq(Execution)
      BY <1>1, Zenon DEF Typed
    <3> QED
      BY <2>1, <2>2, <3>1
  <2>4. entry' = Len(execution) + 1 /\ entry' \in Nat
    BY <1>4, <2>3
  <2>5. "load" \in Places[Op[c]] /\ "load" \in Place
    BY <1>1, PlacesOf, Zenon DEF Place
  <2>6. Moved(c) /\ caller'[c].at = "load" /\ caller'[c].entry = entry' /\ Owner(c)'
    <3>1. [caller[c] EXCEPT !.at = "load", !.entry = entry'] \in Call
      BY <1>1, <2>4, <2>5, Zenon DEF Call, Typed
    <3>2. /\ caller'[c] = [caller[c] EXCEPT !.at = "load", !.entry = entry']
          /\ caller' \in [Caller -> Call] /\ \A d \in Caller \ {c} : caller'[d] = caller[d]
      BY <1>1, <1>4, <3>1, Zenon DEF Typed
    <3>3. caller'[c].at = "load" /\ caller'[c].entry = entry'
      BY <1>1, <3>2 DEF Typed, Call
    <3> QED
      BY <2>5, <3>2, <3>3, Zenon DEF Moved, Owner
  <2>7. (Disturbed => Disturbed') /\ (Forgotten => Forgotten') /\ Objects' /\ Kept'
    BY <1>1, <2>6, StillBegun, Zenon DEF Objects, Kept
  <2>8. Typed'
    <3>1. \A d \in Caller : caller'[d].at \in Places[Op[d]]
      BY <1>1, <2>6, Zenon DEF Moved, Typed
    <3> QED
      BY <1>1, <2>3, <2>4, <2>6, <3>1 DEF Typed, Moved
  <2>9. newExecution(f).monitor = "none" /\ ~newExecution(f).ready /\ ~newExecution(f).done
        /\ ~newExecution(f).finishing /\ ~newExecution(f).stopping
    BY Zenon DEF newExecution
  <2>10. Begun' <=> Begun
    BY <1>1, <2>3, <2>9 DEF Begun
  <2>11. \A j \in 1 .. Len(execution') : MonitorOK(j)'
    <3>1. ASSUME NEW j \in 1 .. Len(execution)
          PROVE  MonitorOK(j)'
      BY <1>1, <1>4, <2>3, <2>7, <3>1 DEF MonitorOK
    <3>2. ASSUME NEW j \in Nat, j = Len(execution) + 1
          PROVE  MonitorOK(j)'
      BY <2>3, <2>9, <3>2, Zenon DEF MonitorOK, Monitored
    <3> QED
      BY <2>3, <3>1, <3>2
  <2>12. \A d \in Caller : ~Owner(d)
    BY <1>1, <1>4, Zenon DEF CallOK
  <2>13. \A d \in Caller : CallOK(d)'
    <3>1. ASSUME NEW d \in Caller, d # c
          PROVE  CallOK(d)'
      <4>1. CallOK(d) /\ caller'[d] = caller[d] /\ ~Owner(d)' /\ ~Owner(d)
        BY <1>1, <2>6, <2>12, <3>1, Zenon DEF Moved, Owner
      <4> QED
        BY <1>1, <2>3, <4>1 DEF CallOK, Owner
    <3>2. Op[c] = "start" => ~Begun /\ crashes = 0
      BY <1>1, <1>4 DEF Asked, Forgotten
    <3>3. Op[c] = "recover" => crashes > 0
      BY <1>1, Zenon DEF Asked
    <3>4. CallOK(c)'
      BY <1>1, <2>3, <2>4, <2>6, <2>9, <2>10, <3>2, <3>3 DEF CallOK, Owner
    <3> QED
      BY <3>1, <3>4, Zenon
  <2>14. \A d, e \in Caller : Owner(d)' /\ Owner(e)' => d = e
    BY <2>6, <2>12, Zenon DEF Owner, Moved
  <2> QED
    BY <2>4, <2>3, <2>7, <2>8, <2>11, <2>13, <2>14 DEF ManagerInv
<1> QED
  BY <1>2, <1>3, <1>4, Zenon DEF claim

-----------------------------------------------------------------------------
(* stop.                                                                   *)

\* A stop begins, or is given up.
LEMMA StoppingStep ==
    ASSUME ManagerInv, NEW c \in Caller, Op[c] = "stop", Moved(c), CallOK(c)', ~Owner(c)',
           NEW i \in 1 .. Len(execution), NEW b \in BOOLEAN, NEW f \in BOOLEAN,
           NEW y, y = [execution[i] EXCEPT !.stopping = b, !.stopFailure = f],
           execution' = [execution EXCEPT ![i] = y],
           faults' \in Nat, UNCHANGED <<closed, entry, backend, reported, crashes>>
    PROVE  ManagerInv'
<1>2. /\ Typed /\ Objects /\ Kept /\ MonitorOK(i) /\ execution[i] \in Execution
      /\ UNCHANGED <<container, task, made, exited, ran>>
  BY RecordOf, Zenon DEF ManagerInv, backend
<1>3. /\ y \in Execution /\ y.ready = execution[i].ready /\ y.finishing = execution[i].finishing
      /\ y.monitor = execution[i].monitor /\ y.done = execution[i].done
      /\ y.doneErr = execution[i].doneErr /\ y.task = execution[i].task
  BY <1>2, Zenon DEF Execution
<1>4. Disturbed'
  BY Zenon DEF Disturbed, Moved
<1>5. execution'[i] = y
  <2>1. i \in DOMAIN execution
    BY <1>2 DEF Typed
  <2> QED
    BY <2>1, Zenon
<1>6. MonitorOK(i)'
  BY <1>2, <1>3, <1>4, <1>5 DEF MonitorOK
<1>7. Objects' /\ Kept'
  BY <1>2, <1>4, Zenon DEF Objects, Kept
<1>8. /\ caller' \in [Caller -> Call] /\ \A d \in Caller : caller'[d].at \in Places[Op[d]]
      /\ \A d \in Caller : \/ caller'[d] = caller[d]
                           \/ CallOK(d)' /\ ~Owner(d)' /\ caller'[d].at # "call"
  BY <1>2, Zenon DEF Moved, Typed
<1>9. /\ container' \in {"none"} \cup Fingerprints
      /\ task' \in [id : Nat, status : {"none", "created"} \cup Started]
      /\ reported' # {} => Begun
  BY <1>2, Zenon DEF Typed, Begun
<1> QED
  BY <1>2, <1>3, <1>6, <1>7, <1>8, <1>9, RecordStep, Zenon

\* Two fields of a record are changed.
LEMMA TwoFields ==
    ASSUME ManagerInv, NEW i \in 1 .. Len(execution), NEW b \in BOOLEAN, NEW f \in BOOLEAN,
           NEW E, E = [execution EXCEPT ![i].stopping = b, ![i].stopFailure = f]
    PROVE  E = [execution EXCEPT ![i] = [execution[i] EXCEPT !.stopping = b, !.stopFailure = f]]
<1>1. execution \in Seq(Execution)
  BY Zenon DEF ManagerInv, Typed
<1>2. execution[i] \in Execution
  BY RecordOf, Zenon
<1> QED
  BY <1>1, <1>2, Zenon DEF Execution

\* A call of Stop ends, with its execution stopping no more unless it is done.
LEMMA Unstopped ==
    ASSUME ManagerInv, NEW c \in Caller, Op[c] = "stop", NEW r \in Results, Returns(c, r),
           NEW failure \in BOOLEAN, NEW i \in 1 .. Len(execution), Unstop(i, failure),
           faults' \in Nat, UNCHANGED <<closed, entry, backend, reported, crashes>>
    PROVE  ManagerInv'
<1>1. Moved(c) /\ CallOK(c)' /\ ~Owner(c)'
  BY ReturnsMoved, Zenon
<1>2. CASE execution[i].done
  <2>1. execution' = execution
    BY <1>2, Zenon DEF Unstop
  <2> QED
    BY <1>1, <2>1, LocalStep, Zenon DEF memory
<1>3. CASE ~execution[i].done
  <2>1. execution[i].stopFailure \in BOOLEAN
    BY RecordOf, Zenon DEF Execution
  <2>2. PICK f \in BOOLEAN :
            execution' = [execution EXCEPT ![i].stopping = FALSE, ![i].stopFailure = f]
    <3>1. CASE failure
      BY <1>3, <3>1, Zenon DEF Unstop
    <3>2. CASE ~failure
      <4>1. execution' = [execution EXCEPT ![i].stopping = FALSE,
                                           ![i].stopFailure = execution[i].stopFailure]
        BY <1>3, <3>2, RecordOf, Zenon DEF Unstop, Execution, ManagerInv, Typed
      <4> QED
        BY <2>1, <4>1, Zenon
    <3> QED
      BY <3>1, <3>2, Zenon
  <2>3. execution' = [execution EXCEPT ![i] =
            [execution[i] EXCEPT !.stopping = FALSE, !.stopFailure = f]]
    BY <2>2, TwoFields, Zenon
  <2> QED
    BY <1>1, <2>3, StoppingStep, Zenon
<1> QED
  BY <1>2, <1>3, Zenon

\* Stop joins the exit under way, signals the task or goes to the backend.
LEMMA stopOK ==
    ASSUME ManagerInv, NEW c \in Caller, stop(c)
    PROVE  ManagerInv'
<1>1. /\ Op[c] = "stop" /\ caller[c].at = "call" /\ Typed /\ ~Owner(c)
      /\ UNCHANGED <<closed, entry, backend, reported, crashes>> /\ faults' \in Nat
      /\ CallOK(c) /\ caller[c].result = "none"
  <2>1. /\ Op[c] = "stop" /\ caller[c].at = "call"
        /\ UNCHANGED <<closed, entry, backend, reported, bounds>>
    BY Zenon DEF stop, At
  <2>2. Typed /\ CallOK(c)
    BY Zenon DEF ManagerInv
  <2> QED
    BY <2>1, <2>2, Zenon DEF Typed, bounds, Owner, CallOK
<1>2. CASE execution' = execution /\ \E r \in {"closed", "ok"} : Returns(c, r)
  <2>1. PICK r \in {"closed", "ok"} : Returns(c, r)
    BY <1>2, Zenon
  <2> QED
    BY <1>1, <1>2, <2>1, ReturnsMoved, LocalStep, Zenon DEF Results, memory
<1>3. CASE execution' = execution /\ Goes(c, "backend")
  <2>1. "backend" \in Places[Op[c]] \ {"call"}
    BY <1>1, PlacesOf, Zenon
  <2>2. CallOK(c)' /\ ~Owner(c)'
    BY <1>1, <1>3, <2>1, GoesMoved, Zenon DEF CallOK, Owner
  <2> QED
    BY <1>1, <1>3, <2>1, <2>2, GoesMoved, LocalStep, Zenon DEF memory
<1>4. CASE /\ ~closed /\ entry # 0 /\ execution[entry].finishing /\ execution' = execution
           /\ caller' = [caller EXCEPT ![c].at = "finishing", ![c].entry = entry]
  <2>1. entry \in Nat /\ entry \in 1 .. Len(execution)
    BY <1>1, <1>4 DEF Typed
  <2>2. "finishing" \in Places[Op[c]] /\ "finishing" \in Place
    BY <1>1, PlacesOf, Zenon DEF Place
  <2>3. Moved(c) /\ caller'[c].at = "finishing" /\ caller'[c].entry = entry
        /\ caller'[c].result = "none"
    BY <1>1, <1>4, <2>1, <2>2, Zenon DEF Moved, Call, Typed
  <2>4. ran \subseteq exited
    BY <1>4, <2>1, Zenon DEF ManagerInv, MonitorOK
  <2>5. CallOK(c)' /\ ~Owner(c)'
    BY <1>1, <1>4, <2>1, <2>3, <2>4, Zenon DEF CallOK, Owner, backend
  <2> QED
    BY <1>1, <1>4, <2>3, <2>5, LocalStep, Zenon DEF memory
<1>5. CASE /\ entry # 0
           /\ execution' = [execution EXCEPT ![entry].stopping = TRUE, ![entry].stopFailure = FALSE]
           /\ caller' = [caller EXCEPT ![c].at = "kill", ![c].entry = entry,
                                       ![c].task = execution[entry].task]
  <2>1. PICK i \in 1 .. Len(execution) : i = entry
    BY <1>1, <1>5 DEF Typed
  <2>2. "kill" \in Places[Op[c]] /\ "kill" \in Place
    BY <1>1, PlacesOf, Zenon DEF Place
  <2>3. execution[i].task \in Nat /\ i \in Nat
    BY RecordOf DEF Execution
  <2>4. Moved(c) /\ caller'[c].at = "kill" /\ caller'[c].entry = i /\ caller'[c].result = "none"
    <3>1. [caller[c] EXCEPT !.at = "kill", !.entry = i, !.task = execution[i].task] \in Call
      BY <1>1, <2>2, <2>3, Zenon DEF Call, Typed
    <3>2. /\ caller'[c] = [caller[c] EXCEPT !.at = "kill", !.entry = i, !.task = execution[i].task]
          /\ caller' \in [Caller -> Call] /\ \A d \in Caller \ {c} : caller'[d] = caller[d]
      BY <1>1, <1>5, <2>1, <3>1, Zenon DEF Typed
    <3>3. caller'[c].at = "kill" /\ caller'[c].entry = i /\ caller'[c].result = "none"
      BY <1>1, <3>2 DEF Typed, Call
    <3> QED
      BY <2>2, <3>2, <3>3, Zenon DEF Moved
  <2>5. execution' = [execution EXCEPT ![i] =
            [execution[i] EXCEPT !.stopping = TRUE, !.stopFailure = FALSE]]
    BY <1>5, <2>1, TwoFields, Zenon
  <2>6. Len(execution') = Len(execution)
    BY <1>1, <2>5 DEF Typed
  <2>7. CallOK(c)' /\ ~Owner(c)'
    BY <1>1, <2>4, <2>6, Zenon DEF CallOK, Owner
  <2> QED
    BY <1>1, <2>4, <2>5, <2>7, StoppingStep, Zenon
<1> QED
  BY <1>2, <1>3, <1>4, <1>5, Zenon DEF stop

\* Stop signals the task of its entry.
LEMMA killOK ==
    ASSUME ManagerInv, NEW c \in Caller, kill(c)
    PROVE  ManagerInv'
<1>1. /\ caller[c].at \in {"kill", "backendKill"} /\ Op[c] = "stop" /\ Typed /\ Objects
      /\ UNCHANGED <<memory, container, made, exited, ran, reported, crashes>> /\ faults' \in Nat
      /\ CallOK(c) /\ caller[c].result = "none"
  <2>1. /\ caller[c].at \in {"kill", "backendKill"} /\ Typed /\ Objects /\ faults' \in Nat
        /\ UNCHANGED <<memory, container, made, exited, ran, reported, crashes>>
    BY Zenon DEF kill, ManagerInv, Typed, bounds
  <2>2. Op[c] = "stop" /\ CallOK(c)
    BY <2>1, PlacesOf, Zenon
  <2> QED
    BY <2>1, <2>2, Zenon DEF CallOK
<1>2. PICK pc \in {"killed", "backendWait"} :
        Goes(c, pc) /\ (pc = "killed" => caller[c].at = "kill")
  BY Zenon DEF kill
<1>3. pc \in Places[Op[c]] \ {"call"}
  BY <1>1, PlacesOf, Zenon
<1>4. Moved(c) /\ CallOK(c)' /\ ~Owner(c)' /\ Disturbed'
  <2>1. /\ Moved(c) /\ caller'[c].at = pc /\ caller'[c].entry = caller[c].entry
        /\ caller'[c].result = "none" /\ UNCHANGED <<entry, execution>>
    BY <1>1, <1>2, <1>3, GoesMoved, Zenon DEF memory
  <2> QED
    BY <1>1, <1>2, <2>1, Zenon DEF CallOK, Owner, Disturbed
<1>5. /\ task' \in [id : Nat, status : {"none", "created"} \cup Started]
      /\ Objects'
  <2>1. CASE task' = task
    BY <1>1, <2>1, Zenon DEF Objects, Typed
  <2>2. CASE task.status \in {"created", "running"} /\ task' = [task EXCEPT !.status = "killed"]
    <3>1. task'.id = task.id /\ task'.status = "killed"
          /\ task' \in [id : Nat, status : {"none", "created"} \cup Started]
      BY <1>1, <2>2, Zenon DEF Typed, Started
    <3>2. task # NoTask /\ task' # NoTask
      BY <2>2, <3>1 DEF NoTask
    <3> QED
      BY <1>1, <2>2, <3>1, <3>2, Zenon DEF Objects
  <2> QED
    BY <2>1, <2>2, Zenon DEF kill
<1>6. Kept'
  BY <1>4, Zenon DEF Kept
<1> QED
  BY <1>1, <1>4, <1>5, <1>6, CallStep DEF Typed

\* A backend call of Stop fails, and Stop gives the entry back.
LEMMA killFailsOK ==
    ASSUME ManagerInv, NEW c \in Caller, killFails(c)
    PROVE  ManagerInv'
<1>0. /\ caller[c].at \in {"kill", "backend", "backendTask", "backendKill"}
      /\ UNCHANGED <<closed, entry, backend, reported>> /\ Returns(c, "failed") /\ Fault
  BY Zenon DEF killFails
<1>1. /\ caller[c].at \in {"kill", "backend", "backendTask", "backendKill"} /\ Op[c] = "stop"
      /\ UNCHANGED <<closed, entry, backend, reported, crashes>> /\ faults' \in Nat
      /\ Returns(c, "failed") /\ CallOK(c) /\ "failed" \in Results /\ caller[c] \in Call
  <2>1. Op[c] = "stop" /\ CallOK(c) /\ caller[c] \in Call
    BY <1>0, PlacesOf
  <2>2. crashes' = crashes /\ faults' \in Nat
    BY <1>0 DEF ManagerInv, Typed, bounds, Fault
  <2> QED
    BY <1>0, <2>1, <2>2, Zenon DEF Results
<1>2. CASE caller[c].at = "kill"
  <2>1. PICK i \in 1 .. Len(execution) : i = caller[c].entry
    BY <1>1, <1>2, Zenon DEF CallOK
  <2> QED
    BY <1>1, <1>2, <2>1, Unstopped, Zenon DEF killFails
<1>3. CASE caller[c].at # "kill"
  <2>1. execution' = execution
    BY <1>3, Zenon DEF killFails
  <2> QED
    BY <1>1, <2>1, ReturnsMoved, LocalStep, Zenon DEF memory
<1> QED
  BY <1>2, <1>3, Zenon

\* Stop returns once the monitor is done with the exit.
LEMMA stopDoneOK ==
    ASSUME ManagerInv, NEW c \in Caller, stopDone(c)
    PROVE  ManagerInv'
<1>1. /\ \E r \in {"failed", "ok"} : Returns(c, r)
      /\ UNCHANGED <<memory, backend, reported, crashes>> /\ faults' \in Nat
  BY Zenon DEF stopDone, ManagerInv, Typed, bounds
<1>2. PICK r \in {"failed", "ok"} : Returns(c, r)
  BY <1>1, Zenon
<1> QED
  BY <1>1, <1>2, ReturnsMoved, LocalStep, Zenon DEF Results

\* The context of a Stop that waits for the monitor ends.
LEMMA stopCancelledOK ==
    ASSUME ManagerInv, NEW c \in Caller, stopCancelled(c)
    PROVE  ManagerInv'
<1>1. /\ Op[c] = "stop" /\ Returns(c, "cancelled") /\ "cancelled" \in Results
      /\ UNCHANGED <<closed, entry, backend, reported, crashes>> /\ faults' \in Nat /\ CallOK(c)
  BY PlacesOf DEF stopCancelled, ManagerInv, Typed, Cancel, Results
<1>2. CASE caller[c].at = "killed" /\ Unstop(caller[c].entry, TRUE)
  <2>1. PICK i \in 1 .. Len(execution) : i = caller[c].entry
    BY <1>1, <1>2, Zenon DEF CallOK
  <2> QED
    BY <1>1, <1>2, <2>1, Unstopped, Zenon
<1>3. CASE execution' = execution
  BY <1>1, <1>3, ReturnsMoved, LocalStep, Zenon DEF memory
<1> QED
  BY <1>2, <1>3, Zenon DEF stopCancelled

\* Stop of an execution without an entry looks the container up.
LEMMA backendStopOK ==
    ASSUME ManagerInv, NEW c \in Caller, backendStop(c)
    PROVE  ManagerInv'
<1>1. /\ Op[c] = "stop" /\ caller[c].at = "backend" /\ CallOK(c) /\ caller[c].result = "none"
      /\ UNCHANGED <<memory, backend, reported, crashes>> /\ faults' \in Nat
  BY PlacesOf, Zenon DEF backendStop, At, ManagerInv, Typed, bounds, CallOK
<1>2. CASE Returns(c, "ok")
  BY <1>1, <1>2, ReturnsMoved, LocalStep, Zenon DEF Results
<1>3. CASE Goes(c, "backendTask")
  <2>1. "backendTask" \in Places[Op[c]] \ {"call"}
    BY <1>1, PlacesOf, Zenon
  <2>2. CallOK(c)' /\ ~Owner(c)'
    BY <1>1, <1>3, <2>1, GoesMoved, Zenon DEF CallOK, Owner
  <2> QED
    BY <1>1, <1>3, <2>1, <2>2, GoesMoved, LocalStep, Zenon
<1> QED
  BY <1>2, <1>3, Zenon DEF backendStop

\* Stop of an execution without an entry looks the task up.
LEMMA backendTaskOK ==
    ASSUME ManagerInv, NEW c \in Caller, backendTask(c)
    PROVE  ManagerInv'
<1>1. /\ Op[c] = "stop" /\ caller[c].at = "backendTask" /\ CallOK(c) /\ caller[c].result = "none"
      /\ UNCHANGED <<memory, task, made, exited, ran, reported, crashes>> /\ faults' \in Nat
      /\ Typed /\ Objects
  BY PlacesOf, Zenon DEF backendTask, At, ManagerInv, Typed, bounds, CallOK
<1>2. Moved(c) /\ CallOK(c)' /\ ~Owner(c)'
  <2>1. CASE task = NoTask
    BY <1>1, <2>1, ReturnsMoved, Zenon DEF backendTask, Results
  <2>2. CASE task # NoTask
    <3>1. caller' = [caller EXCEPT ![c].at = "backendKill", ![c].task = task.id]
      BY <2>2, Zenon DEF backendTask
    <3>2. "backendKill" \in Places[Op[c]] /\ "backendKill" \in Place /\ task.id \in Nat
      BY <1>1, PlacesOf, Zenon DEF Place, Typed
    <3>3. Moved(c) /\ caller'[c].at = "backendKill" /\ caller'[c].result = "none"
      BY <1>1, <3>1, <3>2, Zenon DEF Moved, Call, Typed
    <3> QED
      BY <1>1, <3>3, Zenon DEF CallOK, Owner
  <2> QED
    BY <2>1, <2>2, Zenon
<1>3. Disturbed'
  BY <1>1, <1>2, Zenon DEF Moved, Disturbed
<1>4. container' \in {"none"} \cup Fingerprints /\ (container' = "none" => task = NoTask)
  BY <1>1, Zenon DEF backendTask, Typed, Objects
<1>5. Objects' /\ Kept'
  BY <1>1, <1>3, <1>4, Zenon DEF Objects, Kept
<1> QED
  BY <1>1, <1>2, <1>4, <1>5, CallStep DEF Typed

\* What Cleanup takes away has exited.
LEMMA Cleaned ==
    ASSUME ManagerInv, NEW ok \in BOOLEAN, Cleanup(ok), UNCHANGED <<made, exited, ran>>
    PROVE  /\ Objects' /\ container' \in {"none"} \cup Fingerprints
           /\ task' \in [id : Nat, status : {"none", "created"} \cup Started]
           /\ faults' \in Nat /\ UNCHANGED crashes
           /\ ok => ~closed /\ ran \subseteq exited
<1>1. Typed /\ Objects
  BY Zenon DEF ManagerInv
<1>2. faults' \in Nat /\ UNCHANGED crashes
  BY <1>1 DEF Cleanup, bounds, Fault, Typed
<1>3. CASE UNCHANGED <<container, task>> /\ ~ok
  BY <1>1, <1>2, <1>3, Zenon DEF Objects, Typed
<1>4. CASE /\ task.status \in {"none", "stopped"} /\ task' = NoTask
           /\ container' \in {"none", container} /\ (ok => ~closed)
  <2>1. ran \subseteq exited
    <3>1. task.status = "none" => task.id = 0
      BY <1>1, Zenon DEF Objects
    <3>2. 0 \notin ran
      BY <1>1 DEF Typed
    <3> QED
      BY <1>1, <1>4, <3>1, <3>2, Zenon DEF Objects
  <2>2. task'.id = 0 /\ task'.status = "none" /\ task' = NoTask
    BY <1>4, Zenon DEF NoTask
  <2>3. Objects'
    BY <1>1, <1>4, <2>1, <2>2 DEF Objects, Typed
  <2>4. /\ container' \in {"none"} \cup Fingerprints
        /\ task' \in [id : Nat, status : {"none", "created"} \cup Started]
    BY <1>1, <1>4, Zenon DEF Typed, NoTask
  <2> QED
    BY <1>2, <1>4, <2>1, <2>3, <2>4, Zenon
<1>5. CASE ok
  <2>1. /\ task.status \in {"none", "stopped"} /\ task' = NoTask /\ container' = "none" /\ ~closed
    BY <1>5, Zenon DEF Cleanup
  <2> QED
    BY <1>4, <2>1, Zenon
<1>6. CASE ~ok
  <2>1. \/ UNCHANGED <<container, task>>
        \/ task.status \in {"none", "stopped"} /\ task' = NoTask /\ container' = container
    BY <1>6, Zenon DEF Cleanup
  <2> QED
    BY <1>3, <1>4, <1>6, <2>1, Zenon
<1> QED
  BY <1>5, <1>6, Zenon

\* Stop of an execution without an entry removes what it stopped.
LEMMA backendStoppedOK ==
    ASSUME ManagerInv, NEW c \in Caller, NEW ok \in BOOLEAN, backendStopped(c, ok)
    PROVE  ManagerInv'
<1>1. /\ Op[c] = "stop" /\ UNCHANGED <<memory, made, exited, ran, reported>> /\ Cleanup(ok)
      /\ Typed /\ \E r \in Results : Returns(c, r)
  BY Zenon DEF backendStopped, At, ManagerInv, Results
<1>2. Moved(c) /\ CallOK(c)' /\ ~Owner(c)'
  BY <1>1, ReturnsMoved, Zenon
<1>3. Kept'
  BY <1>1, <1>2, Zenon DEF Moved, Disturbed, Kept
<1> QED
  BY <1>1, <1>2, <1>3, Cleaned, CallStep DEF Typed

-----------------------------------------------------------------------------
(* The completion monitor, forget, and what happens around the process.    *)

\* The fields of a record that the monitor changes.
LEMMA MonitorFields ==
    ASSUME ManagerInv, NEW i \in 1 .. Len(execution), NEW y \in Execution,
           execution' = [execution EXCEPT ![i] = y]
    PROVE  execution'[i] = y
<1>1. i \in DOMAIN execution
  BY DEF ManagerInv, Typed
<1> QED
  BY <1>1, Zenon

\* The monitor sees the task exit, or is cut off by Close.
LEMMA monitorExitOK ==
    ASSUME ManagerInv, NEW i \in 1 .. Len(execution), monitorExit(i)
    PROVE  ManagerInv'
<1> DEFINE x == execution[i]
           to == IF x.stopping THEN "cleaning" ELSE "reporting"
           y == [x EXCEPT !.finishing = TRUE, !.suppress = x.stopping, !.monitor = to]
<1>1. /\ Typed /\ Objects /\ Kept /\ MonitorOK(i) /\ x \in Execution
      /\ x.monitor = "waiting" /\ (x.task \in exited \/ closed)
      /\ UNCHANGED <<closed, entry, caller, container, task, made, exited, ran, reported, faults,
                     crashes>>
  BY RecordOf, Zenon DEF monitorExit, ManagerInv, backend, bounds
<1>2. execution' = [execution EXCEPT ![i] = y]
  <2>1. execution \in Seq(Execution)
    BY <1>1, Zenon DEF Typed
  <2> QED
    BY <1>1, <2>1, Zenon DEF monitorExit, Execution
<1>3. /\ y \in Execution /\ y.ready = x.ready /\ y.finishing /\ y.monitor = to /\ y.done = x.done
      /\ y.doneErr = x.doneErr /\ y.stopping = x.stopping /\ y.task = x.task
  BY <1>1, Zenon DEF Execution, Monitored
<1> HIDE DEF y
<1>4. execution'[i] = y
  BY <1>2, <1>3, MonitorFields, Zenon
<1>5. Disturbed' <=> Disturbed
  BY <1>1, Zenon DEF Disturbed
<1>6. MonitorOK(i)'
  <2>1. entry = i /\ x.ready /\ ran \subseteq exited \cup {x.task} /\ ~x.done
        /\ (x.stopping => Disturbed)
    BY <1>1, Zenon DEF MonitorOK, Monitored
  <2> QED
    BY <1>1, <1>3, <1>4, <1>5, <2>1, Zenon DEF MonitorOK, Monitored
<1>7. Objects' /\ Kept'
  BY <1>1, <1>5, Zenon DEF Objects, Kept
<1>8. reported' # {} => Begun
  BY <1>1, Zenon DEF Begun
<1> QED
  BY <1>1, <1>2, <1>3, <1>6, <1>7, <1>8, RecordStep, Zenon DEF Typed

\* The record of a monitor that is through.
LEMMA Doing ==
    ASSUME ManagerInv, NEW i \in 1 .. Len(execution), NEW err \in BOOLEAN,
           execution' = Done(i, err)
    PROVE  \E y \in Execution :
            /\ execution' = [execution EXCEPT ![i] = y] /\ y.ready = execution[i].ready
            /\ y.finishing = execution[i].finishing
            /\ y.monitor = "over" /\ y.done = TRUE /\ y.doneErr = err
            /\ y.stopping = execution[i].stopping /\ y.task = execution[i].task
<1> DEFINE y == [execution[i] EXCEPT !.monitor = "over", !.done = TRUE, !.doneErr = err]
<1>1. execution \in Seq(Execution) /\ execution[i] \in Execution
  BY RecordOf, Zenon DEF ManagerInv, Typed
<1>2. execution' = [execution EXCEPT ![i] = y]
  BY <1>1, Zenon DEF Done, Execution
<1>3. /\ y \in Execution /\ y.ready = execution[i].ready
      /\ y.finishing = execution[i].finishing /\ y.monitor = "over" /\ y.done = TRUE
      /\ y.doneErr = err /\ y.stopping = execution[i].stopping /\ y.task = execution[i].task
  BY <1>1, Zenon DEF Execution
<1> HIDE DEF y
<1> QED
  BY <1>2, <1>3, Zenon

\* The monitor publishes the exit, or ends because it could not.
LEMMA reportOK ==
    ASSUME ManagerInv, NEW i \in 1 .. Len(execution), report(i)
    PROVE  ManagerInv'
<1> DEFINE x == execution[i]
<1>1. /\ Typed /\ Objects /\ Kept /\ MonitorOK(i) /\ x \in Execution /\ x.monitor = "reporting"
      /\ UNCHANGED <<closed, entry, caller, container, task, made, exited, ran, crashes>>
      /\ faults' \in Nat
  <2>1. Typed /\ Objects /\ Kept /\ MonitorOK(i) /\ x \in Execution
    BY RecordOf, Zenon DEF ManagerInv
  <2>2. UNCHANGED bounds \/ Fault
    BY Zenon DEF report
  <2>3. faults' \in Nat /\ UNCHANGED crashes
    BY <2>1, <2>2 DEF bounds, Fault, Typed
  <2> QED
    BY <2>1, <2>3, Zenon DEF report, backend
<1>2. entry = i /\ x.ready /\ ran \subseteq exited \cup {x.task} /\ ~x.done /\ x.finishing
      /\ (~closed => ran \subseteq exited) /\ (x.stopping => Disturbed) /\ Begun
  BY <1>1, Zenon DEF MonitorOK, Monitored, Begun
<1>3. Disturbed' <=> Disturbed
  BY <1>1, Zenon DEF Disturbed
<1>4. Objects'
  BY <1>1, Zenon DEF Objects
<1>5. CASE /\ execution' = [execution EXCEPT ![i].monitor = "cleaning"]
           /\ reported' = reported \cup {execution[i].task}
  <2> DEFINE y == [x EXCEPT !.monitor = "cleaning"]
  <2>1. execution' = [execution EXCEPT ![i] = y]
    BY <1>5, Zenon
  <2>2. /\ y \in Execution /\ y.ready = x.ready /\ y.finishing = x.finishing
        /\ y.monitor = "cleaning" /\ y.done = x.done
        /\ y.doneErr = x.doneErr /\ y.stopping = x.stopping /\ y.task = x.task
    BY <1>1, Zenon DEF Execution, Monitored
  <2> HIDE DEF y
  <2>3. execution'[i] = y
    BY <2>1, <2>2, MonitorFields, Zenon
  <2>4. MonitorOK(i)' /\ Kept'
    <3>1. reported' # {}
      BY <1>5, Zenon
    <3> QED
      BY <1>1, <1>2, <1>3, <2>2, <2>3, <3>1, Zenon DEF MonitorOK, Monitored, Kept
  <2> QED
    BY <1>1, <1>2, <1>4, <1>5, <2>1, <2>2, <2>4, RecordStep, Zenon DEF Typed
<1>6. CASE execution' = Done(i, TRUE) /\ reported' = reported
  <2>2. PICK y \in Execution :
        /\ execution' = [execution EXCEPT ![i] = y] /\ y.ready = x.ready
        /\ y.finishing = x.finishing /\ y.monitor = "over" /\ y.done = TRUE /\ y.doneErr = TRUE
        /\ y.stopping = x.stopping /\ y.task = x.task
    BY <1>6, Doing, Zenon
  <2>3. execution'[i] = y
    BY <2>2, MonitorFields, Zenon
  <2>4. MonitorOK(i)' /\ Kept'
    BY <1>1, <1>2, <1>3, <1>6, <2>2, <2>3, Zenon DEF MonitorOK, Monitored, Kept
  <2> QED
    BY <1>1, <1>2, <1>4, <1>6, <2>2, <2>4, RecordStep, Zenon DEF Typed
<1> QED
  BY <1>5, <1>6, Zenon DEF report

\* The monitor removes the task and the container, and is over.
LEMMA cleanupOK ==
    ASSUME ManagerInv, NEW i \in 1 .. Len(execution), NEW ok \in BOOLEAN, cleanup(i, ok)
    PROVE  ManagerInv'
<1> DEFINE x == execution[i]
<1>1. /\ Typed /\ Kept /\ MonitorOK(i) /\ x.monitor = "cleaning" /\ Cleanup(ok)
      /\ execution' = Done(i, ~ok)
      /\ UNCHANGED <<closed, entry, caller, made, exited, ran, reported>>
  BY Zenon DEF cleanup, ManagerInv
<1>2. entry = i /\ x.ready /\ ran \subseteq exited \cup {x.task} /\ ~x.done /\ x.finishing
      /\ (~closed => ran \subseteq exited) /\ (x.stopping => Disturbed) /\ Begun
      /\ (reported # {} \/ Disturbed)
  BY <1>1, Zenon DEF MonitorOK, Monitored, Begun
<1>3. Disturbed' <=> Disturbed
  BY <1>1, Zenon DEF Disturbed
<1>4. PICK err \in BOOLEAN : err = ~ok /\ execution' = Done(i, err)
  BY <1>1, Zenon
<1>5. PICK y \in Execution :
      /\ execution' = [execution EXCEPT ![i] = y] /\ y.ready = x.ready
      /\ y.finishing = x.finishing /\ y.monitor = "over" /\ y.done = TRUE /\ y.doneErr = err
      /\ y.stopping = x.stopping /\ y.task = x.task
  BY <1>4, Doing, Zenon
<1>6. execution'[i] = y
  BY <1>5, MonitorFields, Zenon
<1>7. /\ Objects' /\ container' \in {"none"} \cup Fingerprints
      /\ task' \in [id : Nat, status : {"none", "created"} \cup Started]
      /\ faults' \in Nat /\ UNCHANGED crashes /\ (ok => ran \subseteq exited)
  BY <1>1, Cleaned, Zenon
<1>8. MonitorOK(i)' /\ Kept'
  BY <1>1, <1>2, <1>3, <1>4, <1>5, <1>6, <1>7, Zenon DEF MonitorOK, Monitored, Kept
<1> QED
  BY <1>1, <1>2, <1>5, <1>7, <1>8, RecordStep, Zenon DEF Typed

\* Forget drops the entry of an execution whose monitor is over.
LEMMA forgetOK ==
    ASSUME ManagerInv, NEW c \in Caller, forget(c)
    PROVE  ManagerInv'
<1>1. /\ Op[c] = "forget" /\ Typed /\ Objects /\ Kept
      /\ UNCHANGED <<closed, execution, container, task, made, exited, ran, reported,
                     faults, crashes>>
      /\ (\A j \in 1 .. Len(execution) : MonitorOK(j))
      /\ (\A d \in Caller : CallOK(d)) /\ \A d, e \in Caller : Owner(d) /\ Owner(e) => d = e
      /\ \E r \in Results : Returns(c, r)
  BY Zenon DEF forget, At, ManagerInv, backend, bounds, Results
<1>2. Moved(c) /\ caller'[c].at = "returned" /\ CallOK(c)' /\ ~Owner(c)'
  BY <1>1, ReturnsMoved, Zenon
<1>3. (Disturbed => Disturbed') /\ Forgotten' /\ Objects' /\ Kept'
  BY <1>1, <1>2, StillBegun, Zenon DEF Objects, Kept, Forgotten
<1>4. CASE entry' = entry
  <2>1. Typed
    BY <1>1, Zenon
  <2> QED
    BY <1>1, <1>2, <1>4, LocalStep, Zenon DEF memory, backend, Typed
<1>5. CASE entry' = 0 /\ (entry # 0 => execution[entry].done)
  <2>1. \A j \in 1 .. Len(execution) : execution[j].monitor \notin Monitored
    BY <1>1, <1>5 DEF MonitorOK, Monitored
  <2>2. \A d \in Caller : ~Owner(d)
    <3>1. ASSUME NEW d \in Caller, Owner(d)
          PROVE  FALSE
      <4>1. entry # 0 /\ ~execution[entry].ready /\ execution[entry].done
        BY <1>1, <1>5, <3>1, Zenon DEF CallOK
      <4>2. entry \in 1 .. Len(execution)
        BY <1>1, <4>1 DEF Typed
      <4> QED
        BY <1>1, <4>1, <4>2, Zenon DEF MonitorOK
    <3> QED
      BY <3>1, Zenon
  <2>3. Typed'
    <3>1. \A d \in Caller : caller'[d].at \in Places[Op[d]]
      BY <1>1, <1>2, Zenon DEF Moved, Typed
    <3> QED
      BY <1>1, <1>2, <1>5, <3>1 DEF Typed, Moved
  <2>4. \A j \in 1 .. Len(execution') : MonitorOK(j)'
    BY <1>1, <1>3, <2>1, Zenon DEF MonitorOK
  <2>5. \A d \in Caller : CallOK(d)'
    <3>1. ASSUME NEW d \in Caller, d # c
          PROVE  CallOK(d)'
      <4>1. CallOK(d) /\ caller'[d] = caller[d] /\ ~Owner(d) /\ ~Owner(d)'
        BY <1>1, <1>2, <2>2, <3>1, Zenon DEF Moved, Owner
      <4> QED
        BY <1>1, <4>1, Zenon DEF CallOK, Owner
    <3> QED
      BY <1>2, <3>1, Zenon
  <2>6. \A d, e \in Caller : Owner(d)' /\ Owner(e)' => d = e
    BY <1>2, <2>2, Zenon DEF Owner, Moved
  <2> QED
    BY <1>3, <2>3, <2>4, <2>5, <2>6, Zenon DEF ManagerInv
<1> QED
  BY <1>4, <1>5, Zenon DEF forget

\* Close ends the monitors that wait for an exit.
LEMMA closeOK ==
    ASSUME ManagerInv, close
    PROVE  ManagerInv'
<1>1. /\ closed' = TRUE /\ Typed /\ Objects /\ Kept
      /\ UNCHANGED <<entry, execution, caller, container, task, made, exited, ran, reported, faults,
                     crashes>>
      /\ (\A j \in 1 .. Len(execution) : MonitorOK(j))
      /\ (\A d \in Caller : CallOK(d)) /\ \A d, e \in Caller : Owner(d) /\ Owner(e) => d = e
      /\ Begun => entry # 0 \/ crashes > 0 \/ Forgotten
  BY Zenon DEF close, ManagerInv, backend, bounds
<1>2. /\ Typed' /\ Objects' /\ Kept' /\ (Disturbed' <=> Disturbed) /\ (Forgotten' <=> Forgotten)
      /\ (Begun' <=> Begun)
  BY <1>1, Zenon DEF Typed, Objects, Kept, Disturbed, Forgotten, Begun
<1>3. \A j \in 1 .. Len(execution') : MonitorOK(j)'
  BY <1>1, <1>2, Zenon DEF MonitorOK
<1>4. \A d \in Caller : CallOK(d)'
  BY <1>1, <1>2, Zenon DEF CallOK, Owner
<1> QED
  BY <1>1, <1>2, <1>3, <1>4, Zenon DEF ManagerInv, Owner

\* The process of the task exits by itself or is killed.
LEMMA taskExitsOK ==
    ASSUME ManagerInv, taskExits
    PROVE  ManagerInv'
<1>1. /\ task.status \in {"running", "killed"} /\ task' = [task EXCEPT !.status = "stopped"]
      /\ exited' = exited \cup {task.id} /\ Typed /\ Objects /\ Kept
      /\ UNCHANGED <<closed, entry, execution, caller, container, made, ran, reported, faults,
                     crashes>>
      /\ (\A j \in 1 .. Len(execution) : MonitorOK(j))
      /\ (\A d \in Caller : CallOK(d)) /\ \A d, e \in Caller : Owner(d) /\ Owner(e) => d = e
      /\ Begun => entry # 0 \/ crashes > 0 \/ Forgotten
  BY Zenon DEF taskExits, ManagerInv, memory, bounds
<1>2. /\ task'.id = task.id /\ task'.status = "stopped" /\ task # NoTask /\ task' # NoTask
      /\ task' \in [id : Nat, status : {"none", "created"} \cup Started]
      /\ exited' \subseteq 1 .. made
  <2>1. task # NoTask /\ task \in [id : Nat, status : {"none", "created"} \cup Started]
    BY <1>1 DEF NoTask, Typed
  <2>2. task'.id = task.id /\ task'.status = "stopped"
        /\ task' \in [id : Nat, status : {"none", "created"} \cup Started]
    BY <1>1, <2>1, Zenon DEF Started
  <2>3. task.id \in 1 .. made
    BY <1>1, <2>1 DEF Objects, Typed
  <2> QED
    BY <1>1, <2>1, <2>2, <2>3, Zenon DEF Typed, NoTask
<1>3. Typed'
  BY <1>1, <1>2, Zenon DEF Typed
<1>4. /\ Objects' /\ (Disturbed' <=> Disturbed) /\ (Forgotten' <=> Forgotten) /\ (Begun' <=> Begun)
  BY <1>1, <1>2, Zenon DEF Objects, Disturbed, Forgotten, Begun
<1>5. Kept'
  BY <1>1, <1>2, <1>4, Zenon DEF Kept
<1>6. \A j \in 1 .. Len(execution') : MonitorOK(j)'
  BY <1>1, <1>4, Zenon DEF MonitorOK
<1>7. \A d \in Caller : CallOK(d)'
  BY <1>1, <1>4, Zenon DEF CallOK, Owner
<1> QED
  BY <1>1, <1>3, <1>4, <1>5, <1>6, <1>7, Zenon DEF ManagerInv, Owner

\* The provider restarts: the registry is empty and containerd is as it was.
LEMMA CrashOK ==
    ASSUME ManagerInv, Crash
    PROVE  ManagerInv'
<1>1. /\ crashes' = crashes + 1 /\ closed' = FALSE /\ entry' = 0 /\ execution' = <<>>
      /\ UNCHANGED <<container, task, made, exited, ran, reported, faults>>
      /\ Typed /\ Objects /\ Kept /\ (\A d \in Caller : CallOK(d))
  BY Zenon DEF Crash, ManagerInv, backend
<1>2. ASSUME NEW d \in Caller
      PROVE  /\ caller'[d] \in Call /\ caller'[d].at \in Places[Op[d]] /\ ~Owner(d)'
             /\ caller[d].at # "call" => caller'[d].at # "call"
             /\ CallOK(d)'
  <2>1. caller[d] \in Call /\ caller[d].at \in Places[Op[d]] /\ CallOK(d)
        /\ "returned" \in Places[Op[d]] /\ "returned" \in Place
    BY PlacesOf, Zenon DEF Place
  <2>2. CASE caller[d].at \in {"call", "returned"}
    <3>1. caller'[d] = caller[d]
      BY <2>2, Zenon DEF Crash
    <3> QED
      BY <2>1, <2>2, <3>1, Zenon DEF CallOK, Owner
  <2>3. CASE caller[d].at \notin {"call", "returned"}
    <3>1. caller'[d] = [Fresh EXCEPT !.at = "returned", !.result = "lost"]
      BY <2>3, Zenon DEF Crash
    <3>2. caller'[d] \in Call /\ caller'[d].at = "returned"
      <4>1. {} \in SUBSET {"container", "task"} /\ 0 \in Nat /\ "lost" \in Results
        BY Zenon DEF Results
      <4>2. caller'[d] = [at |-> "returned", entry |-> 0, task |-> 0, own |-> {}, result |-> "lost"]
        BY <3>1, Zenon DEF Fresh
      <4> QED
        BY <2>1, <4>1, <4>2 DEF Call
    <3> QED
      BY <2>1, <3>2, Zenon DEF CallOK, Owner
  <2> QED
    BY <2>2, <2>3, Zenon
<1>3. caller' \in [Caller -> Call]
  BY <1>2, Zenon DEF Crash
<1>4. Disturbed => Disturbed'
  BY <1>2, Zenon DEF Disturbed
<1>5. Len(execution') = 0 /\ execution' \in Seq(Execution)
  BY <1>1
<1>6. Typed'
  <2>1. entry' \in 0 .. Len(execution') /\ crashes' \in Nat
    BY <1>1, <1>5 DEF Typed
  <2>2. /\ UNCHANGED <<container, task, made, exited, ran, faults>> /\ Typed /\ closed' = FALSE
        /\ execution' \in Seq(Execution)
    BY <1>1, <1>5, Zenon
  <2> QED
    BY <1>2, <1>3, <2>1, <2>2, Zenon DEF Typed
<1>7. Objects' /\ Kept' /\ crashes' > 0
  BY <1>1, <1>4 DEF Objects, Kept, Typed
<1> QED
  BY <1>2, <1>5, <1>6, <1>7 DEF ManagerInv

-----------------------------------------------------------------------------
(* The theorems.                                                           *)

\* The empty registry meets the invariant.
LEMMA InitOK ==
    ASSUME Init
    PROVE  ManagerInv
<1>1. /\ closed = FALSE /\ entry = 0 /\ execution = <<>> /\ container = "none" /\ task = NoTask
      /\ made = 0 /\ exited = {} /\ ran = {} /\ reported = {} /\ faults = 0 /\ crashes = 0
      /\ caller = [c \in Caller |-> Fresh]
  BY Zenon DEF Init
<1>2. ASSUME NEW c \in Caller
      PROVE  /\ caller[c] \in Call /\ caller[c].at = "call" /\ caller[c].result = "none"
             /\ caller[c].at \in Places[Op[c]]
  BY <1>1, ManagerAssumption DEF Fresh, Call, Place, Places, Results
<1>3. Len(execution) = 0 /\ execution \in Seq(Execution)
  BY <1>1
<1>4. Typed
  <2>1. entry \in 0 .. Len(execution) /\ faults \in Nat /\ crashes \in Nat /\ made \in Nat
    BY <1>1, <1>3
  <2>2. /\ closed = FALSE /\ container = "none" /\ exited = {} /\ ran = {}
        /\ caller \in [Caller -> Call]
        /\ task \in [id : Nat, status : {"none", "created"} \cup Started]
    BY <1>1, <1>2, Zenon DEF NoTask
  <2> QED
    BY <1>2, <1>3, <2>1, <2>2, Zenon DEF Typed
<1>5. Objects
  BY <1>1 DEF Objects, NoTask
<1>6. \A c \in Caller : CallOK(c) /\ ~Owner(c)
  BY <1>2, Zenon DEF CallOK, Owner
<1> QED
  BY <1>1, <1>3, <1>4, <1>5, <1>6 DEF ManagerInv, Begun, Kept

\* Every step of the adapter keeps the invariant.
LEMMA NextOK ==
    ASSUME ManagerInv, [Next]_vars
    PROVE  ManagerInv'
<1>1. ASSUME NEW c \in Caller, Serve(c)
      PROVE  ManagerInv'
  BY <1>1, claimOK, waitUntilReadyOK, loadContainerOK, newContainerOK, newTaskOK, startTaskOK,
     startFailsOK, recoverOK, finishStartOK, stopOK, killOK, killFailsOK, stopDoneOK,
     backendStopOK, backendTaskOK, backendStoppedOK, Zenon, Zenon DEF Serve
<1>2. ASSUME NEW i \in 1 .. Len(execution), Monitor(i)
      PROVE  ManagerInv'
  BY <1>2, monitorExitOK, reportOK, cleanupOK, Zenon DEF Monitor
<1>3. CASE UNCHANGED vars
  <2>1. /\ closed' = closed /\ entry' = entry /\ execution' = execution /\ caller' = caller
        /\ container' = container /\ task' = task /\ made' = made /\ exited' = exited /\ ran' = ran
        /\ reported' = reported /\ faults' = faults /\ crashes' = crashes
    BY <1>3, Zenon DEF vars, memory, backend, bounds
  <2>2. /\ Disturbed' = Disturbed /\ Forgotten' = Forgotten /\ Begun' = Begun
        /\ \A c \in Caller : Owner(c)' = Owner(c)
    BY <2>1 DEF Disturbed, Forgotten, Begun, Owner
  <2>3. Typed' = Typed
    BY <2>1 DEF Typed
  <2>4. Objects' = Objects
    BY <2>1 DEF Objects
  <2>5. ASSUME NEW i \in 1 .. Len(execution), MonitorOK(i)
        PROVE  MonitorOK(i)'
    BY <2>1, <2>2, <2>5 DEF MonitorOK
  <2>6. ASSUME NEW c \in Caller, CallOK(c)
        PROVE  CallOK(c)'
    BY <2>1, <2>2, <2>6 DEF CallOK
  <2>7. Kept' = Kept
    BY <2>1, <2>2 DEF Kept
  <2> QED
    BY <2>1, <2>2, <2>3, <2>4, <2>5, <2>6, <2>7, Zenon DEF ManagerInv
<1> QED
  BY <1>1, <1>2, <1>3, stopCancelledOK, forgetOK, closeOK, taskExitsOK, CrashOK, Zenon DEF Next

\* The inductive invariant of the adapter.
THEOREM ManagerInvariance == Spec => []ManagerInv
<1>1. Init => ManagerInv
  BY InitOK, Zenon
<1>2. ManagerInv /\ [Next]_vars => ManagerInv'
  BY NextOK, Zenon
<1> QED
  BY <1>1, <1>2, PTL DEF Spec

\* finishStart and forget never remove the entry of a process that has a monitor.
THEOREM MonitoredStaysRegistered == Spec => []MonitoredIsRegistered
<1>1. ManagerInv => MonitoredIsRegistered
  BY Zenon DEF ManagerInv, MonitorOK, MonitoredIsRegistered, Monitored
<1> QED
  BY <1>1, ManagerInvariance, PTL

\* An exit that nobody reported and no Stop asked for stays readable.
THEOREM ExitStaysReadable == Spec => []ExitKept
<1>1. ManagerInv => ExitKept
  <2>1. ASSUME ManagerInv, ran # {}, ran \subseteq exited, reported = {},
               \A c \in Caller : Op[c] = "stop" => caller[c].at = "call"
        PROVE  task.id \in ran /\ task.status = "stopped"
    BY <2>1, Zenon DEF ManagerInv, Kept, Disturbed, Objects
  <2> QED
    BY <2>1, Zenon DEF ExitKept
<1> QED
  BY <1>1, ManagerInvariance, PTL

-----------------------------------------------------------------------------
(* The refinement.                                                         *)

\* What the refinement mapping of W makes of the state.
Phase == IF ran = {} THEN "absent" ELSE IF ran \subseteq exited THEN "over" ELSE "live"
Stopped == {c \in Caller : Op[c] = "stop" /\ caller[c].result = "ok"}

\* The steps of W, in terms of the mapping.
LEMMA Abstract ==
    /\ Init /\ Phase = "absent" /\ Stopped = {} => W!Init
    /\ UNCHANGED <<Phase, reported, Stopped, closed>> => UNCHANGED W!vars
    /\ Phase = "absent" /\ reported = {} /\ Phase' = "live"
            /\ UNCHANGED <<reported, Stopped, closed>> => W!Launch
    /\ Phase = "live" /\ Phase' = "over" /\ UNCHANGED <<reported, Stopped, closed>> => W!Exit
    /\ (Phase = "live" => closed) /\ reported = {} /\ reported' # {}
            /\ UNCHANGED <<Phase, Stopped, closed>> => W!Report
    /\ closed' /\ UNCHANGED <<Phase, reported, Stopped>> => W!Close
    /\ ~closed' /\ UNCHANGED <<Phase, reported, Stopped>> => W!Open
<1>1. Init /\ Phase = "absent" /\ Stopped = {} => W!Init
  BY Zenon DEF Phase, Stopped, W!Init, Init
<1>2. UNCHANGED <<Phase, reported, Stopped, closed>> => UNCHANGED W!vars
  BY DEF Phase, Stopped, W!vars
<1>3. Phase = "absent" /\ reported = {} /\ Phase' = "live"
            /\ UNCHANGED <<reported, Stopped, closed>> => W!Launch
  BY DEF Phase, Stopped, W!Launch
<1>4. Phase = "live" /\ Phase' = "over" /\ UNCHANGED <<reported, Stopped, closed>> => W!Exit
  BY DEF Phase, Stopped, W!Exit
<1>5. (Phase = "live" => closed) /\ reported = {} /\ reported' # {}
            /\ UNCHANGED <<Phase, Stopped, closed>> => W!Report
  BY DEF Phase, Stopped, W!Report
<1>6. closed' /\ UNCHANGED <<Phase, reported, Stopped>> => W!Close
  BY Zenon DEF Phase, Stopped, W!Close
<1>7. ~closed' /\ UNCHANGED <<Phase, reported, Stopped>> => W!Open
  BY Zenon DEF Phase, Stopped, W!Open
<1> QED
  BY <1>1, <1>2, <1>3, <1>4, <1>5, <1>6, <1>7, Zenon

\* A Stop that succeeds.
LEMMA AbstractStop ==
    ASSUME NEW c \in Caller, Op[c] = "stop", Phase # "live", c \notin Stopped,
           Stopped' = Stopped \cup {c}, UNCHANGED <<Phase, reported, closed>>
    PROVE  W!Next
<1>1. W!Stop(c)
  BY Zenon DEF Phase, Stopped, W!Stop
<1>2. c \in {d \in Caller : Op[d] = "stop"}
  OBVIOUS
<1> QED
  BY <1>1, <1>2, Zenon DEF W!Next

\* Steps of a call that is not a Stop that succeeds: a workload may end in them.
LEMMA OtherCall ==
    ASSUME ManagerInv, NEW c \in Caller, caller[c].at # "returned", Moved(c),
           Op[c] = "stop" => caller'[c].result # "ok", exited \subseteq exited',
           UNCHANGED <<closed, ran, reported>>
    PROVE  W!Next \/ UNCHANGED W!vars
<1>1. Op[c] = "stop" => caller[c].result = "none"
  BY PlacesOf, Zenon DEF CallOK
<1>2. Stopped' = Stopped
  BY <1>1, Zenon DEF Stopped, Moved
<1>3. Phase' = Phase \/ (Phase = "live" /\ Phase' = "over")
  BY Zenon DEF Phase
<1> QED
  BY <1>2, <1>3, Abstract, Zenon DEF W!Next

\* A call that goes on, or ends otherwise than with success.
LEMMA OtherReturns ==
    ASSUME ManagerInv, NEW c \in Caller, caller[c].at # "returned",
           NEW r \in Results, Returns(c, r), Op[c] = "stop" => r # "ok", exited \subseteq exited',
           UNCHANGED <<closed, ran, reported>>
    PROVE  W!Next \/ UNCHANGED W!vars
  BY ReturnsMoved, OtherCall, Zenon

\* A call that goes on leaves the state of Workload alone.
LEMMA OtherGoes ==
    ASSUME ManagerInv, NEW c \in Caller, caller[c].at # "returned",
           NEW pc \in Places[Op[c]] \ {"call"}, Goes(c, pc), exited \subseteq exited',
           UNCHANGED <<closed, ran, reported>>
    PROVE  W!Next \/ UNCHANGED W!vars
<1>1. Op[c] = "stop" => caller[c].result = "none"
  BY PlacesOf, Zenon DEF CallOK
<1> QED
  BY <1>1, GoesMoved, OtherCall, Zenon

\* A Stop succeeds when nothing that ran is still running: Stop of Workload.
LEMMA StopReturns ==
    ASSUME ManagerInv, NEW c \in Caller, Op[c] = "stop", caller[c].at # "returned",
           Returns(c, "ok"), ran \subseteq exited, UNCHANGED <<closed, exited, ran, reported>>
    PROVE  W!Next
<1>1. Moved(c) /\ caller'[c].result = "ok"
  BY ReturnsMoved, Zenon DEF Results
<1>2. caller[c].result = "none"
  BY PlacesOf, Zenon DEF CallOK
<1>3. c \notin Stopped /\ Stopped' = Stopped \cup {c}
  BY <1>1, <1>2, Zenon DEF Stopped, Moved
<1>4. Phase' = Phase /\ Phase # "live"
  BY Zenon DEF Phase
<1> QED
  BY <1>3, <1>4, AbstractStop, Zenon

\* The calls of start and recover other than the one that runs the task leave
\* the state of Workload alone.
LEMMA StartSimulates ==
    ASSUME ManagerInv, NEW c \in Caller,
           \/ claim(c) \/ waitUntilReady(c) \/ loadContainer(c) \/ newContainer(c) \/ newTask(c)
           \/ startFails(c) \/ recover(c) \/ recoverFails(c) \/ finishStart(c)
    PROVE  W!Next \/ UNCHANGED W!vars
<1>1. UNCHANGED <<closed, ran, reported>> /\ exited \subseteq exited'
  BY Zenon DEF claim, waitUntilReady, loadContainer, newContainer, newTask, startFails, recover,
     recoverFails, finishStart, memory, backend, Delete
<1>2. Op[c] \in {"start", "recover"} /\ caller[c].at # "returned"
  BY PlacesOf, Zenon DEF claim, waitUntilReady, loadContainer, newContainer, newTask, startFails,
     recover, recoverFails, finishStart, At
<1>3. Stopped' = Stopped
  <2>1. \A d \in Caller : d # c => caller'[d] = caller[d]
    BY Zenon DEF claim, waitUntilReady, loadContainer, newContainer, newTask, startFails, recover,
       recoverFails, finishStart, Returns, Goes, Finishing, ManagerInv, Typed
  <2> QED
    BY <1>2, <2>1, Zenon DEF Stopped
<1>4. Phase' = Phase \/ (Phase = "live" /\ Phase' = "over")
  BY <1>1, Zenon DEF Phase
<1> QED
  BY <1>1, <1>3, <1>4, Abstract, Zenon DEF W!Next

\* The task is let run at most once: Launch of Workload.
LEMMA startTaskSimulates ==
    ASSUME ManagerInv, NEW c \in Caller, startTask(c)
    PROVE  W!Next
<1>1. /\ Op[c] = "start" /\ caller[c].at = "run" /\ task.status = "created" /\ Typed /\ Objects
      /\ UNCHANGED <<closed, exited, reported>> /\ ran' = ran \cup {task.id}
      /\ Finishing(c, "ok", task.id)
  BY Zenon DEF startTask, At, ManagerInv, memory
<1>2. ran = {} /\ reported = {} /\ task.id \notin exited
  BY <1>1, Starting, Zenon DEF Objects
<1>3. Phase = "absent" /\ Phase' = "live"
  BY <1>1, <1>2, Zenon DEF Phase
<1>4. Stopped' = Stopped
  BY <1>1, Zenon DEF Stopped, Finishing, Typed
<1> QED
  BY <1>1, <1>2, <1>3, <1>4, Abstract, Zenon DEF W!Next

\* A Stop of a registered execution returns ok only once its task has exited.
LEMMA StopSimulates ==
    ASSUME ManagerInv, NEW c \in Caller,
           stop(c) \/ kill(c) \/ killFails(c) \/ stopDone(c) \/ stopCancelled(c)
    PROVE  W!Next \/ UNCHANGED W!vars
<1>1. /\ UNCHANGED <<closed, ran, reported, exited>> /\ Op[c] = "stop"
      /\ caller[c].at # "returned" /\ CallOK(c) /\ Typed
  BY PlacesOf, Zenon DEF stop, kill, killFails, stopDone, stopCancelled, memory, backend, At,
     ManagerInv
<1>2. CASE stop(c)
  <2>1. CASE entry # 0 /\ ~closed /\ execution[entry].done /\ Returns(c, "ok")
    <3>1. entry \in 1 .. Len(execution)
      BY <1>1, <2>1 DEF Typed
    <3>2. ran \subseteq exited
      BY <2>1, <3>1, Zenon DEF ManagerInv, MonitorOK
    <3> QED
      BY <1>1, <2>1, <3>2, StopReturns, Zenon
  <2>2. CASE Returns(c, "closed")
    BY <1>1, <2>2, OtherReturns, Zenon DEF Results
  <2>3. CASE Goes(c, "backend")
    BY <1>1, <2>3, PlacesOf, OtherGoes, Zenon
  <2>4. CASE \/ caller' = [caller EXCEPT ![c].at = "finishing", ![c].entry = entry]
             \/ caller' = [caller EXCEPT ![c].at = "kill", ![c].entry = entry,
                                         ![c].task = execution[entry].task]
    <3>1. Stopped' = Stopped
      <4>1. caller \in [Caller -> Call] /\ caller[c] \in Call
        BY <1>1, Zenon DEF Typed
      <4>2. caller'[c].result = caller[c].result /\ \A d \in Caller \ {c} : caller'[d] = caller[d]
        BY <2>4, <4>1 DEF Call
      <4> QED
        BY <4>2, Zenon DEF Stopped
    <3>2. Phase' = Phase
      BY <1>1, Zenon DEF Phase
    <3> QED
      BY <1>1, <3>1, <3>2, Abstract, Zenon
  <2> QED
    BY <1>2, <2>1, <2>2, <2>3, <2>4, Zenon DEF stop
<1>3. CASE kill(c)
  <2>1. PICK pc \in {"killed", "backendWait"} : Goes(c, pc)
    BY <1>3, Zenon DEF kill
  <2> QED
    BY <1>1, <2>1, PlacesOf, OtherGoes, Zenon
<1>4. CASE killFails(c) \/ stopCancelled(c)
  <2>1. PICK r \in {"failed", "cancelled"} : Returns(c, r)
    BY <1>4, Zenon DEF killFails, stopCancelled
  <2> QED
    BY <1>1, <2>1, OtherReturns, Zenon DEF Results
<1>5. CASE stopDone(c)
  <2>1. CASE Returns(c, "failed")
    BY <1>1, <2>1, OtherReturns, Zenon DEF Results
  <2>2. CASE caller[c].at = "finishing" /\ Returns(c, "ok")
    BY <1>1, <2>2, StopReturns, Zenon DEF CallOK
  <2>3. CASE /\ caller[c].at = "killed" /\ Returns(c, "ok")
             /\ execution[caller[c].entry].done /\ ~execution[caller[c].entry].doneErr
    <3>1. PICK i \in 1 .. Len(execution) : i = caller[c].entry
      BY <1>1, <2>3, Zenon DEF CallOK
    <3>2. ran \subseteq exited
      BY <2>3, <3>1, Zenon DEF ManagerInv, MonitorOK
    <3> QED
      BY <1>1, <2>3, <3>2, StopReturns, Zenon
  <2> QED
    BY <1>5, <2>1, <2>2, <2>3, Zenon DEF stopDone
<1> QED
  BY <1>2, <1>3, <1>4, <1>5, Zenon

\* A Stop of an unregistered execution returns ok only once its task has exited.
LEMMA BackendSimulates ==
    ASSUME ManagerInv, NEW c \in Caller,
           backendStop(c) \/ backendTask(c) \/ \E ok \in BOOLEAN : backendStopped(c, ok)
    PROVE  W!Next \/ UNCHANGED W!vars
<1>1. /\ UNCHANGED <<closed, ran, reported, exited>> /\ Op[c] = "stop"
      /\ caller[c].at # "returned" /\ Typed /\ Objects
  BY Zenon DEF backendStop, backendTask, backendStopped, memory, backend, At, ManagerInv
<1>2. task = NoTask => ran \subseteq exited
  <2>1. NoTask.id = 0 /\ 0 \notin ran
    BY <1>1 DEF NoTask, Typed
  <2> QED
    BY <1>1, <2>1, Zenon DEF Objects
<1>3. CASE backendStop(c)
  <2>1. CASE container = "none"
    BY <1>1, <1>2, <1>3, <2>1, StopReturns, Zenon DEF backendStop, Objects
  <2>2. CASE container # "none"
    <3>1. Goes(c, "backendTask")
      BY <1>3, <2>2, Zenon DEF backendStop
    <3> QED
      BY <1>1, <3>1, PlacesOf, OtherGoes, Zenon
  <2> QED
    BY <2>1, <2>2, Zenon
<1>4. CASE backendTask(c)
  <2>1. CASE task = NoTask
    BY <1>1, <1>2, <1>4, <2>1, StopReturns, Zenon DEF backendTask
  <2>2. CASE task # NoTask
    <3>1. caller' = [caller EXCEPT ![c].at = "backendKill", ![c].task = task.id]
          /\ caller \in [Caller -> Call]
      BY <1>1, <1>4, <2>2, Zenon DEF backendTask, Typed
    <3>2. caller'[c].result = caller[c].result /\ \A d \in Caller \ {c} : caller'[d] = caller[d]
      BY <3>1, Zenon DEF Call
    <3>3. Stopped' = Stopped /\ Phase' = Phase
      BY <1>1, <3>2, Zenon DEF Stopped, Phase
    <3> QED
      BY <1>1, <3>3, Abstract, Zenon
  <2> QED
    BY <2>1, <2>2, Zenon
<1>5. ASSUME NEW ok \in BOOLEAN, backendStopped(c, ok)
      PROVE  W!Next \/ UNCHANGED W!vars
  <2>1. CASE ok
    <3>1. Returns(c, "ok") /\ Cleanup(ok) /\ made' = made
      BY <1>5, <2>1, Zenon DEF backendStopped
    <3> QED
      BY <1>1, <2>1, <3>1, Cleaned, StopReturns, Zenon
  <2>2. CASE ~ok
    <3>1. Returns(c, "failed")
      BY <1>5, <2>2, Zenon DEF backendStopped
    <3> QED
      BY <1>1, <3>1, OtherReturns, Zenon DEF Results
  <2> QED
    BY <2>1, <2>2, Zenon
<1> QED
  BY <1>3, <1>4, <1>5, Zenon

\* The monitor reports the end of a task that has exited, or of one that Close
\* cut it off from: Report of Workload.
LEMMA MonitorSimulates ==
    ASSUME ManagerInv, NEW i \in 1 .. Len(execution), Monitor(i)
    PROVE  W!Next \/ UNCHANGED W!vars
<1>1. UNCHANGED <<closed, caller, exited, ran>>
  BY Zenon DEF Monitor, monitorExit, report, cleanup, backend
<1>2. Phase' = Phase /\ Stopped' = Stopped
  BY <1>1, Zenon DEF Phase, Stopped
<1>3. CASE report(i)
  <2>1. /\ execution[i].monitor = "reporting"
        /\ reported' = reported \/ reported' = reported \cup {execution[i].task}
    BY <1>3, Zenon DEF report
  <2>2. ~closed => ran \subseteq exited
    BY <2>1, Zenon DEF ManagerInv, MonitorOK
  <2>3. Phase = "live" => closed
    BY <2>2, <1>1, Zenon DEF Phase, ManagerInv, Typed
  <2>4. CASE reported' = reported
    BY <1>1, <1>2, <2>4, Abstract, Zenon
  <2>5. CASE reported = {} /\ reported' # {}
    BY <1>1, <1>2, <2>3, <2>5, Abstract, Zenon DEF W!Next
  <2>6. CASE reported # {} /\ reported' # {}
    BY <1>1, <1>2, <2>6, Zenon DEF W!vars, Phase, Stopped
  <2> QED
    BY <2>1, <2>4, <2>5, <2>6, Zenon
<1>4. CASE monitorExit(i) \/ \E ok \in BOOLEAN : cleanup(i, ok)
  <2>1. reported' = reported
    BY <1>4, Zenon DEF monitorExit, cleanup
  <2> QED
    BY <1>1, <1>2, <2>1, Abstract, Zenon
<1> QED
  BY <1>3, <1>4, Zenon DEF Monitor

\* Forget changes nothing that Workload sees; Close, an exit and a restart are
\* its Close, Exit and Open.
LEMMA OtherSimulates ==
    ASSUME ManagerInv, (\E c \in Caller : forget(c)) \/ close \/ taskExits \/ Crash
    PROVE  W!Next \/ UNCHANGED W!vars
<1>1. CASE \E c \in Caller : forget(c)
  <2>1. PICK c \in Caller : forget(c)
    BY <1>1, Zenon
  <2>2. PICK r \in {"failed", "ok"} : Returns(c, r)
    BY <2>1, Zenon DEF forget
  <2>3. /\ UNCHANGED <<closed, exited, ran, reported>> /\ Op[c] = "forget"
        /\ caller[c].at # "returned"
    BY <2>1, Zenon DEF forget, At, backend
  <2> QED
    BY <2>2, <2>3, OtherReturns, Zenon DEF Results
<1>2. CASE close
  <2>1. closed' /\ UNCHANGED <<caller, exited, ran, reported>>
    BY <1>2, Zenon DEF close, backend
  <2>2. Phase' = Phase /\ Stopped' = Stopped
    BY <2>1, Zenon DEF Phase, Stopped
  <2> QED
    BY <2>1, <2>2, Abstract, Zenon DEF W!Next
<1>3. CASE taskExits
  <2>1. UNCHANGED <<closed, caller, ran, reported>> /\ exited' = exited \cup {task.id}
    BY <1>3, Zenon DEF taskExits, memory
  <2>2. Stopped' = Stopped /\ (Phase' = Phase \/ (Phase = "live" /\ Phase' = "over"))
    BY <2>1, Zenon DEF Phase, Stopped
  <2> QED
    BY <2>1, <2>2, Abstract, Zenon DEF W!Next
<1>4. CASE Crash
  <2>1. ~closed' /\ UNCHANGED <<exited, ran, reported>>
    BY <1>4, Zenon DEF Crash, backend
  <2>2. ASSUME NEW d \in Caller, Op[d] = "stop"
        PROVE  caller'[d].result = "ok" <=> caller[d].result = "ok"
    <3>1. CallOK(d)
      BY Zenon DEF ManagerInv
    <3>2. CASE caller[d].at \in {"call", "returned"}
      BY <1>4, <3>2, Zenon DEF Crash
    <3>3. CASE caller[d].at \notin {"call", "returned"}
      <4>1. caller[d].result = "none"
        BY <2>2, <3>1, <3>3, Zenon DEF CallOK
      <4>2. caller'[d] = [Fresh EXCEPT !.at = "returned", !.result = "lost"]
        BY <1>4, <3>3, Zenon DEF Crash
      <4> QED
        BY <4>1, <4>2, Zenon DEF Fresh
    <3> QED
      BY <3>2, <3>3, Zenon
  <2>3. Phase' = Phase /\ Stopped' = Stopped
    BY <2>1, <2>2, Zenon DEF Phase, Stopped
  <2> QED
    BY <2>1, <2>3, Abstract, Zenon DEF W!Next
<1> QED
  BY <1>1, <1>2, <1>3, <1>4, Zenon

\* Every step of the adapter is a step of Workload or leaves its state alone.
LEMMA Simulates ==
    ASSUME ManagerInv, [Next]_vars
    PROVE  [W!Next]_(W!vars)
<1>1. ASSUME NEW c \in Caller, Serve(c) \/ stopCancelled(c)
      PROVE  W!Next \/ UNCHANGED W!vars
  BY <1>1, StartSimulates, startTaskSimulates, StopSimulates, BackendSimulates, Zenon DEF Serve
<1>2. CASE UNCHANGED vars
  <2>1. UNCHANGED <<closed, caller, exited, ran, reported>>
    BY <1>2, Zenon DEF vars, memory, backend
  <2>2. Phase' = Phase /\ Stopped' = Stopped
    BY <2>1, Zenon DEF Phase, Stopped
  <2> QED
    BY <2>1, <2>2, Abstract, Zenon
<1> QED
  BY <1>1, <1>2, MonitorSimulates, OtherSimulates, Zenon DEF Next

\* The adapter implements the runtime that the allocator relies on: whatever the
\* order of calls, exits, failures, shutdowns and restarts, the workload of an
\* execution ID runs at most once, not when an open adapter reported its end and
\* not when a Stop succeeds.
THEOREM ImplementsRuntime == Spec => IsRuntime
<1>1. Init => W!Init
  <2>1. Init => Phase = "absent" /\ Stopped = {}
    BY DEF Init, Phase, Stopped, Fresh
  <2> QED
    BY <2>1, Abstract, Zenon
<1>2. ManagerInv /\ [Next]_vars => [W!Next]_(W!vars)
  BY Simulates, Zenon
<1> QED
  BY <1>1, <1>2, ManagerInvariance, PTL DEF Spec, IsRuntime, W!Spec
=============================================================================
