-------------------------- MODULE ExecutionManager --------------------------
(***************************************************************************)
(* internal/runtime/containerd: the registry of one execution ID, its      *)
(* completion monitor, and the containerd objects behind it.  m.mu is      *)
(* released around every call of the backend, so each such call is a step  *)
(* of its own; containers and tasks outlive the process.                   *)
(***************************************************************************)
EXTENDS Naturals, Sequences, FiniteSets

CONSTANTS
    Fingerprints,  \* of the specifications that callers ask for
    Caller,        \* the calls of the adapter
    Op,            \* what each of them calls
    Asks,          \* and for which specifications
    MaxEntries,    \* bound on the entries made for the ID
    MaxFaults,     \* bound on backend calls that fail and contexts that end
    Closing,       \* whether the daemon shuts down
    MaxCrashes     \* bound on restarts of the process

ASSUME ManagerAssumption ==
    /\ Op \in [Caller -> {"start", "recover", "stop", "forget"}]
    /\ Asks \in [Caller -> SUBSET Fingerprints] /\ "none" \notin Fingerprints
    /\ MaxEntries \in Nat /\ MaxFaults \in Nat /\ MaxCrashes \in Nat

VARIABLES
    closed,     \* executionManager.closed
    entry,      \* executionManager.entries for the ID: an index of execution, or 0
    execution,  \* every execution record made since the process started
    caller,     \* the calls
    container,  \* the container of the ID: its spec label, or "none"
    task,       \* its task
    made,       \* the number of tasks made
    exited,     \* the tasks that have exited
    ran,        \* history: the tasks that were started
    reported,   \* history: the tasks whose exit was reported
    faults, crashes

memory == <<closed, entry, execution>>
backend == <<container, task, made, exited, ran>>
bounds == <<faults, crashes>>
vars == <<memory, caller, backend, reported, bounds>>

Started == {"running", "killed", "stopped"}
NoTask == [id |-> 0, status |-> "none"]
Fresh == [at |-> "call", entry |-> 0, task |-> 0, own |-> {}, result |-> "none"]

Init ==
    /\ closed = FALSE /\ entry = 0 /\ execution = <<>>
    /\ caller = [c \in Caller |-> Fresh]
    /\ container = "none" /\ task = NoTask /\ made = 0 /\ exited = {} /\ ran = {}
    /\ reported = {} /\ faults = 0 /\ crashes = 0

At(c, op, pc) == Op[c] = op /\ caller[c].at = pc
Goes(c, pc) == caller' = [caller EXCEPT ![c].at = pc]
Returns(c, r) == caller' = [caller EXCEPT ![c].at = "returned", ![c].result = r]

\* A call of the backend fails; every one does once the client is closed.
Fault ==
    \/ closed /\ UNCHANGED bounds
    \/ ~closed /\ faults < MaxFaults /\ faults' = faults + 1 /\ UNCHANGED crashes

Cancel == faults < MaxFaults /\ faults' = faults + 1 /\ UNCHANGED crashes

-----------------------------------------------------------------------------
(* start and recover.                                                      *)

newExecution(f) ==
    [fingerprint |-> f, ready |-> FALSE, startErr |-> "none", task |-> 0, stopping |-> FALSE,
     stopFailure |-> FALSE, finishing |-> FALSE, done |-> FALSE, doneErr |-> FALSE,
     monitor |-> "none", suppress |-> FALSE]

\* The allocator starts an execution before it is forgotten, and recovers it
\* after a restart.
Asked(c) ==
    /\ Op[c] = "start" => crashes = 0 /\ \A d \in Caller : Op[d] = "forget" => caller[d].at = "call"
    /\ Op[c] = "recover" => crashes > 0

claim(c) ==
    /\ Op[c] \in {"start", "recover"} /\ caller[c].at = "call" /\ Asked(c)
    /\ \/ closed /\ Returns(c, "closed") /\ UNCHANGED <<entry, execution>>
       \/ /\ ~closed /\ entry # 0
          /\ \E f \in Asks[c] :
                IF execution[entry].fingerprint # f THEN Returns(c, "conflict")
                ELSE caller' = [caller EXCEPT ![c].at = "ready", ![c].entry = entry]
          /\ UNCHANGED <<entry, execution>>
       \/ /\ ~closed /\ entry = 0 /\ Len(execution) < MaxEntries
          /\ \E f \in Asks[c] : execution' = Append(execution, newExecution(f))
          /\ entry' = Len(execution')
          /\ caller' = [caller EXCEPT ![c].at = "load", ![c].entry = entry']
    /\ UNCHANGED <<closed, backend, reported, bounds>>

\* The specification a call that owns its entry was made for.
Fingerprint(c) == execution[caller[c].entry].fingerprint

waitUntilReady(c) ==
    LET x == execution[caller[c].entry] IN
    /\ caller[c].at = "ready"
    /\ \/ x.ready /\ Returns(c, x.startErr) /\ UNCHANGED bounds
       \/ Cancel /\ Returns(c, "cancelled")
    /\ UNCHANGED <<memory, backend, reported>>

\* The backend call of the owner is over.
Finishing(c, r, t) ==
    caller' = [caller EXCEPT ![c].at = "finish", ![c].result = r, ![c].task = t]

\* clientBackend.Start finds the container, and resume its task.
loadContainer(c) ==
    /\ At(c, "start", "load") /\ ~closed
    /\ \/ container = "none" /\ Goes(c, "create")
       \/ container \notin {"none", Fingerprint(c)} /\ Finishing(c, "conflict", 0)
       \/ /\ container = Fingerprint(c)
          /\ \/ task.status = "none" /\ Goes(c, "task")
             \/ task.status = "created" /\ Goes(c, "run")
             \/ task.status \in Started /\ Finishing(c, "ok", task.id)
    /\ UNCHANGED <<memory, backend, reported, bounds>>

\* A container that another call made meanwhile is resumed.
newContainer(c) ==
    /\ At(c, "start", "create") /\ ~closed
    /\ IF container = "none"
       THEN /\ container' = Fingerprint(c)
            /\ caller' = [caller EXCEPT ![c].at = "task", ![c].own = {"container"}]
       ELSE Goes(c, "load") /\ UNCHANGED container
    /\ UNCHANGED <<memory, task, made, exited, ran, reported, bounds>>

newTask(c) ==
    /\ At(c, "start", "task") /\ ~closed /\ container # "none" /\ task.status = "none"
    /\ made' = made + 1
    /\ task' = [id |-> made', status |-> "created"]
    /\ caller' = [caller EXCEPT ![c].at = "run", ![c].own = caller[c].own \cup {"task"}]
    /\ UNCHANGED <<memory, container, exited, ran, reported, bounds>>

startTask(c) ==
    /\ At(c, "start", "run") /\ ~closed /\ task.status = "created"
    /\ task' = [task EXCEPT !.status = "running"]
    /\ ran' = ran \cup {task.id}
    /\ Finishing(c, "ok", task.id)
    /\ UNCHANGED <<memory, container, made, exited, reported, bounds>>

\* The backend deletes the task, killing its process, and the container.
Delete(objects) ==
    /\ task' = IF "task" \in objects THEN NoTask ELSE task
    /\ exited' = IF "task" \in objects /\ task # NoTask THEN exited \cup {task.id} ELSE exited
    /\ container' = IF "container" \in objects /\ task' = NoTask THEN "none" ELSE container

\* A step of Start fails: containerd does, or a Stop took the objects away.
\* What this call made is deleted, unless that fails too.
startFails(c) ==
    LET taken == \/ caller[c].at = "task" /\ (container = "none" \/ task.status # "none")
                 \/ caller[c].at = "run" /\ task.status # "created"
    IN
    /\ Op[c] = "start" /\ caller[c].at \in {"load", "create", "task", "run"}
    /\ \/ ~closed /\ taken /\ UNCHANGED bounds /\ Delete(caller[c].own)
       \/ Fault /\ Delete(IF closed THEN {} ELSE caller[c].own)
       \/ Fault /\ Delete({})
    /\ Finishing(c, "failed", 0)
    /\ UNCHANGED <<memory, made, ran, reported>>

\* clientBackend.Recover: it deletes what was never started.
recover(c) ==
    /\ At(c, "recover", "load") /\ ~closed
    /\ \/ container = "none" /\ Finishing(c, "missing", 0) /\ Delete({}) /\ UNCHANGED bounds
       \/ /\ container \notin {"none", Fingerprint(c)}
          /\ Finishing(c, "conflict", 0) /\ Delete({}) /\ UNCHANGED bounds
       \/ /\ container = Fingerprint(c) /\ task.status \notin Started
          /\ Finishing(c, "missing", 0)
          /\ \/ Delete({"task", "container"}) /\ UNCHANGED bounds
             \/ Delete({}) /\ Fault
       \/ /\ container = Fingerprint(c) /\ task.status \in Started
          /\ Finishing(c, "ok", task.id) /\ Delete({}) /\ UNCHANGED bounds
    /\ UNCHANGED <<memory, made, ran, reported>>

recoverFails(c) ==
    /\ At(c, "recover", "load") /\ Fault
    /\ Finishing(c, "failed", 0)
    /\ UNCHANGED <<memory, backend, reported>>

\* Mutant: the entry goes also when the start succeeded.
finishStartForgets(c) ==
    LET i == caller[c].entry
        ok == caller[c].result = "ok"
    IN
    /\ caller[c].at = "finish"
    /\ execution' = [execution EXCEPT ![i].ready = TRUE, ![i].task = caller[c].task,
            ![i].startErr = caller[c].result,
            ![i].monitor = IF ok THEN "waiting" ELSE "none"]
    /\ entry' = 0
    /\ Goes(c, "returned")
    /\ UNCHANGED <<closed, backend, reported, bounds>>

\* finishStart, and the monitor of a start that succeeded.
finishStart(c) ==
    LET i == caller[c].entry
        ok == caller[c].result = "ok"
    IN
    /\ caller[c].at = "finish"
    /\ execution' = [execution EXCEPT ![i].ready = TRUE, ![i].task = caller[c].task,
            ![i].startErr = caller[c].result,
            ![i].monitor = IF ok THEN "waiting" ELSE "none"]
    /\ entry' = IF ok THEN entry ELSE 0
    /\ Goes(c, "returned")
    /\ UNCHANGED <<closed, backend, reported, bounds>>

-----------------------------------------------------------------------------
(* stop.                                                                   *)

\* One pass of the loop under m.mu.
stop(c) ==
    LET x == execution[entry] IN
    /\ At(c, "stop", "call")
    /\ \/ closed /\ Returns(c, "closed") /\ UNCHANGED execution
       \/ ~closed /\ entry = 0 /\ Goes(c, "backend") /\ UNCHANGED execution
       \/ /\ ~closed /\ entry # 0 /\ x.ready /\ x.done
          /\ Returns(c, "ok") /\ UNCHANGED execution
       \/ /\ ~closed /\ entry # 0 /\ x.ready /\ ~x.done /\ x.finishing
          /\ caller' = [caller EXCEPT ![c].at = "finishing", ![c].entry = entry]
          /\ UNCHANGED execution
       \/ /\ ~closed /\ entry # 0 /\ x.ready /\ ~x.done /\ ~x.finishing
          /\ execution' = [execution EXCEPT ![entry].stopping = TRUE, ![entry].stopFailure = FALSE]
          /\ caller' = [caller EXCEPT ![c].at = "kill", ![c].entry = entry, ![c].task = x.task]
    /\ UNCHANGED <<closed, entry, backend, reported, bounds>>

\* SIGKILL: the task exits, later.
kill(c) ==
    /\ caller[c].at \in {"kill", "backendKill"} /\ ~closed
    /\ task' = IF task.id = caller[c].task /\ task.status \in {"created", "running"}
               THEN [task EXCEPT !.status = "killed"] ELSE task
    /\ Goes(c, IF caller[c].at = "kill" THEN "killed" ELSE "backendWait")
    /\ UNCHANGED <<memory, container, made, exited, ran, reported, bounds>>

\* The stop is given up unless the monitor is through.
Unstop(i, failure) ==
    execution' = IF execution[i].done THEN execution
                 ELSE [execution EXCEPT ![i].stopping = FALSE,
                            ![i].stopFailure = IF failure THEN TRUE ELSE @]

killFails(c) ==
    /\ caller[c].at \in {"kill", "backend", "backendTask", "backendKill"} /\ Fault
    /\ IF caller[c].at = "kill" THEN Unstop(caller[c].entry, FALSE) ELSE UNCHANGED execution
    /\ Returns(c, "failed")
    /\ UNCHANGED <<closed, entry, backend, reported>>

\* Mutant: Stop returns once the signal is sent.
stopDoneEarly(c) ==
    LET x == execution[caller[c].entry] IN
    /\ caller[c].at \in {"killed", "finishing"} 
    /\ Returns(c, IF caller[c].at = "killed" /\ x.doneErr THEN "failed" ELSE "ok")
    /\ UNCHANGED <<memory, backend, reported, bounds>>

stopDone(c) ==
    LET x == execution[caller[c].entry] IN
    /\ caller[c].at \in {"killed", "finishing"} /\ x.done
    /\ Returns(c, IF caller[c].at = "killed" /\ x.doneErr THEN "failed" ELSE "ok")
    /\ UNCHANGED <<memory, backend, reported, bounds>>

stopCancelled(c) ==
    /\ Op[c] = "stop" /\ Cancel
    /\ \/ caller[c].at = "killed" /\ Unstop(caller[c].entry, TRUE)
       \/ caller[c].at \in {"finishing", "backendWait"} /\ UNCHANGED execution
       \/ /\ caller[c].at = "call" /\ ~closed /\ entry # 0 /\ ~execution[entry].ready
          /\ UNCHANGED execution
    /\ Returns(c, "cancelled")
    /\ UNCHANGED <<closed, entry, backend, reported>>

\* clientProcess.Cleanup, which cannot delete a task that has not stopped.
Cleanup(ok) ==
    \/ ok /\ ~closed /\ task.status \in {"none", "stopped"}
       /\ container' = "none" /\ task' = NoTask /\ UNCHANGED bounds
    \/ ~ok /\ task.status \in {"created", "running", "killed"}
       /\ UNCHANGED <<container, task, bounds>>
    \/ ~ok /\ task.status \in {"none", "stopped"} /\ Fault
       /\ task' \in {task, IF closed THEN task ELSE NoTask} /\ UNCHANGED container

\* clientBackend.Stop, for an ID with no entry, finds the container and its task.
backendStop(c) ==
    /\ At(c, "stop", "backend") /\ ~closed
    /\ IF container = "none" THEN Returns(c, "ok") ELSE Goes(c, "backendTask")
    /\ UNCHANGED <<memory, backend, reported, bounds>>

backendTask(c) ==
    /\ At(c, "stop", "backendTask") /\ ~closed
    /\ IF task = NoTask
       THEN container' = "none" /\ Returns(c, "ok")
       ELSE /\ caller' = [caller EXCEPT ![c].at = "backendKill", ![c].task = task.id]
            /\ UNCHANGED container
    /\ UNCHANGED <<memory, task, made, exited, ran, reported, bounds>>

backendStopped(c, ok) ==
    /\ At(c, "stop", "backendWait") /\ (caller[c].task \in exited \/ closed)
    /\ Cleanup(ok)
    /\ Returns(c, IF ok THEN "ok" ELSE "failed")
    /\ UNCHANGED <<memory, made, exited, ran, reported>>

-----------------------------------------------------------------------------
(* The completion monitor.                                                 *)

\* The exit arrives, or the error that ends the wait once the client is closed;
\* what to do with it is read with finishing set.
monitorExit(i) ==
    /\ execution[i].monitor = "waiting" /\ (execution[i].task \in exited \/ closed)
    /\ execution' = [execution EXCEPT ![i].finishing = TRUE, ![i].suppress = execution[i].stopping,
            ![i].monitor = IF execution[i].stopping THEN "cleaning" ELSE "reporting"]
    /\ UNCHANGED <<closed, entry, caller, backend, reported, bounds>>

\* Mutant: done is closed only after a clean end.
DoneOnSuccess(i, err) ==
    [execution EXCEPT ![i].monitor = "over", ![i].done = ~err, ![i].doneErr = err]

Done(i, err) == [execution EXCEPT ![i].monitor = "over", ![i].done = TRUE, ![i].doneErr = err]

\* Mutant: the objects are cleaned also when the report failed.
reportCleans(i) ==
    /\ execution[i].monitor = "reporting"
    /\ \/ /\ execution' = [execution EXCEPT ![i].monitor = "cleaning"]
          /\ reported' = reported \cup {execution[i].task} /\ UNCHANGED bounds
       \/ Fault /\ execution' = [execution EXCEPT ![i].monitor = "cleaning"] /\ UNCHANGED reported
    /\ UNCHANGED <<closed, entry, caller, backend>>

report(i) ==
    /\ execution[i].monitor = "reporting"
    /\ \/ /\ execution' = [execution EXCEPT ![i].monitor = "cleaning"]
          /\ reported' = reported \cup {execution[i].task} /\ UNCHANGED bounds
       \/ Fault /\ execution' = Done(i, TRUE) /\ UNCHANGED reported
    /\ UNCHANGED <<closed, entry, caller, backend>>

cleanup(i, ok) ==
    /\ execution[i].monitor = "cleaning"
    /\ Cleanup(ok)
    /\ execution' = Done(i, ~ok)
    /\ UNCHANGED <<closed, entry, caller, made, exited, ran, reported>>

-----------------------------------------------------------------------------
forget(c) ==
    /\ At(c, "forget", "call")
    /\ \/ /\ entry # 0 /\ (~execution[entry].done \/ execution[entry].doneErr)
          /\ Returns(c, "failed") /\ UNCHANGED entry
       \/ /\ entry # 0 => execution[entry].done /\ ~execution[entry].doneErr
          /\ entry' = 0 /\ Returns(c, "ok")
    /\ UNCHANGED <<closed, execution, backend, reported, bounds>>

close ==
    /\ Closing /\ ~closed /\ closed' = TRUE
    /\ UNCHANGED <<entry, execution, caller, backend, reported, bounds>>

\* The workload ends, by itself or killed.  A process waiting for it is told even
\* if the task is deleted meanwhile.
taskExits ==
    /\ task.status \in {"running", "killed"}
    /\ task' = [task EXCEPT !.status = "stopped"]
    /\ exited' = exited \cup {task.id}
    /\ UNCHANGED <<memory, caller, container, made, ran, reported, bounds>>

\* The process ends, with every call in it, and starts again.
Crash ==
    /\ crashes < MaxCrashes /\ crashes' = crashes + 1 /\ UNCHANGED faults
    /\ closed' = FALSE /\ entry' = 0 /\ execution' = <<>>
    /\ caller' = [c \in Caller |-> IF caller[c].at \in {"call", "returned"} THEN caller[c]
                    ELSE [Fresh EXCEPT !.at = "returned", !.result = "lost"]]
    /\ UNCHANGED <<backend, reported>>

-----------------------------------------------------------------------------
\* What a call does, failures of the backend and ends of its context apart.
Serve(c) ==
    \/ claim(c) \/ waitUntilReady(c) \/ loadContainer(c) \/ newContainer(c) \/ newTask(c)
    \/ startTask(c) \/ startFails(c) \/ recover(c) \/ recoverFails(c) \/ finishStart(c)
    \/ stop(c) \/ kill(c) \/ killFails(c) \/ stopDone(c) \/ backendStop(c) \/ backendTask(c)
    \/ \E ok \in BOOLEAN : backendStopped(c, ok)

Monitor(i) == monitorExit(i) \/ report(i) \/ \E ok \in BOOLEAN : cleanup(i, ok)

Next ==
    \/ \E c \in Caller : Serve(c) \/ stopCancelled(c) \/ forget(c)
    \/ \E i \in 1 .. Len(execution) : Monitor(i)
    \/ close \/ taskExits \/ Crash

Spec == Init /\ [][Next]_vars

\* The goroutines that can go on do, containerd answers, and a process that got
\* SIGKILL ends.  No call loops, so nothing is assumed about which goes first.
FairSpec ==
    /\ Spec
    /\ WF_vars(\/ \E c \in Caller : Serve(c)
               \/ \E i \in 1 .. Len(execution) : Monitor(i)
               \/ task.status = "killed" /\ taskExits)

-----------------------------------------------------------------------------
(* Properties.                                                             *)

\* The adapter is the runtime that the allocator relies on: whatever the order of
\* starts, stops, exits, failures and restarts, the workload of an execution ID
\* runs at most once, not when its end was reported by an adapter that is open, and
\* not when a Stop succeeds
\* (execution_manager.go with client_start.go and completion_monitor.go).
W == INSTANCE Workload WITH
    Stopper <- {c \in Caller : Op[c] = "stop"},
    phase <- IF ran = {} THEN "absent" ELSE IF ran \subseteq exited THEN "over" ELSE "live",
    reported <- reported # {},
    open <- ~closed,
    stopped <- {c \in Caller : Op[c] = "stop" /\ caller[c].result = "ok"}

IsRuntime == W!Spec

\* An exit that nobody reported stays readable in containerd for the next process
\* to recover, unless a Stop asked for its end: also when the reporter failed or the
\* process ended between the report and the cleanup (completion_monitor.go).
ExitKept ==
    (ran # {} /\ ran \subseteq exited /\ reported = {}
        /\ \A c \in Caller : Op[c] = "stop" => caller[c].at = "call")
    => task.id \in ran /\ task.status = "stopped"

\* An entry is removed by the start that failed or by Forget, never while a
\* process that it started has a monitor (finishStart, forget).
MonitoredIsRegistered ==
    \A i \in 1 .. Len(execution) :
        execution[i].monitor \in {"waiting", "reporting", "cleaning"} => entry = i

\* A stop waits at most for the start before it and for the process it killed, a
\* repeated start for the first one: time and again every call has returned.
CallsReturn ==
    []<>(\A c \in Caller :
            caller[c].at = "returned" \/ (Op[c] # "stop" /\ caller[c].at = "call"))

\* The life of an execution is independent of the life of the process: closing the
\* adapter does not make a running task reported (Adapter.Close).
RunningIsNotReported == task.status = "running" => task.id \notin reported
=============================================================================
