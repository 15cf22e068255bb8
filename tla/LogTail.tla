------------------------------- MODULE LogTail ------------------------------
(***************************************************************************)
(* cmd/r1s/run_tail.go beside the log stores: the loop that copies the     *)
(* logs of the active attempt of a run by offset, over a network that may  *)
(* be partitioned, while Run replaces lost attempts.  An attempt is an     *)
(* execution of its own.  A read is a command of the client and an answer  *)
(* of the allocator, and the answer may come after the client gave it up.  *)
(***************************************************************************)
EXTENDS LogStore

CONSTANTS
    Attempts,  \* the executions of the run, in order
    Chunk      \* MaxLogChunkBytes

ASSUME TailAssumption == Attempts \in Seq(Execution) /\ Chunk \in Nat

VARIABLES
    tail,     \* runTail: active, and off of each stream
    poll,     \* the poll that is under way
    wire,     \* the awaited log read, and one that was given up
    printed,  \* the bytes written for each attempt and stream, with their execution
    over      \* Run returned, and stop is closed

tailVars == <<tail, poll, wire, printed, over>>
vars == <<storeVars, tailVars>>

Idle == [at |-> "idle", execution |-> 0, off |-> [s \in Streams |-> 0], todo |-> {},
         stream |-> "none", data |-> <<>>]

Silent == [kind |-> "none", execution |-> 0, stream |-> "none", off |-> 0, data |-> <<>>]

Init ==
    /\ StoreInit
    /\ tail = [active |-> 0, off |-> [s \in Streams |-> 0]]
    /\ poll = Idle
    /\ wire = [current |-> Silent, late |-> Silent]
    /\ printed = [a \in DOMAIN Attempts |-> [s \in Streams |-> <<>>]]
    /\ over = FALSE

\* Run assigned the next attempt; the offsets start again.
SetActive ==
    /\ ~over /\ tail.active < Len(Attempts)
    /\ tail' = [active |-> tail.active + 1, off |-> [s \in Streams |-> 0]]
    /\ UNCHANGED <<storeVars, poll, printed, over, wire>>

\* A poll takes the execution and the offsets.
pollStart ==
    /\ ~over /\ poll.at = "idle" /\ tail.active # 0
    /\ poll' = [Idle EXCEPT !.at = "next", !.execution = tail.active, !.off = tail.off, !.todo = Streams]
    /\ UNCHANGED <<storeVars, tail, printed, over, wire>>

\* Logs sends the command for the next stream and waits, unless the send fails.
Logs(s) ==
    /\ poll.at = "next" /\ s \in poll.todo /\ (s = "stderr" => "stdout" \notin poll.todo)
    /\ \/ /\ poll' = [poll EXCEPT !.at = "wait", !.stream = s, !.todo = @ \ {s}]
          /\ wire' = [wire EXCEPT !.current =
                [Silent EXCEPT !.kind = "request", !.execution = poll.execution,
                               !.stream = s, !.off = poll.off[s]]]
       \/ poll' = [poll EXCEPT !.todo = @ \ {s}] /\ UNCHANGED wire
    /\ UNCHANGED <<storeVars, tail, printed, over>>

\* The allocator answers with the chunk, or with an error if the logs are gone or
\* the offset is past their end.
handleLogs(k) ==
    LET m == wire[k]
        r == Read(Attempts[m.execution], m.stream, m.off, Chunk)
    IN  /\ m.kind = "request"
        /\ wire' = [wire EXCEPT ![k].kind = IF r.err = "none" THEN "chunk" ELSE "error",
                                ![k].data = IF r.err = "none" THEN r.data ELSE <<>>]
        /\ UNCHANGED <<storeVars, tail, poll, printed, over>>

\* Only the answer to the last command counts, and only for what it asked.
logAuthority(k) ==
    /\ k = "current" /\ poll.at = "wait"
    /\ <<wire[k].execution, wire[k].stream>> = <<poll.execution, poll.stream>>
    /\ wire[k].off = poll.off[poll.stream]

\* Mutant: whatever answer comes is taken for the awaited one.
handleLogsResponseAny(k) ==
    /\ wire[k].kind \in {"chunk", "error"}
    /\ wire' = [wire EXCEPT ![k] = Silent]
    /\ poll' = IF poll.at # "wait" THEN poll
               ELSE IF wire[k].data # <<>>
               THEN [poll EXCEPT !.at = "compare", !.data = wire[k].data]
               ELSE [poll EXCEPT !.at = "next"]
    /\ UNCHANGED <<storeVars, tail, printed, over>>

handleLogsResponse(k) ==
    /\ wire[k].kind \in {"chunk", "error"}
    /\ wire' = [wire EXCEPT ![k] = Silent]
    /\ poll' = IF ~logAuthority(k) THEN poll
               ELSE IF wire[k].data # <<>>
               THEN [poll EXCEPT !.at = "compare", !.data = wire[k].data]
               ELSE [poll EXCEPT !.at = "next"]
    /\ UNCHANGED <<storeVars, tail, printed, over>>

\* Mutant: a read that fails ends the loop.
LogsTimeoutOnce ==
    /\ poll.at = "wait"
    /\ poll' = [poll EXCEPT !.at = "failed"]
    /\ wire' = [wire EXCEPT !.current = Silent]
    /\ UNCHANGED <<storeVars, tail, printed, over>>

\* No answer came in time: the command or its answer is lost, or late.
LogsTimeout ==
    /\ poll.at = "wait"
    /\ poll' = [poll EXCEPT !.at = "next"]
    /\ wire' \in {[wire EXCEPT !.current = Silent], [current |-> Silent, late |-> wire.current]}
    /\ UNCHANGED <<storeVars, tail, printed, over>>

\* The chunk is dropped if the offset changed meanwhile; t.mu is released before
\* the chunk is written.
compare ==
    /\ poll.at = "compare"
    /\ poll' = IF tail.off[poll.stream] = poll.off[poll.stream]
               THEN [poll EXCEPT !.at = "write"]
               ELSE [poll EXCEPT !.at = "next", !.data = <<>>]
    /\ UNCHANGED <<storeVars, tail, printed, over, wire>>

write ==
    LET s == poll.stream IN
    /\ poll.at = "write"
    /\ printed' = [printed EXCEPT ![tail.active][s] =
            @ \o [i \in DOMAIN poll.data |-> <<poll.execution, poll.data[i]>>]]
    /\ tail' = [tail EXCEPT !.off[s] = @ + Len(poll.data)]
    /\ poll' = [poll EXCEPT !.at = "next", !.data = <<>>]
    /\ UNCHANGED <<storeVars, over, wire>>

pollEnd ==
    /\ poll.at = "next" /\ poll.todo = {}
    /\ poll' = Idle
    /\ UNCHANGED <<storeVars, tail, printed, over, wire>>

\* The active attempt is over, Run returns its result, and the command ends.
RunReturns ==
    /\ ~over /\ tail.active # 0 /\ capture[Attempts[tail.active]].at = "ended"
    /\ over' = TRUE /\ poll' = Idle
    /\ wire' = [current |-> Silent, late |-> Silent]
    /\ UNCHANGED <<storeVars, tail, printed>>

Poll ==
    \/ pollStart \/ compare \/ write \/ pollEnd
    \/ \E s \in Streams : Logs(s)
    \/ LogsTimeout
    \/ \E k \in {"current", "late"} : handleLogs(k) \/ handleLogsResponse(k)

Next == (StoreNext /\ UNCHANGED tailVars) \/ SetActive \/ Poll \/ RunReturns

\* The ticker goes on, and a partition is temporary: of the commands sent for ever
\* some reach the allocator in time, and of its answers some reach the client.
Fairness ==
    /\ WF_vars(pollStart) /\ WF_vars(compare) /\ WF_vars(write) /\ WF_vars(pollEnd)
    /\ WF_vars(LogsTimeout)
    /\ \A s \in Streams :
          /\ WF_vars(Logs(s)) /\ SF_vars(Logs(s) /\ poll'.at = "wait")
          /\ SF_vars(handleLogs("current") /\ poll.stream = s)
          /\ SF_vars(handleLogsResponse("current") /\ poll.stream = s)

Spec == Init /\ [][Next]_vars /\ Fairness

-----------------------------------------------------------------------------
\* What is written for an attempt is the beginning of that attempt's output: no
\* byte twice, none missing, none of another attempt, across partitions and
\* reschedules (poll, write, SetActive).
PrintsBeginning ==
    \A a \in DOMAIN Attempts, s \in Streams :
        \A i \in DOMAIN printed[a][s] : printed[a][s][i] = <<a, i>>

\* Every byte that is retained is written after the partition, while the run lasts
\* and its attempt stays the active one (poll).
Drains ==
    \A s \in Streams, k \in 1 .. MaxOutput :
        (tail.active = 1 /\ Len(dir[Attempts[1]].file[s]) >= k)
        ~> (Len(printed[1][s]) >= k \/ over \/ tail.active > 1 \/ dir[Attempts[1]].metadata # "valid")
=============================================================================
