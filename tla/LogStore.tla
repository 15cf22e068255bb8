------------------------------ MODULE LogStore ------------------------------
(***************************************************************************)
(* internal/logstore: the directories of the allocator's log store, the    *)
(* reservations of its budget, and the shim's processes that fill them.    *)
(* s.mu makes each operation of the store one step; Capture runs in a      *)
(* process of its own, beside the store and through its restarts.  A byte  *)
(* is its position in the output of its execution.                         *)
(***************************************************************************)
EXTENDS Naturals, Sequences, FiniteSets, FiniteSetsExt

CONSTANTS
    Execution,     \* the execution IDs
    Streams,       \* "stdout" and "stderr"
    StreamBytes,   \* the values that --log-bytes is given at a start of the daemon
    totalBytes,    \* --log-budget
    MaxOutput,     \* bound on the bytes a workload writes to a stream
    MaxCaptures,   \* bound on the tasks of an execution
    MaxFailures    \* bound on failures and crashes inside an operation

ASSUME StoreAssumption ==
    /\ StreamBytes \subseteq Nat \ {0} /\ totalBytes \in Nat /\ MaxOutput \in Nat
    /\ \A b \in StreamBytes : 2 * b <= totalBytes

VARIABLES
    streamBytes,  \* Store.streamBytes of the running daemon
    dir,          \* the directory of each execution
    capture,      \* the log writers of each execution
    failures

storeVars == <<streamBytes, dir, capture, failures>>

\* metadata.json: no directory, a directory without it, a torn one, or valid.
NoDir == [metadata |-> "none", limit |-> 0, file |-> [s \in Streams |-> <<>>],
          truncated |-> [s \in Streams |-> FALSE]]
NoCapture == [at |-> "none", started |-> 0, remaining |-> [s \in Streams |-> 0],
              output |-> [s \in Streams |-> 0], mark |-> [s \in Streams |-> FALSE],
              broken |-> [s \in Streams |-> FALSE]]

StoreInit ==
    /\ streamBytes \in StreamBytes
    /\ dir = [e \in Execution |-> NoDir]
    /\ capture = [e \in Execution |-> NoCapture]
    /\ failures = 0

Fails == failures < MaxFailures /\ failures' = failures + 1

\* What the scan of the root charges: a directory it cannot read fails it.
reserved == MapThenSumSet(LAMBDA e : 2 * dir[e].limit, Execution)
Readable == \A e \in Execution : dir[e].metadata \in {"none", "valid"}

\* Mutant: one stream is charged.
ReserveOne(e) ==
    /\ dir[e].metadata = "none" /\ Readable /\ capture[e].started = 0
    /\ reserved <= totalBytes - streamBytes
    /\ \/ /\ dir' = [dir EXCEPT ![e].metadata = "valid", ![e].limit = streamBytes]
          /\ UNCHANGED failures
       \/ /\ Fails
          /\ \E m \in {"missing", "torn"} : dir' = [dir EXCEPT ![e].metadata = m]
    /\ UNCHANGED <<streamBytes, capture>>

\* A first reservation; a repeated one only reads.  A crash or a failed write
\* leaves the directory without metadata, or with a torn file.  An ID that ran and
\* was forgotten is not used again.
Reserve(e) ==
    /\ dir[e].metadata = "none" /\ Readable /\ capture[e].started = 0
    /\ reserved <= totalBytes - 2 * streamBytes
    /\ \/ /\ dir' = [dir EXCEPT ![e].metadata = "valid", ![e].limit = streamBytes]
          /\ UNCHANGED failures
       \/ /\ Fails
          /\ \E m \in {"missing", "torn"} : dir' = [dir EXCEPT ![e].metadata = m]
    /\ UNCHANGED <<streamBytes, capture>>

\* The allocator removes the logs of an execution when it forgets it.
Remove(e) ==
    /\ dir[e] # NoDir /\ capture[e].at # "open"
    /\ dir' = [dir EXCEPT ![e] = NoDir]
    /\ UNCHANGED <<streamBytes, capture, failures>>

\* Mutant: what earlier tasks wrote is not counted.
CaptureAgain(e) ==
    /\ dir[e].metadata = "valid" /\ capture[e].at # "open" /\ capture[e].started < MaxCaptures
    /\ capture' = [capture EXCEPT ![e].at = "open", ![e].started = @ + 1,
            ![e].remaining = [s \in Streams |-> dir[e].limit]]
    /\ UNCHANGED <<streamBytes, dir, failures>>

\* Capture opens the files of a task's streams for appending.
Capture(e) ==
    /\ dir[e].metadata = "valid" /\ capture[e].at # "open" /\ capture[e].started < MaxCaptures
    /\ capture' = [capture EXCEPT ![e].at = "open", ![e].started = @ + 1,
            ![e].remaining = [s \in Streams |-> Max({0, dir[e].limit - Len(dir[e].file[s])})]]
    /\ UNCHANGED <<streamBytes, dir, failures>>

\* A chunk of n bytes is read; what fits is written, the rest is dropped, and the
\* first drop is marked before the next read.
CaptureChunk(e, s, n) ==
    LET c == capture[e]
        keep == Min({n, c.remaining[s]})
    IN
    /\ c.at = "open" /\ ~c.mark[s] /\ ~c.broken[s] /\ c.output[s] + n <= MaxOutput
    /\ dir' = [dir EXCEPT ![e].file[s] = @ \o [i \in 1 .. keep |-> c.output[s] + i]]
    /\ capture' = [capture EXCEPT ![e].output[s] = @ + n, ![e].remaining[s] = @ - keep,
            ![e].mark[s] = n > keep /\ ~dir[e].truncated[s]]
    /\ UNCHANGED <<streamBytes, failures>>

CaptureMark(e, s) ==
    /\ capture[e].mark[s]
    /\ dir' = [dir EXCEPT ![e].truncated[s] = TRUE]
    /\ capture' = [capture EXCEPT ![e].mark[s] = FALSE]
    /\ UNCHANGED <<streamBytes, failures>>

\* A write fails: the goroutine of the stream ends.
CaptureFails(e, s) ==
    /\ capture[e].at = "open" /\ ~capture[e].broken[s] /\ Fails
    /\ capture' = [capture EXCEPT ![e].broken[s] = TRUE, ![e].mark[s] = FALSE]
    /\ UNCHANGED <<streamBytes, dir>>

\* The streams are at their ends.
CaptureEnd(e) ==
    /\ capture[e].at = "open" /\ \A s \in Streams : ~capture[e].mark[s]
    /\ capture' = [capture EXCEPT ![e].at = "ended"]
    /\ UNCHANGED <<streamBytes, dir, failures>>

\* The daemon starts again, perhaps with another --log-bytes.
Restart ==
    /\ \E b \in StreamBytes \ {streamBytes} : streamBytes' = b
    /\ UNCHANGED <<dir, capture, failures>>

\* Read: the bytes of a stream from an offset on, at most limit of them.
Read(e, s, offset, limit) ==
    IF dir[e].metadata # "valid" \/ capture[e].started = 0 THEN [err |-> "missing", data |-> <<>>]
    ELSE IF offset > Len(dir[e].file[s]) THEN [err |-> "offset", data |-> <<>>]
    ELSE [err |-> "none",
          data |-> SubSeq(dir[e].file[s], offset + 1, Min({offset + limit, Len(dir[e].file[s])}))]

StoreNext ==
    \/ Restart
    \/ \E e \in Execution :
        \/ Reserve(e) \/ Remove(e) \/ Capture(e) \/ CaptureEnd(e)
        \/ \E s \in Streams :
            \/ CaptureMark(e, s) \/ CaptureFails(e, s)
            \/ \E n \in 1 .. MaxOutput : CaptureChunk(e, s, n)

StoreSpec == StoreInit /\ [][StoreNext]_storeVars

-----------------------------------------------------------------------------
\* All that the files of all executions can grow to is within the budget, also after
\* restarts that change --log-bytes (Reserve).
BudgetKept == reserved <= totalBytes

\* A file holds the beginning of its stream without a gap, up to its cap, whatever
\* the sizes of the chunks and however many tasks wrote it; a stream cut short is
\* marked (Capture).
RetainsBeginning ==
    \A e \in Execution, s \in Streams :
        LET file == dir[e].file[s]
            lost == capture[e].output[s] > Len(file)
        IN  dir[e].metadata = "valid" /\ ~capture[e].broken[s] /\ capture[e].started > 0 =>
                /\ file = [i \in 1 .. Len(file) |-> i]
                /\ Len(file) <= dir[e].limit
                /\ lost => Len(file) = dir[e].limit /\ (dir[e].truncated[s] \/ capture[e].mark[s])
=============================================================================
