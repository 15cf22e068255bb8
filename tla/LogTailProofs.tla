---------------------------- MODULE LogTailProofs ---------------------------
(***************************************************************************)
(* What a log file holds, and what a client prints of it, for every number *)
(* of executions, streams, bytes, tasks and failures.                      *)
(***************************************************************************)
EXTENDS LogTail, TLAPS

Dir == [metadata : {"none", "missing", "torn", "valid"}, limit : Nat,
        file : [Streams -> Seq(Nat)], truncated : [Streams -> BOOLEAN]]

Writers == [at : {"none", "open", "ended"}, started : Nat, remaining : [Streams -> Nat],
            output : [Streams -> Nat], mark : [Streams -> BOOLEAN], broken : [Streams -> BOOLEAN]]

\* A file is the beginning of a stream, within the limit of its directory.
Beginning(f, limit) == Len(f) <= limit /\ \A i \in 1 .. Len(f) : f[i] = i

\* A stream that is not all in the file fills it, and is marked or about to be.
Complete(d, c, s) ==
    \/ c.output[s] = Len(d.file[s])
    \/ Len(d.file[s]) = d.limit /\ (d.truncated[s] \/ c.mark[s])

\* The directory of an execution and its writers.
Kept(d, c) ==
    /\ d \in Dir /\ c \in Writers
    /\ d.metadata = "none" => d = NoDir
    /\ c.started = 0 => c = NoCapture
    /\ c.at = "open" => d.metadata = "valid"
    /\ \A s \in Streams :
        /\ Beginning(d.file[s], d.limit)
        /\ c.mark[s] => c.at = "open"
        /\ c.at = "open" => c.remaining[s] = d.limit - Len(d.file[s])
        /\ d.metadata = "valid" /\ ~c.broken[s] => Complete(d, c, s)

StoreInv ==
    /\ streamBytes \in StreamBytes
    /\ dir = [e \in Execution |-> dir[e]] /\ capture = [e \in Execution |-> capture[e]]
    /\ \A e \in Execution : Kept(dir[e], capture[e])

\* Bytes that follow an offset.
From(data, off) == data \in Seq(Nat) /\ \A i \in 1 .. Len(data) : data[i] = off + i

Message == [kind : {"none", "request", "chunk", "error"}, execution : 0 .. Len(Attempts),
            stream : Streams \cup {"none"}, off : Nat, data : Seq(Nat)]

Answered(m) ==
    /\ m \in Message
    /\ m.kind # "none" => m.execution # 0 /\ m.stream \in Streams
    /\ From(m.data, m.off)

PollType == [at : {"idle", "next", "wait", "compare", "write"}, execution : 0 .. Len(Attempts),
             off : [Streams -> Nat], todo : SUBSET Streams, stream : Streams \cup {"none"},
             data : Seq(Nat)]

\* What a poll under way holds.
Polling ==
    /\ poll \in PollType
    /\ poll.at # "idle" => poll.execution # 0 /\ poll.execution <= tail.active
    /\ poll.at \in {"wait", "compare", "write"} => poll.stream \in Streams
    /\ poll.at \in {"compare", "write"} => From(poll.data, poll.off[poll.stream])

\* While the first attempt is the active one.
First ==
    /\ \A a \in DOMAIN Attempts, s \in Streams :
        /\ \A i \in 1 .. Len(printed[a][s]) : printed[a][s][i] = <<a, i>>
        /\ a = tail.active => tail.off[s] = Len(printed[a][s])
        /\ a > tail.active => printed[a][s] = <<>>
    /\ poll.at = "write" => tail.off[poll.stream] = poll.off[poll.stream]

TailInv ==
    /\ StoreInv
    /\ tail \in [active : 0 .. Len(Attempts), off : [Streams -> Nat]]
    /\ printed \in [DOMAIN Attempts -> [Streams -> Seq(Nat \X Nat)]]
    /\ wire \in [current : Message, late : Message]
    /\ Answered(wire.current) /\ Answered(wire.late)
    /\ Polling
    /\ tail.active <= 1 => First

\* As long as the run was not moved to another attempt, what is written for its
\* attempt is the beginning of that attempt's output.
PrintsFirst == tail.active <= 1 => PrintsBeginning

-----------------------------------------------------------------------------
\* The smaller of two numbers, as Capture and Read take it.
LEMMA Least == ASSUME NEW a \in Nat, NEW b \in Nat
               PROVE  /\ Min({a, b}) \in {a, b} /\ Min({a, b}) <= a /\ Min({a, b}) <= b
<1>1. \E x \in {a, b} : \A y \in {a, b} : x <= y
  <2>1. CASE a <= b
    BY <2>1
  <2>2. CASE b <= a
    BY <2>2
  <2> QED
    BY <2>1, <2>2
<1>2. Min({a, b}) \in {a, b} /\ \A y \in {a, b} : Min({a, b}) <= y
  BY <1>1, Zenon DEF Min
<1> QED
  BY <1>2, Zenon

\* What is left of a limit that was not passed.
LEMMA Positive == ASSUME NEW a \in Nat, NEW b \in Nat, b <= a
                  PROVE  Max({0, a - b}) = a - b
<1>1. \E x \in {0, a - b} : \A y \in {0, a - b} : x >= y
  BY a - b >= 0
<1>2. Max({0, a - b}) \in {0, a - b} /\ \A y \in {0, a - b} : Max({0, a - b}) >= y
  BY <1>1, Zenon DEF Max
<1> QED
  BY <1>2

\* What is appended to a file that has room continues it.
LEMMA Appended ==
    ASSUME NEW f \in Seq(Nat), NEW limit \in Nat, Beginning(f, limit), NEW keep \in Nat,
           NEW out \in Nat, keep <= limit - Len(f), keep > 0 => out = Len(f)
    PROVE  LET g == f \o [i \in 1 .. keep |-> out + i] IN
           g \in Seq(Nat) /\ Len(g) = Len(f) + keep /\ Beginning(g, limit)
<1> DEFINE t == [i \in 1 .. keep |-> out + i]
<1>1. t \in Seq(Nat) /\ Len(t) = keep
  OBVIOUS
<1>2. \A i \in 1 .. keep : t[i] = out + i
  OBVIOUS
<1> HIDE DEF t
<1>3. f \o t \in Seq(Nat) /\ Len(f \o t) = Len(f) + keep
  BY <1>1
<1>4. ASSUME NEW i \in 1 .. Len(f \o t)
      PROVE  (f \o t)[i] = i
  <2>1. CASE i <= Len(f)
    BY <1>1, <1>3, <2>1 DEF Beginning
  <2>2. CASE i > Len(f)
    <3>1. (f \o t)[i] = t[i - Len(f)]
      BY <1>1, <1>3, <2>2
    <3>2. i - Len(f) \in 1 .. keep /\ out = Len(f)
      BY <1>1, <1>3, <2>2
    <3> QED
      BY <3>1, <3>2, <1>2
  <2> QED
    BY <2>1, <2>2, <1>3
<1> QED
  BY <1>3, <1>4 DEF Beginning, t

-----------------------------------------------------------------------------
(* The steps of the store, for the directory and the writers of one execution. *)
\* An execution that was never reserved.
LEMMA Fresh == Kept(NoDir, NoCapture)
<1>1. NoDir \in Dir /\ NoCapture \in Writers
  BY DEF NoDir, NoCapture, Dir, Writers
<1>2. /\ NoDir.metadata = "none" /\ NoCapture.at = "none"
      /\ \A s \in Streams : Beginning(NoDir.file[s], NoDir.limit) /\ ~NoCapture.mark[s]
  BY DEF NoDir, NoCapture, Beginning
<1> QED
  BY <1>1, <1>2, Zenon DEF Kept

\* A reservation, or one that failed half way, has empty files.
LEMMA ReserveKept ==
    ASSUME NEW d, NEW c, Kept(d, c), d.metadata = "none", c.started = 0,
           NEW m \in {"missing", "torn", "valid"}, NEW limit \in Nat
    PROVE  Kept([d EXCEPT !.metadata = m, !.limit = limit], c) /\ Kept([d EXCEPT !.metadata = m], c)
<1>1. d = NoDir /\ c = NoCapture
  BY Zenon DEF Kept
<1>2. ASSUME NEW l \in Nat, NEW x \in Dir, x.metadata = m, x.limit = l,
             x.file = NoDir.file, x.truncated = NoDir.truncated
      PROVE  Kept(x, NoCapture)
  <2>1. NoCapture \in Writers /\ NoCapture.at = "none" /\ m # "none"
    BY DEF NoCapture, Writers
  <2>2. \A s \in Streams : /\ Beginning(NoDir.file[s], l) /\ ~NoCapture.mark[s]
                            /\ NoCapture.output[s] = Len(NoDir.file[s])
    BY DEF NoCapture, NoDir, Beginning
  <2> QED
    BY <1>2, <2>1, <2>2, Zenon DEF Kept, Complete
<1>3. NoDir \in Dir /\ NoDir.limit = 0
  BY DEF NoDir, Dir
<1> DEFINE x == [NoDir EXCEPT !.metadata = m, !.limit = limit]
           y == [NoDir EXCEPT !.metadata = m]
<1>4. /\ x \in Dir /\ x.metadata = m /\ x.limit = limit
      /\ x.file = NoDir.file /\ x.truncated = NoDir.truncated
  BY <1>3 DEF Dir
<1>5. /\ y \in Dir /\ y.metadata = m /\ y.limit = 0
      /\ y.file = NoDir.file /\ y.truncated = NoDir.truncated
  BY <1>3 DEF Dir
<1> HIDE DEF x, y
<1>6. Kept(x, NoCapture) /\ Kept(y, NoCapture)
  BY <1>2, <1>4, <1>5
<1> QED
  BY <1>1, <1>6 DEF x, y

\* A removed directory has none, and is not reserved again.
LEMMA RemoveKept == ASSUME NEW d, NEW c, Kept(d, c), c.at # "open"
                    PROVE  Kept(NoDir, c)
<1>1. NoDir \in Dir /\ NoDir.metadata = "none" /\ \A s \in Streams : Beginning(NoDir.file[s], NoDir.limit)
  BY DEF NoDir, Dir, Beginning
<1> QED
  BY <1>1, Zenon DEF Kept

\* A task starts with the room that earlier ones left.
LEMMA CaptureKept ==
    ASSUME NEW d, NEW c, Kept(d, c), d.metadata = "valid", c.at # "open"
    PROVE  Kept(d, [c EXCEPT !.at = "open", !.started = @ + 1,
                     !.remaining = [s \in Streams |-> Max({0, d.limit - Len(d.file[s])})]])
<1> DEFINE r == [s \in Streams |-> Max({0, d.limit - Len(d.file[s])})]
           k == c.started + 1
           c2 == [c EXCEPT !.at = "open", !.started = k, !.remaining = r]
<1>1. d \in Dir /\ c \in Writers /\ \A s \in Streams : Beginning(d.file[s], d.limit)
  BY Zenon DEF Kept
<1>2. \A s \in Streams : d.limit \in Nat /\ Len(d.file[s]) \in Nat /\ Len(d.file[s]) <= d.limit
  BY <1>1 DEF Dir, Beginning
<1>3. \A s \in Streams : Max({0, d.limit - Len(d.file[s])}) = d.limit - Len(d.file[s])
  BY <1>2, Positive
<1>4. /\ r \in [Streams -> Nat]
      /\ \A s \in Streams : r[s] = d.limit - Len(d.file[s])
  BY <1>2, <1>3
<1>a. k \in Nat /\ k # 0
  BY <1>1 DEF Writers
<1> HIDE DEF r, k
<1>5. /\ c2 \in Writers /\ c2.at = "open" /\ c2.started # 0 /\ c2.remaining = r
      /\ c2.output = c.output /\ c2.mark = c.mark /\ c2.broken = c.broken
  BY <1>1, <1>4, <1>a DEF Writers
<1> HIDE DEF c2
<1>6. Kept(d, c2)
  BY <1>4, <1>5, Zenon DEF Kept, Complete
<1> QED
  BY <1>6 DEF c2, r, k

\* The streams are at their ends, and nothing is left to mark.
LEMMA EndKept == ASSUME NEW d, NEW c, Kept(d, c), c.at = "open", \A s \in Streams : ~c.mark[s]
                 PROVE  Kept(d, [c EXCEPT !.at = "ended"])
<1> DEFINE c2 == [c EXCEPT !.at = "ended"]
<1>1. c \in Writers /\ c.started # 0
  <2>1. NoCapture.at # "open"
    BY DEF NoCapture
  <2> QED
    BY <2>1, Zenon DEF Kept
<1>2. /\ c2 \in Writers /\ c2.at # "open" /\ c2.started # 0
      /\ c2.output = c.output /\ c2.mark = c.mark /\ c2.broken = c.broken
  BY <1>1 DEF Writers
<1> HIDE DEF c2
<1>3. Kept(d, c2)
  BY <1>2, Zenon DEF Kept, Complete
<1> QED
  BY <1>3 DEF c2

\* The mark is on disk.
LEMMA MarkKept ==
    ASSUME NEW d, NEW c, Kept(d, c), NEW s \in Streams, c.mark[s]
    PROVE  Kept([d EXCEPT !.truncated = [@ EXCEPT ![s] = TRUE]], [c EXCEPT !.mark = [@ EXCEPT ![s] = FALSE]])
<1> DEFINE d2 == [d EXCEPT !.truncated = [@ EXCEPT ![s] = TRUE]]
           c2 == [c EXCEPT !.mark = [@ EXCEPT ![s] = FALSE]]
<1>1. d \in Dir /\ c \in Writers /\ c.at = "open" /\ c.started # 0 /\ d.metadata = "valid"
  <2>1. NoCapture.at # "open"
    BY DEF NoCapture
  <2>2. c.at = "open"
    BY Zenon DEF Kept
  <2> QED
    BY <2>1, <2>2, Zenon DEF Kept
<1>2. /\ d2 \in Dir /\ d2.metadata = d.metadata /\ d2.limit = d.limit /\ d2.file = d.file
      /\ d2.truncated[s] /\ \A x \in Streams : d.truncated[x] => d2.truncated[x]
  BY <1>1 DEF Dir
<1>3. /\ c2 \in Writers /\ c2.at = "open" /\ c2.started # 0 /\ c2.remaining = c.remaining
      /\ c2.output = c.output /\ c2.broken = c.broken
      /\ \A x \in Streams : x # s => c2.mark[x] = c.mark[x]
  BY <1>1 DEF Writers
<1> HIDE DEF d2, c2
<1>4. "valid" # "none"
  OBVIOUS
<1>5. ASSUME NEW x \in Streams
      PROVE  /\ Beginning(d2.file[x], d2.limit)
             /\ c2.remaining[x] = d2.limit - Len(d2.file[x])
             /\ ~c2.broken[x] => Complete(d2, c2, x)
  <2>1. /\ Beginning(d.file[x], d.limit) /\ c.remaining[x] = d.limit - Len(d.file[x])
        /\ ~c.broken[x] => Complete(d, c, x)
    BY <1>1, Zenon DEF Kept
  <2>2. Complete(d, c, x) => Complete(d2, c2, x)
    BY <1>2, <1>3, Zenon DEF Complete
  <2> QED
    BY <1>2, <1>3, <2>1, <2>2, Zenon
<1>6. Kept(d2, c2)
  BY <1>1, <1>2, <1>3, <1>4, <1>5, Zenon DEF Kept
<1> QED
  BY <1>6 DEF d2, c2

\* The stream of a failed write stays as it is.
LEMMA FailKept ==
    ASSUME NEW d, NEW c, Kept(d, c), NEW s \in Streams, c.at = "open"
    PROVE  Kept(d, [c EXCEPT !.broken = [@ EXCEPT ![s] = TRUE], !.mark = [@ EXCEPT ![s] = FALSE]])
<1> DEFINE c2 == [c EXCEPT !.broken = [@ EXCEPT ![s] = TRUE], !.mark = [@ EXCEPT ![s] = FALSE]]
<1>1. c \in Writers /\ c.started # 0
  <2>1. NoCapture.at # "open"
    BY DEF NoCapture
  <2> QED
    BY <2>1, Zenon DEF Kept
<1>2. /\ c2 \in Writers /\ c2.at = c.at /\ c2.started # 0 /\ c2.remaining = c.remaining
      /\ c2.output = c.output /\ c2.broken[s] 
      /\ \A x \in Streams : x # s => c2.mark[x] = c.mark[x] /\ c2.broken[x] = c.broken[x]
  BY <1>1 DEF Writers
<1> HIDE DEF c2
<1>3. Kept(d, c2)
  BY <1>2, Zenon DEF Kept, Complete
<1> QED
  BY <1>3 DEF c2

\* What fits is appended, and a drop is about to be marked.
LEMMA ChunkKept ==
    ASSUME NEW d, NEW c, Kept(d, c), NEW s \in Streams, NEW n \in Nat \ {0},
           c.at = "open", ~c.mark[s], ~c.broken[s]
    PROVE  LET keep == Min({n, c.remaining[s]}) IN
           Kept([d EXCEPT !.file = [d.file EXCEPT ![s] = d.file[s] \o [i \in 1 .. keep |-> c.output[s] + i]]],
                [c EXCEPT !.output = [@ EXCEPT ![s] = c.output[s] + n],
                          !.remaining = [@ EXCEPT ![s] = c.remaining[s] - keep],
                          !.mark = [@ EXCEPT ![s] = n > keep /\ ~d.truncated[s]]])
<1> DEFINE keep == Min({n, c.remaining[s]})
           f == d.file[s]
           o == c.output[s]
           g == f \o [i \in 1 .. keep |-> o + i]
           o2 == o + n
           r2 == c.remaining[s] - keep
           m == n > keep /\ ~d.truncated[s]
           d2 == [d EXCEPT !.file = [@ EXCEPT ![s] = g]]
           c2 == [c EXCEPT !.output = [@ EXCEPT ![s] = o2], !.remaining = [@ EXCEPT ![s] = r2],
                           !.mark = [@ EXCEPT ![s] = m]]
<1> SUFFICES Kept(d2, c2)
  OBVIOUS
<1>1. /\ d \in Dir /\ c \in Writers /\ c.started # 0 /\ d.metadata = "valid"
      /\ Beginning(f, d.limit) /\ c.remaining[s] = d.limit - Len(f)
      /\ o = Len(f) \/ (Len(f) = d.limit /\ d.truncated[s])
  <2>1. NoCapture.at # "open"
    BY DEF NoCapture
  <2> QED
    BY <2>1, Zenon DEF Kept, Complete
<1>2. /\ f \in Seq(Nat) /\ d.limit \in Nat /\ o \in Nat /\ c.remaining[s] \in Nat
      /\ d.truncated[s] \in BOOLEAN
  BY <1>1 DEF Dir, Writers
<1>3. /\ keep \in {n, c.remaining[s]} /\ keep <= n /\ keep <= c.remaining[s]
      /\ keep \in Nat
  BY <1>2, Least
<1>0. c.output[s] = o
  OBVIOUS
<1> HIDE DEF keep, f, o
<1>4. keep <= d.limit - Len(f) /\ (keep > 0 => o = Len(f))
  BY <1>1, <1>2, <1>3
<1>5. g \in Seq(Nat) /\ Len(g) = Len(f) + keep /\ Beginning(g, d.limit)
  BY <1>1, <1>2, <1>3, <1>4, Appended
<1>6. m \in BOOLEAN
  OBVIOUS
<1> HIDE DEF g
<1>7. /\ r2 \in Nat /\ r2 = d.limit - Len(g) /\ o2 \in Nat
      /\ o2 = Len(g) \/ (Len(g) = d.limit /\ (d.truncated[s] \/ m))
  <2>1. Len(f) \in Nat /\ Len(g) \in Nat /\ Len(g) = Len(f) + keep
    BY <1>2, <1>5
  <2>2. r2 \in Nat /\ r2 = d.limit - Len(g) /\ o2 \in Nat
    BY <1>1, <1>2, <1>3, <2>1
  <2>3. CASE keep = n
    <3>1. CASE o = Len(f)
      <4>1. o2 = Len(g)
        BY <3>1, <2>1, <2>3
      <4> QED
        BY <2>2, <4>1, Zenon
    <3>2. CASE Len(f) = d.limit /\ d.truncated[s]
      <4> HIDE DEF o2
      <4>1. Len(g) = d.limit
        BY <3>2, <1>2, <1>3, <1>4, <2>1
      <4> QED
        BY <2>2, <3>2, <4>1, Zenon
    <3> QED
      BY <1>1, <3>1, <3>2, Zenon
  <2>4. CASE keep # n
    <3>1. Len(g) = d.limit /\ n > keep
      <4>1. c.remaining[s] = d.limit - Len(f)
        BY <1>1, Zenon
      <4> QED
        BY <4>1, <1>2, <1>3, <2>1, <2>4
    <3> QED
      BY <2>2, <3>1, Zenon
  <2> QED
    BY <2>3, <2>4, Zenon
<1> HIDE DEF m, o2, r2
<1>8. /\ d2 \in Dir /\ d2.metadata = d.metadata /\ d2.limit = d.limit /\ d2.truncated = d.truncated
      /\ d2.file[s] = g /\ \A x \in Streams : x # s => d2.file[x] = d.file[x]
  BY <1>1, <1>5 DEF Dir
<1>9. /\ c2 \in Writers /\ c2.at = c.at /\ c2.started = c.started /\ c2.broken = c.broken
      /\ c2.remaining[s] = r2 /\ c2.output[s] = o2 /\ c2.mark[s] = m
      /\ \A x \in Streams : x # s => /\ c2.remaining[x] = c.remaining[x] /\ c2.output[x] = c.output[x]
                                     /\ c2.mark[x] = c.mark[x]
  BY <1>1, <1>6, <1>7 DEF Writers
<1> HIDE DEF d2, c2
<1>10. ASSUME NEW x \in Streams
       PROVE  /\ Beginning(d2.file[x], d2.limit)
              /\ c2.remaining[x] = d2.limit - Len(d2.file[x])
              /\ ~c2.broken[x] => Complete(d2, c2, x)
  <2>1. CASE x = s
    BY <2>1, <1>5, <1>7, <1>8, <1>9, Zenon DEF Complete
  <2>2. CASE x # s
    BY <2>2, <1>1, <1>8, <1>9, Zenon DEF Complete, Kept
  <2> QED
    BY <2>1, <2>2, Zenon
<1>11. "valid" # "none"
  OBVIOUS
<1>12. Kept(d2, c2)
  BY <1>1, <1>8, <1>9, <1>10, <1>11, Zenon DEF Kept
<1> QED
  BY <1>12

-----------------------------------------------------------------------------
\* Only the execution e changes.
LEMMA OneKept ==
    ASSUME StoreInv, NEW e \in Execution, NEW d2, NEW c2, Kept(d2, c2),
           dir' = [dir EXCEPT ![e] = d2], capture' = [capture EXCEPT ![e] = c2],
           streamBytes' = streamBytes
    PROVE  StoreInv'
<1>1. dir = [x \in Execution |-> dir[x]] /\ capture = [x \in Execution |-> capture[x]]
  BY Zenon DEF StoreInv
<1>2. /\ dir' = [x \in Execution |-> dir'[x]] /\ capture' = [x \in Execution |-> capture'[x]]
      /\ dir'[e] = d2 /\ capture'[e] = c2
      /\ \A x \in Execution : x # e => dir'[x] = dir[x] /\ capture'[x] = capture[x]
  BY <1>1
<1> QED
  BY <1>2, Zenon DEF StoreInv

\* Every step of the store, one case per operation.
LEMMA StoreSteps == ASSUME StoreInv, StoreNext PROVE StoreInv'
<1>0. /\ dir = [x \in Execution |-> dir[x]] /\ capture = [x \in Execution |-> capture[x]]
      /\ \A e \in Execution : Kept(dir[e], capture[e])
      /\ streamBytes \in StreamBytes
  BY Zenon DEF StoreInv
<1>1. CASE Restart
  <2>1. dir' = dir /\ capture' = capture /\ streamBytes' \in StreamBytes
    BY <1>1 DEF Restart
  <2> QED
    BY <2>1, Zenon DEF StoreInv
<1>2. ASSUME NEW e \in Execution, Reserve(e)
      PROVE  StoreInv'
  <2> DEFINE D(m) == [dir[e] EXCEPT !.metadata = m, !.limit = streamBytes]
             T(m) == [dir[e] EXCEPT !.metadata = m]
  <2>1. /\ dir[e].metadata = "none" /\ capture[e].started = 0
        /\ streamBytes' = streamBytes /\ capture' = capture
        /\ \/ dir' = [dir EXCEPT ![e] = D("valid")]
           \/ \E m \in {"missing", "torn"} : dir' = [dir EXCEPT ![e] = T(m)]
    BY <1>2, <1>0 DEF Reserve
  <2>2. streamBytes \in Nat
    BY <1>0, StoreAssumption
  <2>3. /\ Kept(D("valid"), capture[e])
        /\ \A m \in {"missing", "torn"} : Kept(T(m), capture[e])
    BY <1>0, <2>1, <2>2, ReserveKept
  <2>4. capture' = [capture EXCEPT ![e] = capture[e]]
    BY <1>0, <2>1
  <2> HIDE DEF D, T
  <2> QED
    BY <2>1, <2>3, <2>4, OneKept
<1>3. ASSUME NEW e \in Execution, Remove(e)
      PROVE  StoreInv'
  <2>1. /\ capture[e].at # "open" /\ dir' = [dir EXCEPT ![e] = NoDir]
        /\ capture' = [capture EXCEPT ![e] = capture[e]] /\ streamBytes' = streamBytes
    BY <1>3, <1>0 DEF Remove
  <2>2. Kept(NoDir, capture[e])
    BY <1>0, <2>1, RemoveKept
  <2> QED
    BY <2>1, <2>2, OneKept
<1>4. ASSUME NEW e \in Execution, Capture(e)
      PROVE  StoreInv'
  <2> DEFINE c2 == [capture[e] EXCEPT !.at = "open", !.started = @ + 1,
                     !.remaining = [s \in Streams |-> Max({0, dir[e].limit - Len(dir[e].file[s])})]]
  <2>1. /\ capture[e].at # "open" /\ dir[e].metadata = "valid"
        /\ dir' = [dir EXCEPT ![e] = dir[e]]
        /\ capture' = [capture EXCEPT ![e] = c2] /\ streamBytes' = streamBytes
    BY <1>4, <1>0 DEF Capture
  <2>2. Kept(dir[e], c2)
    BY <1>0, <2>1, CaptureKept
  <2> HIDE DEF c2
  <2> QED
    BY <2>1, <2>2, OneKept
<1>5. ASSUME NEW e \in Execution, CaptureEnd(e)
      PROVE  StoreInv'
  <2> DEFINE c2 == [capture[e] EXCEPT !.at = "ended"]
  <2>1. /\ capture[e].at = "open" /\ \A s \in Streams : ~capture[e].mark[s]
        /\ dir' = [dir EXCEPT ![e] = dir[e]]
        /\ capture' = [capture EXCEPT ![e] = c2] /\ streamBytes' = streamBytes
    BY <1>5, <1>0 DEF CaptureEnd
  <2>2. Kept(dir[e], c2)
    BY <1>0, <2>1, EndKept
  <2> HIDE DEF c2
  <2> QED
    BY <2>1, <2>2, OneKept
<1>6. ASSUME NEW e \in Execution, NEW s \in Streams, CaptureMark(e, s)
      PROVE  StoreInv'
  <2> DEFINE d2 == [dir[e] EXCEPT !.truncated = [@ EXCEPT ![s] = TRUE]]
             c2 == [capture[e] EXCEPT !.mark = [@ EXCEPT ![s] = FALSE]]
  <2>1. /\ capture[e].mark[s] /\ dir' = [dir EXCEPT ![e] = d2]
        /\ capture' = [capture EXCEPT ![e] = c2] /\ streamBytes' = streamBytes
    BY <1>6, <1>0 DEF CaptureMark
  <2>2. Kept(d2, c2)
    BY <1>0, <2>1, MarkKept
  <2> HIDE DEF c2, d2
  <2> QED
    BY <2>1, <2>2, OneKept
<1>7. ASSUME NEW e \in Execution, NEW s \in Streams, CaptureFails(e, s)
      PROVE  StoreInv'
  <2> DEFINE c2 == [capture[e] EXCEPT !.broken = [@ EXCEPT ![s] = TRUE], !.mark = [@ EXCEPT ![s] = FALSE]]
  <2>1. /\ capture[e].at = "open" /\ dir' = [dir EXCEPT ![e] = dir[e]]
        /\ capture' = [capture EXCEPT ![e] = c2] /\ streamBytes' = streamBytes
    BY <1>7, <1>0 DEF CaptureFails
  <2>2. Kept(dir[e], c2)
    BY <1>0, <2>1, FailKept
  <2> HIDE DEF c2
  <2> QED
    BY <2>1, <2>2, OneKept
<1>8. ASSUME NEW e \in Execution, NEW s \in Streams, NEW n \in 1 .. MaxOutput, CaptureChunk(e, s, n)
      PROVE  StoreInv'
  <2> DEFINE d == dir[e]
             c == capture[e]
             keep == Min({n, c.remaining[s]})
             d2 == [d EXCEPT !.file = [d.file EXCEPT ![s] = d.file[s] \o [i \in 1 .. keep |-> c.output[s] + i]]]
             o2 == c.output[s] + n
             r2 == c.remaining[s] - keep
             m == n > keep /\ ~d.truncated[s]
             c2 == [c EXCEPT !.output = [@ EXCEPT ![s] = o2],
                             !.remaining = [@ EXCEPT ![s] = r2],
                             !.mark = [@ EXCEPT ![s] = m]]
  <2>1. /\ c.at = "open" /\ ~c.mark[s] /\ ~c.broken[s] /\ streamBytes' = streamBytes
        /\ dir' = [dir EXCEPT ![e] = d2] /\ capture' = [capture EXCEPT ![e] = c2]
    <3>1. c.at = "open" /\ ~c.mark[s] /\ ~c.broken[s] /\ streamBytes' = streamBytes
      BY <1>8, Zenon DEF CaptureChunk
    <3>2. dir' = [dir EXCEPT ![e] = d2]
      BY <1>8, <1>0 DEF CaptureChunk
    <3>3. capture' = [capture EXCEPT ![e] = c2]
      <4>1. capture' = [capture EXCEPT ![e].output[s] = o2, ![e].remaining[s] = r2, ![e].mark[s] = m]
        BY <1>8, Zenon DEF CaptureChunk
      <4> HIDE DEF o2, r2, m
      <4> QED
        BY <4>1, <1>0
    <3> QED
      BY <3>1, <3>2, <3>3, Zenon
  <2>2. n \in Nat \ {0} /\ Kept(d, c)
    BY <1>0, StoreAssumption
  <2>3. Kept(d2, c2)
    <3> HIDE DEF d, c
    <3> QED
      BY <2>1, <2>2, ChunkKept
  <2> HIDE DEF c2, d2
  <2> QED
    BY <2>1, <2>3, OneKept
<1> QED
  BY <1>1, <1>2, <1>3, <1>4, <1>5, <1>6, <1>7, <1>8, Zenon DEF StoreNext

\* The empty store.
LEMMA StoreStarts == ASSUME StoreInit PROVE StoreInv
<1>1. /\ streamBytes \in StreamBytes /\ dir = [e \in Execution |-> NoDir]
      /\ capture = [e \in Execution |-> NoCapture]
  BY Zenon DEF StoreInit
<1> QED
  BY <1>1, Fresh, Zenon DEF StoreInv

\* What does not touch the store.
LEMMA StoreStutters == ASSUME StoreInv, UNCHANGED <<streamBytes, dir, capture>> PROVE StoreInv'
  BY Zenon DEF StoreInv

\* What Kept says of the file of a stream.
LEMMA Retained == ASSUME StoreInv PROVE RetainsBeginning
<1> SUFFICES ASSUME NEW e \in Execution, NEW s \in Streams, dir[e].metadata = "valid", ~capture[e].broken[s]
             PROVE  LET file == dir[e].file[s]
                        lost == capture[e].output[s] > Len(file)
                    IN  /\ file = [i \in 1 .. Len(file) |-> i]
                        /\ Len(file) <= dir[e].limit
                        /\ lost => /\ Len(file) = dir[e].limit
                                   /\ dir[e].truncated[s] \/ capture[e].mark[s]
  BY Zenon DEF RetainsBeginning
<1> DEFINE file == dir[e].file[s]
<1>1. /\ dir[e] \in Dir /\ capture[e] \in Writers /\ Beginning(file, dir[e].limit)
      /\ capture[e].output[s] = Len(file) \/ (Len(file) = dir[e].limit /\ (dir[e].truncated[s] \/ capture[e].mark[s]))
  BY Zenon DEF StoreInv, Kept, Complete
<1>2. file \in Seq(Nat) /\ capture[e].output[s] \in Nat
  BY <1>1 DEF Dir, Writers
<1> HIDE DEF file
<1>3. file = [i \in 1 .. Len(file) |-> i] /\ Len(file) <= dir[e].limit
  BY <1>1, <1>2 DEF Beginning
<1>4. capture[e].output[s] = Len(file) => ~(capture[e].output[s] > Len(file))
  BY <1>2
<1> QED
  BY <1>1, <1>3, <1>4, Zenon DEF file

-----------------------------------------------------------------------------
(* The loop of the client. *)

\* An answer without bytes.
LEMMA Empty == ASSUME NEW off \in Nat PROVE From(<<>>, off)
  BY DEF From

\* A read from an offset returns the bytes that follow it.
LEMMA ReadsFrom ==
    ASSUME StoreInv, NEW e \in Execution, NEW s \in Streams, NEW off \in Nat,
           Read(e, s, off, Chunk).err = "none"
    PROVE  From(Read(e, s, off, Chunk).data, off)
<1> DEFINE f == dir[e].file[s]
           last == Min({off + Chunk, Len(f)})
<1>1. dir[e] \in Dir /\ Beginning(f, dir[e].limit)
  BY Zenon DEF StoreInv, Kept
<1>2. f \in Seq(Nat) /\ Len(f) \in Nat /\ \A i \in 1 .. Len(f) : f[i] = i
  <2>1. f \in Seq(Nat)
    BY <1>1 DEF Dir
  <2> HIDE DEF f
  <2> QED
    BY <1>1, <2>1 DEF Beginning
<1>3. /\ off <= Len(f)
      /\ Read(e, s, off, Chunk).data = SubSeq(f, off + 1, last)
  <2> HIDE DEF last
  <2>1. ~(dir[e].metadata # "valid" \/ capture[e].started = 0)
    BY DEF Read
  <2>2. ~(off > Len(f))
    BY <2>1 DEF Read
  <2>3. Read(e, s, off, Chunk) = [err |-> "none", data |-> SubSeq(f, off + 1, last)]
    BY <2>1, <2>2, Zenon DEF Read, last
  <2>4. Read(e, s, off, Chunk).data = SubSeq(f, off + 1, last)
    <3> DEFINE x == SubSeq(f, off + 1, last)
    <3>1. Read(e, s, off, Chunk) = [err |-> "none", data |-> x]
      BY <2>3, Zenon
    <3> HIDE DEF x
    <3>2. Read(e, s, off, Chunk).data = x
      BY <3>1
    <3> QED
      BY <3>2, Zenon DEF x
  <2> HIDE DEF f
  <2> QED
    BY <1>2, <2>2, <2>4
<1> HIDE DEF f
<1>4. last \in Nat /\ last <= Len(f)
  <2>1. off + Chunk \in Nat
    BY TailAssumption
  <2> HIDE DEF last
  <2>2. last \in {off + Chunk, Len(f)} /\ last <= Len(f)
    BY <1>2, <2>1, Least, Zenon DEF last
  <2> QED
    BY <1>2, <2>1, <2>2
<1> HIDE DEF last
<1>5. /\ SubSeq(f, off + 1, last) \in Seq(Nat)
      /\ \A i \in 1 .. Len(SubSeq(f, off + 1, last)) : SubSeq(f, off + 1, last)[i] = off + i
  BY <1>2, <1>3, <1>4
<1> QED
  BY <1>3, <1>5 DEF From

\* The type and the length of a concatenation.
LEMMA Concat == ASSUME NEW S, NEW p \in Seq(S), NEW t \in Seq(S)
                PROVE  p \o t \in Seq(S) /\ Len(p \o t) = Len(p) + Len(t)
  OBVIOUS

\* What is appended to what was printed continues it.
LEMMA Continues ==
    ASSUME NEW p \in Seq(Nat \X Nat), NEW a \in Nat, NEW data, From(data, Len(p)),
           \A i \in 1 .. Len(p) : p[i] = <<a, i>>
    PROVE  LET q == p \o [i \in DOMAIN data |-> <<a, data[i]>>] IN
           /\ q \in Seq(Nat \X Nat) /\ Len(q) = Len(p) + Len(data)
           /\ \A i \in 1 .. Len(q) : q[i] = <<a, i>>
<1> DEFINE t == [i \in DOMAIN data |-> <<a, data[i]>>]
<1>1. data \in Seq(Nat) /\ DOMAIN data = 1 .. Len(data) /\ Len(data) \in Nat
  BY DEF From
<1>2. t \in Seq(Nat \X Nat) /\ Len(t) = Len(data)
  BY <1>1
<1>3. \A i \in 1 .. Len(data) : t[i] = <<a, Len(p) + i>>
  BY <1>1 DEF From
<1> HIDE DEF t
<1>4. p \o t \in Seq(Nat \X Nat) /\ Len(p \o t) = Len(p) + Len(data)
  <2>1. t \in Seq(Nat \X Nat)
    BY <1>2, Zenon
  <2>2. p \o t \in Seq(Nat \X Nat) /\ Len(p \o t) = Len(p) + Len(t)
    BY <2>1, Concat, Zenon
  <2> QED
    BY <1>2, <2>2, Zenon
<1>5. ASSUME NEW i \in 1 .. Len(p \o t)
      PROVE  (p \o t)[i] = <<a, i>>
  <2>1. CASE i <= Len(p)
    <3>1. i \in 1 .. Len(p) /\ (p \o t)[i] = p[i]
      BY <1>2, <1>4, <2>1
    <3> QED
      BY <3>1, Zenon
  <2>2. CASE i > Len(p)
    <3>1. (p \o t)[i] = t[i - Len(p)] /\ i - Len(p) \in 1 .. Len(data) /\ Len(p) + (i - Len(p)) = i
      BY <1>1, <1>2, <1>4, <2>2
    <3> QED
      BY <3>1, <1>3, Zenon
  <2> QED
    BY <2>1, <2>2, <1>4
<1> QED
  BY <1>4, <1>5, Zenon DEF t

\* Nothing is on the way.
LEMMA Nothing == Answered(Silent) /\ Silent \in Message
<1>1. Silent \in Message
  BY TailAssumption DEF Silent, Message
<1>2. Silent.kind = "none" /\ Silent.data = <<>> /\ Silent.off \in Nat
  BY DEF Silent
<1> QED
  BY <1>1, <1>2, Empty, Zenon DEF Answered

\* No poll is under way.
LEMMA Idles == Idle \in PollType /\ Idle.at = "idle"
  BY TailAssumption DEF Idle, PollType

\* Nothing was read or printed yet.
LEMMA TailStarts == ASSUME Init PROVE TailInv
<1>1. StoreInv
  BY StoreStarts DEF Init
<1>2. /\ tail = [active |-> 0, off |-> [s \in Streams |-> 0]] /\ poll = Idle
      /\ wire = [current |-> Silent, late |-> Silent]
      /\ printed = [a \in DOMAIN Attempts |-> [s \in Streams |-> <<>>]]
  BY Zenon DEF Init
<1>3. tail \in [active : 0 .. Len(Attempts), off : [Streams -> Nat]]
  BY <1>2, TailAssumption
<1>4. printed \in [DOMAIN Attempts -> [Streams -> Seq(Nat \X Nat)]]
  BY <1>2
<1>5. /\ wire \in [current : Message, late : Message]
      /\ Answered(wire.current) /\ Answered(wire.late)
  <2>1. wire.current = Silent /\ wire.late = Silent /\ wire \in [current : Message, late : Message]
    BY <1>2, Nothing
  <2> QED
    BY <2>1, Nothing, Zenon
<1>6. Polling
  <2>1. "idle" \notin {"wait", "compare", "write"} /\ "idle" \notin {"compare", "write"}
    OBVIOUS
  <2> QED
    BY <1>2, <2>1, Idles, Zenon DEF Polling
<1>7. First
  <2>1. ASSUME NEW a \in DOMAIN Attempts, NEW s \in Streams
        PROVE  /\ \A i \in 1 .. Len(printed[a][s]) : printed[a][s][i] = <<a, i>>
               /\ a # tail.active /\ printed[a][s] = <<>>
    BY <1>2, TailAssumption
  <2>2. poll.at # "write"
    BY <1>2, Idles
  <2> QED
    BY <2>1, <2>2, Zenon DEF First
<1> QED
  BY <1>1, <1>3, <1>4, <1>5, <1>6, <1>7, Zenon DEF TailInv

\* The poll ends a read, or all of its reads, and nothing was printed.
LEMMA PollMoves ==
    ASSUME TailInv, NEW at \in {"idle", "next", "wait", "compare"},
           UNCHANGED <<streamBytes, dir, capture, tail, printed>>,
           poll' \in PollType, poll'.at = at,
           at # "idle" => poll'.execution # 0 /\ poll'.execution <= tail.active,
           at \in {"wait", "compare"} => poll'.stream \in Streams,
           at = "compare" => From(poll'.data, poll'.off[poll'.stream]),
           wire' \in [current : Message, late : Message],
           Answered(wire'.current), Answered(wire'.late)
    PROVE  TailInv'
<1>1. StoreInv'
  BY StoreStutters, Zenon DEF TailInv
<1>2. at # "write" /\ (at \in {"compare", "write"} => at = "compare")
      /\ (at \in {"wait", "compare", "write"} => at \in {"wait", "compare"})
  OBVIOUS
<1>3. Polling'
  BY <1>2, Zenon DEF Polling
<1>4. tail'.active <= 1 => First'
  <2>1. poll'.at # "write" /\ tail' = tail /\ printed' = printed
    BY <1>2, Zenon
  <2>2. tail.active <= 1 => First
    BY Zenon DEF TailInv
  <2> QED
    BY <2>1, <2>2 DEF First
<1>5. (Answered(wire.current) /\ Answered(wire.late))'
  BY Zenon DEF Answered
<1> QED
  BY <1>1, <1>3, <1>4, <1>5, Zenon DEF TailInv

\* The poll and what was printed stay as they are.
LEMMA TailStays ==
    ASSUME TailInv, StoreInv', UNCHANGED <<tail, poll, printed>>,
           wire' \in [current : Message, late : Message],
           Answered(wire'.current), Answered(wire'.late)
    PROVE  TailInv'
<1>0. tail' = tail /\ poll' = poll /\ printed' = printed
  BY Zenon
<1>1. Polling' /\ (First => First')
  <2>1. Polling
    BY Zenon DEF TailInv
  <2>2. Polling'
    BY <1>0, <2>1, Zenon DEF Polling
  <2>3. First => First'
    BY <1>0 DEF First
  <2> QED
    BY <2>2, <2>3, Zenon
<1> QED
  BY <1>0, <1>1, Zenon DEF TailInv, Answered

\* The first attempt becomes active before anything was printed.
LEMMA SetActiveSteps == ASSUME TailInv, SetActive PROVE TailInv'
<1>1. /\ tail.active < Len(Attempts)
      /\ tail' = [active |-> tail.active + 1, off |-> [s \in Streams |-> 0]]
      /\ UNCHANGED <<streamBytes, dir, capture, poll, printed, wire>>
  BY Zenon DEF SetActive, storeVars
<1>2. tail.active \in 0 .. Len(Attempts) /\ Polling /\ (tail.active <= 1 => First)
  BY DEF TailInv
<1>3. /\ tail' \in [active : 0 .. Len(Attempts), off : [Streams -> Nat]]
      /\ tail'.active = tail.active + 1 /\ \A s \in Streams : tail'.off[s] = 0
  BY <1>1, <1>2, TailAssumption
<1>4. StoreInv'
  BY <1>1, StoreStutters, Zenon DEF TailInv
<1>5. Polling'
  <2>1. poll.execution \in 0 .. Len(Attempts)
    BY <1>2 DEF Polling, PollType
  <2>2. poll.execution <= tail.active => poll.execution <= tail'.active
    BY <1>2, <1>3, <2>1, TailAssumption
  <2> QED
    BY <1>1, <1>2, <2>2, Zenon DEF Polling
<1>6. ASSUME tail'.active <= 1
      PROVE  First'
  <2>1. tail.active = 0 /\ tail'.active = 1 /\ First
    BY <1>2, <1>3, <1>6, TailAssumption
  <2>2. poll.at # "write"
    <3>1. poll.execution \in 0 .. Len(Attempts)
      BY <1>2 DEF Polling, PollType
    <3>2. ~(poll.execution # 0 /\ poll.execution <= tail.active)
      BY <2>1, <3>1, TailAssumption
    <3>3. "write" # "idle"
      OBVIOUS
    <3> QED
      BY <1>2, <3>2, <3>3, Zenon DEF Polling
  <2>3. ASSUME NEW a \in DOMAIN Attempts, NEW s \in Streams
        PROVE  /\ printed[a][s] = <<>> /\ tail'.off[s] = Len(printed[a][s])
    <3>1. a > tail.active
      BY <2>1, TailAssumption
    <3>2. printed[a][s] = <<>>
      BY <3>1, <2>1, Zenon DEF First
    <3> QED
      BY <3>2, <1>3
  <2> QED
    BY <1>1, <2>1, <2>2, <2>3, Zenon DEF First
<1> QED
  BY <1>1, <1>3, <1>4, <1>5, <1>6, Zenon DEF TailInv, Answered

\* A poll takes the active attempt.
LEMMA StartSteps == ASSUME TailInv, pollStart PROVE TailInv'
<1>1. /\ poll' = [Idle EXCEPT !.at = "next", !.execution = tail.active, !.off = tail.off, !.todo = Streams]
      /\ tail.active # 0 /\ UNCHANGED <<streamBytes, dir, capture, tail, printed, wire>>
  BY Zenon DEF pollStart, storeVars
<1>2. tail.active \in 0 .. Len(Attempts) /\ tail.off \in [Streams -> Nat]
  BY DEF TailInv
<1>3. poll' \in PollType /\ poll'.at = "next" /\ poll'.execution = tail.active /\ tail.active <= tail.active
  <2>1. tail.active <= tail.active
    BY <1>2, TailAssumption
  <2> DEFINE a == tail.active
             o == tail.off
             N == 0 .. Len(Attempts)
  <2>2. a \in N /\ o \in [Streams -> Nat] /\ poll' = [Idle EXCEPT !.at = "next", !.execution = a, !.off = o, !.todo = Streams]
    BY <1>1, <1>2, Zenon
  <2>3. Idle \in [at : {"idle", "next", "wait", "compare", "write"}, execution : N,
             off : [Streams -> Nat], todo : SUBSET Streams, stream : Streams \cup {"none"},
             data : Seq(Nat)]
    BY Idles, Zenon DEF PollType
  <2> HIDE DEF a, o, N
  <2>4. poll' \in [at : {"idle", "next", "wait", "compare", "write"}, execution : N,
             off : [Streams -> Nat], todo : SUBSET Streams, stream : Streams \cup {"none"},
             data : Seq(Nat)] /\ poll'.at = "next" /\ poll'.execution = a
    BY <2>2, <2>3
  <2> QED
    BY <2>1, <2>4, Zenon DEF PollType, N, a
<1>4. "next" \in {"idle", "next", "wait", "compare"} /\ "next" \notin {"wait", "compare"} /\ "next" # "compare"
  OBVIOUS
<1>5. wire' \in [current : Message, late : Message] /\ Answered(wire'.current) /\ Answered(wire'.late)
  BY <1>1, Zenon DEF TailInv
<1> QED
  BY <1>1, <1>3, <1>4, <1>5, PollMoves

\* A poll, or the run, is over.
LEMMA EndSteps == ASSUME TailInv, poll' = Idle, UNCHANGED <<streamBytes, dir, capture, tail, printed>>,
                         wire' = wire \/ wire' = [current |-> Silent, late |-> Silent]
                  PROVE  TailInv'
<1>1. wire' \in [current : Message, late : Message] /\ Answered(wire'.current) /\ Answered(wire'.late)
  <2>1. CASE wire' = wire
    BY <2>1, Zenon DEF TailInv
  <2>2. CASE wire' = [current |-> Silent, late |-> Silent]
    <3>1. wire'.current = Silent /\ wire'.late = Silent /\ wire' \in [current : Message, late : Message]
      BY <2>2, Nothing
    <3> QED
      BY <3>1, Nothing, Zenon
  <2> QED
    BY <2>1, <2>2, Zenon
<1>2. "idle" \in {"idle", "next", "wait", "compare"} /\ "idle" \notin {"wait", "compare"} /\ "idle" # "compare"
  OBVIOUS
<1>3. poll' \in PollType /\ poll'.at = "idle"
  BY Idles, Zenon
<1> QED
  BY <1>1, <1>2, <1>3, PollMoves

\* One of the two reads on the wire is replaced.
LEMMA WireMoves ==
    ASSUME wire \in [current : Message, late : Message], Answered(wire.current), Answered(wire.late),
           NEW k \in {"current", "late"}, NEW m, Answered(m), wire' = [wire EXCEPT ![k] = m]
    PROVE  wire' \in [current : Message, late : Message] /\ Answered(wire'.current) /\ Answered(wire'.late)
<1>1. m \in Message
  BY Zenon DEF Answered
<1>2. CASE k = "current"
  <2>1. wire' \in [current : Message, late : Message] /\ wire'.current = m /\ wire'.late = wire.late
    BY <1>1, <1>2
  <2> QED
    BY <2>1, Zenon
<1>3. CASE k = "late"
  <2>1. wire' \in [current : Message, late : Message] /\ wire'.current = wire.current /\ wire'.late = m
    BY <1>1, <1>3
  <2> QED
    BY <2>1, Zenon
<1> QED
  BY <1>2, <1>3

\* A command asks for what follows the offset of the poll.
LEMMA LogsSteps == ASSUME TailInv, NEW s \in Streams, Logs(s) PROVE TailInv'
<1> DEFINE m == [Silent EXCEPT !.kind = "request", !.execution = poll.execution,
                               !.stream = s, !.off = poll.off[s]]
<1>1. /\ poll.at = "next" /\ UNCHANGED <<streamBytes, dir, capture, tail, printed>>
      /\ \/ /\ poll' = [poll EXCEPT !.at = "wait", !.stream = s, !.todo = poll.todo \ {s}]
            /\ wire' = [wire EXCEPT !.current = m]
         \/ poll' = [poll EXCEPT !.todo = poll.todo \ {s}] /\ wire' = wire
  BY Zenon DEF Logs, storeVars
<1>2. /\ poll \in PollType /\ poll.execution # 0 /\ poll.execution <= tail.active
      /\ wire \in [current : Message, late : Message] /\ Answered(wire.current) /\ Answered(wire.late)
  <2>1. "next" # "idle"
    OBVIOUS
  <2> QED
    BY <1>1, <2>1, Zenon DEF TailInv, Polling
<1>3. CASE poll' = [poll EXCEPT !.at = "wait", !.stream = s, !.todo = poll.todo \ {s}]
           /\ wire' = [wire EXCEPT !.current = m]
  <2>1. /\ poll' \in PollType /\ poll'.at = "wait" /\ poll'.stream = s
        /\ poll'.execution = poll.execution
    BY <1>2, <1>3 DEF PollType
  <2>2. poll.execution \in 0 .. Len(Attempts) /\ poll.off[s] \in Nat
    BY <1>2 DEF PollType
  <2>3. /\ m \in Message /\ m.execution # 0 /\ m.stream \in Streams /\ m.data = <<>> /\ m.off \in Nat
    <3>1. Silent.data = <<>>
      BY DEF Silent
    <3> QED
      BY <3>1, <1>2, <2>2, Nothing DEF Message
  <2>4. Answered(m)
    <3> HIDE DEF m
    <3> QED
      BY <2>3, Empty, Zenon DEF Answered
  <2> HIDE DEF m
  <2>5. wire' \in [current : Message, late : Message] /\ Answered(wire'.current) /\ Answered(wire'.late)
    <3>1. wire' = [wire EXCEPT !["current"] = m] /\ "current" \in {"current", "late"}
      BY <1>3
    <3> QED
      BY <3>1, <1>2, <2>4, WireMoves
  <2>6. "wait" \in {"idle", "next", "wait", "compare"} /\ "wait" # "compare"
    OBVIOUS
  <2> QED
    BY <1>1, <1>2, <2>1, <2>5, <2>6, PollMoves
<1>4. CASE poll' = [poll EXCEPT !.todo = poll.todo \ {s}] /\ wire' = wire
  <2>1. poll' \in PollType /\ poll'.at = poll.at /\ poll'.execution = poll.execution
    BY <1>2, <1>4 DEF PollType
  <2>2. "next" \in {"idle", "next", "wait", "compare"} /\ "next" \notin {"wait", "compare"} /\ "next" # "compare"
    OBVIOUS
  <2>3. wire' \in [current : Message, late : Message] /\ Answered(wire'.current) /\ Answered(wire'.late)
    BY <1>2, <1>4, Zenon
  <2> QED
    BY <1>1, <1>2, <2>1, <2>2, <2>3, PollMoves
<1> QED
  BY <1>1, <1>3, <1>4, Zenon

\* The wire changes, and the poll does not.
LEMMA AnswerSteps == ASSUME TailInv, NEW k \in {"current", "late"}, handleLogs(k) PROVE TailInv'
<1> DEFINE m == wire[k]
           r == Read(Attempts[m.execution], m.stream, m.off, Chunk)
           kind == IF r.err = "none" THEN "chunk" ELSE "error"
           data == IF r.err = "none" THEN r.data ELSE <<>>
           m2 == [m EXCEPT !.kind = kind, !.data = data]
<1>1. /\ UNCHANGED <<streamBytes, dir, capture, tail, poll, printed>>
      /\ m.kind = "request" /\ wire' = [wire EXCEPT ![k].kind = kind, ![k].data = data]
  BY Zenon DEF handleLogs, storeVars
<1>2. /\ StoreInv /\ wire \in [current : Message, late : Message]
      /\ Answered(wire.current) /\ Answered(wire.late)
  BY Zenon DEF TailInv
<1>3. Answered(m)
  BY <1>2
<1> HIDE DEF m
<1>4. m \in Message /\ m.execution # 0 /\ m.stream \in Streams
  <2>1. "request" # "none"
    OBVIOUS
  <2> QED
    BY <1>1, <1>3, <2>1, Zenon DEF Answered
<1>5. m.execution \in 1 .. Len(Attempts) /\ m.off \in Nat
  BY <1>4, TailAssumption DEF Message
<1>6. Attempts[m.execution] \in Execution
  BY <1>5, TailAssumption
<1>7. From(data, m.off) /\ data \in Seq(Nat)
  <2>1. r.err = "none" => From(r.data, m.off)
    BY <1>2, <1>4, <1>5, <1>6, ReadsFrom, Zenon
  <2> HIDE DEF r
  <2>2. From(data, m.off)
    BY <1>5, <2>1, Empty, Zenon
  <2> QED
    BY <2>2, Zenon DEF From
<1>8. kind \in {"chunk", "error"}
  OBVIOUS
<1> HIDE DEF kind, data
<1>9. /\ m2 \in Message /\ m2.execution = m.execution /\ m2.stream = m.stream
      /\ m2.off = m.off /\ m2.data = data
  BY <1>4, <1>7, <1>8 DEF Message
<1>10. wire' = [wire EXCEPT ![k] = m2]
  BY <1>1, <1>2 DEF m
<1> HIDE DEF m2
<1>11. Answered(m2)
  BY <1>4, <1>7, <1>9, Zenon DEF Answered
<1>12. wire' \in [current : Message, late : Message] /\ Answered(wire'.current) /\ Answered(wire'.late)
  BY <1>2, <1>10, <1>11, WireMoves
<1>13. StoreInv'
  BY <1>1, <1>2, StoreStutters, Zenon
<1> QED
  BY <1>1, <1>12, <1>13, TailStays

\* A read is over: only the answer to the command that is awaited is taken.
LEMMA ResponseSteps ==
    ASSUME TailInv, NEW k \in {"current", "late"}, handleLogsResponse(k) PROVE TailInv'
<1> DEFINE m == wire[k]
<1>1. /\ UNCHANGED <<streamBytes, dir, capture, tail, printed>>
      /\ m.kind \in {"chunk", "error"} /\ wire' = [wire EXCEPT ![k] = Silent]
      /\ poll' = IF ~logAuthority(k) THEN poll
                 ELSE IF m.data # <<>>
                 THEN [poll EXCEPT !.at = "compare", !.data = m.data]
                 ELSE [poll EXCEPT !.at = "next"]
  BY Zenon DEF handleLogsResponse, storeVars
<1>2. /\ StoreInv /\ wire \in [current : Message, late : Message]
      /\ Answered(wire.current) /\ Answered(wire.late) /\ Polling
  BY Zenon DEF TailInv
<1>3. wire' \in [current : Message, late : Message] /\ Answered(wire'.current) /\ Answered(wire'.late)
  BY <1>1, <1>2, Nothing, WireMoves
<1>4. Answered(m)
  BY <1>2
<1>5. CASE ~logAuthority(k)
  <2>1. poll' = poll
    BY <1>1, <1>5, Zenon
  <2>2. StoreInv'
    BY <1>1, <1>2, StoreStutters, Zenon
  <2> QED
    BY <1>1, <1>3, <2>1, <2>2, TailStays
<1>6. CASE logAuthority(k)
  <2>1. poll.at = "wait" /\ m.off = poll.off[poll.stream]
    BY <1>6, Zenon DEF logAuthority
  <2>2. /\ poll \in PollType /\ poll.stream \in Streams
        /\ poll.execution # 0 /\ poll.execution <= tail.active
    <3>1. "wait" # "idle" /\ "wait" \in {"wait", "compare", "write"}
      OBVIOUS
    <3> QED
      BY <1>2, <2>1, <3>1, Zenon DEF Polling
  <2>3. From(m.data, poll.off[poll.stream]) /\ m.data \in Seq(Nat)
    BY <1>4, <2>1, Zenon DEF Answered, From
  <2> HIDE DEF m
  <2>4. CASE m.data # <<>>
    <3>1. poll' = [poll EXCEPT !.at = "compare", !.data = m.data]
      BY <1>1, <1>6, <2>4, Zenon
    <3>2. /\ poll' \in PollType /\ poll'.at = "compare" /\ poll'.data = m.data
          /\ poll'.off = poll.off /\ poll'.stream = poll.stream /\ poll'.execution = poll.execution
      BY <3>1, <2>2, <2>3 DEF PollType
    <3>3. "compare" \in {"idle", "next", "wait", "compare"}
      OBVIOUS
    <3>4. /\ poll'.stream \in Streams /\ From(poll'.data, poll'.off[poll'.stream])
          /\ poll'.execution # 0 /\ poll'.execution <= tail.active
      BY <2>2, <2>3, <3>2, Zenon
    <3> QED
      BY <1>1, <1>3, <3>2, <3>3, <3>4, PollMoves
  <2>5. CASE m.data = <<>>
    <3>1. poll' = [poll EXCEPT !.at = "next"]
      BY <1>1, <1>6, <2>5, Zenon
    <3>2. poll' \in PollType /\ poll'.at = "next" /\ poll'.execution = poll.execution
      BY <3>1, <2>2 DEF PollType
    <3>3. "next" \in {"idle", "next", "wait", "compare"} /\ "next" \notin {"wait", "compare"} /\ "next" # "compare"
      OBVIOUS
    <3> QED
      BY <1>1, <1>3, <2>2, <3>2, <3>3, PollMoves
  <2> QED
    BY <2>4, <2>5, Zenon
<1> QED
  BY <1>5, <1>6, Zenon

\* The answer that was given up is late from now on.
LEMMA TimeoutSteps == ASSUME TailInv, LogsTimeout PROVE TailInv'
<1>1. /\ poll.at = "wait" /\ poll' = [poll EXCEPT !.at = "next"]
      /\ wire' \in {[wire EXCEPT !.current = Silent], [current |-> Silent, late |-> wire.current]}
      /\ UNCHANGED <<streamBytes, dir, capture, tail, printed>>
  BY Zenon DEF LogsTimeout, storeVars
<1>2. /\ wire \in [current : Message, late : Message] /\ Answered(wire.current) /\ Answered(wire.late)
      /\ Polling
  BY Zenon DEF TailInv
<1>3. wire' \in [current : Message, late : Message] /\ Answered(wire'.current) /\ Answered(wire'.late)
  <2>1. /\ wire' \in [current : Message, late : Message] /\ wire'.current = Silent
        /\ wire'.late = wire.late \/ wire'.late = wire.current
    BY <1>1, <1>2, Nothing
  <2> QED
    BY <1>2, <2>1, Nothing, Zenon
<1>4. poll \in PollType /\ poll.execution # 0 /\ poll.execution <= tail.active
  <2>1. "wait" # "idle"
    OBVIOUS
  <2> QED
    BY <1>1, <1>2, <2>1, Zenon DEF Polling
<1>5. poll' \in PollType /\ poll'.at = "next" /\ poll'.execution = poll.execution
  BY <1>1, <1>4 DEF PollType
<1>6. "next" \in {"idle", "next", "wait", "compare"} /\ "next" \notin {"wait", "compare"} /\ "next" # "compare"
  OBVIOUS
<1> QED
  BY <1>1, <1>3, <1>4, <1>5, <1>6, PollMoves

\* The chunk was written or dropped.
LEMMA Dropped ==
    ASSUME NEW x \in PollType
    PROVE  LET y == [x EXCEPT !.at = "next", !.data = <<>>] IN
           y \in PollType /\ y.at = "next" /\ y.execution = x.execution
<1> DEFINE none == <<>>
           y == [x EXCEPT !.at = "next", !.data = none]
<1>1. none \in Seq(Nat)
  OBVIOUS
<1> HIDE DEF none
<1>2. y \in PollType /\ y.at = "next" /\ y.execution = x.execution
  BY <1>1 DEF PollType
<1> QED
  BY <1>2, Zenon DEF none

\* A chunk goes on to be written only if it starts where the printing stopped.
LEMMA CompareSteps == ASSUME TailInv, compare PROVE TailInv'
<1>1. /\ poll.at = "compare" /\ UNCHANGED <<streamBytes, dir, capture, tail, printed, wire>>
      /\ poll' = IF tail.off[poll.stream] = poll.off[poll.stream]
                 THEN [poll EXCEPT !.at = "write"]
                 ELSE [poll EXCEPT !.at = "next", !.data = <<>>]
  BY Zenon DEF compare, storeVars
<1>2. /\ StoreInv /\ wire \in [current : Message, late : Message]
      /\ Answered(wire.current) /\ Answered(wire.late) /\ Polling
      /\ tail.active <= 1 => First
  BY Zenon DEF TailInv
<1>3. /\ poll \in PollType /\ poll.execution # 0 /\ poll.execution <= tail.active
      /\ poll.stream \in Streams /\ From(poll.data, poll.off[poll.stream])
  <2>1. "compare" # "idle" /\ "compare" \in {"wait", "compare", "write"} /\ "compare" \in {"compare", "write"}
    OBVIOUS
  <2> QED
    BY <1>1, <1>2, <2>1, Zenon DEF Polling
<1>4. CASE tail.off[poll.stream] # poll.off[poll.stream]
  <2>1. poll' = [poll EXCEPT !.at = "next", !.data = <<>>]
    BY <1>1, <1>4, Zenon
  <2>2. poll' \in PollType /\ poll'.at = "next" /\ poll'.execution = poll.execution
    BY <1>3, <2>1, Dropped
  <2>3. "next" \in {"idle", "next", "wait", "compare"} /\ "next" \notin {"wait", "compare"} /\ "next" # "compare"
    OBVIOUS
  <2>4. wire' \in [current : Message, late : Message] /\ Answered(wire'.current) /\ Answered(wire'.late)
    BY <1>1, <1>2, Zenon
  <2> QED
    BY <1>1, <1>3, <2>2, <2>3, <2>4, PollMoves
<1>5. CASE tail.off[poll.stream] = poll.off[poll.stream]
  <2>1. poll' = [poll EXCEPT !.at = "write"]
    BY <1>1, <1>5, Zenon
  <2>2. /\ poll' \in PollType /\ poll'.execution = poll.execution
        /\ poll'.stream = poll.stream /\ poll'.off = poll.off /\ poll'.data = poll.data
    <3>1. poll \in PollType
      BY <1>3, Zenon
    <3> QED
      BY <2>1, <3>1 DEF PollType
  <2>3. tail' = tail /\ printed' = printed /\ wire' = wire
    BY <1>1, Zenon
  <2>4. Polling'
    BY <1>3, <2>2, <2>3, Zenon DEF Polling
  <2>5. First => First'
    BY <1>5, <2>2, <2>3 DEF First
  <2>6. StoreInv'
    BY <1>1, <1>2, StoreStutters, Zenon
  <2> QED
    BY <1>2, <2>3, <2>4, <2>5, <2>6, Zenon DEF TailInv, Answered
<1> QED
  BY <1>4, <1>5, Zenon

\* The chunk that is written continues what was printed.
LEMMA WriteSteps == ASSUME TailInv, write PROVE TailInv'
<1> DEFINE s == poll.stream
           t == [i \in DOMAIN poll.data |-> <<poll.execution, poll.data[i]>>]
           p == printed[tail.active][s]
           q == p \o t
           o == tail.off[s] + Len(poll.data)
<1>1. /\ poll.at = "write" /\ UNCHANGED <<streamBytes, dir, capture, wire>>
      /\ printed' = [printed EXCEPT ![tail.active][s] = q]
      /\ tail' = [tail EXCEPT !.off[s] = o]
      /\ poll' = [poll EXCEPT !.at = "next", !.data = <<>>]
  BY Zenon DEF write, storeVars
<1>2. /\ StoreInv /\ wire \in [current : Message, late : Message]
      /\ Answered(wire.current) /\ Answered(wire.late) /\ Polling
      /\ tail.active <= 1 => First
      /\ tail \in [active : 0 .. Len(Attempts), off : [Streams -> Nat]]
      /\ printed \in [DOMAIN Attempts -> [Streams -> Seq(Nat \X Nat)]]
  BY Zenon DEF TailInv
<1>3. /\ poll \in PollType /\ poll.execution # 0 /\ poll.execution <= tail.active
      /\ s \in Streams /\ From(poll.data, poll.off[s])
  <2>1. "write" # "idle" /\ "write" \in {"wait", "compare", "write"} /\ "write" \in {"compare", "write"}
    OBVIOUS
  <2> QED
    BY <1>1, <1>2, <2>1, Zenon DEF Polling
<1>4. /\ tail.active \in 0 .. Len(Attempts) /\ tail.off \in [Streams -> Nat]
      /\ poll.execution \in 0 .. Len(Attempts) /\ poll.data \in Seq(Nat)
  BY <1>2, <1>3 DEF PollType
<1>5. poll.execution \in Nat /\ tail.active \in DOMAIN Attempts /\ (tail.active <= 1 => poll.execution = tail.active)
  BY <1>3, <1>4, TailAssumption
<1>6. t \in Seq(Nat \X Nat)
  <2> DEFINE data == poll.data
             a == poll.execution
  <2>1. data \in Seq(Nat) /\ a \in Nat
    BY <1>4, <1>5, Zenon
  <2> HIDE DEF data, a
  <2>2. [i \in DOMAIN data |-> <<a, data[i]>>] \in Seq(Nat \X Nat)
    BY <2>1
  <2> QED
    BY <2>2, Zenon DEF data, a
<1>7. p \in Seq(Nat \X Nat)
  BY <1>2, <1>3, <1>5
<1>8. q \in Seq(Nat \X Nat)
  <2> HIDE DEF t, p
  <2> QED
    BY <1>6, <1>7, Concat, Zenon
<1>9. o \in Nat
  BY <1>3, <1>4
<1> HIDE DEF s
<1>10. /\ poll' \in PollType /\ poll'.at = "next" /\ poll'.execution = poll.execution
  <2>1. poll' = [poll EXCEPT !.at = "next", !.data = <<>>] /\ poll \in PollType
    BY <1>1, <1>3, Zenon
  <2> QED
    BY <2>1, Dropped
<1>11. tail.active <= 1 =>
         /\ o = Len(q)
         /\ \A i \in 1 .. Len(q) : q[i] = <<tail.active, i>>
  <2> SUFFICES ASSUME tail.active <= 1
               PROVE  /\ o = Len(q) /\ \A i \in 1 .. Len(q) : q[i] = <<tail.active, i>>
    BY Zenon
  <2>1. /\ \A i \in 1 .. Len(p) : p[i] = <<tail.active, i>>
        /\ tail.off[s] = Len(p) /\ tail.off[s] = poll.off[s]
    BY <1>1, <1>2, <1>3, <1>5, Zenon DEF First, s
  <2>2. From(poll.data, Len(p)) /\ tail.active = poll.execution
    BY <1>3, <1>5, <2>1, Zenon
  <2>3. tail.active \in Nat
    BY <1>4, TailAssumption
  <2>4. q = p \o [i \in DOMAIN poll.data |-> <<tail.active, poll.data[i]>>]
    BY <2>2, Zenon
  <2> DEFINE data == poll.data
             a == tail.active
  <2>5. /\ Len(q) = Len(p) + Len(data) /\ \A i \in 1 .. Len(q) : q[i] = <<a, i>>
    <3>1. /\ p \in Seq(Nat \X Nat) /\ a \in Nat /\ From(data, Len(p)) /\ \A i \in 1 .. Len(p) : p[i] = <<a, i>>
          /\ q = p \o [i \in DOMAIN data |-> <<a, data[i]>>]
      BY <1>7, <2>1, <2>2, <2>3, <2>4, Zenon
    <3> HIDE DEF p, q, a, data
    <3> QED
      BY <3>1, Continues, Zenon
  <2> QED
    BY <2>1, <2>5, Zenon
<1> HIDE DEF p, q, t, o
<1>12. /\ printed' \in [DOMAIN Attempts -> [Streams -> Seq(Nat \X Nat)]]
       /\ printed'[tail.active][s] = q
       /\ \A a \in DOMAIN Attempts, x \in Streams :
            a # tail.active \/ x # s => printed'[a][x] = printed[a][x]
  <2> DEFINE S == Seq(Nat \X Nat)
             D == DOMAIN Attempts
             a0 == tail.active
  <2>1. printed \in [D -> [Streams -> S]] /\ q \in S /\ a0 \in D /\ s \in Streams
        /\ printed' = [printed EXCEPT ![a0][s] = q]
    BY <1>1, <1>2, <1>3, <1>5, <1>8, Zenon
  <2> HIDE DEF S, D, a0
  <2>2. /\ printed' \in [D -> [Streams -> S]] /\ printed'[a0][s] = q
        /\ \A a \in D, x \in Streams : a # a0 \/ x # s => printed'[a][x] = printed[a][x]
    BY <2>1
  <2> QED
    BY <2>2, Zenon DEF S, D, a0
<1>13. /\ tail' \in [active : 0 .. Len(Attempts), off : [Streams -> Nat]] /\ tail'.active = tail.active
       /\ tail'.off[s] = o /\ \A x \in Streams : x # s => tail'.off[x] = tail.off[x]
  BY <1>1, <1>2, <1>3, <1>9
<1>14. Polling'
  <2>1. "next" \notin {"wait", "compare", "write"} /\ "next" \notin {"compare", "write"}
    OBVIOUS
  <2> QED
    BY <1>3, <1>10, <1>13, <2>1, Zenon DEF Polling
<1>15. ASSUME tail'.active <= 1
       PROVE  First'
  <2>1. First /\ tail.active <= 1
    BY <1>2, <1>13, <1>15, Zenon
  <2>2. ASSUME NEW a \in DOMAIN Attempts, NEW x \in Streams
        PROVE  /\ \A i \in 1 .. Len(printed'[a][x]) : printed'[a][x][i] = <<a, i>>
               /\ a = tail'.active => tail'.off[x] = Len(printed'[a][x])
               /\ a > tail'.active => printed'[a][x] = <<>>
    <3>1. CASE a = tail.active /\ x = s
      <4>1. ~(a > a)
        BY <1>4, <3>1, TailAssumption
      <4> QED
        BY <1>11, <1>12, <1>13, <2>1, <3>1, <4>1, Zenon
    <3>2. CASE a # tail.active \/ x # s
      <4>1. printed'[a][x] = printed[a][x]
        BY <1>12, <3>2, Zenon
      <4>2. a = tail'.active => tail'.off[x] = tail.off[x]
        BY <1>13, <3>2, Zenon
      <4>3. /\ \A i \in 1 .. Len(printed[a][x]) : printed[a][x][i] = <<a, i>>
            /\ a = tail.active => tail.off[x] = Len(printed[a][x])
            /\ a > tail.active => printed[a][x] = <<>>
        BY <2>1, Zenon DEF First
      <4> QED
        BY <1>13, <4>1, <4>2, <4>3, Zenon
    <3> QED
      BY <3>1, <3>2, Zenon
  <2>3. poll'.at # "write"
    BY <1>10
  <2> QED
    BY <2>2, <2>3, Zenon DEF First
<1>16. StoreInv'
  BY <1>1, <1>2, StoreStutters, Zenon
<1> QED
  BY <1>1, <1>2, <1>12, <1>13, <1>14, <1>15, <1>16, Zenon DEF TailInv, Answered

\* Every step, one case per action.
LEMMA TailSteps == ASSUME TailInv, [Next]_vars PROVE TailInv'
<1>1. CASE StoreNext /\ UNCHANGED tailVars
  <2>1. StoreInv'
    BY <1>1, StoreSteps, Zenon DEF TailInv
  <2>2. UNCHANGED <<tail, poll, printed>> /\ wire' = wire
    BY <1>1, Zenon DEF tailVars
  <2>3. wire' \in [current : Message, late : Message] /\ Answered(wire'.current) /\ Answered(wire'.late)
    BY <2>2, Zenon DEF TailInv
  <2> QED
    BY <2>1, <2>2, <2>3, TailStays
<1>2. CASE Poll
  <2>1. CASE pollEnd
    <3>1. poll' = Idle /\ UNCHANGED <<streamBytes, dir, capture, tail, printed>> /\ wire' = wire
      BY <2>1, Zenon DEF pollEnd, storeVars
    <3> QED
      BY <3>1, EndSteps, Zenon
  <2> QED
    BY <1>2, <2>1, StartSteps, CompareSteps, WriteSteps, LogsSteps, TimeoutSteps, AnswerSteps,
       ResponseSteps, Zenon DEF Poll
<1>3. CASE RunReturns
  <2>1. /\ poll' = Idle /\ UNCHANGED <<streamBytes, dir, capture, tail, printed>>
        /\ wire' = [current |-> Silent, late |-> Silent]
    BY <1>3, Zenon DEF RunReturns, storeVars
  <2> QED
    BY <2>1, EndSteps, Zenon
<1>4. CASE UNCHANGED vars
  <2>1. UNCHANGED <<tail, poll, printed>> /\ wire' = wire /\ UNCHANGED <<streamBytes, dir, capture>>
    BY <1>4, Zenon DEF vars, tailVars, storeVars
  <2>2. StoreInv'
    BY <2>1, StoreStutters, Zenon DEF TailInv
  <2>3. wire' \in [current : Message, late : Message] /\ Answered(wire'.current) /\ Answered(wire'.late)
    BY <2>1, Zenon DEF TailInv
  <2> QED
    BY <2>1, <2>2, <2>3, TailStays
<1> QED
  BY <1>1, <1>2, <1>3, <1>4, SetActiveSteps, Zenon DEF Next

\* The inductive invariant: what the files hold, what is on the wire, where the poll
\* stands, and what was printed (Capture, Read, poll).
THEOREM Tailed == Spec => []TailInv
<1>1. Init => TailInv
  BY TailStarts, Zenon
<1>2. TailInv /\ [Next]_vars => TailInv'
  BY TailSteps, Zenon
<1> QED
  BY <1>1, <1>2, PTL DEF Spec

\* Whatever the chunks, the tasks, the failures and the restarts, a file is the
\* beginning of its stream, and a stream that was cut short is marked (Capture).
THEOREM Retains == Spec => []RetainsBeginning
<1>1. TailInv => RetainsBeginning
  BY Retained, Zenon DEF TailInv
<1> QED
  BY <1>1, Tailed, PTL

\* What the invariant says of the printed bytes.
LEMMA PrintedFirst == TailInv => PrintsFirst
<1> SUFFICES ASSUME TailInv, tail.active <= 1, NEW a \in DOMAIN Attempts, NEW s \in Streams,
                    NEW i \in DOMAIN printed[a][s]
             PROVE  printed[a][s][i] = <<a, i>>
  BY Zenon DEF PrintsFirst, PrintsBeginning
<1>1. First /\ printed \in [DOMAIN Attempts -> [Streams -> Seq(Nat \X Nat)]]
  BY Zenon DEF TailInv
<1>2. DOMAIN printed[a][s] = 1 .. Len(printed[a][s])
  BY <1>1
<1> QED
  BY <1>1, <1>2, Zenon DEF First

\* Until the run moves to another attempt, what the client printed is the beginning of
\* its attempt's output, across lost, late and repeated reads (poll, write).
THEOREM PrintsUntilMoved == Spec => []PrintsFirst
  BY PrintedFirst, Tailed, PTL

\* A run that has one attempt prints the beginning of its output, and nothing else (poll).
THEOREM Prints == ASSUME Len(Attempts) = 1 PROVE Spec => []PrintsBeginning
<1>1. TailInv => PrintsBeginning
  <2> SUFFICES ASSUME TailInv PROVE PrintsBeginning
    OBVIOUS
  <2>1. tail.active \in 0 .. Len(Attempts)
    BY DEF TailInv
  <2>2. tail.active <= 1
    BY <2>1
  <2> QED
    BY <2>2, PrintedFirst, Zenon DEF PrintsFirst
<1> QED
  BY <1>1, Tailed, PTL
=============================================================================
