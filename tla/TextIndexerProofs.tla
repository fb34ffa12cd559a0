------------------------- MODULE TextIndexerProofs -------------------------
(***************************************************************************)
(* Proofs about TextIndexer, for every set of requests: any file, any      *)
(* number of passes, threads and buffers, and whatever fails.  First the   *)
(* threads and what they leave; then f_index_text_file implements          *)
(* LineIndex, and what LineIndex promises holds of the lookup file.        *)
(***************************************************************************)
EXTENDS TextIndexerRefines, IndexerLemmas

\* A thread that can take a step: neither not yet created nor exited.
Active(p) == worker[p].pc \in {"setup", "launch", "receive", "reduce"}

Absent(p) == worker[p].pc = "none"

Gone(p) == worker[p].pc = "exited"

\* What the main thread knows of the threads at each of its labels: it creates
\* them in the order of i and joins them in the order of i, and the structures
\* it does not use in a pass stay unused.
MainInv ==
  /\ main \in {"open", "plan", "close", "ok"} => \A p \in ThreadIds : Absent(p)
  /\ main = "spawn" =>
       /\ i \in 0..(Threads(pass) - 1)
       /\ \A p \in ThreadIds : p >= i => Absent(p)
  /\ main \in {"poll", "join"} =>
       /\ i \in 0..(Threads(pass) - 1)
       /\ \A p \in ThreadIds : p < i => Gone(p)
       /\ \A p \in ThreadIds : p >= Threads(pass) => Absent(p)
  /\ main = "append" =>
       \A p \in ThreadIds : IF p < Threads(pass) THEN Gone(p) ELSE Absent(p)

\* The part of the state that the main thread's loops run over.
LoopsOK ==
  /\ conf \in Requests
  /\ main \in {"open", "plan", "spawn", "poll", "join", "append", "close"} \cup Final
  /\ pass \in 0..(Passes - 1)
  /\ worker = [p \in ThreadIds |-> worker[p]]

JoinInv == LoopsOK /\ MainInv

-----------------------------------------------------------------------------
(* The division of the file *)

\* Every pass has at least one thread and at most MaxThreads.
LEMMA ThreadsBounds ==
  ASSUME conf \in Requests, NEW q \in 0..(Passes - 1)
  PROVE  Threads(q) \in 1..MaxThreads
<1>1. /\ conf.size \in Nat
      /\ conf.threads \in 1..MaxThreads
      /\ conf.buffer \in Nat \ {0}
      /\ conf.maxBytes \in Nat \ {0}
  BY RequestsAssumption
<1>2. BytesIn(q) \in Nat
  BY <1>1, PassBounds DEF Passes, BytesIn
<1>3. Threads(q) \in Nat \ {0} /\ Threads(q) <= conf.threads
  <2>1. conf.threads \in Nat \ {0}
    BY <1>1, RequestsAssumption
  <2>2. Threads(q) = ThreadCount(conf.threads, BytesIn(q), conf.buffer)
    BY DEF Threads
  <2> QED BY <1>1, <1>2, <2>1, <2>2, ThreadCountBounds
<1> QED BY <1>1, <1>3, RequestsAssumption

\* The number of passes is positive.
LEMMA PassesPositive ==
  ASSUME conf \in Requests
  PROVE  Passes \in Nat \ {0}
<1>1. conf.size \in Nat /\ conf.maxBytes \in Nat \ {0}
  BY RequestsAssumption
<1>2. (conf.size + conf.maxBytes - 1) \div conf.maxBytes \in Nat
  <2>1. conf.size + conf.maxBytes - 1 \in Nat
    BY <1>1
  <2> QED BY <1>1, <2>1, Division
<1> QED BY <1>2 DEF Passes, PassCount, CeilDiv

\* The division depends on the request only.
LEMMA DivisionFrozen ==
  ASSUME conf' = conf
  PROVE  /\ Passes' = Passes
         /\ pass' = pass => Threads(pass)' = Threads(pass)
BY DEF Passes, Threads, BytesIn

-----------------------------------------------------------------------------
(* Steps *)

\* A step of a thread, or of one of its coroutines, is a step of one active
\* thread that leaves the other threads alone.  The main thread does not see it,
\* except that it may be killed.
LEMMA ThreadStepAlone ==
  ASSUME JoinInv, NEW p \in ThreadIds,
         \/ ThreadStep(p)
         \/ ThreadFails(p)
         \/ ReduceFails(p)
         \/ \E c \in worker[p].running : IndexBytesFails(p, c)
  PROVE  /\ Active(p)
         /\ worker' = [q \in ThreadIds |-> worker'[q]]
         /\ \A q \in ThreadIds \ {p} : worker'[q] = worker[q]
         /\ UNCHANGED <<conf, pass, i>>
         /\ main' \in {main, "killed"}
<1> USE DEF JoinInv, LoopsOK, Active, At
<1>1. CASE Setup(p)
  BY <1>1 DEF Setup
<1>2. CASE Launch(p)
  BY <1>2 DEF Launch
<1>3. CASE \E c \in worker[p].running : IndexBytes(p, c)
  BY <1>3 DEF IndexBytes, Running, Send
<1>4. CASE Receive(p)
  BY <1>4 DEF Receive
<1>5. CASE ReceiveNull(p)
  BY <1>5 DEF ReceiveNull
<1>6. CASE Return(p)
  BY <1>6 DEF Return
<1>7. CASE ThreadFails(p)
  BY <1>7 DEF ThreadFails
<1>8. CASE ReduceFails(p)
  BY <1>8 DEF ReduceFails
<1>9. CASE \E c \in worker[p].running : IndexBytesFails(p, c)
  BY <1>9 DEF IndexBytesFails, Running, Send
<1> QED BY <1>1, <1>2, <1>3, <1>4, <1>5, <1>6, <1>7, <1>8, <1>9 DEF ThreadStep

LEMMA JoinInvInit == Init => JoinInv
<1> SUFFICES ASSUME Init PROVE JoinInv
  OBVIOUS
<1>1. conf \in Requests /\ pass = 0
  BY DEF Init
<1>2. pass \in 0..(Passes - 1)
  BY <1>1, PassesPositive
<1> QED BY <1>2 DEF Init, JoinInv, LoopsOK, MainInv, Absent, Idle

LEMMA JoinInvThreadStep ==
  ASSUME JoinInv, NEW p \in ThreadIds,
         \/ ThreadStep(p)
         \/ ThreadFails(p)
         \/ ReduceFails(p)
         \/ \E c \in worker[p].running : IndexBytesFails(p, c)
  PROVE  JoinInv'
<1>1. /\ Active(p)
      /\ worker' = [q \in ThreadIds |-> worker'[q]]
      /\ \A q \in ThreadIds \ {p} : worker'[q] = worker[q]
      /\ UNCHANGED <<conf, pass, i>>
      /\ main' \in {main, "killed"}
  BY ThreadStepAlone
<1>2. Passes' = Passes /\ Threads(pass)' = Threads(pass)
  BY <1>1, DivisionFrozen
<1>3. LoopsOK'
  BY <1>1, <1>2 DEF JoinInv, LoopsOK, Final
<1>4. ~Absent(p) /\ ~Gone(p)
  BY <1>1 DEF Active, Absent, Gone
<1>5. \A q \in ThreadIds : /\ Absent(q) => Absent(q)'
                           /\ Gone(q) => Gone(q)'
  BY <1>1, <1>4 DEF Absent, Gone
<1>6. MainInv'
  BY <1>1, <1>2, <1>5 DEF JoinInv, MainInv
<1> QED BY <1>3, <1>6 DEF JoinInv

\* The early returns of the main thread that are not those of a thread's creation.
LEMMA MainFailsStep ==
  ASSUME MainFails
  PROVE  /\ "main" \in conf.faults
         /\ main \in {"open", "plan", "append", "close"}
         /\ main' = "null"
         /\ UNCHANGED <<conf, pass, i, lines, worker, chunks, seen, lookup>>
BY DEF MainFails, OpenFails, PlanFails, AppendFails, CloseFails, FailsAt

LEMMA JoinInvMainStep ==
  ASSUME JoinInv, MainStep \/ SpawnFails \/ MainFails
  PROVE  JoinInv'
<1> USE DEF JoinInv
<1>1. conf' = conf /\ conf \in Requests /\ pass \in 0..(Passes - 1)
  BY MainFailsStep DEF LoopsOK, MainStep, Open, Plan, Spawn, Poll, Join, JoinNull, AppendPass,
         Close, SpawnFails
<1>2. /\ Passes' = Passes /\ Passes \in Nat \ {0}
      /\ pass' = pass => Threads(pass)' = Threads(pass)
      /\ Threads(pass) \in 1..MaxThreads
  BY <1>1, DivisionFrozen, PassesPositive, ThreadsBounds
<1>3. MaxThreads \in Nat \ {0}
  BY RequestsAssumption
<1>4. CASE Open
  BY <1>1, <1>2, <1>4 DEF Open, LoopsOK, MainInv, Absent, Final
<1>5. CASE Plan
  BY <1>1, <1>2, <1>5 DEF Plan, LoopsOK, MainInv, Absent, Final
<1>6. CASE Spawn
  <2>1. /\ main = "spawn"
        /\ worker' = [q \in ThreadIds |-> worker'[q]]
        /\ \A q \in ThreadIds \ {i} : worker'[q] = worker[q]
        /\ UNCHANGED <<conf, pass>>
        /\ IF i + 1 < Threads(pass)
           THEN i' = i + 1 /\ main' = "spawn"
           ELSE i' = 0 /\ main' = "poll"
    BY <1>6 DEF Spawn, LoopsOK
  <2>2. /\ i \in 0..(Threads(pass) - 1)
        /\ \A p \in ThreadIds : p >= i => Absent(p)
    BY <2>1 DEF MainInv
  <2>3. ThreadIds \subseteq Nat
    BY <1>3 DEF ThreadIds
  <2>4. \A p \in ThreadIds : p > i => Absent(p)'
    BY <2>1, <2>2, <2>3 DEF Absent
  <2>5. LoopsOK'
    BY <1>1, <1>2, <2>1 DEF LoopsOK
  <2>6. MainInv'
    BY <1>2, <2>1, <2>2, <2>3, <2>4 DEF MainInv
  <2> QED BY <2>5, <2>6
<1>7. CASE Poll
  BY <1>1, <1>2, <1>7 DEF Poll, LoopsOK, MainInv, Absent, Gone, Final
<1>8. CASE Join
  <2>1. /\ main = "join" /\ Gone(i)
        /\ i' = i + 1
        /\ main' = IF i + 1 = Threads(pass) THEN "append" ELSE "poll"
        /\ UNCHANGED <<conf, pass, worker>>
    BY <1>8 DEF Join, LastJoin, Gone
  <2>2. /\ i \in 0..(Threads(pass) - 1)
        /\ \A p \in ThreadIds : p < i => Gone(p)
        /\ \A p \in ThreadIds : p >= Threads(pass) => Absent(p)
    BY <2>1 DEF MainInv
  <2>3. ThreadIds \subseteq Nat
    BY <1>3 DEF ThreadIds
  <2>4. \A p \in ThreadIds : p < i + 1 => Gone(p)
    BY <2>1, <2>2, <2>3
  <2>5. \A p \in ThreadIds : (Gone(p) => Gone(p)') /\ (Absent(p) => Absent(p)')
    BY <2>1 DEF Gone, Absent
  <2>6. LoopsOK'
    BY <1>1, <1>2, <2>1 DEF LoopsOK
  <2>7. MainInv'
    BY <1>2, <2>1, <2>2, <2>3, <2>4, <2>5 DEF MainInv
  <2> QED BY <2>6, <2>7
<1>9. CASE JoinNull
  BY <1>1, <1>2, <1>9 DEF JoinNull, LoopsOK, MainInv, Final
<1>10. CASE AppendPass
  <2>1. \A p \in ThreadIds : Absent(p)'
    BY <1>10 DEF AppendPass, Absent, Idle
  <2>2. /\ main' \in {"plan", "close"}
        /\ pass' \in 0..(Passes - 1)
        /\ worker' = [p \in ThreadIds |-> worker'[p]]
    BY <1>1, <1>2, <1>10 DEF AppendPass
  <2> QED BY <1>1, <1>2, <2>1, <2>2 DEF LoopsOK, MainInv
<1>11. CASE Close
  BY <1>1, <1>2, <1>11 DEF Close, LoopsOK, MainInv, Absent, Final
<1>12. CASE SpawnFails
  BY <1>1, <1>2, <1>12 DEF SpawnFails, LoopsOK, MainInv, Final
<1>13. CASE MainFails
  BY <1>1, <1>2, <1>13, MainFailsStep DEF LoopsOK, MainInv, Final
<1> QED BY <1>4, <1>5, <1>6, <1>7, <1>8, <1>9, <1>10, <1>11, <1>12, <1>13
        DEF MainStep

LEMMA JoinInvStuttering ==
  ASSUME JoinInv, UNCHANGED vars
  PROVE  JoinInv'
BY DivisionFrozen DEF JoinInv, LoopsOK, MainInv, Absent, Gone, vars

LEMMA JoinInvStep == JoinInv /\ [Next]_vars => JoinInv'
<1> SUFFICES ASSUME JoinInv, [Next]_vars PROVE JoinInv'
  OBVIOUS
<1>1. CASE MainStep \/ SpawnFails \/ MainFails
  BY <1>1, JoinInvMainStep
<1>2. ASSUME NEW p \in ThreadIds,
             \/ ThreadStep(p)
             \/ ThreadFails(p)
             \/ ReduceFails(p)
             \/ \E c \in worker[p].running : IndexBytesFails(p, c)
      PROVE  JoinInv'
  BY <1>2, JoinInvThreadStep
<1>3. CASE UNCHANGED vars
  BY <1>3, JoinInvStuttering
<1> QED BY <1>1, <1>2, <1>3 DEF Next, Fault, Ended

\* A thread's structure is freed, the next pass planned and the file closed only
\* when every thread of the pass has exited.
THEOREM IndexerJoins == Spec => []JoinedBeforeFree
<1>1. JoinInv => JoinedBeforeFree
  BY DEF JoinInv, LoopsOK, MainInv, JoinedBeforeFree, Absent, Gone
<1> QED BY <1>1, JoinInvInit, JoinInvStep, PTL DEF Spec

-----------------------------------------------------------------------------
(* The state of a thread *)

Fields ==
  {"pc", "base", "next", "running", "sent", "slots", "lines", "finished",
   "progress", "result"}

\* The values of the fields in an array of structures.
Fielded(w) == w = [f \in Fields |-> w[f]]

\* A chunk that carries the number k.
Numbered(chunk, k) == "current" \in DOMAIN chunk /\ chunk.current = k

\* A thread is in the batch that starts at base, and has published the batches
\* before it.
InBatch(p, w) ==
  /\ w.base \in Nat
  /\ w.base < Buffers(pass, p)
  /\ w.progress = w.base

\* How the counters of a thread relate at each of its labels.
Counters(p, w) ==
  /\ w.pc \in {"none", "setup", "launch", "receive", "reduce", "exited"}
  /\ w.pc \in {"none", "setup"} =>
       w.base = 0 /\ w.next = 0 /\ w.finished = 0 /\ w.progress = 0
  /\ w.pc = "launch" =>
       /\ InBatch(p, w)
       /\ w.finished = w.base
       /\ w.next \in w.base..(BatchEnd(p, w.base) - 1)
  /\ w.pc = "receive" =>
       /\ InBatch(p, w)
       /\ w.finished \in w.base..(BatchEnd(p, w.base) - 1)
       /\ w.next = BatchEnd(p, w.base)
  /\ w.pc = "reduce" =>
       /\ w.base \in Nat
       /\ w.base = Buffers(pass, p) \/ (w.base = 0 /\ Buffers(pass, p) <= 0)
       /\ w.progress = w.base /\ w.finished = w.base /\ w.next = w.base
  /\ w.pc = "exited" => w.progress \in Nat

\* Coroutines that run or have a chunk in the channel: the buffers launched and
\* not received.  A thread that exits leaves them behind.
Flow(w) ==
  /\ IsFiniteSet(w.running)
  /\ IsFiniteSet(w.sent)
  /\ IF w.pc = "exited"
     THEN Cardinality(w.running) + Cardinality(w.sent) <= conf.concurrency
     ELSE Cardinality(w.running) + Cardinality(w.sent) = w.next - w.finished

\* Where the chunk of each launched buffer is: it is being computed, in the
\* channel or in chunk_array, in the channel and the array under its number.
Coverage(w) ==
  w.pc # "exited" =>
    /\ w.running \subseteq 0..(w.next - 1)
    /\ \A m \in w.sent :
         /\ m.from \in 0..(w.next - 1)
         /\ m.from \notin w.running
         /\ m.chunk = NoChunk \/ Numbered(m.chunk, m.from)
    /\ DOMAIN w.slots \subseteq 0..(w.next - 1)
    /\ \A c \in DOMAIN w.slots : Numbered(w.slots[c], c)
    /\ \A c \in 0..(w.next - 1) :
         \/ c \in w.running
         \/ \E m \in w.sent : m.from = c
         \/ c \in DOMAIN w.slots

ThreadOK(p, w) ==
  /\ Fielded(w)
  /\ Counters(p, w)
  /\ Flow(w)
  /\ Coverage(w)
  /\ w.result = NoChunk \/ Numbered(w.result, p)

ThreadInv == \A p \in ThreadIds : ThreadOK(p, worker[p])

-----------------------------------------------------------------------------
(* The division of a thread's range *)

\* The number of buffers of a thread is a number.
LEMMA BuffersInt ==
  ASSUME conf \in Requests, NEW q \in 0..(Passes - 1), NEW p \in ThreadIds
  PROVE  Buffers(q, p) \in Int
<1>1. /\ conf.size \in Nat
      /\ conf.buffer \in Nat \ {0}
      /\ conf.maxBytes \in Nat \ {0}
      /\ MaxThreads \in Nat \ {0}
  BY RequestsAssumption
<1>2. /\ BytesIn(q) \in Nat
      /\ Threads(q) \in Nat \ {0}
      /\ q \in Nat
      /\ p \in Nat
  <2>1. BytesIn(q) \in Nat
    BY <1>1, PassBounds DEF Passes, BytesIn
  <2>2. Threads(q) \in 1..MaxThreads
    BY ThreadsBounds
  <2>3. Passes \in Nat \ {0}
    BY PassesPositive
  <2> QED BY <1>1, <2>1, <2>2, <2>3 DEF ThreadIds
<1>3. ThreadPages(BytesIn(q), Threads(q)) \in Nat
  BY <1>2, Division DEF ThreadPages
<1>4. q * conf.maxBytes \in Int
  BY <1>1, <1>2
<1>5. p * (ThreadPages(BytesIn(q), Threads(q)) + 1) \in Int
  BY <1>2, <1>3
<1>6. From(q, p) \in Int /\ To(q, p) \in Int
  BY <1>2, <1>3, <1>4, <1>5 DEF From, To, PassFrom, ThreadFrom, ThreadTo, AtMost
<1>7. \A a \in Int : a \div conf.buffer \in Int
  BY <1>1
<1> QED BY <1>1, <1>6, <1>7 DEF Buffers, ChunkTotal, CeilDiv

\* A batch is not empty, ends within the buffers of the thread and has no more
\* than concurrency buffers.
LEMMA BatchEndBounds ==
  ASSUME conf \in Requests, pass \in 0..(Passes - 1), NEW p \in ThreadIds,
         NEW base \in Nat, base < Buffers(pass, p)
  PROVE  /\ BatchEnd(p, base) \in Nat
         /\ base < BatchEnd(p, base)
         /\ BatchEnd(p, base) <= Buffers(pass, p)
         /\ BatchEnd(p, base) <= base + conf.concurrency
<1>1. conf.concurrency \in Nat \ {0}
  BY RequestsAssumption
<1>2. Buffers(pass, p) \in Int
  BY BuffersInt
<1> QED BY <1>1, <1>2 DEF BatchEnd, Concurrency, ChunkConcurrency, AtMost

\* The division of the pass stays as it is while the pass does.
LEMMA PassFrozen ==
  ASSUME conf' = conf, pass' = pass, NEW p
  PROVE  /\ Buffers(pass, p)' = Buffers(pass, p)
         /\ \A base : BatchEnd(p, base)' = BatchEnd(p, base)
BY DEF Buffers, From, To, Threads, BytesIn, BatchEnd, Concurrency

\* A thread whose structure a step leaves alone stays consistent.
LEMMA ThreadFrozen ==
  ASSUME conf' = conf, pass' = pass, NEW p, worker'[p] = worker[p],
         ThreadOK(p, worker[p])
  PROVE  ThreadOK(p, worker[p])'
<1>1. /\ Buffers(pass, p)' = Buffers(pass, p)
      /\ \A base : BatchEnd(p, base)' = BatchEnd(p, base)
  BY PassFrozen
<1> QED BY <1>1 DEF ThreadOK, Fielded, Counters, InBatch, Flow, Coverage

-----------------------------------------------------------------------------
(* What the steps of a thread do to its structure *)

LEMMA PcFields ==
  ASSUME JoinInv, NEW p \in ThreadIds, Fielded(worker[p]), NEW label,
         worker' = [worker EXCEPT ![p].pc = label]
  PROVE  /\ Fielded(worker[p])'
         /\ worker'[p].pc = label
         /\ \A f \in Fields \ {"pc"} : worker'[p][f] = worker[p][f]
BY DEF JoinInv, LoopsOK, Fielded, Fields

LEMMA LaunchFields ==
  ASSUME JoinInv, NEW p \in ThreadIds, Fielded(worker[p]), Launch(p)
  PROVE  /\ Fielded(worker[p])'
         /\ worker[p].pc = "launch"
         /\ worker'[p].running = worker[p].running \cup {worker[p].next}
         /\ worker'[p].next = worker[p].next + 1
         /\ worker'[p].pc = IF worker[p].next + 1 = BatchEnd(p, worker[p].base)
                            THEN "receive" ELSE "launch"
         /\ \A f \in Fields \ {"running", "next", "pc"} :
              worker'[p][f] = worker[p][f]
BY DEF JoinInv, LoopsOK, Launch, At, Fielded, Fields

LEMMA SendFields ==
  ASSUME JoinInv, NEW p \in ThreadIds, Fielded(worker[p]), NEW c, NEW chunk,
         Send(p, c, chunk)
  PROVE  /\ Fielded(worker[p])'
         /\ worker'[p].running = worker[p].running \ {c}
         /\ worker'[p].sent = worker[p].sent \cup {[from |-> c, chunk |-> chunk]}
         /\ \A f \in Fields \ {"running", "sent"} : worker'[p][f] = worker[p][f]
BY DEF JoinInv, LoopsOK, Send, Fielded, Fields

LEMMA ReceiveFields ==
  ASSUME JoinInv, NEW p \in ThreadIds, Fielded(worker[p]), Receive(p)
  PROVE  /\ Fielded(worker[p])'
         /\ worker[p].pc = "receive"
         /\ \E m \in worker[p].sent :
              /\ m.chunk # NoChunk
              /\ worker'[p].sent = worker[p].sent \ {m}
              /\ worker'[p].slots = Put(worker[p].slots, m.chunk.current, m.chunk)
              /\ worker'[p].lines = worker[p].lines + m.chunk.line_count
         /\ worker'[p].finished = worker[p].finished + 1
         /\ \A f \in {"running", "next", "result"} : worker'[p][f] = worker[p][f]
         /\ IF worker[p].finished + 1 = BatchEnd(p, worker[p].base)
            THEN /\ worker'[p].progress = worker[p].finished + 1
                 /\ worker'[p].base = BatchEnd(p, worker[p].base)
                 /\ worker'[p].pc = NextBatch(p, BatchEnd(p, worker[p].base))
            ELSE \A f \in {"progress", "base", "pc"} : worker'[p][f] = worker[p][f]
<1>1. PICK m \in worker[p].sent :
        /\ m.chunk # NoChunk
        /\ LET w == [worker[p] EXCEPT
                      !.sent = @ \ {m},
                      !.slots = Put(@, Slot(worker[p], m.chunk), m.chunk),
                      !.lines = @ + m.chunk.line_count,
                      !.finished = @ + 1]
           IN  worker' = [worker EXCEPT ![p] =
                 IF BatchOver(p, w)
                 THEN [w EXCEPT !.progress = Published(w),
                                !.base = BatchEnd(p, w.base),
                                !.pc = NextBatch(p, BatchEnd(p, w.base))]
                 ELSE w]
  BY DEF Receive
<1> DEFINE w == [worker[p] EXCEPT
                  !.sent = @ \ {m},
                  !.slots = Put(@, Slot(worker[p], m.chunk), m.chunk),
                  !.lines = @ + m.chunk.line_count,
                  !.finished = @ + 1]
<1>2. /\ Fielded(w)
      /\ w.sent = worker[p].sent \ {m}
      /\ w.slots = Put(worker[p].slots, m.chunk.current, m.chunk)
      /\ w.lines = worker[p].lines + m.chunk.line_count
      /\ w.finished = worker[p].finished + 1
      /\ \A f \in {"running", "next", "result", "progress", "base", "pc"} :
           w[f] = worker[p][f]
  BY DEF Fielded, Fields, Slot
<1>3. worker'[p] = IF w.finished = BatchEnd(p, w.base)
                   THEN [w EXCEPT !.progress = w.finished,
                                  !.base = BatchEnd(p, w.base),
                                  !.pc = NextBatch(p, BatchEnd(p, w.base))]
                   ELSE w
  BY <1>1 DEF BatchOver, Published, JoinInv, LoopsOK
<1>4. worker[p].pc = "receive"
  BY DEF Receive, At
<1> HIDE DEF w
<1>5. w.base = worker[p].base
  BY <1>2
<1>6. CASE w.finished = BatchEnd(p, w.base)
  <2>1. worker'[p] = [w EXCEPT !.progress = w.finished,
                               !.base = BatchEnd(p, w.base),
                               !.pc = NextBatch(p, BatchEnd(p, w.base))]
    BY <1>3, <1>6
  <2>2. /\ Fielded(worker'[p])
        /\ worker'[p].progress = w.finished
        /\ worker'[p].base = BatchEnd(p, w.base)
        /\ worker'[p].pc = NextBatch(p, BatchEnd(p, w.base))
        /\ \A f \in Fields \ {"progress", "base", "pc"} : worker'[p][f] = w[f]
    BY <2>1, <1>2 DEF Fielded, Fields
  <2>3. /\ worker'[p].sent = w.sent
        /\ worker'[p].slots = w.slots
        /\ worker'[p].lines = w.lines
        /\ worker'[p].finished = w.finished
        /\ \A f \in {"running", "next", "result"} : worker'[p][f] = w[f]
    BY <2>2 DEF Fields
  <2> QED BY <1>1, <1>2, <1>4, <1>5, <1>6, <2>2, <2>3 DEF Fielded
<1>7. CASE w.finished # BatchEnd(p, w.base)
  <2>1. worker'[p] = w
    BY <1>3, <1>7
  <2>2. /\ Fielded(worker'[p])
        /\ worker'[p].finished = worker[p].finished + 1
        /\ \A f \in {"running", "next", "result", "progress", "base", "pc"} :
             worker'[p][f] = worker[p][f]
    BY <1>2, <2>1
  <2>3. /\ worker'[p].sent = worker[p].sent \ {m}
        /\ worker'[p].slots = Put(worker[p].slots, m.chunk.current, m.chunk)
        /\ worker'[p].lines = worker[p].lines + m.chunk.line_count
    BY <1>2, <2>1
  <2>4. worker[p].finished + 1 # BatchEnd(p, worker[p].base)
    BY <1>2, <1>5, <1>7
  <2>5. Fielded(worker[p])'
    BY <2>2 DEF Fielded
  <2> QED BY <1>1, <1>4, <2>2, <2>3, <2>4, <2>5
<1> QED BY <1>6, <1>7

LEMMA ReturnFields ==
  ASSUME JoinInv, NEW p \in ThreadIds, Fielded(worker[p]), Return(p)
  PROVE  /\ Fielded(worker[p])'
         /\ worker[p].pc = "reduce"
         /\ worker'[p].pc = "exited"
         /\ worker'[p].result = ReverseReduce(p, worker[p].slots, Buffers(pass, p),
                                              worker[p].lines)
         /\ \A f \in Fields \ {"pc", "result"} : worker'[p][f] = worker[p][f]
BY DEF JoinInv, LoopsOK, Return, At, Fielded, Fields

-----------------------------------------------------------------------------
(* Every step of a thread keeps it consistent *)

\* A thread never has more than concurrency coroutines, and what it published
\* is a number.
LEMMA ThreadBounds ==
  ASSUME JoinInv, NEW p \in ThreadIds, ThreadOK(p, worker[p])
  PROVE  /\ Cardinality(worker[p].running) + Cardinality(worker[p].sent)
              <= conf.concurrency
         /\ worker[p].progress \in Nat
<1> DEFINE w == worker[p]
<1> SUFFICES /\ Cardinality(w.running) + Cardinality(w.sent) <= conf.concurrency
             /\ w.progress \in Nat
  OBVIOUS
<1>1. conf \in Requests /\ pass \in 0..(Passes - 1)
  BY DEF JoinInv, LoopsOK
<1>2. conf.concurrency \in Nat \ {0}
  BY <1>1, RequestsAssumption
<1>3. Counters(p, w) /\ Flow(w)
  BY DEF ThreadOK
<1> HIDE DEF w
<1>4. CASE w.pc \in {"none", "setup"}
  BY <1>2, <1>3, <1>4 DEF Counters, Flow
<1>5. CASE w.pc \in {"launch", "receive"}
  <2>1. /\ w.base \in Nat
        /\ w.progress = w.base
        /\ BatchEnd(p, w.base) \in Nat
        /\ BatchEnd(p, w.base) <= w.base + conf.concurrency
    BY <1>1, <1>3, <1>5, BatchEndBounds DEF Counters, InBatch
  <2> QED BY <1>2, <1>3, <1>5, <2>1 DEF Counters, Flow
<1>6. CASE w.pc \in {"reduce", "exited"}
  BY <1>2, <1>3, <1>6 DEF Counters, Flow
<1> QED BY <1>3, <1>4, <1>5, <1>6 DEF Counters

\* An exit, with or without a result, keeps the thread consistent.
LEMMA ExitKeeps ==
  ASSUME JoinInv, NEW p \in ThreadIds, ThreadOK(p, worker[p]),
         UNCHANGED <<conf, pass>>,
         Fielded(worker[p])',
         worker'[p].pc = "exited",
         \A f \in Fields \ {"pc", "result"} : worker'[p][f] = worker[p][f],
         worker'[p].result = NoChunk \/ Numbered(worker'[p].result, p)
  PROVE  ThreadOK(p, worker[p])'
<1>1. /\ worker'[p].running = worker[p].running
      /\ worker'[p].sent = worker[p].sent
      /\ worker'[p].progress = worker[p].progress
  BY DEF Fields
<1>2. /\ Cardinality(worker[p].running) + Cardinality(worker[p].sent)
           <= conf.concurrency
      /\ worker[p].progress \in Nat
  BY ThreadBounds
<1>3. Counters(p, worker[p])'
  BY <1>1, <1>2 DEF Counters
<1>4. Flow(worker[p])'
  BY <1>1, <1>2 DEF Flow, ThreadOK
<1>5. Coverage(worker[p])'
  BY DEF Coverage
<1> QED BY <1>3, <1>4, <1>5 DEF ThreadOK

LEMMA SetupKeeps ==
  ASSUME JoinInv, NEW p \in ThreadIds, ThreadOK(p, worker[p]), Setup(p)
  PROVE  ThreadOK(p, worker[p])' /\ worker'[p].progress >= worker[p].progress
<1>1. /\ UNCHANGED <<conf, pass>>
      /\ worker[p].pc = "setup"
      /\ worker' = [worker EXCEPT ![p].pc = NextBatch(p, 0)]
  BY DEF Setup, At
<1>2. /\ Fielded(worker[p])'
      /\ worker'[p].pc = NextBatch(p, 0)
      /\ \A f \in Fields \ {"pc"} : worker'[p][f] = worker[p][f]
  BY <1>1, PcFields DEF ThreadOK
<1>3. /\ \A f \in {"base", "next", "finished", "progress", "running", "sent",
                   "slots", "result"} : worker'[p][f] = worker[p][f]
      /\ conf \in Requests /\ pass \in 0..(Passes - 1)
  BY <1>2 DEF Fields, JoinInv, LoopsOK
<1>4. /\ worker[p].base = 0 /\ worker[p].next = 0
      /\ worker[p].finished = 0 /\ worker[p].progress = 0
  BY <1>1 DEF ThreadOK, Counters
<1>5. /\ Buffers(pass, p)' = Buffers(pass, p)
      /\ BatchEnd(p, 0)' = BatchEnd(p, 0)
      /\ Buffers(pass, p) \in Int
  BY <1>1, <1>3, PassFrozen, BuffersInt
<1>6. 0 < Buffers(pass, p) => BatchEnd(p, 0) \in Nat /\ 0 < BatchEnd(p, 0)
  BY <1>3, BatchEndBounds
<1>7. Counters(p, worker[p])'
  BY <1>2, <1>3, <1>4, <1>5, <1>6 DEF Counters, InBatch, NextBatch
<1>8. Flow(worker[p])'
  BY <1>1, <1>2, <1>3 DEF ThreadOK, Flow, NextBatch
<1>9. Coverage(worker[p])'
  BY <1>1, <1>3 DEF ThreadOK, Coverage
<1> QED BY <1>2, <1>3, <1>4, <1>7, <1>8, <1>9 DEF ThreadOK

LEMMA LaunchKeeps ==
  ASSUME JoinInv, NEW p \in ThreadIds, ThreadOK(p, worker[p]), Launch(p)
  PROVE  ThreadOK(p, worker[p])' /\ worker'[p].progress >= worker[p].progress
<1> DEFINE w == worker[p]
           n == w.next
<1>1. UNCHANGED <<conf, pass>>
  BY DEF Launch
<1>2. /\ Fielded(worker[p])'
      /\ w.pc = "launch"
      /\ worker'[p].running = w.running \cup {n}
      /\ worker'[p].next = n + 1
      /\ worker'[p].pc = IF n + 1 = BatchEnd(p, w.base)
                         THEN "receive" ELSE "launch"
      /\ \A f \in Fields \ {"running", "next", "pc"} : worker'[p][f] = w[f]
  BY LaunchFields DEF ThreadOK
<1>3. /\ \A f \in {"base", "finished", "progress", "sent", "slots", "result"} :
           worker'[p][f] = w[f]
      /\ conf \in Requests /\ pass \in 0..(Passes - 1)
  BY <1>2 DEF Fields, JoinInv, LoopsOK
<1>4. /\ w.base \in Nat /\ w.base < Buffers(pass, p)
      /\ w.progress = w.base
      /\ w.finished = w.base
      /\ n \in w.base..(BatchEnd(p, w.base) - 1)
  BY <1>2 DEF ThreadOK, Counters, InBatch
<1>5. /\ Buffers(pass, p)' = Buffers(pass, p)
      /\ BatchEnd(p, w.base)' = BatchEnd(p, w.base)
      /\ BatchEnd(p, w.base) \in Nat
      /\ n \in Nat
  <2>1. BatchEnd(p, w.base) \in Nat
    BY <1>3, <1>4, BatchEndBounds
  <2>2. \A base : BatchEnd(p, base)' = BatchEnd(p, base)
    BY <1>1, PassFrozen
  <2>3. worker'[p].base = w.base
    BY <1>3
  <2> QED BY <1>1, <1>4, <2>1, <2>2, <2>3, PassFrozen
<1>6. Counters(p, worker[p])'
  <2>1. /\ worker'[p].base = w.base
        /\ worker'[p].finished = w.finished
        /\ worker'[p].progress = w.progress
    BY <1>3
  <2>2. InBatch(p, worker[p])'
    BY <1>4, <1>5, <2>1 DEF InBatch
  <2> QED BY <1>2, <1>4, <1>5, <2>1, <2>2 DEF Counters
<1>7. /\ IsFiniteSet(w.running) /\ IsFiniteSet(w.sent)
      /\ Cardinality(w.running) + Cardinality(w.sent) = n - w.finished
      /\ w.running \subseteq 0..(n - 1)
  BY <1>2 DEF ThreadOK, Flow, Coverage
<1>8. n \notin w.running
  BY <1>5, <1>7
<1>9. Flow(worker[p])'
  <2>1. /\ IsFiniteSet(w.running \cup {n})
        /\ Cardinality(w.running \cup {n}) = Cardinality(w.running) + 1
    BY <1>7, <1>8, FS_AddElement
  <2>2. Cardinality(w.running) \in Nat /\ Cardinality(w.sent) \in Nat
    BY <1>7, FS_CardinalityType
  <2>3. worker'[p].sent = w.sent /\ worker'[p].finished = w.finished
    BY <1>3
  <2> QED BY <1>2, <1>4, <1>5, <1>7, <2>1, <2>2, <2>3 DEF Flow
<1>10. Coverage(worker[p])'
  <2>1. worker'[p].sent = w.sent /\ worker'[p].slots = w.slots
    BY <1>3
  <2>2. /\ w.running \subseteq 0..(n - 1)
        /\ \A m \in w.sent :
             /\ m.from \in 0..(n - 1)
             /\ m.from \notin w.running
             /\ m.chunk = NoChunk \/ Numbered(m.chunk, m.from)
        /\ DOMAIN w.slots \subseteq 0..(n - 1)
        /\ \A c \in DOMAIN w.slots : Numbered(w.slots[c], c)
        /\ \A c \in 0..(n - 1) :
             \/ c \in w.running
             \/ \E m \in w.sent : m.from = c
             \/ c \in DOMAIN w.slots
    BY <1>2 DEF ThreadOK, Coverage
  <2> HIDE DEF n, w
  <2>3. 0..n = (0..(n - 1)) \cup {n} /\ n \notin 0..(n - 1) /\ n + 1 - 1 = n
    BY <1>5
  <2> QED BY <1>2, <2>1, <2>2, <2>3 DEF Coverage, Numbered
<1>11. worker'[p].result = w.result /\ worker'[p].progress = w.progress
  BY <1>3
<1> QED BY <1>2, <1>4, <1>6, <1>9, <1>10, <1>11 DEF ThreadOK

\* A coroutine that ends with a chunk of its own or with NULL.
LEMMA SendKeeps ==
  ASSUME JoinInv, NEW p \in ThreadIds, ThreadOK(p, worker[p]),
         UNCHANGED <<conf, pass>>, NEW c \in worker[p].running, NEW chunk,
         worker[p].pc \in {"launch", "receive"},
         Send(p, c, chunk), chunk = NoChunk \/ Numbered(chunk, c)
  PROVE  ThreadOK(p, worker[p])' /\ worker'[p].progress >= worker[p].progress
<1> DEFINE w == worker[p]
           message == [from |-> c, chunk |-> chunk]
<1>1. /\ Fielded(worker[p])'
      /\ worker'[p].running = w.running \ {c}
      /\ worker'[p].sent = w.sent \cup {message}
      /\ \A f \in Fields \ {"running", "sent"} : worker'[p][f] = w[f]
  BY SendFields DEF ThreadOK
<1>2. \A f \in {"pc", "base", "next", "finished", "progress", "slots", "result"} :
        worker'[p][f] = w[f]
  BY <1>1 DEF Fields
<1>3. /\ w.running \subseteq 0..(w.next - 1)
      /\ \A m \in w.sent :
           /\ m.from \in 0..(w.next - 1)
           /\ m.from \notin w.running
           /\ m.chunk = NoChunk \/ Numbered(m.chunk, m.from)
      /\ DOMAIN w.slots \subseteq 0..(w.next - 1)
      /\ \A d \in DOMAIN w.slots : Numbered(w.slots[d], d)
      /\ \A d \in 0..(w.next - 1) :
           \/ d \in w.running
           \/ \E m \in w.sent : m.from = d
           \/ d \in DOMAIN w.slots
  BY DEF ThreadOK, Coverage
<1>4. /\ Buffers(pass, p)' = Buffers(pass, p)
      /\ \A base : BatchEnd(p, base)' = BatchEnd(p, base)
  BY PassFrozen
<1>5. Counters(p, worker[p])'
  <2>1. Counters(p, w)
    BY DEF ThreadOK
  <2>2. /\ worker'[p].pc = w.pc /\ worker'[p].base = w.base
        /\ worker'[p].next = w.next /\ worker'[p].finished = w.finished
        /\ worker'[p].progress = w.progress
    BY <1>2
  <2> QED BY <1>4, <2>1, <2>2 DEF Counters, InBatch
<1>6. message \notin w.sent /\ message.from = c /\ message.chunk = chunk
  BY <1>3
<1> HIDE DEF message
<1>7. Flow(worker[p])'
  <2>1. /\ IsFiniteSet(w.running) /\ IsFiniteSet(w.sent)
        /\ Cardinality(w.running) + Cardinality(w.sent) = w.next - w.finished
    BY DEF ThreadOK, Flow
  <2>2. /\ IsFiniteSet(w.running \ {c})
        /\ Cardinality(w.running \ {c}) = Cardinality(w.running) - 1
    BY <2>1, FS_RemoveElement
  <2>3. /\ IsFiniteSet(w.sent \cup {message})
        /\ Cardinality(w.sent \cup {message}) = Cardinality(w.sent) + 1
    BY <1>6, <2>1, FS_AddElement
  <2>4. Cardinality(w.running) \in Nat /\ Cardinality(w.sent) \in Nat
    BY <2>1, FS_CardinalityType
  <2>5. /\ worker'[p].pc = w.pc
        /\ worker'[p].next = w.next /\ worker'[p].finished = w.finished
    BY <1>2
  <2>6. Cardinality(w.running \ {c}) + Cardinality(w.sent \cup {message})
          = w.next - w.finished
    BY <2>1, <2>2, <2>3, <2>4
  <2> QED BY <1>1, <2>2, <2>3, <2>5, <2>6 DEF Flow
<1>8. Coverage(worker[p])'
  <2>1. worker'[p].next = w.next /\ worker'[p].slots = w.slots
    BY <1>2
  <2> HIDE DEF w
  <2> QED BY <1>1, <1>3, <1>6, <2>1 DEF Coverage, w
<1>9. /\ worker'[p].result = w.result /\ worker'[p].progress = w.progress
      /\ w.progress \in Nat
  BY <1>2, ThreadBounds
<1> QED BY <1>1, <1>5, <1>7, <1>8, <1>9 DEF ThreadOK

LEMMA ReceiveKeeps ==
  ASSUME JoinInv, NEW p \in ThreadIds, ThreadOK(p, worker[p]), Receive(p)
  PROVE  ThreadOK(p, worker[p])' /\ worker'[p].progress >= worker[p].progress
<1> DEFINE w == worker[p]
           end == BatchEnd(p, w.base)
<1>1. UNCHANGED <<conf, pass>> /\ conf \in Requests /\ pass \in 0..(Passes - 1)
  BY DEF Receive, JoinInv, LoopsOK
<1>2. PICK m \in w.sent :
        /\ m.chunk # NoChunk
        /\ worker'[p].sent = w.sent \ {m}
        /\ worker'[p].slots = Put(w.slots, m.chunk.current, m.chunk)
  BY ReceiveFields DEF ThreadOK
<1>3. /\ Fielded(worker[p])'
      /\ w.pc = "receive"
      /\ worker'[p].finished = w.finished + 1
      /\ worker'[p].running = w.running
      /\ worker'[p].next = w.next
      /\ worker'[p].result = w.result
      /\ IF w.finished + 1 = end
         THEN /\ worker'[p].progress = w.finished + 1
              /\ worker'[p].base = end
              /\ worker'[p].pc = NextBatch(p, end)
         ELSE /\ worker'[p].progress = w.progress
              /\ worker'[p].base = w.base
              /\ worker'[p].pc = w.pc
  BY ReceiveFields DEF ThreadOK
<1>4. /\ w.base \in Nat /\ w.base < Buffers(pass, p)
      /\ w.progress = w.base
      /\ w.finished \in w.base..(end - 1)
      /\ w.next = end
  BY <1>3 DEF ThreadOK, Counters, InBatch
<1>5. /\ Buffers(pass, p)' = Buffers(pass, p)
      /\ \A base : BatchEnd(p, base)' = BatchEnd(p, base)
      /\ Buffers(pass, p) \in Int
  BY <1>1, PassFrozen, BuffersInt
<1>6. end \in Nat /\ w.base < end /\ end <= Buffers(pass, p)
  BY <1>1, <1>4, BatchEndBounds
<1>7. /\ w.running \subseteq 0..(w.next - 1)
      /\ \A k \in w.sent :
           /\ k.from \in 0..(w.next - 1)
           /\ k.from \notin w.running
           /\ k.chunk = NoChunk \/ Numbered(k.chunk, k.from)
      /\ DOMAIN w.slots \subseteq 0..(w.next - 1)
      /\ \A c \in DOMAIN w.slots : Numbered(w.slots[c], c)
      /\ \A c \in 0..(w.next - 1) :
           \/ c \in w.running
           \/ \E k \in w.sent : k.from = c
           \/ c \in DOMAIN w.slots
  BY <1>3 DEF ThreadOK, Coverage
<1>8. Numbered(m.chunk, m.from) /\ m.from \in 0..(w.next - 1)
  BY <1>2, <1>7
<1>9. /\ IsFiniteSet(w.running) /\ IsFiniteSet(w.sent)
      /\ Cardinality(w.running) + Cardinality(w.sent) = w.next - w.finished
  BY <1>3 DEF ThreadOK, Flow
<1>10. worker'[p].pc \in {"launch", "receive", "reduce"}
  BY <1>3 DEF NextBatch
<1> HIDE DEF end, w
<1>11. Counters(p, worker[p])'
  <2>1. CASE w.finished + 1 # end
    <3>1. InBatch(p, worker[p])'
      BY <1>3, <1>4, <1>5, <2>1 DEF InBatch
    <3>2. /\ worker'[p].pc = "receive"
          /\ worker'[p].base = w.base
          /\ w.finished + 1 \in w.base..(end - 1)
      BY <1>3, <1>4, <1>6, <2>1
    <3>3. BatchEnd(p, worker[p].base)' = end
      BY <1>5, <3>2 DEF end
    <3> QED BY <1>3, <1>4, <3>1, <3>2, <3>3 DEF Counters
  <2>2. CASE w.finished + 1 = end /\ end < Buffers(pass, p)
    <3>1. /\ worker'[p].pc = "launch"
          /\ worker'[p].base = end /\ worker'[p].progress = end
          /\ worker'[p].finished = end /\ worker'[p].next = end
      BY <1>3, <1>4, <2>2 DEF NextBatch
    <3>2. BatchEnd(p, end) \in Nat /\ end < BatchEnd(p, end)
      BY <1>1, <1>6, <2>2, BatchEndBounds
    <3>3. BatchEnd(p, worker[p].base)' = BatchEnd(p, end)
      BY <1>5, <3>1
    <3>4. InBatch(p, worker[p])'
      BY <1>5, <1>6, <2>2, <3>1 DEF InBatch
    <3> QED BY <1>6, <3>1, <3>2, <3>3, <3>4 DEF Counters
  <2>3. CASE w.finished + 1 = end /\ ~(end < Buffers(pass, p))
    <3>1. /\ worker'[p].pc = "reduce"
          /\ worker'[p].base = end /\ worker'[p].progress = end
          /\ worker'[p].finished = end /\ worker'[p].next = end
          /\ end = Buffers(pass, p)'
      BY <1>3, <1>4, <1>5, <1>6, <2>3 DEF NextBatch
    <3> QED BY <1>6, <3>1 DEF Counters
  <2> QED BY <2>1, <2>2, <2>3
<1>12. Flow(worker[p])'
  <2>1. /\ IsFiniteSet(w.sent \ {m})
        /\ Cardinality(w.sent \ {m}) = Cardinality(w.sent) - 1
    BY <1>9, FS_RemoveElement
  <2>2. Cardinality(w.running) \in Nat /\ Cardinality(w.sent) \in Nat
    BY <1>9, FS_CardinalityType
  <2>3. Cardinality(w.running) + Cardinality(w.sent \ {m})
          = w.next - (w.finished + 1)
    BY <1>4, <1>6, <1>9, <2>1, <2>2
  <2> QED BY <1>2, <1>3, <1>9, <1>10, <2>1, <2>3 DEF Flow
<1>13. Coverage(worker[p])'
  <2>1. /\ DOMAIN worker'[p].slots = DOMAIN w.slots \cup {m.from}
        /\ \A c \in DOMAIN worker'[p].slots : Numbered(worker'[p].slots[c], c)
    BY <1>2, <1>7, <1>8 DEF Put, Numbered
  <2> QED BY <1>2, <1>3, <1>7, <1>8, <2>1 DEF Coverage
<1>14. worker'[p].progress >= w.progress
  BY <1>3, <1>4, <1>6
<1>15. w.result = NoChunk \/ Numbered(w.result, p)
  BY DEF ThreadOK, w
<1>16. worker'[p].result = NoChunk \/ Numbered(worker'[p].result, p)
  BY <1>3, <1>15
<1> QED BY <1>3, <1>11, <1>12, <1>13, <1>14, <1>16 DEF ThreadOK, w

\* A thread that reduces has a chunk from each of its buffers, under the number
\* of the buffer, and no coroutines.
LEMMA ReduceReady ==
  ASSUME JoinInv, NEW p \in ThreadIds, ThreadOK(p, worker[p]),
         worker[p].pc = "reduce"
  PROVE  /\ DOMAIN worker[p].slots = 0..(Buffers(pass, p) - 1)
         /\ \A c \in DOMAIN worker[p].slots : Numbered(worker[p].slots[c], c)
         /\ worker[p].running = {}
         /\ worker[p].sent = {}
<1> DEFINE w == worker[p]
<1>1. /\ w.base \in Nat
      /\ w.base = Buffers(pass, p) \/ (w.base = 0 /\ Buffers(pass, p) <= 0)
      /\ w.finished = w.base /\ w.next = w.base
  BY DEF ThreadOK, Counters
<1>2. /\ IsFiniteSet(w.running) /\ IsFiniteSet(w.sent)
      /\ Cardinality(w.running) + Cardinality(w.sent) = w.next - w.finished
  BY DEF ThreadOK, Flow
<1>3. w.running = {} /\ w.sent = {}
  <2>1. Cardinality(w.running) \in Nat /\ Cardinality(w.sent) \in Nat
    BY <1>2, FS_CardinalityType
  <2>2. Cardinality(w.running) = 0 /\ Cardinality(w.sent) = 0
    BY <1>1, <1>2, <2>1
  <2> QED BY <1>2, <2>2, FS_EmptySet
<1>4. /\ DOMAIN w.slots \subseteq 0..(w.next - 1)
      /\ \A c \in DOMAIN w.slots : Numbered(w.slots[c], c)
      /\ \A c \in 0..(w.next - 1) :
           \/ c \in w.running
           \/ \E m \in w.sent : m.from = c
           \/ c \in DOMAIN w.slots
  BY DEF ThreadOK, Coverage
<1>5. Buffers(pass, p) \in Int
  BY BuffersInt DEF JoinInv, LoopsOK
<1>6. 0..(w.next - 1) = 0..(Buffers(pass, p) - 1)
  BY <1>1, <1>5
<1> QED BY <1>3, <1>4, <1>6

\* A reduction numbers its chunk.
LEMMA ReduceNumbers ==
  ASSUME NEW idx, NEW array, NEW len, NEW total,
         len = 1 => Numbered(array[0], 0)
  PROVE  Numbered(ReverseReduce(idx, array, len, total), idx)
BY DEF ReverseReduce, Numbered

LEMMA ReturnKeeps ==
  ASSUME JoinInv, NEW p \in ThreadIds, ThreadOK(p, worker[p]), Return(p)
  PROVE  ThreadOK(p, worker[p])' /\ worker'[p].progress >= worker[p].progress
<1>1. /\ Fielded(worker[p])'
      /\ worker[p].pc = "reduce"
      /\ worker'[p].pc = "exited"
      /\ worker'[p].result = ReverseReduce(p, worker[p].slots, Buffers(pass, p),
                                           worker[p].lines)
      /\ \A f \in Fields \ {"pc", "result"} : worker'[p][f] = worker[p][f]
  BY ReturnFields DEF ThreadOK
<1>2. UNCHANGED <<conf, pass>>
  BY DEF Return
<1>3. Buffers(pass, p) = 1 => Numbered(worker[p].slots[0], 0)
  BY <1>1, ReduceReady
<1>4. Numbered(worker'[p].result, p)
  BY <1>1, <1>3, ReduceNumbers
<1>5. ThreadOK(p, worker[p])'
  BY <1>1, <1>2, <1>4, ExitKeeps
<1>6. worker'[p].progress = worker[p].progress /\ worker[p].progress \in Nat
  BY <1>1, ThreadBounds DEF Fields
<1> QED BY <1>5, <1>6

\* A thread that exits without a result.
LEMMA EarlyExitKeeps ==
  ASSUME JoinInv, NEW p \in ThreadIds, ThreadOK(p, worker[p]),
         UNCHANGED <<conf, pass>>,
         worker' = [worker EXCEPT ![p].pc = "exited"]
  PROVE  ThreadOK(p, worker[p])' /\ worker'[p].progress >= worker[p].progress
<1>1. /\ Fielded(worker[p])'
      /\ worker'[p].pc = "exited"
      /\ \A f \in Fields \ {"pc"} : worker'[p][f] = worker[p][f]
  BY PcFields DEF ThreadOK
<1>2. /\ worker'[p].result = worker[p].result
      /\ worker'[p].progress = worker[p].progress
      /\ \A f \in Fields \ {"pc", "result"} : worker'[p][f] = worker[p][f]
  BY <1>1 DEF Fields
<1>3. ThreadOK(p, worker[p])'
  <2>1. worker'[p].result = NoChunk \/ Numbered(worker'[p].result, p)
    BY <1>2 DEF ThreadOK
  <2> QED BY <1>1, <1>2, <2>1, ExitKeeps
<1>4. worker[p].progress \in Nat
  BY ThreadBounds
<1> QED BY <1>2, <1>3, <1>4

\* Every step of a thread or of its coroutines keeps every thread consistent,
\* and no thread takes back what it published.
LEMMA ThreadInvThreadStep ==
  ASSUME JoinInv, ThreadInv, NEW p \in ThreadIds,
         \/ ThreadStep(p)
         \/ ThreadFails(p)
         \/ ReduceFails(p)
         \/ \E c \in worker[p].running : IndexBytesFails(p, c)
  PROVE  /\ ThreadInv'
         /\ \A q \in ThreadIds : worker'[q].progress >= worker[q].progress
         /\ UNCHANGED <<chunks, seen>>
<1>1. /\ worker' = [q \in ThreadIds |-> worker'[q]]
      /\ \A q \in ThreadIds \ {p} : worker'[q] = worker[q]
      /\ UNCHANGED <<conf, pass>>
  BY ThreadStepAlone
<1>2. ThreadOK(p, worker[p]) /\ worker[p].progress \in Nat
  BY ThreadBounds DEF ThreadInv
<1>3. /\ ThreadOK(p, worker[p])' /\ worker'[p].progress >= worker[p].progress
      /\ UNCHANGED <<chunks, seen>>
  <2>1. CASE Setup(p)
    BY <1>2, <2>1, SetupKeeps DEF Setup
  <2>2. CASE Launch(p)
    BY <1>2, <2>2, LaunchKeeps DEF Launch
  <2>3. ASSUME NEW c \in worker[p].running, IndexBytes(p, c)
        PROVE  /\ ThreadOK(p, worker[p])'
               /\ worker'[p].progress >= worker[p].progress
               /\ UNCHANGED <<chunks, seen>>
    <3>1. PICK list, total : Send(p, c, NewChunk(c, list, total))
      BY <2>3 DEF IndexBytes
    <3>2. Numbered(NewChunk(c, list, total), c)
      BY DEF Numbered, NewChunk
    <3>3. worker[p].pc \in {"launch", "receive"} /\ UNCHANGED <<chunks, seen>>
      BY <2>3 DEF IndexBytes, Running
    <3> QED BY <1>1, <1>2, <3>1, <3>2, <3>3, SendKeeps
  <2>4. CASE Receive(p)
    BY <1>2, <2>4, ReceiveKeeps DEF Receive
  <2>5. CASE ReceiveNull(p)
    BY <1>1, <1>2, <2>5, EarlyExitKeeps DEF ReceiveNull
  <2>6. CASE Return(p)
    BY <1>2, <2>6, ReturnKeeps DEF Return
  <2>7. CASE ThreadFails(p)
    BY <1>1, <1>2, <2>7, EarlyExitKeeps DEF ThreadFails
  <2>8. CASE ReduceFails(p)
    BY <1>1, <1>2, <2>8, EarlyExitKeeps DEF ReduceFails
  <2>9. ASSUME NEW c \in worker[p].running, IndexBytesFails(p, c)
        PROVE  /\ ThreadOK(p, worker[p])'
               /\ worker'[p].progress >= worker[p].progress
               /\ UNCHANGED <<chunks, seen>>
    <3>1. UNCHANGED <<chunks, seen>> /\ worker[p].pc \in {"launch", "receive"}
      BY <2>9 DEF IndexBytesFails, Running
    <3>2. CASE worker' = worker
      BY <1>1, <1>2, <3>1, <3>2, ThreadFrozen
    <3>3. CASE Send(p, c, NoChunk)
      BY <1>1, <1>2, <3>1, <3>3, SendKeeps
    <3> QED BY <2>9, <3>2, <3>3 DEF IndexBytesFails, FailureMessage
  <2> QED BY <2>1, <2>2, <2>3, <2>4, <2>5, <2>6, <2>7, <2>8, <2>9 DEF ThreadStep
<1>4. ASSUME NEW q \in ThreadIds \ {p}
      PROVE  ThreadOK(q, worker[q])' /\ worker'[q].progress >= worker[q].progress
  <2>1. ThreadOK(q, worker[q]) /\ worker'[q] = worker[q]
    BY <1>1 DEF ThreadInv
  <2>2. worker[q].progress \in Nat
    BY <2>1, ThreadBounds
  <2> QED BY <1>1, <2>1, <2>2, ThreadFrozen
<1> QED BY <1>3, <1>4 DEF ThreadInv

-----------------------------------------------------------------------------
(* What the main thread reads and collects *)

\* The main thread has read that every buffer of the thread is indexed, and the
\* thread will not take it back.
Reported(p) ==
  /\ seen[p] = Buffers(pass, p)
  /\ worker[p].progress = Buffers(pass, p)

\* The chunks of the first n threads, under the numbers of the threads.
Collected(n) ==
  /\ DOMAIN chunks = 0..(n - 1)
  /\ \A p \in DOMAIN chunks : Numbered(chunks[p], p)

\* At each label of the main thread: the threads it has joined and the one it
\* is about to join are reported complete, and it has the chunks of the former.
ReportInv ==
  /\ seen \in [ThreadIds -> Nat]
  /\ \A p \in ThreadIds : seen[p] <= worker[p].progress
  /\ main = "spawn" => DOMAIN chunks = {}
  /\ main \in {"poll", "join"} =>
       /\ \A p \in ThreadIds : p < i => Reported(p)
       /\ Collected(i)
  /\ main = "join" => Reported(i) /\ worker[i].pc \in {"reduce", "exited"}
  /\ main = "append" =>
       /\ \A p \in ThreadIds : p < Threads(pass) => Reported(p)
       /\ Collected(Threads(pass))

Inv == JoinInv /\ ThreadInv /\ ReportInv

\* A new pass finds every structure as f_index_text_file initialises it.
LEMMA IdleOK == \A p : ThreadOK(p, Idle) /\ ThreadOK(p, Idle)'
<1>1. IsFiniteSet({}) /\ Cardinality({}) = 0
  BY FS_EmptySet
<1>2. Fielded(Idle)
  BY DEF Fielded, Fields, Idle
<1>3. \A p : Counters(p, Idle) /\ Counters(p, Idle)'
  BY DEF Counters, Idle
<1>4. Flow(Idle) /\ Flow(Idle)'
  BY <1>1 DEF Flow, Idle
<1>5. Coverage(Idle) /\ Coverage(Idle)'
  BY DEF Coverage, Idle
<1>6. Idle.result = NoChunk
  BY DEF Idle
<1> QED BY <1>2, <1>3, <1>4, <1>5, <1>6 DEF ThreadOK, Fielded

LEMMA InvInit == Init => Inv
<1> SUFFICES ASSUME Init PROVE Inv
  OBVIOUS
<1>1. JoinInv
  BY JoinInvInit
<1>2. ThreadInv
  BY IdleOK DEF ThreadInv, Init
<1>3. ReportInv
  BY DEF ReportInv, Init, Idle
<1> QED BY <1>1, <1>2, <1>3 DEF Inv

\* A thread that is past its last batch can only exit.
LEMMA ReduceExits ==
  ASSUME JoinInv, ThreadInv, NEW p \in ThreadIds, worker[p].pc = "reduce",
         \/ ThreadStep(p)
         \/ ThreadFails(p)
         \/ ReduceFails(p)
         \/ \E c \in worker[p].running : IndexBytesFails(p, c)
  PROVE  worker'[p].pc = "exited" /\ worker'[p].progress = worker[p].progress
<1>1. Fielded(worker[p])
  BY DEF ThreadInv, ThreadOK
<1>2. Return(p) \/ ReduceFails(p)
  BY DEF ThreadStep, Setup, Launch, IndexBytes, Receive, ReceiveNull, ThreadFails,
         IndexBytesFails, Running, At
<1>3. CASE Return(p)
  BY <1>1, <1>3, ReturnFields DEF Fields
<1>4. CASE ReduceFails(p)
  <2>1. worker' = [worker EXCEPT ![p].pc = "exited"]
    BY <1>4 DEF ReduceFails
  <2> QED BY <1>1, <2>1, PcFields DEF Fields
<1> QED BY <1>2, <1>3, <1>4

LEMMA ReportInvThreadStep ==
  ASSUME Inv, NEW p \in ThreadIds,
         \/ ThreadStep(p)
         \/ ThreadFails(p)
         \/ ReduceFails(p)
         \/ \E c \in worker[p].running : IndexBytesFails(p, c)
  PROVE  ReportInv'
<1>1. JoinInv /\ ThreadInv /\ ReportInv
  BY DEF Inv
<1>2. /\ Active(p)
      /\ \A q \in ThreadIds \ {p} : worker'[q] = worker[q]
      /\ UNCHANGED <<conf, pass, i>>
      /\ main' \in {main, "killed"}
  BY <1>1, ThreadStepAlone
<1>3. /\ \A q \in ThreadIds : worker'[q].progress >= worker[q].progress
      /\ UNCHANGED <<chunks, seen>>
  BY <1>1, ThreadInvThreadStep
<1>4. /\ Threads(pass)' = Threads(pass)
      /\ \A q : Buffers(pass, q)' = Buffers(pass, q)
  BY <1>2, DivisionFrozen, PassFrozen
<1>5. \A q \in ThreadIds : worker[q].progress \in Nat /\ worker'[q].progress \in Nat
  <2>1. ThreadInv' /\ JoinInv'
    BY <1>1, ThreadInvThreadStep, JoinInvThreadStep
  <2>2. ASSUME NEW q \in ThreadIds PROVE worker[q].progress \in Nat
    BY <1>1, ThreadBounds DEF ThreadInv
  <2>3. ASSUME NEW q \in ThreadIds PROVE worker'[q].progress \in Nat
    <3>1. Counters(q, worker[q])'
      BY <2>1 DEF ThreadInv, ThreadOK
    <3> QED BY <3>1 DEF Counters, InBatch
  <2> QED BY <2>2, <2>3
<1>6. /\ seen' \in [ThreadIds -> Nat]
      /\ \A q \in ThreadIds : seen'[q] <= worker'[q].progress
  BY <1>1, <1>3, <1>5 DEF ReportInv
<1>7. \A q \in ThreadIds : Gone(q) /\ Reported(q) => Reported(q)'
  BY <1>2, <1>3, <1>4 DEF Active, Gone, Reported
<1>8. \A n : Collected(n) => Collected(n)'
  BY <1>3 DEF Collected
<1>9. ASSUME main' = "join"
      PROVE  Reported(i)' /\ worker'[i'].pc \in {"reduce", "exited"}
  <2>1. /\ main = "join" /\ i' = i
        /\ Reported(i) /\ worker[i].pc \in {"reduce", "exited"}
    BY <1>1, <1>2, <1>9 DEF ReportInv
  <2>2. i \in ThreadIds
    <3>1. i \in 0..(Threads(pass) - 1)
      BY <1>1, <2>1 DEF JoinInv, MainInv
    <3>2. Threads(pass) \in 1..MaxThreads /\ MaxThreads \in Nat
      BY <1>1, ThreadsBounds, RequestsAssumption DEF JoinInv, LoopsOK
    <3> QED BY <3>1, <3>2 DEF ThreadIds
  <2>3. CASE i # p
    BY <1>2, <1>3, <1>4, <2>1, <2>2, <2>3 DEF Reported
  <2>4. CASE i = p
    <3>1. worker[p].pc = "reduce"
      BY <1>2, <2>1, <2>4 DEF Active
    <3>2. worker'[p].pc = "exited" /\ worker'[p].progress = worker[p].progress
      BY <1>1, <3>1, ReduceExits
    <3> QED BY <1>3, <1>4, <2>1, <2>4, <3>2 DEF Reported
  <2> QED BY <2>3, <2>4
<1>10. ASSUME main' \in {"poll", "join"}
       PROVE  /\ \A q \in ThreadIds : q < i' => Reported(q)'
              /\ Collected(i)'
  <2>1. /\ \A q \in ThreadIds : q < i => Gone(q) /\ Reported(q)
        /\ Collected(i)
    BY <1>1, <1>2, <1>10 DEF JoinInv, MainInv, ReportInv
  <2>2. Collected(i)'
    BY <1>2, <1>3, <2>1 DEF Collected
  <2> QED BY <1>2, <1>7, <2>1, <2>2
<1>11. ASSUME main' = "append"
       PROVE  /\ \A q \in ThreadIds : q < Threads(pass)' => Reported(q)'
              /\ Collected(Threads(pass))'
  <2>1. /\ \A q \in ThreadIds : q < Threads(pass) => Gone(q) /\ Reported(q)
        /\ Collected(Threads(pass))
    BY <1>1, <1>2, <1>11 DEF JoinInv, MainInv, ReportInv
  <2>2. Collected(Threads(pass))'
    BY <1>3, <1>4, <2>1 DEF Collected
  <2> QED BY <1>4, <1>7, <2>1, <2>2
<1>12. main' = "spawn" => DOMAIN chunks' = {}
  BY <1>1, <1>2, <1>3 DEF ReportInv
<1> QED BY <1>6, <1>9, <1>10, <1>11, <1>12 DEF ReportInv

\* The main thread's loop counter is a thread of the pass.
LEMMA LoopCounter ==
  ASSUME JoinInv, main \in {"spawn", "poll", "join"}
  PROVE  /\ i \in Nat /\ i + 1 <= Threads(pass)
         /\ i \in ThreadIds
         /\ Threads(pass) \in Nat \ {0}
         /\ ThreadIds \subseteq Nat
<1>1. i \in 0..(Threads(pass) - 1)
  BY DEF JoinInv, MainInv
<1>2. Threads(pass) \in 1..MaxThreads /\ MaxThreads \in Nat
  BY ThreadsBounds, RequestsAssumption DEF JoinInv, LoopsOK
<1> QED BY <1>1, <1>2 DEF ThreadIds

\* A thread that does not exist yet is consistent with every pass.
LEMMA AbsentKeeps ==
  ASSUME conf' = conf, NEW p, ThreadOK(p, worker[p]), Absent(p),
         worker'[p] = worker[p]
  PROVE  ThreadOK(p, worker[p])'
BY DEF ThreadOK, Fielded, Counters, Flow, Coverage, Absent

LEMMA ThreadInvMainStep ==
  ASSUME JoinInv, ThreadInv, MainStep \/ SpawnFails \/ MainFails
  PROVE  ThreadInv'
<1>1. conf' = conf
  BY MainFailsStep DEF MainStep, Open, Plan, Spawn, Poll, Join, JoinNull, AppendPass, Close,
         SpawnFails
<1>2. CASE Open
  <2>1. \A p \in ThreadIds : Absent(p) /\ worker'[p] = worker[p]
    BY <1>2 DEF Open, JoinInv, MainInv
  <2> QED BY <1>1, <2>1, AbsentKeeps DEF ThreadInv
<1>3. CASE Plan \/ Poll \/ Join \/ JoinNull \/ Close \/ SpawnFails \/ MainFails
  <2>1. UNCHANGED <<conf, pass, worker>>
    BY <1>3, MainFailsStep DEF Plan, Poll, Join, JoinNull, Close, SpawnFails
  <2> QED BY <2>1, ThreadFrozen DEF ThreadInv
<1>4. CASE Spawn
  <2>1. /\ UNCHANGED <<conf, pass>> /\ main = "spawn"
        /\ worker' = [worker EXCEPT ![i].pc = "setup"]
    BY <1>4 DEF Spawn
  <2>2. i \in ThreadIds /\ Absent(i)
    <3>1. i \in ThreadIds /\ i \in Nat
      BY <2>1, LoopCounter
    <3> QED BY <2>1, <3>1 DEF JoinInv, MainInv
  <2>3. \A p \in ThreadIds \ {i} : worker'[p] = worker[p]
    BY <2>1 DEF JoinInv, LoopsOK
  <2>4. ASSUME NEW p \in ThreadIds, p = i
        PROVE  ThreadOK(p, worker[p])'
    <3>1. worker[p].pc = "none" /\ ThreadOK(p, worker[p])
      BY <2>2, <2>4 DEF ThreadInv, Absent
    <3>2. /\ Fielded(worker[p])'
          /\ worker'[p].pc = "setup"
          /\ \A f \in {"base", "next", "running", "sent", "slots", "finished",
                       "progress", "result"} : worker'[p][f] = worker[p][f]
      <4>1. worker' = [worker EXCEPT ![p].pc = "setup"]
        BY <2>1, <2>4
      <4>2. Fielded(worker[p])
        BY <3>1 DEF ThreadOK
      <4>3. /\ Fielded(worker[p])'
            /\ worker'[p].pc = "setup"
            /\ \A f \in Fields \ {"pc"} : worker'[p][f] = worker[p][f]
        BY <4>1, <4>2, PcFields
      <4> QED BY <4>3 DEF Fields
    <3>3. Counters(p, worker[p])'
      BY <3>1, <3>2 DEF ThreadOK, Counters
    <3>4. Flow(worker[p])'
      BY <2>1, <3>1, <3>2 DEF ThreadOK, Flow
    <3>5. Coverage(worker[p])'
      BY <3>1, <3>2 DEF ThreadOK, Coverage
    <3> QED BY <3>1, <3>2, <3>3, <3>4, <3>5 DEF ThreadOK
  <2>5. ASSUME NEW p \in ThreadIds, p # i
        PROVE  ThreadOK(p, worker[p])'
    BY <2>1, <2>3, <2>5, ThreadFrozen DEF ThreadInv
  <2> QED BY <2>4, <2>5 DEF ThreadInv
<1>5. CASE AppendPass
  <2>1. \A p \in ThreadIds : worker'[p] = Idle
    BY <1>5 DEF AppendPass
  <2>2. ASSUME NEW p \in ThreadIds PROVE ThreadOK(p, worker[p])'
    BY <2>1, IdleOK
  <2> QED BY <2>2 DEF ThreadInv
<1> QED BY <1>2, <1>3, <1>4, <1>5 DEF MainStep

LEMMA ReportInvMainStep ==
  ASSUME Inv, MainStep \/ SpawnFails \/ MainFails
  PROVE  ReportInv'
<1>1. /\ JoinInv /\ ThreadInv /\ ReportInv
      /\ conf \in Requests /\ pass \in 0..(Passes - 1)
      /\ seen \in [ThreadIds -> Nat]
      /\ \A p \in ThreadIds : seen[p] <= worker[p].progress
  BY DEF Inv, ReportInv, JoinInv, LoopsOK
<1>2. \A p \in ThreadIds : worker[p].progress \in Nat
  BY <1>1, ThreadBounds DEF ThreadInv
<1>3. CASE UNCHANGED <<worker, seen>> /\ main' \in {"plan", "close"} \cup Final
  BY <1>1, <1>3 DEF ReportInv, Final
<1>4. CASE Open \/ Close \/ JoinNull \/ SpawnFails \/ MainFails
  BY <1>3, <1>4, MainFailsStep DEF Open, Close, JoinNull, SpawnFails, Final
<1>5. CASE Plan
  BY <1>1, <1>5 DEF Plan, ReportInv
<1>6. CASE Spawn
  <2>1. /\ main = "spawn" /\ UNCHANGED <<chunks, seen>>
        /\ worker' = [worker EXCEPT ![i].pc = "setup"]
        /\ main' \in {"spawn", "poll"}
        /\ main' = "poll" => i' = 0
    BY <1>6 DEF Spawn
  <2>2. i \in ThreadIds /\ ThreadIds \subseteq Nat
    BY <1>1, <2>1, LoopCounter
  <2>3. \A p \in ThreadIds : worker'[p].progress = worker[p].progress
    <3>1. ASSUME NEW p \in ThreadIds, p = i
          PROVE  worker'[p].progress = worker[p].progress
      BY <1>1, <2>1, <3>1, PcFields DEF ThreadInv, ThreadOK, Fields
    <3>2. ASSUME NEW p \in ThreadIds, p # i
          PROVE  worker'[p].progress = worker[p].progress
      BY <1>1, <2>1, <2>2, <3>2 DEF JoinInv, LoopsOK
    <3> QED BY <3>1, <3>2
  <2>4. DOMAIN chunks' = {}
    BY <1>1, <2>1 DEF ReportInv
  <2>5. main' = "poll" =>
          /\ \A p \in ThreadIds : p < i' => Reported(p)'
          /\ Collected(i)'
    BY <2>1, <2>2, <2>4 DEF Collected
  <2> QED BY <1>1, <2>1, <2>3, <2>4, <2>5 DEF ReportInv
<1>7. CASE Poll
  <2>1. /\ main = "poll" /\ UNCHANGED <<conf, pass, i, worker, chunks>>
        /\ seen' = [p \in ThreadIds |-> worker[p].progress]
        /\ main' \in {"poll", "join"}
        /\ main' = "join" => Complete(i, seen'[i])
    BY <1>7 DEF Poll
  <2>2. /\ i \in ThreadIds
        /\ \A p \in ThreadIds : p < i => Reported(p)
        /\ Collected(i)
    BY <1>1, <2>1, LoopCounter DEF ReportInv
  <2>3. \A p : Buffers(pass, p)' = Buffers(pass, p)
    BY <2>1, PassFrozen
  <2>4. \A p \in ThreadIds : p < i' => Reported(p)'
    BY <2>1, <2>2, <2>3 DEF Reported
  <2>5. Collected(i)'
    BY <2>1, <2>2 DEF Collected
  <2>6. ASSUME main' = "join"
        PROVE  Reported(i)' /\ worker'[i'].pc \in {"reduce", "exited"}
    <3>1. /\ worker[i].progress = Buffers(pass, i)
          /\ Buffers(pass, i) > 0
          /\ seen'[i] = worker[i].progress
      BY <2>1, <2>2, <2>6 DEF Complete
    <3>2. Counters(i, worker[i]) /\ Buffers(pass, i) \in Int
      BY <1>1, <2>2, BuffersInt DEF ThreadInv, ThreadOK
    <3>3. worker[i].pc \in {"reduce", "exited"}
      BY <3>1, <3>2 DEF Counters, InBatch
    <3> QED BY <2>1, <2>3, <3>1, <3>3 DEF Reported
  <2> QED BY <1>2, <2>1, <2>4, <2>5, <2>6 DEF ReportInv
<1>8. CASE Join
  <2>1. /\ main = "join" /\ worker[i].pc = "exited"
        /\ UNCHANGED <<conf, pass, worker, seen>>
        /\ worker[i].result # NoChunk
        /\ chunks' = Put(chunks, worker[i].result.current, worker[i].result)
        /\ i' = i + 1
        /\ main' = IF i + 1 = Threads(pass) THEN "append" ELSE "poll"
    BY <1>8 DEF Join, LastJoin
  <2>2. /\ i \in Nat /\ i \in ThreadIds /\ ThreadIds \subseteq Nat
        /\ \A p \in ThreadIds : p < i => Reported(p)
        /\ Reported(i)
        /\ Collected(i)
    BY <1>1, <2>1, LoopCounter DEF ReportInv
  <2>3. /\ \A p : Buffers(pass, p)' = Buffers(pass, p)
        /\ Threads(pass)' = Threads(pass)
    BY <2>1, PassFrozen, DivisionFrozen
  <2>4. Numbered(worker[i].result, i)
    BY <1>1, <2>1, <2>2 DEF ThreadInv, ThreadOK
  <2>5. Collected(i)'
    <3>1. /\ DOMAIN chunks' = (0..(i - 1)) \cup {i}
          /\ \A p \in DOMAIN chunks' : Numbered(chunks'[p], p)
      BY <2>1, <2>2, <2>4 DEF Collected, Put, Numbered
    <3>2. i' - 1 = i
      BY <2>1, <2>2
    <3>3. (0..(i - 1)) \cup {i} = 0..i
      BY <2>2
    <3> QED BY <3>1, <3>2, <3>3 DEF Collected
  <2>6. ASSUME NEW p \in ThreadIds, p < i'
        PROVE  Reported(p)'
    <3>1. p < i \/ p = i
      BY <2>1, <2>2, <2>6
    <3>2. Reported(p)
      BY <2>2, <3>1
    <3> QED BY <2>1, <2>3, <3>2 DEF Reported
  <2>7. main' = "append" => i' = Threads(pass)'
    BY <2>1, <2>3
  <2>8. /\ seen' \in [ThreadIds -> Nat]
        /\ \A p \in ThreadIds : seen'[p] <= worker'[p].progress
    BY <1>1, <2>1
  <2>9. main' = "append" => Collected(Threads(pass))'
    BY <2>5, <2>7 DEF Collected
  <2> QED BY <2>1, <2>5, <2>6, <2>7, <2>8, <2>9 DEF ReportInv
<1>9. CASE AppendPass
  <2>1. /\ \A p \in ThreadIds : seen'[p] = 0 /\ worker'[p].progress = 0
        /\ seen' = [p \in ThreadIds |-> 0]
        /\ main' \in {"plan", "close"}
    BY <1>9 DEF AppendPass, Idle
  <2> QED BY <2>1 DEF ReportInv
<1> QED BY <1>4, <1>5, <1>6, <1>7, <1>8, <1>9 DEF MainStep

LEMMA InvStep == Inv /\ [Next]_vars => Inv'
<1> SUFFICES ASSUME Inv, [Next]_vars PROVE Inv'
  OBVIOUS
<1>1. JoinInv /\ ThreadInv /\ ReportInv
  BY DEF Inv
<1>2. JoinInv'
  BY <1>1, JoinInvStep
<1>3. CASE MainStep \/ SpawnFails \/ MainFails
  BY <1>1, <1>2, <1>3, ThreadInvMainStep, ReportInvMainStep DEF Inv
<1>4. ASSUME NEW p \in ThreadIds,
             \/ ThreadStep(p)
             \/ ThreadFails(p)
             \/ ReduceFails(p)
             \/ \E c \in worker[p].running : IndexBytesFails(p, c)
      PROVE  Inv'
  BY <1>1, <1>2, <1>4, ThreadInvThreadStep, ReportInvThreadStep DEF Inv
<1>5. CASE UNCHANGED vars
  <2>1. /\ UNCHANGED <<conf, main, pass, i, worker, chunks, seen>>
        /\ Threads(pass)' = Threads(pass)
        /\ \A p : Buffers(pass, p)' = Buffers(pass, p)
    BY <1>5, PassFrozen, DivisionFrozen DEF vars
  <2>2. ThreadInv'
    BY <1>1, <2>1, ThreadFrozen DEF ThreadInv
  <2>3. ReportInv'
    BY <1>1, <2>1 DEF ReportInv, Reported, Collected
  <2> QED BY <1>2, <2>2, <2>3 DEF Inv
<1> QED BY <1>3, <1>4, <1>5 DEF Next, Fault, Ended

LEMMA InvAlways == Spec => []Inv
BY InvInit, InvStep, PTL DEF Spec

-----------------------------------------------------------------------------
(* Theorems *)

\* Whatever order the coroutines of a thread and the threads of a pass finish
\* in, a reduction reads only elements that were assigned, each by the chunk
\* that belongs there.
THEOREM IndexerFillsSlots == Spec => []SlotsFilled
<1>1. Inv => SlotsFilled
  <2> SUFFICES ASSUME Inv PROVE SlotsFilled
    OBVIOUS
  <2>1. ASSUME NEW p \in ThreadIds, worker[p].pc = "reduce"
        PROVE  /\ DOMAIN worker[p].slots = 0..(Buffers(pass, p) - 1)
               /\ \A c \in DOMAIN worker[p].slots : worker[p].slots[c].current = c
               /\ worker[p].running = {}
               /\ worker[p].sent = {}
    BY <2>1, ReduceReady DEF Inv, ThreadInv, Numbered
  <2>2. main = "append" =>
          /\ DOMAIN chunks = 0..(Threads(pass) - 1)
          /\ \A p \in DOMAIN chunks : chunks[p].current = p
    BY DEF Inv, ReportInv, Collected, Numbered
  <2> QED BY <2>1, <2>2 DEF SlotsFilled
<1> QED BY <1>1, InvAlways, PTL

\* However the coroutines are scheduled, no more than concurrency of them exist
\* in a thread.
THEOREM IndexerBoundsConcurrency == Spec => []ConcurrencyBounded
<1>1. Inv => ConcurrencyBounded
  BY ThreadBounds DEF Inv, ThreadInv, ConcurrencyBounded
<1> QED BY <1>1, InvAlways, PTL

\* Before a pass ends the main thread has read, and reported, the full progress
\* of each of its threads.
THEOREM IndexerReports == Spec => []ProgressReported
<1>1. Inv => ProgressReported
  <2> SUFFICES ASSUME Inv, main = "append", NEW p \in 0..(Threads(pass) - 1)
               PROVE  seen[p] = Buffers(pass, p)
    BY DEF ProgressReported
  <2>1. Threads(pass) \in 1..MaxThreads /\ MaxThreads \in Nat
    BY ThreadsBounds, RequestsAssumption DEF Inv, JoinInv, LoopsOK
  <2>2. p \in ThreadIds /\ p < Threads(pass)
    BY <2>1 DEF ThreadIds
  <2> QED BY <2>2 DEF Inv, ReportInv, Reported
<1> QED BY <1>1, InvAlways, PTL

\* The progress given to on_progress never goes back within a pass.
THEOREM IndexerProgress == Spec => ProgressForward
<1> DEFINE Forward ==
      \/ \A p \in ThreadIds : seen'[p] >= seen[p]
      \/ pass' = pass - 1
      \/ main' = "close"
<1>1. Inv /\ [Next]_vars => [Forward]_vars
  <2> SUFFICES ASSUME Inv, Next PROVE Forward \/ UNCHANGED vars
    OBVIOUS
  <2>1. /\ JoinInv /\ ThreadInv
        /\ seen \in [ThreadIds -> Nat]
        /\ \A p \in ThreadIds : seen[p] <= worker[p].progress
    BY DEF Inv, ReportInv
  <2>2. CASE seen' = seen
    BY <2>1, <2>2
  <2>3. CASE Poll
    <3>1. \A p \in ThreadIds : worker[p].progress \in Nat
      BY <2>1, ThreadBounds DEF ThreadInv
    <3>2. \A p \in ThreadIds : seen'[p] = worker[p].progress
      BY <2>3 DEF Poll
    <3> QED BY <2>1, <3>1, <3>2
  <2>4. CASE AppendPass
    BY <2>4 DEF AppendPass
  <2>5. CASE MainStep \/ SpawnFails \/ MainFails
    BY <2>2, <2>3, <2>4, <2>5, MainFailsStep
       DEF MainStep, Open, Plan, Spawn, Join, JoinNull, Close, SpawnFails
  <2>6. ASSUME NEW p \in ThreadIds,
               \/ ThreadStep(p)
               \/ ThreadFails(p)
               \/ ReduceFails(p)
               \/ \E c \in worker[p].running : IndexBytesFails(p, c)
        PROVE  Forward
    <3>1. seen' = seen
      BY <2>1, <2>6, ThreadInvThreadStep
    <3> QED BY <2>1, <3>1
  <2>7. CASE Ended
    BY <2>7 DEF Ended
  <2> QED BY <2>5, <2>6, <2>7 DEF Next, Fault
<1> QED BY <1>1, InvAlways, PTL DEF Spec, ProgressForward

-----------------------------------------------------------------------------
(* What the threads have found *)

\* The newlines in buffer c of thread p in pass q, and in the range of a thread.
NewlinesAt(q, p, c) ==
  conf.newlines \cap (BufferFrom(q, p, c)..(BufferFrom(q, p, c) + BufferBytes(q, p, c) - 1))

NewlinesOf(q, p) == conf.newlines \cap (From(q, p)..(To(q, p) - 1))

\* A chunk that a coroutine filled from buffer c: the lines that begin after
\* newlines of the buffer, the last one first, and all of them unless a read was
\* short.
Scanned(q, p, c, chunk) ==
  /\ chunk \in Chunk(Nat)
  /\ chunk.current = c
  /\ chunk.line_count = Len(chunk.first)
  /\ Proper(chunk)
  /\ Descending(chunk.first)
  /\ Elements(chunk.first) \subseteq LinesAfter(NewlinesAt(q, p, c))
  /\ ~ShortOf(conf) => Elements(chunk.first) = LinesAfter(NewlinesAt(q, p, c))

\* The lines in the chunks that a thread has received, and in those of the first
\* n threads.
Found(w) == UNION {Elements(w.slots[c].first) : c \in DOMAIN w.slots}

FoundBy(n) == UNION {Found(worker[p]) : p \in 0..(n - 1)}

\* A buffer is in one place: running, in the channel or received.
Apart(w) ==
  /\ w.running \cap DOMAIN w.slots = {}
  /\ \A m \in w.sent : m.from \notin DOMAIN w.slots
  /\ \A m, n \in w.sent : m.from = n.from => m = n

\* What a thread knows of its part of the pass, and what it returns.  Only a thread
\* in which something failed exits without a chunk.
DataOK(p, w) ==
  /\ w.pc # "none" => p < Threads(pass)
  /\ w.running \subseteq 0..(Buffers(pass, p) - 1)
  /\ \A m \in w.sent :
       /\ m.from \in 0..(Buffers(pass, p) - 1)
       /\ (m.chunk = NoChunk /\ FaultyOf(conf)) \/ Scanned(pass, p, m.from, m.chunk)
  /\ \A c \in DOMAIN w.slots :
       c \in 0..(Buffers(pass, p) - 1) /\ Scanned(pass, p, c, w.slots[c])
  /\ Apart(w)
  /\ IsFiniteSet(Found(w))
  /\ w.lines = Cardinality(Found(w))
  /\ (w.pc = "exited" /\ w.result = NoChunk) => FaultyOf(conf)
  /\ w.result # NoChunk =>
       /\ w.pc = "exited"
       /\ DOMAIN w.slots = 0..(Buffers(pass, p) - 1)
       /\ w.result = ReverseReduce(p, w.slots, Buffers(pass, p), w.lines)

DataInv == \A p \in ThreadIds : DataOK(p, worker[p])

\* The main thread has joined the first n threads of the pass.
Joined(n) ==
  /\ DOMAIN chunks = 0..(n - 1)
  /\ \A p \in 0..(n - 1) : worker[p].result # NoChunk /\ chunks[p] = worker[p].result
  /\ IsFiniteSet(FoundBy(n))
  /\ lines = Cardinality(FoundBy(n))

\* What the main thread has of the pass, and what is in the lookup file.
PassInv ==
  /\ i \in 0..Threads(pass)
  /\ lines \in Nat
  /\ \A p \in DOMAIN chunks : chunks[p] \in Chunk(Nat)
  /\ lookup \in [open : BOOLEAN, entries : Seq(Nat), len : Nat]
  /\ main = "open" => i = 0
  /\ main = "spawn" => Joined(0)
  /\ main \in {"poll", "join"} => Joined(i)
  /\ main = "append" => i = Threads(pass) /\ Joined(Threads(pass))

\* What a thread of pass q returns: lines that it found, the last one first, and
\* all of them when its array has not exactly one chunk that is not empty.
ResultOK(q, p, w) ==
  /\ w.result \in Chunk(Nat)
  /\ w.result.current = p
  /\ w.result.line_count = Cardinality(Found(w))
  /\ IsFiniteSet(Found(w))
  /\ Descending(w.result.first)
  /\ Elements(w.result.first) \subseteq Found(w)
  /\ Found(w) \subseteq LinesAfter(NewlinesOf(q, p))
  /\ ~ShortOf(conf) => Found(w) = LinesAfter(NewlinesOf(q, p))
  /\ (Buffers(q, p) > 1 => Cardinality(Filled(w.slots, Buffers(q, p))) # 1) =>
       Proper(w.result) /\ Elements(w.result.first) = Found(w)

\* What the main thread appends of pass q.
AppendOK(q, r) ==
  /\ r \in Chunk(Nat)
  /\ Descending(r.first)
  /\ IsFiniteSet(FoundBy(Threads(q)))
  /\ r.line_count = Cardinality(FoundBy(Threads(q)))
  /\ Elements(r.first) \subseteq FoundBy(Threads(q))
  /\ FoundBy(Threads(q)) \subseteq LinesAfter(ReadOf(conf, q))
  /\ ~ShortOf(conf) => FoundBy(Threads(q)) = LinesAfter(ReadOf(conf, q))
  /\ (~ShortOf(conf) /\ WholeOf(conf, q)) => Elements(r.first) = FoundBy(Threads(q))

-----------------------------------------------------------------------------
(* The division of a file *)

\* The ranges of the threads of a pass lie in the pass, in order, with one byte
\* between neighbours.
LEMMA RangeBounds ==
  ASSUME conf \in Requests, NEW q \in 0..(Passes - 1)
  PROVE  /\ PassFrom(q, conf.maxBytes) \in Nat
         /\ BytesIn(q) \in Nat
         /\ Threads(q) \in Nat \ {0}
         /\ \A p \in 0..(Threads(q) - 1) :
              /\ From(q, p) \in Nat
              /\ To(q, p) \in Nat
              /\ PassFrom(q, conf.maxBytes) <= From(q, p)
              /\ From(q, p) <= To(q, p)
              /\ To(q, p) <= PassFrom(q, conf.maxBytes) + BytesIn(q)
         /\ \A p \in 1..(Threads(q) - 1) : To(q, p - 1) + 1 = From(q, p)
         /\ \A j, k \in 0..(Threads(q) - 1) : j < k => To(q, j) < From(q, k)
         /\ \A b \in PassFrom(q, conf.maxBytes)..(PassFrom(q, conf.maxBytes) + BytesIn(q) - 1) :
              \/ \E p \in 0..(Threads(q) - 1) : b \in From(q, p)..(To(q, p) - 1)
              \/ \E p \in 1..(Threads(q) - 1) : b + 1 = From(q, p)
<1> DEFINE base == PassFrom(q, conf.maxBytes)
           P == ThreadPages(BytesIn(q), Threads(q))
           total == BytesIn(q)
           L == Threads(q)
<1>1. /\ conf.size \in Nat
      /\ conf.threads \in Nat \ {0}
      /\ conf.buffer \in Nat \ {0}
      /\ conf.threads <= conf.buffer
      /\ conf.maxBytes \in Nat \ {0}
  BY RequestsAssumption
<1>2. base \in Nat /\ total \in Nat
  <2>1. \A r \in 0..(Passes - 1) :
          /\ PassFrom(r, conf.maxBytes) \in Nat
          /\ PassBytes(r, conf.size, conf.maxBytes) \in 0..conf.maxBytes
    BY <1>1, PassTiles DEF Passes, PassesTile
  <2>2. BytesIn(q) \in 0..conf.maxBytes
    BY <2>1 DEF BytesIn
  <2> QED BY <1>1, <2>1, <2>2
<1>3. L \in Nat \ {0}
  <2>1. Threads(q) \in 1..MaxThreads /\ MaxThreads \in Nat
    BY ThreadsBounds, RequestsAssumption
  <2> QED BY <2>1
<1>4. L = ThreadCount(conf.threads, total, conf.buffer)
  BY DEF Threads
<1>5. \A p : From(q, p) = base + ThreadFrom(p, P) /\ To(q, p) = base + ThreadTo(p, P, total)
  BY DEF From, To
<1> HIDE DEF base, P, total, L
<1>6. /\ \A k \in 0..(L - 1) :
           /\ ThreadFrom(k, P) \in Nat
           /\ ThreadTo(k, P, total) \in Nat
           /\ ThreadFrom(k, P) <= ThreadTo(k, P, total)
           /\ ThreadTo(k, P, total) <= total
      /\ \A k \in 1..(L - 1) : ThreadTo(k - 1, P, total) + 1 = ThreadFrom(k, P)
      /\ \A j, k \in 0..(L - 1) : j < k => ThreadTo(j, P, total) < ThreadFrom(k, P)
      /\ \A x \in 0..(total - 1) :
           \/ \E k \in 0..(L - 1) : x \in ThreadFrom(k, P)..(ThreadTo(k, P, total) - 1)
           \/ \E k \in 1..(L - 1) : x + 1 = ThreadFrom(k, P)
  <2>1. P = ThreadPages(total, L)
    BY DEF P, total, L
  <2>2. ThreadsTile(L, P, total)
    BY <1>1, <1>2, <1>4, <2>1, ThreadTiles
  <2> QED BY <2>2 DEF ThreadsTile
<1>7. ASSUME NEW p \in 0..(L - 1)
      PROVE  /\ From(q, p) \in Nat
             /\ To(q, p) \in Nat
             /\ base <= From(q, p)
             /\ From(q, p) <= To(q, p)
             /\ To(q, p) <= base + total
  <2>1. /\ ThreadFrom(p, P) \in Nat
        /\ ThreadTo(p, P, total) \in Nat
        /\ ThreadFrom(p, P) <= ThreadTo(p, P, total)
        /\ ThreadTo(p, P, total) <= total
    BY <1>6
  <2> QED BY <1>2, <1>5, <2>1
<1>8. ASSUME NEW p \in 1..(L - 1)
      PROVE  To(q, p - 1) + 1 = From(q, p)
  <2>1. p - 1 \in 0..(L - 1) /\ p \in 0..(L - 1)
    BY <1>3
  <2>2. /\ ThreadTo(p - 1, P, total) + 1 = ThreadFrom(p, P)
        /\ ThreadTo(p - 1, P, total) \in Nat
    BY <1>6, <2>1
  <2> QED BY <1>2, <1>5, <2>2
<1>9. ASSUME NEW j \in 0..(L - 1), NEW k \in 0..(L - 1), j < k
      PROVE  To(q, j) < From(q, k)
  <2>1. /\ ThreadTo(j, P, total) < ThreadFrom(k, P)
        /\ ThreadTo(j, P, total) \in Nat /\ ThreadFrom(k, P) \in Nat
    BY <1>6, <1>9
  <2> QED BY <1>2, <1>5, <2>1
<1>10. ASSUME NEW b \in base..(base + total - 1)
       PROVE  \/ \E p \in 0..(L - 1) : b \in From(q, p)..(To(q, p) - 1)
              \/ \E p \in 1..(L - 1) : b + 1 = From(q, p)
  <2>1. b - base \in 0..(total - 1) /\ b \in Nat
    BY <1>2
  <2>2. CASE \E k \in 0..(L - 1) :
               b - base \in ThreadFrom(k, P)..(ThreadTo(k, P, total) - 1)
    <3>1. PICK k \in 0..(L - 1) :
            b - base \in ThreadFrom(k, P)..(ThreadTo(k, P, total) - 1)
      BY <2>2
    <3>2. ThreadFrom(k, P) \in Nat /\ ThreadTo(k, P, total) \in Nat
      BY <1>6
    <3>3. b \in From(q, k)..(To(q, k) - 1)
      BY <1>2, <1>5, <2>1, <3>1, <3>2
    <3> QED BY <3>3
  <2>3. CASE \E k \in 1..(L - 1) : b - base + 1 = ThreadFrom(k, P)
    <3>1. PICK k \in 1..(L - 1) : b - base + 1 = ThreadFrom(k, P)
      BY <2>3
    <3>2. b + 1 = From(q, k)
      BY <1>2, <1>5, <2>1, <3>1
    <3> QED BY <3>2
  <2> QED BY <1>6, <2>1, <2>2, <2>3
<1> QED BY <1>2, <1>3, <1>7, <1>8, <1>9, <1>10 DEF base, total, L

\* The buffers of a thread hold the newlines of its range, in order: newline b is
\* in buffer (b - From) \div buffer.
LEMMA BufferBounds ==
  ASSUME conf \in Requests, NEW q \in 0..(Passes - 1), NEW p \in 0..(Threads(q) - 1)
  PROVE  /\ Buffers(q, p) \in Nat
         /\ Buffers(q, p) > 1 <=> To(q, p) - From(q, p) > conf.buffer
         /\ \A c \in 0..(Buffers(q, p) - 1) :
              /\ BufferFrom(q, p, c) \in Nat
              /\ BufferBytes(q, p, c) \in Nat
              /\ \A b \in NewlinesAt(q, p, c) :
                   b \in NewlinesOf(q, p) /\ (b - From(q, p)) \div conf.buffer = c
         /\ \A b \in NewlinesOf(q, p) :
              /\ (b - From(q, p)) \div conf.buffer \in 0..(Buffers(q, p) - 1)
              /\ b \in NewlinesAt(q, p, (b - From(q, p)) \div conf.buffer)
         /\ \A c, d \in 0..(Buffers(q, p) - 1) :
              c < d => \A a \in NewlinesAt(q, p, c), b \in NewlinesAt(q, p, d) : a < b
<1>1. conf.buffer \in Nat \ {0} /\ conf.newlines \in SUBSET Nat
  <2>1. conf.newlines \in SUBSET (0..(conf.size - 1)) /\ conf.size \in Nat
    BY RequestsAssumption
  <2>2. 0..(conf.size - 1) \subseteq Nat
    BY <2>1
  <2> QED BY <2>1, <2>2, RequestsAssumption
<1>2. From(q, p) \in Nat /\ To(q, p) \in Nat /\ From(q, p) <= To(q, p)
  BY RangeBounds
<1> DEFINE from == From(q, p)
           to == To(q, p)
           C == Buffers(q, p)
           first(c) == BufferFrom(q, p, c)
           bytes(c) == BufferBytes(q, p, c)
<1>3. /\ C \in Nat
      /\ C > 1 <=> to - from > conf.buffer
      /\ \A c \in 0..(C - 1) :
           /\ first(c) \in Nat
           /\ bytes(c) \in Nat
           /\ \A b \in first(c)..(first(c) + bytes(c) - 1) :
                b \in from..(to - 1) /\ (b - from) \div conf.buffer = c
      /\ \A c, d \in 0..(C - 1) : c < d => first(c) + bytes(c) <= first(d)
      /\ \A b \in from..(to - 1) :
           /\ (b - from) \div conf.buffer \in 0..(C - 1)
           /\ b \in first((b - from) \div conf.buffer)
                     ..(first((b - from) \div conf.buffer)
                          + bytes((b - from) \div conf.buffer) - 1)
  BY <1>1, <1>2, BufferTiles DEF BuffersTile, Buffers, BufferFrom, BufferBytes
<1>4. /\ \A c : NewlinesAt(q, p, c) = conf.newlines \cap (first(c)..(first(c) + bytes(c) - 1))
      /\ NewlinesOf(q, p) = conf.newlines \cap (from..(to - 1))
  BY DEF NewlinesAt, NewlinesOf
<1> HIDE DEF from, to, C, first, bytes
<1>5. ASSUME NEW c \in 0..(C - 1), NEW d \in 0..(C - 1), c < d,
             NEW a \in NewlinesAt(q, p, c), NEW b \in NewlinesAt(q, p, d)
      PROVE  a < b
  <2>1. /\ first(c) + bytes(c) <= first(d)
        /\ first(c) \in Nat /\ bytes(c) \in Nat /\ first(d) \in Nat
    BY <1>3, <1>5
  <2>2. a \in Nat /\ b \in Nat /\ a <= first(c) + bytes(c) - 1 /\ first(d) <= b
    BY <1>1, <1>4, <2>1
  <2> QED BY <2>1, <2>2
<1>6. ASSUME NEW c \in 0..(C - 1)
      PROVE  /\ first(c) \in Nat
             /\ bytes(c) \in Nat
             /\ \A b \in NewlinesAt(q, p, c) :
                  b \in NewlinesOf(q, p) /\ (b - from) \div conf.buffer = c
  BY <1>3, <1>4
<1>7. ASSUME NEW b \in NewlinesOf(q, p)
      PROVE  /\ (b - from) \div conf.buffer \in 0..(C - 1)
             /\ b \in NewlinesAt(q, p, (b - from) \div conf.buffer)
  BY <1>3, <1>4
<1> QED BY <1>3, <1>5, <1>6, <1>7 DEF from, to, C, first, bytes

-----------------------------------------------------------------------------
(* The scan of a buffer *)

\* The list after one more byte.
ScanNext(list, from, k) ==
  IF from + k - 1 \in conf.newlines THEN <<from + k>> \o list ELSE list

\* scan[k] is the list after k of the read bytes.
IsScan(scan, from, read) ==
  /\ scan = [k \in 0..read |-> scan[k]]
  /\ scan[0] = <<>>
  /\ \A k \in 1..read : scan[k] = ScanNext(scan[k - 1], from, k)

\* The loop over the bytes is defined for reads of every length.
LEMMA ScanDefined ==
  ASSUME NEW from
  PROVE  \A read \in Nat : \E scan : IsScan(scan, from, read)
<1> DEFINE T == {n \in Nat : \E scan : IsScan(scan, from, n)}
<1>1. 0 \in T
  <2>1. IsScan([k \in 0..0 |-> <<>>], from, 0)
    BY DEF IsScan
  <2> QED BY <2>1
<1>2. ASSUME NEW n \in Nat, n \in T PROVE n + 1 \in T
  <2>1. PICK w : IsScan(w, from, n)
    BY <1>2
  <2> DEFINE v == [k \in 0..(n + 1) |->
                     IF k = n + 1 THEN ScanNext(w[n], from, n + 1) ELSE w[k]]
  <2>2. \A k \in 0..n : v[k] = w[k]
    OBVIOUS
  <2>3. v[n + 1] = ScanNext(v[n], from, n + 1)
    BY <2>2
  <2>4. ASSUME NEW k \in 1..(n + 1)
        PROVE  v[k] = ScanNext(v[k - 1], from, k)
    <3>1. CASE k = n + 1
      <4>1. k - 1 = n
        BY <3>1
      <4> HIDE DEF v
      <4> QED BY <2>3, <3>1, <4>1
    <3>2. CASE k # n + 1
      <4>1. k \in 0..n /\ k - 1 \in 0..n /\ k \in 1..n
        BY <3>2
      <4> QED BY <2>1, <2>2, <4>1 DEF IsScan
    <3> QED BY <3>1, <3>2
  <2>5. v = [k \in 0..(n + 1) |-> v[k]] /\ v[0] = <<>>
    BY <2>1, <2>2 DEF IsScan
  <2> HIDE DEF v
  <2>6. IsScan(v, from, n + 1)
    BY <2>4, <2>5 DEF IsScan
  <2> QED BY <2>6
<1> HIDE DEF T
<1>3. Nat \subseteq T
  BY <1>1, <1>2, SetInduction
<1> QED BY <1>3 DEF T

\* Scan is where the loop ends.
LEMMA ScanEnd ==
  ASSUME NEW from, NEW read \in Nat
  PROVE  \E scan : IsScan(scan, from, read) /\ Scan(from, read) = scan[read]
<1> DEFINE Body(x) == [k \in 0..read |->
             IF k = 0 THEN <<>> ELSE ScanNext(x[k - 1], from, k)]
           v == CHOOSE x : x = Body(x)
<1>1. PICK w : IsScan(w, from, read)
  BY ScanDefined
<1>2. w = Body(w)
  <2>1. \A k \in 0..read : k # 0 => k \in 1..read
    OBVIOUS
  <2> QED BY <1>1, <2>1 DEF IsScan
<1>3. v = Body(v)
  <2> HIDE DEF Body
  <2> QED BY <1>2
<1>4. Scan(from, read) = v[read]
  BY DEF Scan, ScanNext
<1>5. IsScan(v, from, read)
  <2> HIDE DEF v
  <2>1. v = [k \in 0..read |-> v[k]]
    BY <1>3
  <2>2. v[0] = <<>>
    BY <1>3
  <2>3. \A k \in 1..read : v[k] = ScanNext(v[k - 1], from, k)
    BY <1>3
  <2> QED BY <2>1, <2>2, <2>3 DEF IsScan
<1> QED BY <1>4, <1>5

\* A one-element list.
LEMMA SingleList ==
  ASSUME NEW a \in Nat
  PROVE  <<a>> \in Seq(Nat) /\ Descending(<<a>>) /\ Elements(<<a>>) = {a}
BY DEF Descending, Elements

\* A list has the lines that begin after newlines of a set, the last one first.
Listing(list, newlines) ==
  /\ list \in Seq(Nat)
  /\ Descending(list)
  /\ Elements(list) = LinesAfter(newlines)

\* f_index_text_bytes lists the lines that begin after the newlines among the
\* bytes it read, the last one first.
LEMMA ScanResult ==
  ASSUME conf.newlines \in SUBSET Nat, NEW from \in Nat, NEW read \in Nat
  PROVE  Listing(Scan(from, read), conf.newlines \cap (from..(from + read - 1)))
<1>1. PICK w : IsScan(w, from, read) /\ Scan(from, read) = w[read]
  BY ScanEnd
<1> DEFINE Good(k) == Listing(w[k], conf.newlines \cap (from..(from + k - 1)))
           T == {k \in Nat : k <= read => Good(k)}
<1>2. 0 \in T
  <2>1. w[0] = <<>> /\ <<>> \in Seq(Nat)
    BY <1>1, EmptySeq DEF IsScan
  <2>2. LinesAfter(conf.newlines \cap (from..(from + 0 - 1))) = {}
    BY DEF LinesAfter
  <2> QED BY <2>1, <2>2, ElementsEmpty DEF Listing
<1>3. ASSUME NEW k \in Nat, k \in T PROVE k + 1 \in T
  <2> SUFFICES ASSUME k + 1 <= read PROVE Good(k + 1)
    OBVIOUS
  <2>1. Good(k)
    BY <1>3
  <2>2. w[k + 1] = ScanNext(w[k], from, k + 1)
    <3>1. k + 1 \in 1..read /\ (k + 1) - 1 = k
      OBVIOUS
    <3>2. w[k + 1] = ScanNext(w[(k + 1) - 1], from, k + 1)
      BY <1>1, <3>1 DEF IsScan
    <3> QED BY <3>1, <3>2
  <2> DEFINE before == conf.newlines \cap (from..(from + k - 1))
             after  == conf.newlines \cap (from..(from + (k + 1) - 1))
             b == from + k
  <2>3. /\ from + (k + 1) - 1 = b
        /\ from + (k + 1) = b + 1
        /\ after = before \cup (conf.newlines \cap {b})
        /\ \A a \in before : a < b
        /\ b \in Nat
    OBVIOUS
  <2>4. CASE b \in conf.newlines
    <3>1. w[k + 1] = <<b + 1>> \o w[k]
      BY <2>2, <2>3, <2>4 DEF ScanNext
    <3>2. LinesAfter(after) = {b + 1} \cup LinesAfter(before)
      BY <2>3, <2>4 DEF LinesAfter
    <3>3. <<b + 1>> \in Seq(Nat) /\ Descending(<<b + 1>>) /\ Elements(<<b + 1>>) = {b + 1}
      <4>1. b + 1 \in Nat
        BY <2>3
      <4> QED BY <4>1, SingleList
    <3>4. \A a \in LinesAfter(before) : b + 1 > a
      BY <2>3 DEF LinesAfter
    <3> HIDE DEF before, after, b
    <3>5. w[k] \in Seq(Nat) /\ Descending(w[k]) /\ Elements(w[k]) = LinesAfter(before)
      BY <2>1 DEF before, Listing
    <3>6. \A a \in Elements(<<b + 1>>), c \in Elements(w[k]) : a > c
      BY <3>3, <3>4, <3>5
    <3>7. Descending(<<b + 1>> \o w[k])
      BY <3>3, <3>5, <3>6, DescendingConcat
    <3>8. Elements(<<b + 1>> \o w[k]) = {b + 1} \cup LinesAfter(before)
      BY <3>3, <3>5, ElementsConcat
    <3>9. <<b + 1>> \o w[k] \in Seq(Nat)
      BY <3>3, <3>5, ConcatProperties
    <3> QED BY <3>1, <3>2, <3>7, <3>8, <3>9 DEF after, Listing
  <2>5. CASE b \notin conf.newlines
    <3>1. w[k + 1] = w[k]
      BY <2>2, <2>3, <2>5 DEF ScanNext
    <3>2. after = before
      BY <2>3, <2>5
    <3> QED BY <2>1, <3>1, <3>2
  <2> QED BY <2>4, <2>5
<1> HIDE DEF T, Good
<1>4. read \in T
  BY <1>2, <1>3, SetInduction
<1> QED BY <1>1, <1>4 DEF T, Good

\* The newlines of a request are positions in its file.
LEMMA NewlinesFinite ==
  ASSUME conf \in Requests
  PROVE  conf.newlines \in SUBSET Nat /\ IsFiniteSet(conf.newlines)
<1>1. conf.newlines \in SUBSET (0..(conf.size - 1)) /\ conf.size \in Nat
  BY RequestsAssumption
<1>2. IsFiniteSet(0..(conf.size - 1)) /\ 0..(conf.size - 1) \subseteq Nat
  BY <1>1, FS_Interval
<1> QED BY <1>1, <1>2, FS_Subset

\* A coroutine that does not fail sends a scanned chunk.
LEMMA IndexBytesScans ==
  ASSUME conf \in Requests, pass \in 0..(Passes - 1), NEW p \in 0..(Threads(pass) - 1),
         NEW c \in 0..(Buffers(pass, p) - 1),
         NEW read \in BytesRead(BufferBytes(pass, p, c)),
         NEW list, list = Scan(BufferFrom(pass, p, c), read)
  PROVE  Scanned(pass, p, c, NewChunk(c, list, Len(list)))
<1> DEFINE from == BufferFrom(pass, p, c)
           bytes == BufferBytes(pass, p, c)
<1>1. from \in Nat /\ bytes \in Nat /\ Buffers(pass, p) \in Nat
  BY BufferBounds
<1>2. conf.newlines \in SUBSET Nat
  BY NewlinesFinite
<1>3. read \in 0..bytes /\ (~ShortOf(conf) => read = bytes)
  BY <1>1 DEF BytesRead, ShortOf
<1>4. /\ list \in Seq(Nat)
      /\ Descending(list)
      /\ Elements(list) = LinesAfter(conf.newlines \cap (from..(from + read - 1)))
  <2>1. read \in Nat
    BY <1>1, <1>3
  <2>2. Listing(Scan(from, read), conf.newlines \cap (from..(from + read - 1)))
    BY <1>1, <1>2, <2>1, ScanResult
  <2> HIDE DEF from
  <2>3. Listing(list, conf.newlines \cap (from..(from + read - 1)))
    BY <2>2 DEF from
  <2> QED BY <2>3 DEF Listing
<1>5. NewlinesAt(pass, p, c) = conf.newlines \cap (from..(from + bytes - 1))
  BY DEF NewlinesAt
<1> HIDE DEF from, bytes
<1>6. conf.newlines \cap (from..(from + read - 1))
        \subseteq conf.newlines \cap (from..(from + bytes - 1))
  BY <1>1, <1>3
<1>7. /\ Elements(list) \subseteq LinesAfter(NewlinesAt(pass, p, c))
      /\ ~ShortOf(conf) => Elements(list) = LinesAfter(NewlinesAt(pass, p, c))
  BY <1>3, <1>4, <1>5, <1>6 DEF LinesAfter
<1> DEFINE chunk == NewChunk(c, list, Len(list))
<1>8. /\ chunk \in Chunk(Nat)
      /\ chunk.current = c /\ chunk.first = list /\ chunk.line_count = Len(list)
      /\ Proper(chunk)
  <2>1. c \in Nat /\ Len(list) \in Nat /\ Tail1(list) \in Nat
    BY <1>1, <1>4, TailNat, LenProperties
  <2> QED BY <1>4, <2>1 DEF NewChunk, Chunk, Proper
<1> HIDE DEF chunk
<1> QED BY <1>4, <1>7, <1>8 DEF Scanned, chunk

-----------------------------------------------------------------------------
(* Steps of the threads *)

\* What a thread has found does not depend on the variables but for the request
\* and the pass.
LEMMA DataFrozen ==
  ASSUME conf' = conf, pass' = pass, NEW p, DataOK(p, worker'[p])
  PROVE  DataOK(p, worker[p])'
<1>1. /\ Buffers(pass, p)' = Buffers(pass, p)
      /\ Threads(pass)' = Threads(pass)
  BY PassFrozen, DivisionFrozen
<1>2. \A c, chunk : Scanned(pass, p, c, chunk)' <=> Scanned(pass, p, c, chunk)
  BY DEF Scanned, NewlinesAt, BufferFrom, BufferBytes, From, To, BytesIn, Threads, ShortOf
<1>3. FaultyOf(conf)' <=> FaultyOf(conf)
  BY DEF FaultyOf
<1> QED BY <1>1, <1>2, <1>3 DEF DataOK, Apart, Found

LEMMA DataIdle == \A p : DataOK(p, Idle) /\ DataOK(p, Idle)'
<1>1. Found(Idle) = {} /\ IsFiniteSet({}) /\ Cardinality({}) = 0
  BY FS_EmptySet DEF Found, Idle
<1>2. /\ Idle.pc = "none" /\ Idle.running = {} /\ Idle.sent = {}
      /\ DOMAIN Idle.slots = {} /\ Idle.lines = 0 /\ Idle.result = NoChunk
  BY DEF Idle
<1>3. Apart(Idle)
  BY <1>2 DEF Apart
<1> QED BY <1>1, <1>2, <1>3 DEF DataOK

\* A step of a thread that neither launches, sends nor receives.
LEMMA DataSame ==
  ASSUME NEW p, NEW w, NEW v, DataOK(p, w), w.pc \notin {"none", "exited"},
         v.running = w.running, v.sent = w.sent, v.slots = w.slots,
         v.lines = w.lines, v.result = w.result,
         v.pc = "exited" => FaultyOf(conf)
  PROVE  DataOK(p, v)
<1>1. Found(v) = Found(w) /\ Apart(v)
  BY DEF Found, DataOK, Apart
<1> QED BY <1>1 DEF DataOK

\* The buffers of a thread are known while it may launch or receive one.
LEMMA ThreadOfPass ==
  ASSUME JoinInv, NEW p \in ThreadIds, DataOK(p, worker[p]), Active(p)
  PROVE  /\ conf \in Requests
         /\ pass \in 0..(Passes - 1)
         /\ p \in 0..(Threads(pass) - 1)
<1>1. conf \in Requests /\ pass \in 0..(Passes - 1)
  BY DEF JoinInv, LoopsOK
<1>2. Threads(pass) \in 1..MaxThreads /\ MaxThreads \in Nat
  BY <1>1, ThreadsBounds, RequestsAssumption
<1>3. p < Threads(pass)
  BY DEF DataOK, Active
<1> QED BY <1>1, <1>2, <1>3 DEF ThreadIds

LEMMA DataLaunch ==
  ASSUME JoinInv, NEW p \in ThreadIds, ThreadOK(p, worker[p]),
         DataOK(p, worker[p]), Launch(p)
  PROVE  DataOK(p, worker'[p])
<1> DEFINE w == worker[p]
           v == worker'[p]
<1>1. /\ w.pc = "launch" /\ v.pc \in {"launch", "receive"}
      /\ v.running = w.running \cup {w.next}
      /\ v.sent = w.sent /\ v.slots = w.slots
      /\ v.lines = w.lines /\ v.result = w.result
  BY LaunchFields DEF ThreadOK, Fields
<1>2. p \in 0..(Threads(pass) - 1) /\ conf \in Requests /\ pass \in 0..(Passes - 1)
  BY <1>1, ThreadOfPass DEF Active
<1>3. w.base \in Nat /\ w.base < Buffers(pass, p) /\ w.next \in w.base..(BatchEnd(p, w.base) - 1)
  BY <1>1 DEF ThreadOK, Counters, InBatch
<1>4. w.next \in Nat /\ w.next \in 0..(Buffers(pass, p) - 1)
  <2>1. BatchEnd(p, w.base) \in Nat /\ BatchEnd(p, w.base) <= Buffers(pass, p)
    BY <1>2, <1>3, BatchEndBounds
  <2>2. Buffers(pass, p) \in Nat
    BY <1>2, BufferBounds
  <2> QED BY <1>3, <2>1, <2>2
<1>5. w.next \notin DOMAIN w.slots
  <2>1. DOMAIN w.slots \subseteq 0..(w.next - 1)
    BY <1>1 DEF ThreadOK, Coverage
  <2> QED BY <1>4, <2>1
<1> HIDE DEF w, v
<1>6. DataOK(p, w)
  BY DEF w
<1>7. Found(v) = Found(w) /\ Apart(v)
  BY <1>1, <1>5, <1>6 DEF Found, DataOK, Apart
<1>8. DataOK(p, v)
  BY <1>1, <1>4, <1>6, <1>7 DEF DataOK
<1> QED BY <1>8 DEF v

LEMMA DataSend ==
  ASSUME JoinInv, NEW p \in ThreadIds, ThreadOK(p, worker[p]),
         DataOK(p, worker[p]), worker[p].pc \in {"launch", "receive"},
         NEW c \in worker[p].running, NEW chunk,
         (chunk = NoChunk /\ FaultyOf(conf)) \/ Scanned(pass, p, c, chunk),
         Send(p, c, chunk)
  PROVE  DataOK(p, worker'[p])
<1> DEFINE w == worker[p]
           v == worker'[p]
           m == [from |-> c, chunk |-> chunk]
<1>1. /\ v.running = w.running \ {c}
      /\ v.sent = w.sent \cup {m}
      /\ \A f \in Fields \ {"running", "sent"} : v[f] = w[f]
  BY SendFields DEF ThreadOK
<1>2. v.pc = w.pc /\ v.slots = w.slots /\ v.lines = w.lines /\ v.result = w.result
  BY <1>1 DEF Fields
<1>3. \A n \in w.sent : n.from # c
  BY DEF ThreadOK, Coverage
<1>4. m.from = c /\ m.chunk = chunk /\ c \in w.running
  OBVIOUS
<1> HIDE DEF w, v, m
<1>5. DataOK(p, w)
  BY DEF w
<1>6. Found(v) = Found(w) /\ Apart(v)
  BY <1>1, <1>2, <1>3, <1>4, <1>5 DEF Found, DataOK, Apart
<1>7. \A n \in v.sent :
        /\ n.from \in 0..(Buffers(pass, p) - 1)
        /\ (n.chunk = NoChunk /\ FaultyOf(conf)) \/ Scanned(pass, p, n.from, n.chunk)
  BY <1>1, <1>4, <1>5 DEF DataOK
<1>8. DataOK(p, v)
  BY <1>1, <1>2, <1>5, <1>6, <1>7 DEF DataOK
<1> QED BY <1>8 DEF v

\* The chunks of different buffers have no line in common.
LEMMA ScannedApart ==
  ASSUME conf \in Requests, NEW q \in 0..(Passes - 1), NEW p \in 0..(Threads(q) - 1),
         NEW c \in 0..(Buffers(q, p) - 1), NEW d \in 0..(Buffers(q, p) - 1),
         c < d, NEW x, NEW y, Scanned(q, p, c, x), Scanned(q, p, d, y),
         NEW a \in Elements(x.first), NEW b \in Elements(y.first)
  PROVE  a < b
<1>1. conf.newlines \in SUBSET Nat
  BY NewlinesFinite
<1>2. PICK k \in NewlinesAt(q, p, c) : a = k + 1
  BY DEF Scanned, LinesAfter
<1>3. PICK l \in NewlinesAt(q, p, d) : b = l + 1
  BY DEF Scanned, LinesAfter
<1>4. k < l
  BY BufferBounds
<1>5. k \in Nat /\ l \in Nat
  BY <1>1 DEF NewlinesAt
<1> QED BY <1>2, <1>3, <1>4, <1>5

LEMMA DataReceive ==
  ASSUME JoinInv, NEW p \in ThreadIds, ThreadOK(p, worker[p]),
         DataOK(p, worker[p]), Receive(p)
  PROVE  DataOK(p, worker'[p])
<1> DEFINE w == worker[p]
           v == worker'[p]
<1>1. PICK m \in w.sent :
        /\ m.chunk # NoChunk
        /\ v.sent = w.sent \ {m}
        /\ v.slots = Put(w.slots, m.chunk.current, m.chunk)
        /\ v.lines = w.lines + m.chunk.line_count
  BY ReceiveFields DEF ThreadOK
<1>2. /\ w.pc = "receive" /\ v.pc # "exited"
      /\ v.running = w.running /\ v.result = w.result
  BY ReceiveFields DEF ThreadOK, NextBatch
<1>3. p \in 0..(Threads(pass) - 1) /\ conf \in Requests /\ pass \in 0..(Passes - 1)
  BY <1>2, ThreadOfPass DEF Active
<1>4. m.from \notin w.running
  BY <1>2 DEF ThreadOK, Coverage
<1> HIDE DEF w, v
<1>5. DataOK(p, w)
  BY DEF w
<1> DEFINE c == m.from
           chunk == m.chunk
           B == 0..(Buffers(pass, p) - 1)
<1>6. c \in B /\ Scanned(pass, p, c, chunk) /\ chunk.current = c
  BY <1>1, <1>5 DEF DataOK, Scanned
<1>7. c \notin DOMAIN w.slots /\ \A n \in v.sent : n.from # c
  BY <1>1, <1>5 DEF DataOK, Apart
<1>8. /\ DOMAIN v.slots = DOMAIN w.slots \cup {c}
      /\ \A d \in DOMAIN w.slots : v.slots[d] = w.slots[d]
      /\ v.slots[c] = chunk
  BY <1>1, <1>6, <1>7 DEF Put
<1> HIDE DEF c, chunk, B
<1>9. Found(v) = Found(w) \cup Elements(chunk.first)
  BY <1>8 DEF Found
<1>10. Found(w) \cap Elements(chunk.first) = {}
  <2> SUFFICES ASSUME NEW a \in Found(w), a \in Elements(chunk.first) PROVE FALSE
    OBVIOUS
  <2>1. PICK d \in DOMAIN w.slots : a \in Elements(w.slots[d].first)
    BY DEF Found
  <2>2. d \in B /\ Scanned(pass, p, d, w.slots[d]) /\ d # c
    BY <1>5, <1>7, <2>1 DEF DataOK, B
  <2>3. a \in Nat
    <3>1. conf.newlines \in SUBSET Nat
      BY <1>3, NewlinesFinite
    <3> QED BY <1>6, <3>1 DEF Scanned, LinesAfter, NewlinesAt
  <2>4. Buffers(pass, p) \in Nat /\ (c < d \/ d < c)
    BY <1>3, <1>6, <2>2, BufferBounds DEF B
  <2>5. a < a
    BY <1>3, <1>6, <2>1, <2>2, <2>4, ScannedApart DEF B
  <2> QED BY <2>3, <2>5
<1>11. /\ IsFiniteSet(Elements(chunk.first))
       /\ Cardinality(Elements(chunk.first)) = chunk.line_count
  <2>1. chunk.first \in Seq(Nat) /\ Descending(chunk.first)
    BY <1>6 DEF Scanned, Chunk
  <2> QED BY <1>6, <2>1, DescendingLen DEF Scanned
<1>12. IsFiniteSet(Found(v)) /\ v.lines = Cardinality(Found(v))
  <2>1. IsFiniteSet(Found(w)) /\ w.lines = Cardinality(Found(w)) /\ Cardinality(Found(w)) \in Nat
    BY <1>5, FS_CardinalityType DEF DataOK
  <2>2. /\ IsFiniteSet(Found(w) \cup Elements(chunk.first))
        /\ Cardinality(Found(w) \cup Elements(chunk.first))
             = Cardinality(Found(w)) + Cardinality(Elements(chunk.first))
                 - Cardinality(Found(w) \cap Elements(chunk.first))
    BY <1>11, <2>1, FS_Union
  <2>3. Cardinality(Found(w) \cap Elements(chunk.first)) = 0
    BY <1>10, FS_EmptySet
  <2>4. chunk.line_count \in Nat /\ v.lines = w.lines + chunk.line_count
    BY <1>1, <1>11, FS_CardinalityType DEF chunk
  <2> QED BY <1>9, <1>11, <2>1, <2>2, <2>3, <2>4
<1>13. Apart(v)
  BY <1>1, <1>2, <1>4, <1>5, <1>7, <1>8 DEF DataOK, Apart, c
<1>14. \A d \in DOMAIN v.slots :
         d \in 0..(Buffers(pass, p) - 1) /\ Scanned(pass, p, d, v.slots[d])
  BY <1>5, <1>6, <1>8 DEF DataOK, B
<1>15. v.result = NoChunk
  BY <1>2, <1>5 DEF DataOK
<1>16. DataOK(p, v)
  BY <1>1, <1>2, <1>3, <1>5, <1>12, <1>13, <1>14, <1>15 DEF DataOK
<1> QED BY <1>16 DEF v

LEMMA DataReturn ==
  ASSUME JoinInv, NEW p \in ThreadIds, ThreadOK(p, worker[p]),
         DataOK(p, worker[p]), Return(p)
  PROVE  DataOK(p, worker'[p])
<1> DEFINE w == worker[p]
           v == worker'[p]
<1>1. /\ w.pc = "reduce" /\ v.pc = "exited"
      /\ v.result = ReverseReduce(p, w.slots, Buffers(pass, p), w.lines)
      /\ \A f \in Fields \ {"pc", "result"} : v[f] = w[f]
  BY ReturnFields DEF ThreadOK
<1>2. v.running = w.running /\ v.sent = w.sent /\ v.slots = w.slots /\ v.lines = w.lines
  BY <1>1 DEF Fields
<1>3. DOMAIN w.slots = 0..(Buffers(pass, p) - 1)
  BY <1>1, ReduceReady
<1>4. v.result # NoChunk
  <2>1. Numbered(v.result, p)
    BY <1>1, <1>3, ReduceReady, ReduceNumbers
  <2> QED BY <2>1 DEF Numbered, NoChunk
<1> HIDE DEF w, v
<1>5. DataOK(p, w)
  BY DEF w
<1>6. Found(v) = Found(w) /\ Apart(v)
  BY <1>2, <1>5 DEF Found, DataOK, Apart
<1>7. DataOK(p, v)
  BY <1>1, <1>2, <1>3, <1>4, <1>5, <1>6 DEF DataOK
<1> QED BY <1>7 DEF v

\* Every step of a thread keeps what the threads know.
LEMMA DataThreadStep ==
  ASSUME JoinInv, ThreadInv, DataInv, NEW p \in ThreadIds,
         \/ ThreadStep(p)
         \/ ThreadFails(p)
         \/ ReduceFails(p)
         \/ \E c \in worker[p].running : IndexBytesFails(p, c)
  PROVE  DataInv'
<1>1. /\ Active(p)
      /\ \A q \in ThreadIds \ {p} : worker'[q] = worker[q]
      /\ UNCHANGED <<conf, pass>>
  BY ThreadStepAlone
<1>2. ThreadOK(p, worker[p]) /\ DataOK(p, worker[p]) /\ Fielded(worker[p])
  BY DEF ThreadInv, DataInv, ThreadOK
<1>3. /\ p \in 0..(Threads(pass) - 1)
      /\ conf \in Requests
      /\ pass \in 0..(Passes - 1)
  BY <1>1, <1>2, ThreadOfPass
<1>4. ASSUME NEW label, worker' = [worker EXCEPT ![p].pc = label],
             label = "exited" => FaultyOf(conf)
      PROVE  DataOK(p, worker'[p])
  <2>1. /\ worker'[p].pc = label
        /\ worker'[p].running = worker[p].running /\ worker'[p].sent = worker[p].sent
        /\ worker'[p].slots = worker[p].slots /\ worker'[p].lines = worker[p].lines
        /\ worker'[p].result = worker[p].result
    BY <1>2, <1>4, PcFields DEF Fields
  <2> QED BY <1>1, <1>2, <1>4, <2>1, DataSame DEF Active
<1>5. DataOK(p, worker'[p])
  <2>1. CASE Setup(p)
    <3>1. NextBatch(p, 0) # "exited"
      BY DEF NextBatch
    <3> QED BY <1>4, <2>1, <3>1 DEF Setup
  <2>2. CASE Launch(p)
    BY <1>2, <2>2, DataLaunch
  <2>3. ASSUME NEW c \in worker[p].running, IndexBytes(p, c)
        PROVE  DataOK(p, worker'[p])
    <3>1. PICK read \in BytesRead(BufferBytes(pass, p, c)) :
            Send(p, c, NewChunk(c, Scan(BufferFrom(pass, p, c), read),
                                Len(Scan(BufferFrom(pass, p, c), read))))
      BY <2>3 DEF IndexBytes
    <3> DEFINE list == Scan(BufferFrom(pass, p, c), read)
    <3>2. worker[p].pc \in {"launch", "receive"}
      BY <2>3 DEF IndexBytes, Running
    <3>3. c \in 0..(Buffers(pass, p) - 1)
      BY <1>2 DEF DataOK
    <3>4. Scanned(pass, p, c, NewChunk(c, list, Len(list)))
      BY <1>3, <3>3, IndexBytesScans
    <3>5. Send(p, c, NewChunk(c, list, Len(list)))
      BY <3>1
    <3> HIDE DEF list
    <3> QED BY <1>2, <3>2, <3>4, <3>5, DataSend
  <2>4. CASE Receive(p)
    BY <1>2, <2>4, DataReceive
  <2>5. CASE ReceiveNull(p)
    <3>1. PICK m \in worker[p].sent : m.chunk = NoChunk
      BY <2>5 DEF ReceiveNull
    <3>2. FaultyOf(conf)
      BY <1>2, <3>1 DEF DataOK, Scanned, Chunk, NoChunk
    <3> QED BY <1>4, <2>5, <3>2 DEF ReceiveNull
  <2>6. CASE Return(p)
    BY <1>2, <2>6, DataReturn
  <2>7. CASE ThreadFails(p)
    <3>1. FaultyOf(conf)
      BY <2>7 DEF ThreadFails, FaultyOf
    <3> QED BY <1>4, <2>7, <3>1 DEF ThreadFails
  <2>8. CASE ReduceFails(p)
    <3>1. FaultyOf(conf)
      BY <2>8 DEF ReduceFails, FaultyOf
    <3> QED BY <1>4, <2>8, <3>1 DEF ReduceFails
  <2>9. ASSUME NEW c \in worker[p].running, IndexBytesFails(p, c)
        PROVE  DataOK(p, worker'[p])
    <3>1. worker[p].pc \in {"launch", "receive"}
      BY <2>9 DEF IndexBytesFails, Running
    <3>2. CASE worker' = worker
      BY <1>2, <3>2
    <3>3. CASE Send(p, c, NoChunk)
      <4>1. FaultyOf(conf)
        BY <2>9 DEF IndexBytesFails, FaultyOf
      <4> QED BY <1>2, <3>1, <3>3, <4>1, DataSend
    <3> QED BY <2>9, <3>2, <3>3 DEF IndexBytesFails, FailureMessage
  <2> QED BY <2>1, <2>2, <2>3, <2>4, <2>5, <2>6, <2>7, <2>8, <2>9 DEF ThreadStep
<1>6. ASSUME NEW q \in ThreadIds PROVE DataOK(q, worker'[q])
  BY <1>1, <1>5, <1>6 DEF DataInv
<1>7. ASSUME NEW q \in ThreadIds PROVE DataOK(q, worker[q])'
  BY <1>1, <1>6, DataFrozen
<1> QED BY <1>7 DEF DataInv

-----------------------------------------------------------------------------
(* Steps of the main thread *)

\* A thread that does not exist yet has found nothing, whatever the pass is.
LEMMA DataAbsent ==
  ASSUME conf' = conf, NEW p, ThreadOK(p, worker[p]), DataOK(p, worker[p]), Absent(p),
         worker'[p] = worker[p]
  PROVE  DataOK(p, worker[p])'
<1>1. /\ worker[p].pc = "none"
      /\ worker[p].running = {} /\ worker[p].sent = {} /\ DOMAIN worker[p].slots = {}
  BY DEF Absent, ThreadOK, Counters, Coverage
<1>2. /\ worker[p].result = NoChunk /\ Apart(worker[p]) /\ IsFiniteSet(Found(worker[p]))
      /\ worker[p].lines = Cardinality(Found(worker[p]))
  BY <1>1 DEF DataOK
<1>3. /\ Apart(worker'[p]) /\ IsFiniteSet(Found(worker'[p]))
      /\ worker'[p].lines = Cardinality(Found(worker'[p]))
  BY <1>2
<1>4. Apart(worker[p])' /\ Found(worker[p])' = Found(worker'[p])
  BY <1>3 DEF Apart, Found
<1> QED BY <1>1, <1>2, <1>3, <1>4 DEF DataOK

LEMMA DataMainStep ==
  ASSUME JoinInv, ThreadInv, DataInv, MainStep \/ SpawnFails \/ MainFails
  PROVE  DataInv'
<1>1. conf' = conf
  BY MainFailsStep DEF MainStep, Open, Plan, Spawn, Poll, Join, JoinNull, AppendPass, Close,
         SpawnFails
<1>2. CASE Open
  <2>1. \A p \in ThreadIds : Absent(p) /\ worker'[p] = worker[p]
    BY <1>2 DEF Open, JoinInv, MainInv
  <2> QED BY <1>1, <2>1, DataAbsent DEF ThreadInv, DataInv
<1>3. CASE Plan \/ Poll \/ Join \/ JoinNull \/ Close \/ SpawnFails \/ MainFails
  <2>1. UNCHANGED <<conf, pass, worker>>
    BY <1>3, MainFailsStep DEF Plan, Poll, Join, JoinNull, Close, SpawnFails
  <2>2. ASSUME NEW p \in ThreadIds PROVE DataOK(p, worker[p])'
    BY <2>1, DataFrozen DEF DataInv
  <2> QED BY <2>2 DEF DataInv
<1>4. CASE Spawn
  <2>1. /\ UNCHANGED <<conf, pass>> /\ main = "spawn"
        /\ worker' = [worker EXCEPT ![i].pc = "setup"]
    BY <1>4 DEF Spawn
  <2>2. i \in ThreadIds /\ i < Threads(pass)
    BY <2>1, LoopCounter
  <2>3. \A p \in ThreadIds \ {i} : worker'[p] = worker[p]
    BY <2>1 DEF JoinInv, LoopsOK
  <2>4. ASSUME NEW p \in ThreadIds, p = i
        PROVE  DataOK(p, worker'[p])
    <3>1. Fielded(worker[p]) /\ DataOK(p, worker[p]) /\ worker[p].pc = "none"
      <4>1. i \in Nat /\ p >= i
        BY <2>1, <2>4, LoopCounter
      <4> QED BY <2>1, <4>1 DEF ThreadInv, ThreadOK, DataInv, JoinInv, MainInv, Absent
    <3>2. worker' = [worker EXCEPT ![p].pc = "setup"]
      BY <2>1, <2>4
    <3> DEFINE w == worker[p]
               v == worker'[p]
    <3>3. /\ v.pc = "setup"
          /\ v.running = w.running /\ v.sent = w.sent /\ v.slots = w.slots
          /\ v.lines = w.lines /\ v.result = w.result
      BY <3>1, <3>2, PcFields DEF Fields
    <3> HIDE DEF w, v
    <3>4. DataOK(p, w) /\ w.pc = "none" /\ p < Threads(pass)
      BY <2>2, <2>4, <3>1 DEF w
    <3>5. Found(v) = Found(w) /\ Apart(v)
      BY <3>3, <3>4 DEF Found, DataOK, Apart
    <3>6. DataOK(p, v)
      BY <3>3, <3>4, <3>5 DEF DataOK
    <3> QED BY <3>6 DEF v
  <2>5. ASSUME NEW p \in ThreadIds PROVE DataOK(p, worker'[p])
    BY <2>3, <2>4 DEF DataInv
  <2>6. ASSUME NEW p \in ThreadIds PROVE DataOK(p, worker[p])'
    BY <2>1, <2>5, DataFrozen
  <2> QED BY <2>6 DEF DataInv
<1>5. CASE AppendPass
  <2>1. \A p \in ThreadIds : worker'[p] = Idle
    BY <1>5 DEF AppendPass
  <2>2. ASSUME NEW p \in ThreadIds PROVE DataOK(p, worker[p])'
    <3>1. DataOK(p, Idle)'
      BY DataIdle
    <3> QED BY <2>1, <3>1
  <2> QED BY <2>2 DEF DataInv
<1> QED BY <1>2, <1>3, <1>4, <1>5 DEF MainStep

LEMMA DataInvInit == Init => DataInv
<1> SUFFICES ASSUME Init, NEW p \in ThreadIds PROVE DataOK(p, worker[p])
  BY DEF DataInv
<1>1. worker[p] = Idle
  BY DEF Init
<1> QED BY <1>1, DataIdle

LEMMA DataInvStep == Inv /\ DataInv /\ [Next]_vars => DataInv'
<1> SUFFICES ASSUME Inv, DataInv, [Next]_vars PROVE DataInv'
  OBVIOUS
<1>1. JoinInv /\ ThreadInv
  BY DEF Inv
<1>2. CASE MainStep \/ SpawnFails \/ MainFails
  BY <1>1, <1>2, DataMainStep
<1>3. ASSUME NEW p \in ThreadIds,
             \/ ThreadStep(p)
             \/ ThreadFails(p)
             \/ ReduceFails(p)
             \/ \E c \in worker[p].running : IndexBytesFails(p, c)
      PROVE  DataInv'
  BY <1>1, <1>3, DataThreadStep
<1>4. CASE UNCHANGED vars
  <2>1. UNCHANGED <<conf, pass, worker>>
    BY <1>4 DEF vars
  <2>2. ASSUME NEW p \in ThreadIds PROVE DataOK(p, worker[p])'
    BY <2>1, DataFrozen DEF DataInv
  <2> QED BY <2>2 DEF DataInv
<1> QED BY <1>2, <1>3, <1>4 DEF Next, Fault, Ended

-----------------------------------------------------------------------------
(* What a thread returns *)

\* A thread returns what its coroutines sent.
LEMMA ThreadReturns ==
  ASSUME conf \in Requests, NEW q \in 0..(Passes - 1), q = pass,
         NEW p \in 0..(Threads(q) - 1), NEW w, DataOK(p, w), w.result # NoChunk
  PROVE  ResultOK(q, p, w)
<1> DEFINE n == Buffers(q, p)
           r == w.result
<1>1. n \in Nat /\ p \in Nat
  <2>1. Threads(q) \in Nat
    BY RangeBounds
  <2> QED BY <2>1, BufferBounds
<1>2. /\ DOMAIN w.slots = 0..(n - 1)
      /\ r = ReverseReduce(p, w.slots, n, w.lines)
      /\ \A c \in 0..(n - 1) : Scanned(q, p, c, w.slots[c])
      /\ IsFiniteSet(Found(w)) /\ w.lines = Cardinality(Found(w))
  BY DEF DataOK
<1>3. OffsetsIn(w.slots, n) = Found(w)
  BY <1>2 DEF OffsetsIn, Found
<1>4. Ordered(w.slots, n)
  <2>1. \A c \in 0..(n - 1) : w.slots[c] \in Chunk(Nat) /\ Descending(w.slots[c].first)
    BY <1>2 DEF Scanned
  <2>2. ASSUME NEW c \in 0..(n - 1), NEW d \in 0..(n - 1), c < d,
               NEW a \in Elements(w.slots[c].first), NEW b \in Elements(w.slots[d].first)
        PROVE  a < b
    <3>1. Scanned(q, p, c, w.slots[c]) /\ Scanned(q, p, d, w.slots[d])
      BY <1>2
    <3> QED BY <2>2, <3>1, ScannedApart
  <2> QED BY <2>1, <2>2 DEF Ordered
<1>5. \A c \in 0..(n - 1) : Proper(w.slots[c])
  BY <1>2 DEF Scanned
<1>6. w.lines \in Nat
  BY <1>2, FS_CardinalityType
<1> HIDE DEF n, r
<1>7. /\ r \in Chunk(Nat)
      /\ r.current = p
      /\ r.line_count = w.lines
      /\ Descending(r.first)
      /\ Elements(r.first) \subseteq Found(w)
      /\ (n > 1 => Cardinality(Filled(w.slots, n)) # 1) =>
           Proper(r) /\ Elements(r.first) = Found(w)
  BY <1>1, <1>2, <1>3, <1>4, <1>5, <1>6, ReduceResult
<1>8. Found(w) \subseteq LinesAfter(NewlinesOf(q, p))
  <2> SUFFICES ASSUME NEW c \in 0..(n - 1), NEW a \in Elements(w.slots[c].first)
               PROVE  a \in LinesAfter(NewlinesOf(q, p))
    BY <1>2 DEF Found
  <2>1. PICK b \in NewlinesAt(q, p, c) : a = b + 1
    BY <1>2 DEF Scanned, LinesAfter
  <2>2. b \in NewlinesOf(q, p)
    BY BufferBounds DEF n
  <2> QED BY <2>1, <2>2 DEF LinesAfter
<1>9. ASSUME ~ShortOf(conf) PROVE LinesAfter(NewlinesOf(q, p)) \subseteq Found(w)
  <2> SUFFICES ASSUME NEW b \in NewlinesOf(q, p) PROVE b + 1 \in Found(w)
    BY DEF LinesAfter
  <2>1. PICK c \in 0..(n - 1) : b \in NewlinesAt(q, p, c)
    BY BufferBounds DEF n
  <2>2. b + 1 \in Elements(w.slots[c].first)
    BY <1>2, <1>9, <2>1 DEF Scanned, LinesAfter
  <2> QED BY <1>2, <2>2 DEF Found
<1> QED BY <1>2, <1>7, <1>8, <1>9 DEF ResultOK, n, r

\* The lines of a thread come before those of the threads after it.
LEMMA ThreadsApart ==
  ASSUME conf \in Requests, NEW q \in 0..(Passes - 1),
         NEW j \in 0..(Threads(q) - 1), NEW k \in 0..(Threads(q) - 1), j < k,
         NEW a \in LinesAfter(NewlinesOf(q, j)), NEW b \in LinesAfter(NewlinesOf(q, k))
  PROVE  a < b
<1>1. conf.newlines \in SUBSET Nat
  BY NewlinesFinite
<1>2. PICK x \in NewlinesOf(q, j) : a = x + 1
  BY DEF LinesAfter
<1>3. PICK y \in NewlinesOf(q, k) : b = y + 1
  BY DEF LinesAfter
<1>4. To(q, j) \in Nat /\ From(q, k) \in Nat /\ To(q, j) < From(q, k)
  BY RangeBounds
<1>5. x \in Nat /\ y \in Nat /\ x <= To(q, j) - 1 /\ From(q, k) <= y
  BY <1>1, <1>4 DEF NewlinesOf
<1> QED BY <1>2, <1>3, <1>4, <1>5

\* A thread that has been joined.
LEMMA JoinedResult ==
  ASSUME JoinInv, DataInv, NEW n \in 0..Threads(pass), NEW p \in 0..(n - 1), Joined(n)
  PROVE  /\ p \in ThreadIds /\ p \in 0..(Threads(pass) - 1)
         /\ ResultOK(pass, p, worker[p])
<1>1. conf \in Requests /\ pass \in 0..(Passes - 1)
  BY DEF JoinInv, LoopsOK
<1>2. Threads(pass) \in 1..MaxThreads /\ MaxThreads \in Nat
  BY <1>1, ThreadsBounds, RequestsAssumption
<1>3. p \in ThreadIds /\ p \in 0..(Threads(pass) - 1)
  BY <1>2 DEF ThreadIds
<1>4. DataOK(p, worker[p]) /\ worker[p].result # NoChunk
  BY <1>3 DEF DataInv, Joined
<1> QED BY <1>1, <1>3, <1>4, ThreadReturns

-----------------------------------------------------------------------------
(* What the main thread appends *)

\* The bytes a thread reads are those of LineIndex's job.
LEMMA RangeIs ==
  \A q, p : RangeOf(conf, q, p) = From(q, p)..(To(q, p) - 1)
<1>1. \A q : BytesOf(conf, q) = BytesIn(q) /\ ThreadsOf(conf, q) = Threads(q)
  BY DEF BytesOf, ThreadsOf, BytesIn, Threads
<1> QED BY <1>1 DEF RangeOf, From, To

LEMMA ReadIs ==
  \A q : ReadOf(conf, q) = UNION {NewlinesOf(q, p) : p \in 0..(Threads(q) - 1)}
<1>1. \A q : ThreadsOf(conf, q) = Threads(q)
  BY DEF ThreadsOf, BytesOf, Threads, BytesIn
<1>2. \A q, p : conf.newlines \cap RangeOf(conf, q, p) = NewlinesOf(q, p)
  BY RangeIs DEF NewlinesOf
<1> QED BY <1>1, <1>2 DEF ReadOf

\* In a pass that WholeOf calls whole no array of several chunks has exactly one
\* chunk with a newline.
LEMMA WholeIs ==
  ASSUME conf \in Requests, NEW q \in 0..(Passes - 1), WholeOf(conf, q)
  PROVE  /\ Threads(q) > 1 =>
              Cardinality({p \in 0..(Threads(q) - 1) : NewlinesOf(q, p) # {}}) # 1
         /\ \A p \in 0..(Threads(q) - 1) : Buffers(q, p) > 1 =>
              Cardinality({(b - From(q, p)) \div conf.buffer : b \in NewlinesOf(q, p)}) # 1
<1> DEFINE first(p) == CHOOSE b \in RangeOf(conf, q, p) : \A c \in RangeOf(conf, q, p) : b <= c
           hit == {p \in 0..(Threads(q) - 1) : NewlinesOf(q, p) # {}}
<1>1. ThreadsOf(conf, q) = Threads(q)
  BY DEF ThreadsOf, BytesOf, Threads, BytesIn
<1>2. \A p : conf.newlines \cap RangeOf(conf, q, p) = NewlinesOf(q, p)
  BY RangeIs DEF NewlinesOf
<1>3. /\ Threads(q) > 1 => Cardinality(hit) # 1
      /\ \A p \in hit : Cardinality(RangeOf(conf, q, p)) > conf.buffer =>
           Cardinality({(b - first(p)) \div conf.buffer : b \in NewlinesOf(q, p)}) # 1
  BY <1>1, <1>2 DEF WholeOf
<1>4. ASSUME NEW p \in 0..(Threads(q) - 1), Buffers(q, p) > 1
      PROVE  Cardinality({(b - From(q, p)) \div conf.buffer : b \in NewlinesOf(q, p)}) # 1
  <2>1. CASE p \notin hit
    <3>1. {(b - From(q, p)) \div conf.buffer : b \in NewlinesOf(q, p)} = {}
      BY <2>1
    <3> QED BY <3>1, FS_EmptySet
  <2>2. CASE p \in hit
    <3> DEFINE from == From(q, p)
               to == To(q, p)
    <3>1. from \in Nat /\ to \in Nat /\ from <= to
      BY RangeBounds
    <3>2. RangeOf(conf, q, p) = from..(to - 1)
      BY RangeIs
    <3>3. to - from > conf.buffer
      BY <1>4, BufferBounds
    <3> HIDE DEF from, to
    <3>4. conf.buffer \in Nat
      BY RequestsAssumption
    <3>5. from \in from..(to - 1) /\ \A c \in from..(to - 1) : from <= c
      BY <3>1, <3>3, <3>4
    <3>6. \A b \in from..(to - 1) : (\A c \in from..(to - 1) : b <= c) => b = from
      BY <3>1, <3>5
    <3>7. first(p) = from
      BY <3>2, <3>5, <3>6
    <3>8. Cardinality(from..(to - 1)) > conf.buffer
      <4>1. Cardinality(from..(to - 1)) = (to - 1) - from + 1
        BY <3>1, <3>3, <3>4, FS_Interval
      <4> QED BY <3>1, <3>3, <3>4, <4>1
    <3>9. Cardinality({(b - first(p)) \div conf.buffer : b \in NewlinesOf(q, p)}) # 1
      BY <1>3, <2>2, <3>2, <3>8
    <3> QED BY <3>7, <3>9 DEF from
  <2> QED BY <2>1, <2>2
<1> QED BY <1>3, <1>4

\* In a whole pass in which no read was short a thread returns all it found.
LEMMA WholeResult ==
  ASSUME conf \in Requests, NEW q \in 0..(Passes - 1), q = pass,
         NEW p \in 0..(Threads(q) - 1), NEW w, DataOK(p, w), w.result # NoChunk,
         ~ShortOf(conf), WholeOf(conf, q)
  PROVE  Proper(w.result) /\ Elements(w.result.first) = Found(w)
<1> DEFINE n == Buffers(q, p)
           hit == {(b - From(q, p)) \div conf.buffer : b \in NewlinesOf(q, p)}
<1>1. ResultOK(q, p, w)
  BY ThreadReturns
<1>2. \A c \in 0..(n - 1) : Scanned(q, p, c, w.slots[c])
  BY DEF DataOK
<1>3. \A c \in 0..(n - 1) : w.slots[c].first # <<>> <=> NewlinesAt(q, p, c) # {}
  <2> SUFFICES ASSUME NEW c \in 0..(n - 1)
               PROVE  w.slots[c].first # <<>> <=> NewlinesAt(q, p, c) # {}
    OBVIOUS
  <2>1. /\ Elements(w.slots[c].first) = LinesAfter(NewlinesAt(q, p, c))
        /\ w.slots[c].first \in Seq(Nat)
    BY <1>2 DEF Scanned, Chunk
  <2>2. Elements(w.slots[c].first) = {} <=> w.slots[c].first = <<>>
    BY <2>1, ElementsEmpty
  <2>3. LinesAfter(NewlinesAt(q, p, c)) = {} <=> NewlinesAt(q, p, c) = {}
    BY DEF LinesAfter
  <2> QED BY <2>1, <2>2, <2>3
<1>4. \A c \in 0..(n - 1) : NewlinesAt(q, p, c) # {} <=> c \in hit
  BY BufferBounds
<1>5. hit \subseteq 0..(n - 1)
  BY BufferBounds
<1>6. Filled(w.slots, n) = hit
  <2> HIDE DEF hit, n
  <2> QED BY <1>3, <1>4, <1>5 DEF Filled
<1>7. n > 1 => Cardinality(hit) # 1
  BY WholeIs
<1> HIDE DEF hit, n
<1>8. n > 1 => Cardinality(Filled(w.slots, n)) # 1
  BY <1>6, <1>7
<1> QED BY <1>1, <1>8 DEF ResultOK, n

\* What f_lookup_file_from_chunk gets at the end of a pass.
LEMMA PassAppends ==
  ASSUME JoinInv, DataInv, Joined(Threads(pass)), lines \in Nat,
         NEW r, r = ReverseReduce(0, chunks, Threads(pass), lines)
  PROVE  AppendOK(pass, r)
<1> DEFINE L == Threads(pass)
           result(p) == worker[p].result
<1>1. conf \in Requests /\ pass \in 0..(Passes - 1)
  BY DEF JoinInv, LoopsOK
<1>2. L \in Nat \ {0}
  BY <1>1, RangeBounds
<1>3. \A p \in 0..(L - 1) : chunks[p] = result(p) /\ ResultOK(pass, p, worker[p])
  BY <1>2, JoinedResult DEF Joined
<1>4. IsFiniteSet(FoundBy(L)) /\ lines = Cardinality(FoundBy(L))
  BY DEF Joined
<1>5. Ordered(chunks, L)
  <2>1. \A p \in 0..(L - 1) : chunks[p] \in Chunk(Nat) /\ Descending(chunks[p].first)
    BY <1>3 DEF ResultOK
  <2>2. ASSUME NEW j \in 0..(L - 1), NEW k \in 0..(L - 1), j < k,
               NEW a \in Elements(chunks[j].first), NEW b \in Elements(chunks[k].first)
        PROVE  a < b
    <3>1. ResultOK(pass, j, worker[j]) /\ ResultOK(pass, k, worker[k])
          /\ chunks[j] = result(j) /\ chunks[k] = result(k)
      BY <1>3
    <3>2. a \in LinesAfter(NewlinesOf(pass, j)) /\ b \in LinesAfter(NewlinesOf(pass, k))
      BY <3>1 DEF ResultOK
    <3> QED BY <1>1, <2>2, <3>2, ThreadsApart
  <2> QED BY <2>1, <2>2 DEF Ordered
<1>6. OffsetsIn(chunks, L) \subseteq FoundBy(L)
  BY <1>3 DEF OffsetsIn, FoundBy, ResultOK
<1>7. FoundBy(L) \subseteq LinesAfter(ReadOf(conf, pass))
  <2> SUFFICES ASSUME NEW p \in 0..(L - 1), NEW a \in Found(worker[p])
               PROVE  a \in LinesAfter(ReadOf(conf, pass))
    BY DEF FoundBy
  <2>1. a \in LinesAfter(NewlinesOf(pass, p))
    BY <1>3 DEF ResultOK
  <2>2. NewlinesOf(pass, p) \subseteq ReadOf(conf, pass)
    BY ReadIs
  <2> QED BY <2>1, <2>2 DEF LinesAfter
<1>8. ASSUME ~ShortOf(conf) PROVE LinesAfter(ReadOf(conf, pass)) \subseteq FoundBy(L)
  <2> SUFFICES ASSUME NEW b \in ReadOf(conf, pass) PROVE b + 1 \in FoundBy(L)
    BY DEF LinesAfter
  <2>1. PICK p \in 0..(L - 1) : b \in NewlinesOf(pass, p)
    BY ReadIs
  <2>2. b + 1 \in Found(worker[p])
    BY <1>3, <1>8, <2>1 DEF ResultOK, LinesAfter
  <2> QED BY <2>2 DEF FoundBy
<1>9. ASSUME ~ShortOf(conf), WholeOf(conf, pass)
      PROVE  /\ \A p \in 0..(L - 1) : Proper(chunks[p])
             /\ OffsetsIn(chunks, L) = FoundBy(L)
             /\ L > 1 => Cardinality(Filled(chunks, L)) # 1
  <2>1. ASSUME NEW p \in 0..(L - 1)
        PROVE  Proper(chunks[p]) /\ Elements(chunks[p].first) = Found(worker[p])
    <3>1. p \in ThreadIds /\ chunks[p] = worker[p].result /\ worker[p].result # NoChunk
      BY <1>2, JoinedResult DEF Joined
    <3>2. DataOK(p, worker[p])
      BY <3>1 DEF DataInv
    <3> QED BY <1>1, <1>9, <3>1, <3>2, WholeResult
  <2>2. OffsetsIn(chunks, L) = FoundBy(L)
    BY <2>1 DEF OffsetsIn, FoundBy
  <2>3. ASSUME NEW p \in 0..(L - 1)
        PROVE  chunks[p].first # <<>> <=> NewlinesOf(pass, p) # {}
    <3>1. Elements(chunks[p].first) = LinesAfter(NewlinesOf(pass, p))
          /\ chunks[p].first \in Seq(Nat)
      BY <1>3, <1>9, <2>1 DEF ResultOK, Chunk
    <3>2. Elements(chunks[p].first) = {} <=> chunks[p].first = <<>>
      BY <3>1, ElementsEmpty
    <3>3. LinesAfter(NewlinesOf(pass, p)) = {} <=> NewlinesOf(pass, p) = {}
      BY DEF LinesAfter
    <3> QED BY <3>1, <3>2, <3>3
  <2>4. Filled(chunks, L) = {p \in 0..(L - 1) : NewlinesOf(pass, p) # {}}
    BY <2>3 DEF Filled
  <2> QED BY <1>1, <1>9, <2>1, <2>2, <2>4, WholeIs
<1> HIDE DEF L, result
<1>10. r = ReverseReduce(0, chunks, L, lines)
  BY DEF L
<1>11. /\ r \in Chunk(Nat)
       /\ r.line_count = lines
       /\ Descending(r.first)
       /\ Elements(r.first) \subseteq OffsetsIn(chunks, L)
       /\ (/\ \A p \in 0..(L - 1) : Proper(chunks[p])
           /\ L > 1 => Cardinality(Filled(chunks, L)) # 1)
          => Elements(r.first) = OffsetsIn(chunks, L)
  BY <1>2, <1>5, <1>10, ReduceResult
<1>12. (~ShortOf(conf) /\ WholeOf(conf, pass)) => Elements(r.first) = FoundBy(L)
  BY <1>9, <1>11
<1> QED BY <1>4, <1>6, <1>7, <1>8, <1>11, <1>12 DEF AppendOK, L

-----------------------------------------------------------------------------
(* What the main thread knows *)

\* A pass has at least as many threads as the one after it in the file.
LEMMA ThreadsGrow ==
  ASSUME conf \in Requests, NEW q \in 1..(Passes - 1)
  PROVE  /\ q - 1 \in 0..(Passes - 1)
         /\ Threads(q) <= Threads(q - 1)
<1>1. /\ conf.size \in Nat
      /\ conf.threads \in Nat \ {0}
      /\ conf.buffer \in Nat \ {0}
      /\ conf.maxBytes \in Nat \ {0}
  BY RequestsAssumption
<1>2. PassesTile(Passes, conf.size, conf.maxBytes)
  BY <1>1, PassTiles DEF Passes
<1>3. Passes \in Nat \ {0}
  BY PassesPositive
<1>4. q \in 0..(Passes - 1) /\ q - 1 \in 0..(Passes - 1) /\ q - 1 < Passes - 1
  BY <1>3
<1>5. BytesIn(q) \in 0..conf.maxBytes /\ BytesIn(q - 1) = conf.maxBytes
  BY <1>2, <1>4 DEF PassesTile, BytesIn
<1>6. BytesIn(q) \in Nat /\ BytesIn(q - 1) \in Nat /\ BytesIn(q) <= BytesIn(q - 1)
  BY <1>1, <1>5
<1>7. ThreadCount(conf.threads, BytesIn(q), conf.buffer)
        <= ThreadCount(conf.threads, BytesIn(q - 1), conf.buffer)
  BY <1>1, <1>6, ThreadCountMonotone
<1> QED BY <1>4, <1>7 DEF Threads

\* The joined threads stay as they are.
LEMMA JoinedFrozen ==
  ASSUME NEW n, Joined(n), UNCHANGED <<lines, chunks>>,
         \A p \in 0..(n - 1) : worker'[p] = worker[p]
  PROVE  Joined(n)'
<1>1. FoundBy(n)' = FoundBy(n)
  BY DEF FoundBy, Found
<1> QED BY <1>1 DEF Joined

LEMMA PassInvInit == Init => PassInv
<1> SUFFICES ASSUME Init PROVE PassInv
  OBVIOUS
<1>1. conf \in Requests /\ pass = 0 /\ i = 0 /\ lines = 0 /\ DOMAIN chunks = {} /\ main = "open"
      /\ lookup = [open |-> FALSE, entries |-> <<>>, len |-> 0]
  BY DEF Init
<1>2. 0 \in 0..(Passes - 1)
  BY <1>1, PassesPositive
<1>3. Threads(pass) \in Nat
  BY <1>1, <1>2, RangeBounds
<1>4. <<>> \in Seq(Nat)
  BY EmptySeq
<1> QED BY <1>1, <1>3, <1>4 DEF PassInv

LEMMA PassInvThreadStep ==
  ASSUME Inv, PassInv, NEW p \in ThreadIds,
         \/ ThreadStep(p)
         \/ ThreadFails(p)
         \/ ReduceFails(p)
         \/ \E c \in worker[p].running : IndexBytesFails(p, c)
  PROVE  PassInv' /\ lookup' = lookup
<1>1. JoinInv /\ ThreadInv
  BY DEF Inv
<1>2. /\ Active(p)
      /\ \A q \in ThreadIds \ {p} : worker'[q] = worker[q]
      /\ UNCHANGED <<conf, pass, i>>
      /\ main' \in {main, "killed"}
  BY <1>1, ThreadStepAlone
<1>3. UNCHANGED <<lines, chunks, lookup>>
  <2>1. CASE \/ \E c \in worker[p].running : IndexBytes(p, c)
             \/ \E c \in worker[p].running : IndexBytesFails(p, c)
    BY <2>1 DEF IndexBytes, IndexBytesFails
  <2>2. CASE \/ Setup(p) \/ Launch(p) \/ Receive(p) \/ ReceiveNull(p) \/ Return(p)
             \/ ThreadFails(p) \/ ReduceFails(p)
    BY <2>2 DEF Setup, Launch, Receive, ReceiveNull, Return, ThreadFails, ReduceFails
  <2> QED BY <2>1, <2>2 DEF ThreadStep
<1>4. Threads(pass)' = Threads(pass)
  BY <1>2, DivisionFrozen
<1>5. Threads(pass) \in 1..MaxThreads /\ MaxThreads \in Nat
  BY <1>1, ThreadsBounds, RequestsAssumption DEF JoinInv, LoopsOK
<1>6. ASSUME NEW n \in 0..Threads(pass), Joined(n),
             \A q \in ThreadIds : q < n => Gone(q)
      PROVE  Joined(n)'
  <2>1. \A q \in 0..(n - 1) : q \in ThreadIds /\ Gone(q)
    BY <1>5, <1>6 DEF ThreadIds
  <2>2. \A q \in 0..(n - 1) : worker'[q] = worker[q]
    BY <1>2, <2>1 DEF Active, Gone
  <2> QED BY <1>3, <1>6, <2>2, JoinedFrozen
<1>7. i \in 0..Threads(pass)
  BY DEF PassInv
<1>8. (main = "spawn" => Joined(0)')
  <2> SUFFICES ASSUME main = "spawn" PROVE Joined(0)'
    OBVIOUS
  <2>1. Joined(0)
    BY DEF PassInv
  <2>2. 0 \in 0..Threads(pass) /\ \A q \in ThreadIds : ~(q < 0)
    BY <1>5 DEF ThreadIds
  <2> QED BY <1>6, <2>1, <2>2
<1>9. ASSUME main \in {"poll", "join", "append"} PROVE Joined(i)'
  <2>1. PICK n \in 0..Threads(pass) : n = i
    BY <1>7
  <2>2. Joined(n)
    BY <1>9, <2>1 DEF PassInv
  <2>3. \A q \in ThreadIds : q < n => Gone(q)
    BY <1>1, <1>9, <2>1 DEF JoinInv, MainInv, PassInv
  <2>4. Joined(n)'
    BY <1>6, <2>2, <2>3
  <2>5. i' = n
    BY <1>2, <2>1
  <2> QED BY <2>4, <2>5 DEF Joined, FoundBy
<1>10. main = "append" => i' = Threads(pass)' /\ Joined(Threads(pass))'
  <2> SUFFICES ASSUME main = "append" PROVE i' = Threads(pass)' /\ Joined(Threads(pass))'
    OBVIOUS
  <2>1. i' = Threads(pass)'
    BY <1>2, <1>4 DEF PassInv
  <2>2. Joined(i)'
    BY <1>9
  <2> QED BY <2>1, <2>2 DEF Joined, FoundBy
<1> QED BY <1>2, <1>3, <1>4, <1>8, <1>9, <1>10 DEF PassInv

LEMMA PassInvJoin ==
  ASSUME Inv, DataInv, PassInv, Join
  PROVE  PassInv'
<1>1. JoinInv /\ conf \in Requests /\ pass \in 0..(Passes - 1)
  BY DEF Inv, JoinInv, LoopsOK
<1> DEFINE r == worker[i].result
<1>2. /\ main = "join"
      /\ r # NoChunk
      /\ lines' = lines + r.line_count
      /\ chunks' = Put(chunks, r.current, r)
      /\ i' = i + 1
      /\ main' = IF i + 1 = Threads(pass) THEN "append" ELSE "poll"
      /\ UNCHANGED <<conf, pass, worker, lookup>>
  BY DEF Join, LastJoin
<1>3. i \in Nat /\ i + 1 <= Threads(pass) /\ i \in ThreadIds /\ Threads(pass) \in Nat
  BY <1>1, <1>2, LoopCounter
<1>4. Joined(i)
  BY <1>2 DEF PassInv
<1>5. ResultOK(pass, i, worker[i])
  <2>1. DataOK(i, worker[i]) /\ i \in 0..(Threads(pass) - 1)
    BY <1>3 DEF DataInv
  <2> QED BY <1>1, <1>2, <2>1, ThreadReturns
<1>6. /\ r \in Chunk(Nat) /\ r.current = i
      /\ r.line_count = Cardinality(Found(worker[i]))
      /\ IsFiniteSet(Found(worker[i]))
  BY <1>5 DEF ResultOK
<1> DEFINE n == i + 1
<1>7. /\ DOMAIN chunks' = 0..(n - 1)
      /\ \A p \in 0..(i - 1) : chunks'[p] = chunks[p]
      /\ chunks'[i] = r
  <2>1. DOMAIN chunks = 0..(i - 1)
    BY <1>4 DEF Joined
  <2>2. i \notin 0..(i - 1) /\ (0..(i - 1)) \cup {i} = 0..(n - 1)
    BY <1>3
  <2> HIDE DEF r
  <2>3. chunks' = Put(chunks, i, r)
    BY <1>2, <1>6
  <2> QED BY <2>1, <2>2, <2>3 DEF Put
<1>8. FoundBy(n) = FoundBy(i) \cup Found(worker[i])
  <2>1. 0..(n - 1) = (0..(i - 1)) \cup {i}
    BY <1>3
  <2> HIDE DEF n
  <2> QED BY <2>1 DEF FoundBy
<1>9. FoundBy(i) \cap Found(worker[i]) = {}
  <2> SUFFICES ASSUME NEW p \in 0..(i - 1), NEW a \in Found(worker[p]),
                      a \in Found(worker[i])
               PROVE  FALSE
    BY DEF FoundBy
  <2>1. p \in 0..(Threads(pass) - 1) /\ ResultOK(pass, p, worker[p])
    BY <1>1, <1>3, <1>4, JoinedResult
  <2>2. a \in LinesAfter(NewlinesOf(pass, p)) /\ a \in LinesAfter(NewlinesOf(pass, i))
    BY <1>5, <2>1 DEF ResultOK
  <2>3. p < i /\ i \in 0..(Threads(pass) - 1)
    BY <1>3
  <2>4. a < a
    BY <1>1, <2>1, <2>2, <2>3, ThreadsApart
  <2>5. a \in Nat
    <3>1. conf.newlines \in SUBSET Nat
      BY <1>1, NewlinesFinite
    <3> QED BY <2>2, <3>1 DEF LinesAfter, NewlinesOf
  <2> QED BY <2>4, <2>5
<1>10. /\ IsFiniteSet(FoundBy(n))
       /\ lines' = Cardinality(FoundBy(n))
       /\ lines' \in Nat
  <2>1. IsFiniteSet(FoundBy(i)) /\ lines = Cardinality(FoundBy(i)) /\ lines \in Nat
    BY <1>4, FS_CardinalityType DEF Joined
  <2>2. /\ IsFiniteSet(FoundBy(i) \cup Found(worker[i]))
        /\ Cardinality(FoundBy(i) \cup Found(worker[i]))
             = Cardinality(FoundBy(i)) + Cardinality(Found(worker[i]))
                 - Cardinality(FoundBy(i) \cap Found(worker[i]))
    BY <1>6, <2>1, FS_Union
  <2>3. Cardinality(FoundBy(i) \cap Found(worker[i])) = 0
    BY <1>9, FS_EmptySet
  <2>4. Cardinality(Found(worker[i])) \in Nat
    BY <1>6, FS_CardinalityType
  <2>5. lines' = lines + Cardinality(Found(worker[i]))
    BY <1>2, <1>6
  <2>6. Cardinality(FoundBy(i) \cup Found(worker[i])) = lines + Cardinality(Found(worker[i]))
    BY <2>1, <2>2, <2>3, <2>4
  <2> HIDE DEF n
  <2>7. Cardinality(FoundBy(n)) = lines + Cardinality(Found(worker[i]))
    BY <1>8, <2>6
  <2> QED BY <1>8, <2>1, <2>2, <2>4, <2>5, <2>7
<1>11. \A p \in 0..(n - 1) : worker[p].result # NoChunk /\ chunks'[p] = worker[p].result
  <2>1. \A p \in 0..(i - 1) : worker[p].result # NoChunk /\ chunks[p] = worker[p].result
    BY <1>4 DEF Joined
  <2>2. \A p \in 0..(n - 1) : p \in 0..(i - 1) \/ p = i
    BY <1>3
  <2> HIDE DEF n
  <2> QED BY <1>2, <1>7, <2>1, <2>2
<1>12. Joined(i)'
  <2>1. FoundBy(i)' = FoundBy(n)
    BY <1>2 DEF FoundBy, Found
  <2>2. /\ DOMAIN chunks' = 0..(i' - 1)
        /\ \A p \in 0..(i' - 1) : worker'[p].result # NoChunk /\ chunks'[p] = worker'[p].result
    BY <1>2, <1>7, <1>11
  <2> QED BY <1>10, <2>1, <2>2 DEF Joined
<1>13. \A p \in DOMAIN chunks' : chunks'[p] \in Chunk(Nat)
  <2>1. \A p \in DOMAIN chunks : chunks[p] \in Chunk(Nat)
    BY DEF PassInv
  <2>2. DOMAIN chunks = 0..(i - 1)
    BY <1>4 DEF Joined
  <2>3. \A p \in 0..(n - 1) : p \in 0..(i - 1) \/ p = i
    BY <1>3
  <2> HIDE DEF n, r
  <2> QED BY <1>6, <1>7, <2>1, <2>2, <2>3
<1>14. Threads(pass)' = Threads(pass)
  BY <1>2, DivisionFrozen
<1>15. i' \in 0..Threads(pass)
  BY <1>2, <1>3
<1>16. main' = "append" => i' = Threads(pass)' /\ Joined(Threads(pass))'
  <2>1. main' = "append" => i' = Threads(pass)'
    BY <1>2, <1>14
  <2> QED BY <1>12, <2>1 DEF Joined
<1> HIDE DEF n, r
<1> QED BY <1>2, <1>10, <1>12, <1>13, <1>14, <1>15, <1>16 DEF PassInv

\* What the step that ends a pass adds to the lookup file.
LEMMA AppendAdds ==
  ASSUME JoinInv, DataInv, PassInv, AppendPass
  PROVE  \E r :
           /\ AppendOK(pass, r)
           /\ lookup'.open = TRUE
           /\ lookup'.entries
                = lookup.entries \o (r.first \o (IF pass = 0 THEN <<0>> ELSE <<>>))
           /\ lookup'.len
                = lookup.len + Cardinality(FoundBy(Threads(pass))) + (IF pass = 0 THEN 1 ELSE 0)
           /\ lookup' \in [open : BOOLEAN, entries : Seq(Nat), len : Nat]
<1> DEFINE r == ReverseReduce(0, chunks, Threads(pass), lines)
           last == IF pass = 0 THEN <<0>> ELSE <<>>
<1>1. lookup' = FromChunk(r, pass = 0) /\ main = "append"
  BY DEF AppendPass
<1>2. AppendOK(pass, r)
  BY <1>1, PassAppends DEF PassInv
<1>3. /\ r \in Chunk(Nat)
      /\ r.line_count = Cardinality(FoundBy(Threads(pass)))
      /\ lookup \in [open : BOOLEAN, entries : Seq(Nat), len : Nat]
  BY <1>2 DEF AppendOK, PassInv
<1>4. r.first \in Seq(Nat) /\ r.line_count \in Nat
      /\ lookup.entries \in Seq(Nat) /\ lookup.len \in Nat
  BY <1>3 DEF Chunk
<1>5. last \in Seq(Nat)
  OBVIOUS
<1> HIDE DEF r
<1>6. lookup' = [open    |-> TRUE,
                 entries |-> (lookup.entries \o r.first) \o last,
                 len     |-> lookup.len + r.line_count + (IF pass = 0 THEN 1 ELSE 0)]
  BY <1>1 DEF FromChunk
<1> HIDE DEF last
<1>7. /\ (lookup.entries \o r.first) \o last = lookup.entries \o (r.first \o last)
      /\ (lookup.entries \o r.first) \o last \in Seq(Nat)
  <2>1. lookup.entries \o r.first \in Seq(Nat)
    BY <1>4, ConcatProperties
  <2>2. (lookup.entries \o r.first) \o last \in Seq(Nat)
    BY <1>5, <2>1, ConcatProperties
  <2>3. (lookup.entries \o r.first) \o last = lookup.entries \o (r.first \o last)
    <3> DEFINE s == lookup.entries
               t == r.first
    <3>1. s \in Seq(Nat) /\ t \in Seq(Nat)
      BY <1>4
    <3> HIDE DEF s, t
    <3>2. (s \o t) \o last = s \o (t \o last)
      BY <1>5, <3>1, ConcatAssociative
    <3> QED BY <3>2 DEF s, t
  <2> QED BY <2>2, <2>3
<1>8. lookup.len + r.line_count + (IF pass = 0 THEN 1 ELSE 0) \in Nat
  BY <1>4
<1>9. lookup' \in [open : BOOLEAN, entries : Seq(Nat), len : Nat]
  BY <1>6, <1>7, <1>8
<1> QED BY <1>2, <1>3, <1>6, <1>7, <1>9 DEF last

LEMMA PassInvMainStep ==
  ASSUME Inv, DataInv, PassInv, MainStep \/ SpawnFails \/ MainFails
  PROVE  PassInv'
<1>1. JoinInv /\ conf \in Requests /\ pass \in 0..(Passes - 1)
  BY DEF Inv, JoinInv, LoopsOK
<1>2. Threads(pass) \in Nat \ {0}
  BY <1>1, RangeBounds
<1>3. CASE /\ UNCHANGED <<conf, pass, i, lines, chunks, lookup>>
           /\ main' \in {"null", "killed", "ok"}
  <2>1. Threads(pass)' = Threads(pass)
    BY <1>3, DivisionFrozen
  <2> QED BY <1>3, <2>1 DEF PassInv
<1>4. CASE Close \/ JoinNull \/ SpawnFails \/ MainFails
  BY <1>3, <1>4, MainFailsStep DEF Close, JoinNull, SpawnFails
<1>5. CASE Open
  <2>1. /\ conf' = conf /\ pass' = Passes - 1 /\ main' = "plan" /\ main = "open"
        /\ UNCHANGED <<i, lines, chunks, lookup>>
    BY <1>5 DEF Open
  <2>2. i = 0
    BY <2>1 DEF PassInv
  <2>3. Threads(pass)' = Threads(Passes - 1)
    BY <2>1 DEF Threads, BytesIn
  <2>4. Passes - 1 \in 0..(Passes - 1)
    BY <1>1, PassesPositive
  <2>5. Threads(Passes - 1) \in Nat
    BY <1>1, <2>4, RangeBounds
  <2> QED BY <2>1, <2>2, <2>3, <2>5 DEF PassInv
<1>6. CASE Plan
  <2>1. /\ UNCHANGED <<conf, pass, lookup>> /\ main' = "spawn" /\ i' = 0 /\ lines' = 0
        /\ chunks' = <<>>
    BY <1>6 DEF Plan
  <2>2. Threads(pass)' = Threads(pass)
    BY <2>1, DivisionFrozen
  <2>3. Joined(0)'
    <3>1. FoundBy(0)' = {}
      BY DEF FoundBy
    <3>2. DOMAIN chunks' = 0..(0 - 1)
      BY <2>1
    <3> QED BY <2>1, <3>1, <3>2, FS_EmptySet DEF Joined
  <2> QED BY <1>2, <2>1, <2>2, <2>3 DEF PassInv
<1>7. CASE Spawn
  <2>1. /\ UNCHANGED <<conf, pass, lines, chunks, lookup>> /\ main = "spawn"
        /\ \/ main' = "spawn" /\ i' = i + 1 /\ i + 1 < Threads(pass)
           \/ main' = "poll" /\ i' = 0
    BY <1>7 DEF Spawn
  <2>2. Threads(pass)' = Threads(pass)
    BY <2>1, DivisionFrozen
  <2>3. Joined(0)
    BY <2>1 DEF PassInv
  <2>4. Joined(0)'
    <3>1. \A p \in 0..(0 - 1) : worker'[p] = worker[p]
      OBVIOUS
    <3> QED BY <2>1, <2>3, <3>1, JoinedFrozen
  <2>5. i \in Nat /\ i' \in 0..Threads(pass)
    BY <1>1, <1>2, <2>1, LoopCounter
  <2>6. main' = "poll" => Joined(i)'
    BY <2>1, <2>4 DEF Joined
  <2> QED BY <2>1, <2>2, <2>4, <2>5, <2>6 DEF PassInv
<1>8. CASE Poll
  <2>1. /\ UNCHANGED <<conf, pass, i, lines, worker, chunks, lookup>> /\ main = "poll"
        /\ main' \in {"poll", "join"}
    BY <1>8 DEF Poll
  <2>2. Threads(pass)' = Threads(pass)
    BY <2>1, DivisionFrozen
  <2>3. Joined(i)'
    <3>1. Joined(i)
      BY <2>1 DEF PassInv
    <3> QED BY <2>1, <3>1 DEF Joined, FoundBy, Found
  <2> QED BY <2>1, <2>2, <2>3 DEF PassInv
<1>9. CASE Join
  BY <1>9, PassInvJoin
<1>10. CASE AppendPass
  <2>1. /\ UNCHANGED <<conf, i, lines, chunks>> /\ main = "append"
        /\ \/ pass > 0 /\ pass' = pass - 1 /\ main' = "plan"
           \/ ~(pass > 0) /\ pass' = pass /\ main' = "close"
    BY <1>10 DEF AppendPass
  <2>2. i = Threads(pass)
    BY <2>1 DEF PassInv
  <2>3. i \in 0..Threads(pass')
    <3>1. CASE pass > 0
      <4>1. pass \in 1..(Passes - 1) /\ pass' = pass - 1
        BY <1>1, <2>1, <3>1, PassesPositive
      <4>2. Threads(pass) <= Threads(pass - 1) /\ pass - 1 \in 0..(Passes - 1)
        BY <1>1, <4>1, ThreadsGrow
      <4>3. Threads(pass - 1) \in Nat
        BY <1>1, <4>2, RangeBounds
      <4> QED BY <1>2, <2>2, <4>1, <4>2, <4>3
    <3>2. CASE ~(pass > 0)
      BY <1>2, <2>1, <2>2, <3>2
    <3> QED BY <3>1, <3>2
  <2>4. Threads(pass)' = Threads(pass')
    BY <2>1 DEF Threads, BytesIn
  <2>5. lookup' \in [open : BOOLEAN, entries : Seq(Nat), len : Nat]
    BY <1>1, <1>10, AppendAdds
  <2> QED BY <2>1, <2>3, <2>4, <2>5 DEF PassInv
<1> QED BY <1>4, <1>5, <1>6, <1>7, <1>8, <1>9, <1>10 DEF MainStep

LEMMA PassInvStep == Inv /\ DataInv /\ PassInv /\ [Next]_vars => PassInv'
<1> SUFFICES ASSUME Inv, DataInv, PassInv, [Next]_vars PROVE PassInv'
  OBVIOUS
<1>1. CASE MainStep \/ SpawnFails \/ MainFails
  BY <1>1, PassInvMainStep
<1>2. ASSUME NEW p \in ThreadIds,
             \/ ThreadStep(p)
             \/ ThreadFails(p)
             \/ ReduceFails(p)
             \/ \E c \in worker[p].running : IndexBytesFails(p, c)
      PROVE  PassInv'
  BY <1>2, PassInvThreadStep
<1>3. CASE UNCHANGED vars
  <2>1. UNCHANGED <<conf, main, pass, i, lines, worker, chunks, lookup>>
    BY <1>3 DEF vars
  <2>2. Threads(pass)' = Threads(pass)
    BY <2>1, DivisionFrozen
  <2>3. \A n : Joined(n)' <=> Joined(n)
    BY <2>1 DEF Joined, FoundBy, Found
  <2> QED BY <2>1, <2>2, <2>3 DEF PassInv, Joined, FoundBy, Found
<1> QED BY <1>1, <1>2, <1>3 DEF Next, Fault, Ended

\* The inductive invariant.
AllInv == Inv /\ DataInv /\ PassInv

LEMMA AllInvAlways == Spec => []AllInv
<1>1. Init => AllInv
  BY InvInit, DataInvInit, PassInvInit DEF AllInv
<1>2. AllInv /\ [Next]_vars => AllInv'
  BY InvStep, DataInvStep, PassInvStep DEF AllInv
<1> QED BY <1>1, <1>2, PTL DEF Spec

-----------------------------------------------------------------------------
(* Types *)

LEMMA AllInvTypes == AllInv => TypeOK
<1> SUFFICES ASSUME AllInv PROVE TypeOK
  OBVIOUS
<1>1. /\ JoinInv /\ ThreadInv /\ ReportInv /\ DataInv /\ PassInv
      /\ conf \in Requests /\ pass \in 0..(Passes - 1)
      /\ main \in {"open", "plan", "spawn", "poll", "join", "append", "close"} \cup Final
  BY DEF AllInv, Inv, JoinInv, LoopsOK
<1>2. ASSUME NEW p \in ThreadIds
      PROVE  /\ worker[p].pc \in {"none", "setup", "launch", "receive", "reduce", "exited"}
             /\ worker[p].running \subseteq 0..(Buffers(pass, p) - 1)
             /\ worker[p].result \in ChunkOrNull
             /\ \A c \in DOMAIN worker[p].slots : worker[p].slots[c] \in Chunk(Nat)
  <2>1. Counters(p, worker[p]) /\ DataOK(p, worker[p])
    BY <1>1 DEF ThreadInv, ThreadOK, DataInv
  <2>2. ASSUME worker[p].result # NoChunk PROVE worker[p].result \in Chunk(Nat)
    <3>1. worker[p].pc = "exited"
      BY <2>1, <2>2 DEF DataOK
    <3>2. Threads(pass) \in Nat /\ p \in Nat /\ p < Threads(pass)
      BY <1>1, <2>1, <3>1, RangeBounds, RequestsAssumption DEF DataOK, ThreadIds
    <3>3. p \in 0..(Threads(pass) - 1)
      BY <3>2
    <3> QED BY <1>1, <2>1, <2>2, <3>3, ThreadReturns DEF ResultOK
  <2> QED BY <2>1, <2>2 DEF Counters, DataOK, Scanned, ChunkOrNull
<1>3. seen \in [ThreadIds -> Nat]
  BY <1>1 DEF ReportInv
<1> QED BY <1>1, <1>2, <1>3 DEF TypeOK, PassInv

\* The types of the variables: the loop counter never passes the threads of the
\* pass, and only real chunks get into the arrays and the lookup file.
THEOREM IndexerTypes == Spec => []TypeOK
BY AllInvTypes, AllInvAlways, PTL

-----------------------------------------------------------------------------
(* The refinement *)

\* A request is a job: the newlines that the threads of a pass read come before
\* those of the next pass.
LEMMA ReadBounds ==
  ASSUME conf \in Requests, NEW q \in 0..(Passes - 1)
  PROVE  /\ ReadOf(conf, q) \in SUBSET Nat
         /\ IsFiniteSet(ReadOf(conf, q))
         /\ \A b \in ReadOf(conf, q) :
              b \in PassFrom(q, conf.maxBytes)..(PassFrom(q, conf.maxBytes) + BytesIn(q) - 1)
<1>1. conf.newlines \in SUBSET Nat /\ IsFiniteSet(conf.newlines)
  BY NewlinesFinite
<1>2. ReadOf(conf, q) \subseteq conf.newlines
  BY DEF ReadOf
<1>3. ASSUME NEW b \in ReadOf(conf, q)
      PROVE  b \in PassFrom(q, conf.maxBytes)..(PassFrom(q, conf.maxBytes) + BytesIn(q) - 1)
  <2>1. PICK p \in 0..(Threads(q) - 1) : b \in NewlinesOf(q, p)
    BY ReadIs
  <2>2. /\ PassFrom(q, conf.maxBytes) \in Nat /\ BytesIn(q) \in Nat
        /\ From(q, p) \in Nat /\ To(q, p) \in Nat
        /\ PassFrom(q, conf.maxBytes) <= From(q, p)
        /\ To(q, p) <= PassFrom(q, conf.maxBytes) + BytesIn(q)
    BY RangeBounds
  <2>3. b \in Nat /\ From(q, p) <= b /\ b <= To(q, p) - 1
    BY <1>1, <2>1, <2>2 DEF NewlinesOf
  <2> HIDE DEF From, To
  <2> QED BY <2>2, <2>3
<1> QED BY <1>1, <1>2, <1>3, FS_Subset

LEMMA ReadOrder ==
  ASSUME conf \in Requests, NEW q \in 0..(Passes - 1), NEW r \in 0..(Passes - 1), q < r,
         NEW b \in ReadOf(conf, q), NEW c \in ReadOf(conf, r)
  PROVE  b < c
<1>1. conf.size \in Nat /\ conf.maxBytes \in Nat \ {0}
  BY RequestsAssumption
<1>2. PassFrom(q, conf.maxBytes) + BytesIn(q) <= PassFrom(r, conf.maxBytes)
  BY <1>1, PassTiles DEF Passes, PassesTile, BytesIn
<1>3. /\ PassFrom(q, conf.maxBytes) \in Nat /\ BytesIn(q) \in Nat
      /\ PassFrom(r, conf.maxBytes) \in Nat /\ BytesIn(r) \in Nat
  BY RangeBounds
<1>4. /\ b \in Nat /\ c \in Nat
      /\ b <= PassFrom(q, conf.maxBytes) + BytesIn(q) - 1
      /\ PassFrom(r, conf.maxBytes) <= c
  BY <1>3, ReadBounds
<1> QED BY <1>2, <1>3, <1>4

LEMMA RequestIsJob ==
  ASSUME conf \in Requests
  PROVE  Lines!IsJob(conf)
<1>1. PassesOf(conf) = Passes /\ Passes \in Nat \ {0}
  BY PassesPositive DEF PassesOf, Passes
<1>2. \A S : IsFiniteSet(S) => Lines!IsFiniteSet(S)
  BY DEF Lines!IsFiniteSet, IsFiniteSet
<1>3. \A q \in 0..(Passes - 1) : ReadOf(conf, q) \in SUBSET Nat /\ IsFiniteSet(ReadOf(conf, q))
  BY ReadBounds
<1>4. \A q, r \in 0..(Passes - 1) :
        q < r => \A b \in ReadOf(conf, q), c \in ReadOf(conf, r) : b < c
  BY ReadOrder
<1> QED BY <1>1, <1>2, <1>3, <1>4 DEF Lines!IsJob

\* How LineIndex sees the labels of the main thread.
MidPass == {"plan", "spawn", "poll", "join", "append"}

LEMMA LeftIs ==
  /\ main = "open" => Left = Passes
  /\ main \in MidPass => Left = pass + 1
  /\ main \in {"close"} \cup Final => Left = 0
<1>1. main = "open" => Left = Passes
  BY Zenon DEF Left
<1>2. main \in MidPass => Left = pass + 1
  BY Zenon DEF Left, MidPass
<1>3. main \in {"close"} \cup Final => Left = 0
  BY Zenon DEF Left, Final
<1> QED BY <1>1, <1>2, <1>3

LEMMA LeftIsNext ==
  /\ main' = "open" => Left' = Passes'
  /\ main' \in MidPass => Left' = pass' + 1
  /\ main' \in {"close"} \cup Final => Left' = 0
<1>1. main' = "open" => Left' = Passes'
  BY Zenon DEF Left
<1>2. main' \in MidPass => Left' = pass' + 1
  BY Zenon DEF Left, MidPass
<1>3. main' \in {"close"} \cup Final => Left' = 0
  BY Zenon DEF Left, Final
<1> QED BY <1>1, <1>2, <1>3

LEMMA RefinesInit == Init => Lines!Init
<1> SUFFICES ASSUME Init PROVE Lines!Init
  OBVIOUS
<1>1. conf \in Requests /\ main = "open" /\ lookup = [open |-> FALSE, entries |-> <<>>, len |-> 0]
  BY DEF Init
<1>2. Lines!IsJob(conf)
  BY <1>1, RequestIsJob
<1>3. Left = PassesOf(conf)
  BY <1>1, LeftIs DEF Passes, PassesOf
<1>4. Index = lookup
  BY <1>1 DEF Index
<1> QED BY <1>1, <1>2, <1>3, <1>4 DEF Lines!Init, Lines!NoIndex, Final

\* A step that LineIndex does not see.
LEMMA RefinesStutter ==
  ASSUME UNCHANGED <<conf, lookup>>,
         \/ UNCHANGED <<main, pass>>
         \/ main \in MidPass /\ main' \in MidPass /\ pass' = pass
         \/ main = "open" /\ main' = "plan" /\ pass' = Passes - 1 /\ Passes \in Nat
  PROVE  UNCHANGED Lines!vars
<1>1. Passes' = Passes
  BY DivisionFrozen
<1>2. CASE UNCHANGED <<main, pass>>
  <2>1. Left' = Left
    BY Zenon, <1>1, <1>2 DEF Left
  <2> QED BY <1>2, <2>1 DEF Lines!vars, Index
<1>3. CASE main \in MidPass /\ main' \in MidPass /\ pass' = pass
  <2>1. Left' = Left
    BY <1>3, LeftIs, LeftIsNext
  <2>2. main \notin Final /\ main' \notin Final
    BY <1>3 DEF MidPass, Final
  <2> QED BY <2>1, <2>2 DEF Lines!vars, Index, Final
<1>4. CASE main = "open" /\ main' = "plan" /\ pass' = Passes - 1 /\ Passes \in Nat
  <2>1. main' \in MidPass
    BY <1>4 DEF MidPass
  <2>2. Left = Passes /\ Left' = (Passes - 1) + 1
    BY <1>4, <2>1, LeftIs, LeftIsNext
  <2>3. Left' = Left
    BY <1>4, <2>2
  <2>4. main \notin Final /\ main' \notin Final
    BY <1>4 DEF Final
  <2> QED BY <2>3, <2>4 DEF Lines!vars, Index, Final
<1> QED BY <1>2, <1>3, <1>4

\* A step with which the call fails or the process ends.
LEMMA RefinesFail ==
  ASSUME UNCHANGED conf, FaultyOf(conf),
         \/ main \notin Final /\ main' \in {"null", "killed"}
         \/ main = "null" /\ main' = "killed"
  PROVE  Lines!Fail
<1>1. main' \in Final /\ main' \in {"null", "killed"}
  BY DEF Final
<1>2. Left' = 0
  BY <1>1, LeftIsNext
<1>3. Index' = [open |-> FALSE, entries |-> <<>>, len |-> 0]
  BY <1>1 DEF Index
<1> QED BY <1>1, <1>2, <1>3 DEF Lines!Fail, Lines!NoIndex, Final

\* The part of a sequence behind a first one.
LEMMA Behind ==
  ASSUME NEW s \in Seq(Nat), NEW t \in Seq(Nat)
  PROVE  SubSeq(s \o t, Len(s) + 1, Len(s \o t)) = t
<1> DEFINE u == SubSeq(s \o t, Len(s) + 1, Len(s \o t))
<1>1. /\ s \o t \in Seq(Nat)
      /\ Len(s \o t) = Len(s) + Len(t)
      /\ \A k \in 1..(Len(s) + Len(t)) :
           (s \o t)[k] = IF k <= Len(s) THEN s[k] ELSE t[k - Len(s)]
  BY ConcatProperties
<1>2. Len(s) \in Nat /\ Len(t) \in Nat /\ t \in [1..Len(t) -> Nat]
      /\ s \o t \in [1..Len(s \o t) -> Nat]
  BY <1>1, LenProperties
<1> DEFINE st == s \o t
           l == Len(s)
           m == Len(t)
<1> HIDE DEF st, l, m
<1>3. /\ st \in Seq(Nat) /\ Len(st) = l + m /\ l \in Nat /\ m \in Nat
      /\ \A k \in 1..(l + m) : st[k] = IF k <= l THEN s[k] ELSE t[k - l]
      /\ t \in [1..m -> Nat] /\ st \in [1..(l + m) -> Nat]
  BY <1>1, <1>2 DEF st, l, m
<1>4. \A k \in (l + 1)..(l + m) : st[k] \in Nat
  BY <1>3
<1>5. u = SubSeq(st, l + 1, l + m)
  BY <1>1 DEF st, l, m
<1> HIDE DEF u
<1>6. /\ u \in Seq(Nat)
      /\ Len(u) = IF l + 1 <= l + m THEN l + m - (l + 1) + 1 ELSE 0
      /\ \A k \in 1..(l + m - (l + 1) + 1) : u[k] = st[l + 1 + k - 1]
  BY <1>3, <1>4, <1>5, SubSeqProperties
<1>7. Len(u) = m
  BY <1>3, <1>6
<1>8. \A k \in 1..m : u[k] = t[k]
  <2> SUFFICES ASSUME NEW k \in 1..m PROVE u[k] = t[k]
    OBVIOUS
  <2>1. k \in 1..(l + m - (l + 1) + 1) /\ l + 1 + k - 1 = l + k
    BY <1>3
  <2>2. u[k] = st[l + k]
    BY <1>6, <2>1
  <2>3. l + k \in 1..(l + m) /\ ~(l + k <= l) /\ (l + k) - l = k
    BY <1>3
  <2> QED BY <1>3, <2>2, <2>3
<1>9. u = t
  <2>1. t \in Seq(Nat) /\ Len(t) = Len(u)
    BY <1>7 DEF m
  <2> QED BY <1>6, <1>7, <1>8, <2>1, SeqEqual
<1> QED BY <1>9 DEF u

\* LineIndex speaks of lists and sets as this module does.
LEMMA SameLists ==
  /\ \A S : Lines!Cardinality(S) = Cardinality(S)
  /\ \A s : Lines!Elements(s) = Elements(s)
  /\ \A s : Lines!Descending(s) <=> Descending(s)
  /\ \A S : Lines!LinesAfter(S) = LinesAfter(S)
<1>1. \A S : Lines!Cardinality(S) = Cardinality(S)
  BY DEF Lines!Cardinality, Cardinality, Lines!IsFiniteSet, IsFiniteSet
<1>2. \A s : Lines!Elements(s) = Elements(s)
  BY DEF Lines!Elements, Elements
<1>3. \A s : Lines!Descending(s) <=> Descending(s)
  BY DEF Lines!Descending, Descending
<1>4. \A S : Lines!LinesAfter(S) = LinesAfter(S)
  BY DEF Lines!LinesAfter, LinesAfter
<1> QED BY <1>1, <1>2, <1>3, <1>4

\* The list that the last pass adds ends with the offset of the first line.
LEMMA WithFirstLine ==
  ASSUME NEW s \in Seq(Nat), Descending(s), \A e \in Elements(s) : e > 0, NEW end \in BOOLEAN
  PROVE  LET t == s \o (IF end THEN <<0>> ELSE <<>>)
         IN  /\ t \in Seq(Nat)
             /\ Descending(t)
             /\ Elements(t) = Elements(s) \cup (IF end THEN {0} ELSE {})
<1> DEFINE last == IF end THEN <<0>> ELSE <<>>
           zero == IF end THEN {0} ELSE {}
<1>1. last \in Seq(Nat) /\ Descending(last) /\ Elements(last) = zero
  <2>1. CASE end
    BY <2>1, SingleList
  <2>2. CASE ~end
    BY <2>2, ElementsEmpty, EmptySeq
  <2> QED BY <2>1, <2>2
<1>2. \A e \in zero : e = 0
  OBVIOUS
<1>3. Elements(s) \subseteq Nat
  BY LenProperties DEF Elements
<1> HIDE DEF last, zero
<1>4. \A a \in Elements(s), b \in Elements(last) : a > b
  BY <1>1, <1>2
<1>5. /\ s \o last \in Seq(Nat)
      /\ Descending(s \o last)
      /\ Elements(s \o last) = Elements(s) \cup zero
  BY <1>1, <1>4, ConcatProperties, DescendingConcat, ElementsConcat
<1> QED BY <1>5 DEF last, zero

\* The newlines whose lines the threads found, and those whose lines the chunk of
\* the pass has.
LEMMA NewlinesOfLines ==
  ASSUME NEW S \in SUBSET Nat, IsFiniteSet(S), NEW T, T \subseteq LinesAfter(S)
  PROVE  LET R == {b \in S : b + 1 \in T}
         IN  LinesAfter(R) = T /\ Cardinality(R) = Cardinality(T)
<1> DEFINE R == {b \in S : b + 1 \in T}
<1>1. LinesAfter(R) = T
  BY DEF LinesAfter
<1>2. R \in SUBSET Nat /\ IsFiniteSet(R)
  BY FS_Subset
<1> HIDE DEF R
<1>3. Cardinality(LinesAfter(R)) = Cardinality(R)
  BY <1>2, LinesAfterCount
<1> QED BY <1>1, <1>3 DEF R

\* A pass is appended as LineIndex says.
LEMMA RefinesAppend ==
  ASSUME AllInv, AppendPass
  PROVE  Lines!IndexPass
<1> DEFINE q == pass
           read == ReadOf(conf, q)
           foundby == FoundBy(Threads(q))
           last == IF q = 0 THEN <<0>> ELSE <<>>
           zero == IF q = 0 THEN {0} ELSE {}
<1>1. /\ JoinInv /\ DataInv /\ PassInv
      /\ conf \in Requests /\ q \in 0..(Passes - 1) /\ q \in Nat
  BY PassesPositive DEF AllInv, Inv, JoinInv, LoopsOK
<1>2. PICK r : /\ AppendOK(pass, r)
               /\ lookup'.open = TRUE
               /\ lookup'.entries = lookup.entries \o (r.first \o last)
               /\ lookup'.len = lookup.len + Cardinality(foundby) + (IF q = 0 THEN 1 ELSE 0)
               /\ lookup' \in [open : BOOLEAN, entries : Seq(Nat), len : Nat]
  BY <1>1, AppendAdds
<1>3. /\ r \in Chunk(Nat)
      /\ Descending(r.first)
      /\ Elements(r.first) \subseteq foundby
      /\ foundby \subseteq LinesAfter(read)
      /\ ~ShortOf(conf) => foundby = LinesAfter(read)
      /\ (~ShortOf(conf) /\ WholeOf(conf, q)) => Elements(r.first) = foundby
  BY <1>2 DEF AppendOK
<1>4. read \in SUBSET Nat /\ IsFiniteSet(read)
  BY <1>1, ReadBounds
<1>5. r.first \in Seq(Nat) /\ lookup.entries \in Seq(Nat)
  BY <1>1, <1>3 DEF Chunk, PassInv
<1> DEFINE added == r.first \o last
           found == {b \in read : b + 1 \in foundby}
           kept == {b \in read : b + 1 \in Elements(r.first)}
<1> HIDE DEF read, foundby
<1>6. \A e \in Elements(r.first) : e > 0
  BY <1>3, <1>4 DEF LinesAfter
<1>7. added \in Seq(Nat) /\ Descending(added) /\ Elements(added) = Elements(r.first) \cup zero
  BY <1>3, <1>5, <1>6, WithFirstLine
<1>8. LinesAfter(found) = foundby /\ Cardinality(found) = Cardinality(foundby)
  BY <1>3, <1>4, NewlinesOfLines
<1>9. LinesAfter(kept) = Elements(r.first)
  <2>1. Elements(r.first) \subseteq LinesAfter(read)
    BY <1>3
  <2> QED BY <1>4, <2>1, NewlinesOfLines
<1>10. /\ found \in SUBSET read
       /\ kept \in SUBSET found
       /\ ~ShortOf(conf) => found = read
       /\ (~ShortOf(conf) /\ WholeOf(conf, q)) => kept = found
  BY <1>3 DEF LinesAfter
<1>11. /\ main = "append" /\ main' \in {"plan", "close"} /\ UNCHANGED conf
       /\ main' = "plan" => pass' = pass - 1
       /\ main' = "plan" <=> pass > 0
  BY <1>1 DEF AppendPass
<1>12. Left = q + 1 /\ Left' = q /\ Left > 0 /\ (Left = 1 <=> q = 0) /\ Left - 1 = q
  <2>1. Left = q + 1
    BY <1>11, LeftIs DEF MidPass
  <2>2. Left' = q
    <3>1. CASE main' = "plan"
      <4>1. Left' = pass' + 1
        BY <3>1, LeftIsNext DEF MidPass
      <4> QED BY <1>1, <1>11, <3>1, <4>1
    <3>2. CASE main' = "close"
      <4>1. Left' = 0 /\ pass = 0
        BY <1>1, <1>11, <3>2, LeftIsNext
      <4> QED BY <4>1
    <3> QED BY <1>11, <3>1, <3>2
  <2> QED BY <1>1, <2>1, <2>2
<1>13. Index = lookup /\ Index' = lookup'
  BY <1>11 DEF Index
<1>14. main \notin Final /\ main' \notin Final
  BY <1>11 DEF Final
<1>15. Lines!Added = added
  <2>1. Lines!Added = SubSeq(Index'.entries, Len(Index.entries) + 1, Len(Index'.entries))
    BY DEF Lines!Added
  <2>2. Index.entries = lookup.entries /\ Index'.entries = lookup.entries \o added
    BY <1>2, <1>13
  <2> HIDE DEF added
  <2>3. SubSeq(lookup.entries \o added, Len(lookup.entries) + 1, Len(lookup.entries \o added))
          = added
    BY <1>5, <1>7, Behind
  <2> QED BY <2>1, <2>2, <2>3
<1> HIDE DEF added, found, kept
<1>16. \E f \in SUBSET ReadOf(conf, Left - 1) : \E k \in SUBSET f :
         /\ Lines!Finds(Left - 1, f)
         /\ Lines!Keeps(Left - 1, f, k)
         /\ Index'.len = Index.len + Lines!Cardinality(f) + (IF Left = 1 THEN 1 ELSE 0)
         /\ Lines!Elements(Lines!Added)
              = Lines!LinesAfter(k) \cup (IF Left = 1 THEN {0} ELSE {})
  <2>1. Lines!Finds(Left - 1, found) /\ Lines!Keeps(Left - 1, found, kept)
    BY <1>10, <1>12 DEF Lines!Finds, Lines!Keeps, read
  <2>2. Index'.len = Index.len + Lines!Cardinality(found) + (IF Left = 1 THEN 1 ELSE 0)
    BY <1>2, <1>8, <1>12, <1>13, SameLists
  <2>3. Lines!Elements(Lines!Added)
          = Lines!LinesAfter(kept) \cup (IF Left = 1 THEN {0} ELSE {})
    BY <1>7, <1>9, <1>12, <1>15, SameLists
  <2>4. found \in SUBSET ReadOf(conf, Left - 1) /\ kept \in SUBSET found
    BY <1>10, <1>12 DEF read
  <2> QED BY <2>1, <2>2, <2>3, <2>4
<1>17. Index' \in [open : {TRUE}, entries : Seq(Nat), len : Nat]
  BY <1>2, <1>13
<1>18. Index'.entries = Index.entries \o Lines!Added
  BY <1>2, <1>13, <1>15 DEF added
<1>19. Lines!Descending(Lines!Added)
  BY <1>7, <1>15, SameLists
<1>20. /\ (IF main \in Final THEN main ELSE "running") = "running"
       /\ (IF main \in Final THEN main ELSE "running")'
            = (IF main \in Final THEN main ELSE "running")
  BY <1>14
<1>21. Left' = Left - 1 /\ Left > 0
  BY <1>12
<1> QED BY <1>11, <1>16, <1>17, <1>18, <1>19, <1>20, <1>21 DEF Lines!IndexPass

\* A step of a thread or of a coroutine is not seen, unless it ends the process.
LEMMA RefinesThreadStep ==
  ASSUME AllInv, NEW p \in ThreadIds,
         \/ ThreadStep(p)
         \/ ThreadFails(p)
         \/ ReduceFails(p)
         \/ \E c \in worker[p].running : IndexBytesFails(p, c)
  PROVE  Lines!Fail \/ UNCHANGED Lines!vars
<1>1. JoinInv /\ Inv /\ PassInv
  BY DEF AllInv, Inv
<1>2. /\ Active(p)
      /\ UNCHANGED <<conf, pass>>
      /\ main' \in {main, "killed"}
  BY <1>1, ThreadStepAlone
<1>3. lookup' = lookup
  BY <1>1, PassInvThreadStep
<1>4. CASE main' = main
  BY <1>2, <1>3, <1>4, RefinesStutter
<1>5. CASE main' # main
  <2>1. PICK c \in worker[p].running : IndexBytesFails(p, c)
    BY <1>5 DEF ThreadStep, Setup, Launch, IndexBytes, Receive, ReceiveNull, Return,
                ThreadFails, ReduceFails
  <2>2. FaultyOf(conf)
    BY <2>1 DEF IndexBytesFails, FaultyOf
  <2>3. main' = "killed" /\ main # "killed"
    BY <1>2, <1>5
  <2>4. main # "ok"
    BY <1>1, <1>2 DEF JoinInv, MainInv, Absent, Active
  <2>5. main \notin Final \/ main = "null"
    BY <2>3, <2>4 DEF Final
  <2> QED BY <1>2, <2>2, <2>3, <2>5, RefinesFail
<1> QED BY <1>4, <1>5

LEMMA RefinesMainStep ==
  ASSUME AllInv, MainStep \/ SpawnFails \/ MainFails
  PROVE  Lines!Next \/ UNCHANGED Lines!vars
<1>1. JoinInv /\ DataInv /\ Passes \in Nat
  BY PassesPositive DEF AllInv, Inv, JoinInv, LoopsOK
<1>2. CASE Open
  BY <1>1, <1>2, RefinesStutter DEF Open
<1>3. CASE Plan \/ Spawn \/ Poll \/ Join
  <2>1. /\ UNCHANGED <<conf, lookup, pass>>
        /\ main \in MidPass /\ main' \in MidPass
    BY <1>3 DEF Plan, Spawn, Poll, Join, MidPass
  <2> QED BY <2>1, RefinesStutter
<1>4. CASE AppendPass
  BY <1>4, RefinesAppend DEF Lines!Next
<1>5. CASE Close
  <2>1. main = "close" /\ main' = "ok" /\ UNCHANGED <<conf, lookup>>
    BY <1>5 DEF Close
  <2>2. Left = 0 /\ Left' = 0
    BY <2>1, LeftIs, LeftIsNext DEF Final
  <2>3. Index = lookup /\ Index' = lookup'
    BY <2>1 DEF Index
  <2>4. Lines!Return
    BY <2>1, <2>2, <2>3 DEF Lines!Return, Final
  <2> QED BY <2>4 DEF Lines!Next
<1>6. CASE JoinNull \/ SpawnFails \/ MainFails
  <2>1. /\ UNCHANGED conf
        /\ main \notin Final
        /\ main' \in {"null", "killed"}
    BY <1>6, MainFailsStep DEF JoinNull, SpawnFails, Final
  <2>2. CASE SpawnFails \/ MainFails
    <3>1. FaultyOf(conf)
      BY <2>2, MainFailsStep DEF SpawnFails, FaultyOf
    <3> QED BY <2>1, <3>1, RefinesFail DEF Lines!Next
  <2>3. CASE JoinNull
    <3>1. i \in ThreadIds /\ worker[i].pc = "exited" /\ worker[i].result = NoChunk
      BY <1>1, <2>3, LoopCounter DEF JoinNull
    <3>2. FaultyOf(conf)
      BY <1>1, <3>1 DEF DataInv, DataOK
    <3> QED BY <2>1, <3>2, RefinesFail DEF Lines!Next
  <2> QED BY <1>6, <2>2, <2>3
<1> QED BY <1>2, <1>3, <1>4, <1>5, <1>6 DEF MainStep

LEMMA RefinesStep == AllInv /\ [Next]_vars => [Lines!Next]_(Lines!vars)
<1> SUFFICES ASSUME AllInv, [Next]_vars PROVE Lines!Next \/ UNCHANGED Lines!vars
  OBVIOUS
<1>1. CASE MainStep \/ SpawnFails \/ MainFails
  BY <1>1, RefinesMainStep
<1>2. ASSUME NEW p \in ThreadIds,
             \/ ThreadStep(p)
             \/ ThreadFails(p)
             \/ ReduceFails(p)
             \/ \E c \in worker[p].running : IndexBytesFails(p, c)
      PROVE  Lines!Next \/ UNCHANGED Lines!vars
  BY <1>2, RefinesThreadStep DEF Lines!Next
<1>3. CASE UNCHANGED vars
  <2>1. UNCHANGED <<conf, lookup, main, pass>>
    BY <1>3 DEF vars
  <2> QED BY <2>1, RefinesStutter
<1> QED BY <1>1, <1>2, <1>3 DEF Next, Fault, Ended

\* However its threads and coroutines are scheduled, and whatever fails on the way,
\* f_index_text_file does what LineIndex says: each pass adds the lines its threads
\* read, all of them and in order, in the step that appends to the lookup file, and
\* a call that fails gives no index.
THEOREM IndexerImplementsLineIndex == Spec => ImplementsLineIndex
<1>1. Init => Lines!Init
  BY RefinesInit
<1>2. AllInv /\ [Next]_vars => [Lines!Next]_(Lines!vars)
  BY RefinesStep
<1>3. Spec => []AllInv
  BY AllInvAlways
<1> QED BY <1>1, <1>2, <1>3, PTL DEF Spec, ImplementsLineIndex, Lines!Spec

-----------------------------------------------------------------------------
(* What follows for the lookup file *)

LinesProved == INSTANCE LineIndexProofs WITH
  Passes <- PassesOf, Read <- ReadOf, Whole <- WholeOf, Short <- ShortOf,
  Faulty <- FaultyOf,
  job    <- conf,
  status <- IF main \in Final THEN main ELSE "running",
  left   <- Left,
  index  <- Index

\* The specification that is implemented is the one that LineIndexProofs is about.
LEMMA SameSpec == Lines!Spec => LinesProved!Spec
<1>1. \A S : Lines!IsFiniteSet(S) <=> LinesProved!IsFiniteSet(S)
  BY DEF Lines!IsFiniteSet, LinesProved!IsFiniteSet
<1>2. \A S : Lines!Cardinality(S) = LinesProved!Cardinality(S)
  BY DEF Lines!Cardinality, LinesProved!Cardinality, Lines!IsFiniteSet,
         LinesProved!IsFiniteSet
<1>3. Lines!Init => LinesProved!Init
  BY <1>1 DEF Lines!Init, LinesProved!Init, Lines!IsJob, LinesProved!IsJob,
              Lines!NoIndex, LinesProved!NoIndex
<1>4. Lines!Next => LinesProved!Next
  BY Zenon, <1>2
  DEF Lines!Next, LinesProved!Next, Lines!IndexPass, LinesProved!IndexPass,
      Lines!Return, LinesProved!Return, Lines!Fail, LinesProved!Fail,
      Lines!Added, LinesProved!Added, Lines!Descending, LinesProved!Descending,
      Lines!Elements, LinesProved!Elements, Lines!LinesAfter, LinesProved!LinesAfter,
      Lines!Finds, LinesProved!Finds, Lines!Keeps, LinesProved!Keeps,
      Lines!NoIndex, LinesProved!NoIndex
<1>5. UNCHANGED Lines!vars => UNCHANGED LinesProved!vars
  BY DEF Lines!vars, LinesProved!vars
<1> QED BY <1>3, <1>4, <1>5, PTL DEF Lines!Spec, LinesProved!Spec

\* The newlines that the threads of all passes read.
AllRead == UNION {ReadOf(conf, q) : q \in 0..(Passes - 1)}

\* What LineIndex promises, said of the lookup file.
Promised ==
  /\ main \notin {"null", "killed"} =>
       /\ Descending(lookup.entries)
       /\ Elements(lookup.entries) \subseteq LinesAfter(AllRead) \cup {0}
  /\ (main = "ok" /\ ~ShortOf(conf)) =>
       /\ lookup.len = Cardinality(AllRead) + 1
       /\ (\A q \in 0..(Passes - 1) : WholeOf(conf, q)) =>
            /\ Elements(lookup.entries) = LinesAfter(AllRead) \cup {0}
            /\ Len(lookup.entries) = lookup.len

LEMMA PromisedAlways == Spec => []Promised
<1>1. Spec => [](/\ LinesProved!PromisedOrder
                 /\ LinesProved!PromisedCount
                 /\ LinesProved!PromisedLines)
  <2>1. LinesProved!Spec => []LinesProved!PromisedOrder
    BY LinesProved!LineIndexOrder
  <2>2. LinesProved!Spec => []LinesProved!PromisedCount
    BY LinesProved!LineIndexCount
  <2>3. LinesProved!Spec => []LinesProved!PromisedLines
    BY LinesProved!LineIndexLines
  <2>4. Spec => LinesProved!Spec
    BY IndexerImplementsLineIndex, SameSpec DEF ImplementsLineIndex
  <2> QED BY <2>1, <2>2, <2>3, <2>4, PTL
<1>2. (/\ LinesProved!PromisedOrder
       /\ LinesProved!PromisedCount
       /\ LinesProved!PromisedLines) => Promised
  <2> SUFFICES ASSUME LinesProved!PromisedOrder,
                      LinesProved!PromisedCount,
                      LinesProved!PromisedLines
               PROVE  Promised
    OBVIOUS
  <2>1. PassesOf(conf) = Passes
    BY DEF PassesOf, Passes
  <2>2. LinesProved!ReadFrom(0) = AllRead
    BY <2>1 DEF LinesProved!ReadFrom, AllRead
  <2>3. /\ \A S : LinesProved!Cardinality(S) = Cardinality(S)
        /\ \A s : LinesProved!Elements(s) = Elements(s)
        /\ \A s : LinesProved!Descending(s) <=> Descending(s)
        /\ \A S : LinesProved!LinesAfter(S) = LinesAfter(S)
    <3>1. \A S : LinesProved!Cardinality(S) = Cardinality(S)
      BY DEF LinesProved!Cardinality, Cardinality, LinesProved!IsFiniteSet, IsFiniteSet
    <3>2. \A s : LinesProved!Elements(s) = Elements(s)
      BY DEF LinesProved!Elements, Elements
    <3>3. \A s : LinesProved!Descending(s) <=> Descending(s)
      BY DEF LinesProved!Descending, Descending
    <3>4. \A S : LinesProved!LinesAfter(S) = LinesAfter(S)
      BY DEF LinesProved!LinesAfter, LinesAfter
    <3> QED BY <3>1, <3>2, <3>3, <3>4
  <2>4. ASSUME main \notin {"null", "killed"}
        PROVE  /\ Descending(lookup.entries)
               /\ Elements(lookup.entries) \subseteq LinesAfter(AllRead) \cup {0}
    <3>1. Index = lookup
      BY <2>4 DEF Index
    <3> QED BY <2>2, <2>3, <3>1 DEF LinesProved!PromisedOrder
  <2>5. ASSUME main = "ok", ~ShortOf(conf)
        PROVE  /\ lookup.len = Cardinality(AllRead) + 1
               /\ (\A q \in 0..(Passes - 1) : WholeOf(conf, q)) =>
                    /\ Elements(lookup.entries) = LinesAfter(AllRead) \cup {0}
                    /\ Len(lookup.entries) = lookup.len
    <3>1. Index = lookup /\ (IF main \in Final THEN main ELSE "running") = "ok"
      BY <2>5 DEF Index, Final
    <3>2. lookup.len = Cardinality(AllRead) + 1
      BY <2>2, <2>3, <2>5, <3>1 DEF LinesProved!PromisedCount
    <3>3. ASSUME \A q \in 0..(Passes - 1) : WholeOf(conf, q)
          PROVE  /\ Elements(lookup.entries) = LinesAfter(AllRead) \cup {0}
                 /\ Len(lookup.entries) = lookup.len
      BY <2>1, <2>2, <2>3, <2>5, <3>1, <3>3 DEF LinesProved!PromisedLines
    <3> QED BY <3>2, <3>3
  <2> QED BY <2>4, <2>5 DEF Promised
<1> QED BY <1>1, <1>2, PTL

\* Two passes have no byte in common.
LEMMA PassOf ==
  ASSUME conf \in Requests, NEW q \in 0..(Passes - 1), NEW r \in 0..(Passes - 1), NEW b \in Nat,
         b \in PassFrom(q, conf.maxBytes)..(PassFrom(q, conf.maxBytes) + BytesIn(q) - 1),
         b \in PassFrom(r, conf.maxBytes)..(PassFrom(r, conf.maxBytes) + BytesIn(r) - 1)
  PROVE  q = r
<1>1. conf.size \in Nat /\ conf.maxBytes \in Nat \ {0}
  BY RequestsAssumption
<1>2. /\ q < r => PassFrom(q, conf.maxBytes) + BytesIn(q) <= PassFrom(r, conf.maxBytes)
      /\ r < q => PassFrom(r, conf.maxBytes) + BytesIn(r) <= PassFrom(q, conf.maxBytes)
  BY <1>1, PassTiles DEF Passes, PassesTile, BytesIn
<1>3. /\ PassFrom(q, conf.maxBytes) \in Nat /\ BytesIn(q) \in Nat
      /\ PassFrom(r, conf.maxBytes) \in Nat /\ BytesIn(r) \in Nat
  BY RangeBounds
<1>4. q \in Nat /\ r \in Nat
  BY PassesPositive
<1> QED BY <1>2, <1>3, <1>4

\* A byte between two threads is in no range of its pass.
LEMMA BetweenThreads ==
  ASSUME conf \in Requests, NEW q \in 0..(Passes - 1), NEW b \in Nat,
         NEW k \in 1..(Threads(q) - 1), b + 1 = From(q, k)
  PROVE  /\ b \in PassFrom(q, conf.maxBytes)..(PassFrom(q, conf.maxBytes) + BytesIn(q) - 1)
         /\ \A p \in 0..(Threads(q) - 1) : b \notin From(q, p)..(To(q, p) - 1)
<1> DEFINE base == PassFrom(q, conf.maxBytes)
           total == BytesIn(q)
           L == Threads(q)
           from(p) == From(q, p)
           to(p) == To(q, p)
<1>1. /\ base \in Nat /\ total \in Nat /\ L \in Nat
      /\ \A p \in 0..(L - 1) :
           /\ from(p) \in Nat /\ to(p) \in Nat
           /\ base <= from(p) /\ from(p) <= to(p) /\ to(p) <= base + total
      /\ \A p \in 1..(L - 1) : to(p - 1) + 1 = from(p)
      /\ \A j, n \in 0..(L - 1) : j < n => to(j) < from(n)
  BY RangeBounds
<1>2. k \in 1..(L - 1) /\ b + 1 = from(k)
  OBVIOUS
<1> HIDE DEF base, total, L, from, to
<1>3. k \in 0..(L - 1) /\ k - 1 \in 0..(L - 1)
  BY <1>1, <1>2
<1>4. b \in base..(base + total - 1)
  <2>1. to(k - 1) + 1 = from(k) /\ base <= from(k - 1) /\ from(k - 1) <= to(k - 1)
    BY <1>1, <1>2, <1>3
  <2>2. from(k) <= to(k) /\ to(k) <= base + total
    BY <1>1, <1>3
  <2>3. from(k) \in Nat /\ to(k) \in Nat /\ from(k - 1) \in Nat /\ to(k - 1) \in Nat
    BY <1>1, <1>3
  <2> QED BY <1>1, <1>2, <2>1, <2>2, <2>3
<1>5. ASSUME NEW p \in 0..(L - 1) PROVE b \notin from(p)..(to(p) - 1)
  <2>1. /\ from(p) \in Nat /\ to(p) \in Nat /\ from(k) \in Nat /\ to(k) \in Nat
        /\ from(k) <= to(k)
    BY <1>1, <1>3
  <2>2. CASE p < k
    <3>1. to(p) < from(k)
      BY <1>1, <1>3, <2>2
    <3> QED BY <1>2, <2>1, <3>1
  <2>3. CASE p = k
    BY <1>2, <2>1, <2>3
  <2>4. CASE k < p
    <3>1. to(k) < from(p)
      BY <1>1, <1>3, <2>4
    <3> QED BY <1>2, <2>1, <3>1
  <2> QED BY <1>1, <1>2, <2>2, <2>3, <2>4
<1> QED BY <1>4, <1>5 DEF base, total, L, from, to

\* The threads read every newline but those between two of them.
LEMMA AllReadIs ==
  ASSUME conf \in Requests
  PROVE  AllRead = conf.newlines \ Gap
<1>1. /\ conf.size \in Nat /\ conf.maxBytes \in Nat \ {0}
      /\ conf.newlines \in SUBSET (0..(conf.size - 1))
      /\ conf.newlines \in SUBSET Nat
  BY RequestsAssumption, NewlinesFinite
<1>2. ASSUME NEW b \in AllRead PROVE b \in conf.newlines \ Gap
  <2>1. PICK q \in 0..(Passes - 1) : b \in ReadOf(conf, q)
    BY DEF AllRead
  <2>2. PICK p \in 0..(Threads(q) - 1) : b \in NewlinesOf(q, p)
    BY <2>1, ReadIs
  <2>3. b \in conf.newlines /\ b \in Nat /\ b \in From(q, p)..(To(q, p) - 1)
    BY <1>1, <2>2 DEF NewlinesOf
  <2>4. b \in PassFrom(q, conf.maxBytes)..(PassFrom(q, conf.maxBytes) + BytesIn(q) - 1)
    BY <2>1, ReadBounds
  <2>5. ASSUME NEW r \in 0..(Passes - 1), NEW k \in 1..(Threads(r) - 1), b + 1 = From(r, k)
        PROVE  FALSE
    <3>1. /\ b \in PassFrom(r, conf.maxBytes)..(PassFrom(r, conf.maxBytes) + BytesIn(r) - 1)
          /\ \A n \in 0..(Threads(r) - 1) : b \notin From(r, n)..(To(r, n) - 1)
      BY <2>3, <2>5, BetweenThreads
    <3>2. q = r
      BY <2>3, <2>4, <3>1, PassOf
    <3> QED BY <2>3, <3>1, <3>2
  <2> QED BY <2>3, <2>5 DEF Gap
<1>3. ASSUME NEW b \in conf.newlines, b \notin Gap PROVE b \in AllRead
  <2>1. PICK q \in 0..(Passes - 1) :
          b \in PassFrom(q, conf.maxBytes)..(PassFrom(q, conf.maxBytes) + BytesIn(q) - 1)
    BY <1>1, PassTiles DEF Passes, PassesTile, BytesIn
  <2>2. \/ \E p \in 0..(Threads(q) - 1) : b \in From(q, p)..(To(q, p) - 1)
        \/ \E p \in 1..(Threads(q) - 1) : b + 1 = From(q, p)
    BY <2>1, RangeBounds
  <2>3. PICK p \in 0..(Threads(q) - 1) : b \in From(q, p)..(To(q, p) - 1)
    BY <1>3, <2>2 DEF Gap
  <2>4. b \in ReadOf(conf, q)
    BY <1>3, <2>3, ReadIs DEF NewlinesOf
  <2> QED BY <2>4 DEF AllRead
<1> QED BY <1>2, <1>3

\* A pass without a lone chunk is one that LineIndex calls whole.
LEMMA NoLoneIsWhole ==
  ASSUME conf \in Requests, NEW q \in 0..(Passes - 1), NoLoneChunkIn(q)
  PROVE  WholeOf(conf, q)
<1> DEFINE L == Threads(q)
           range(p) == RangeOf(conf, q, p)
           first(p) == CHOOSE b \in range(p) : \A c \in range(p) : b <= c
           hit == {p \in 0..(L - 1) : conf.newlines \cap range(p) # {}}
<1>1. \A p : conf.newlines \cap range(p) = NewlinesOf(q, p)
  BY RangeIs DEF NewlinesOf
<1>2. ASSUME NEW p \in 0..(L - 1)
      PROVE  BuffersWithLines(q, p)
               = {(b - From(q, p)) \div conf.buffer : b \in NewlinesOf(q, p)}
  <2> DEFINE n == Buffers(q, p)
             image == {(b - From(q, p)) \div conf.buffer : b \in NewlinesOf(q, p)}
  <2>1. BuffersWithLines(q, p) = {c \in 0..(n - 1) : NewlinesAt(q, p, c) # {}}
    BY DEF BuffersWithLines, NewlinesAt
  <2>2. image \subseteq 0..(n - 1)
    BY BufferBounds
  <2>3. \A c \in 0..(n - 1) : NewlinesAt(q, p, c) # {} <=> c \in image
    BY BufferBounds
  <2> HIDE DEF n, image
  <2>4. BuffersWithLines(q, p) = image
    BY <2>1, <2>2, <2>3
  <2> QED BY <2>4 DEF image
<1>3. L > 1 => Cardinality(hit) # 1
  <2>1. \A p \in 0..(L - 1) : BuffersWithLines(q, p) # {} <=> NewlinesOf(q, p) # {}
    BY <1>2
  <2>2. ThreadsWithLines(q) = hit
    BY <1>1, <2>1 DEF ThreadsWithLines
  <2> QED BY <2>2 DEF NoLoneChunkIn
<1>4. ASSUME NEW p \in hit, Cardinality(range(p)) > conf.buffer
      PROVE  Cardinality({(b - first(p)) \div conf.buffer : b \in conf.newlines \cap range(p)})
               # 1
  <2> DEFINE from == From(q, p)
             to == To(q, p)
  <2>1. p \in 0..(L - 1)
    OBVIOUS
  <2>2. from \in Nat /\ to \in Nat /\ from <= to /\ conf.buffer \in Nat
    BY <2>1, RangeBounds, RequestsAssumption
  <2>3. range(p) = from..(to - 1)
    BY RangeIs
  <2> HIDE DEF from, to, range, hit
  <2>4. to - from > conf.buffer /\ from <= to - 1
    <3>1. Cardinality(from..(to - 1)) > conf.buffer
      BY <1>4, <2>3
    <3>2. CASE from <= to - 1
      <4>1. Cardinality(from..(to - 1)) = (to - 1) - from + 1
        BY <2>2, <3>2, FS_Interval
      <4> QED BY <2>2, <3>1, <3>2, <4>1
    <3>3. CASE ~(from <= to - 1)
      <4>1. from..(to - 1) = {}
        BY <2>2, <3>3
      <4> QED BY <2>2, <3>1, <4>1, FS_EmptySet
    <3> QED BY <3>2, <3>3
  <2>5. first(p) = from
    <3>1. from \in range(p) /\ \A c \in range(p) : from <= c
      BY <2>2, <2>3, <2>4
    <3>2. \A b \in range(p) : (\A c \in range(p) : b <= c) => b = from
      BY <2>2, <2>3, <3>1
    <3> QED BY <3>1, <3>2
  <2>6. Buffers(q, p) > 1
    BY <2>1, <2>4, BufferBounds DEF from, to
  <2>7. Cardinality(BuffersWithLines(q, p)) # 1
    BY <2>1, <2>6 DEF NoLoneChunkIn
  <2>8. BuffersWithLines(q, p) = {(b - from) \div conf.buffer : b \in conf.newlines \cap range(p)}
    BY <1>1, <1>2, <2>1 DEF from
  <2> HIDE DEF first
  <2> QED BY <2>5, <2>7, <2>8
<1>5. ThreadsOf(conf, q) = L
  BY DEF ThreadsOf, BytesOf, Threads, BytesIn
<1> QED BY <1>3, <1>4, <1>5 DEF WholeOf

\* The lookup file holds starts of lines only, each once, from the last line of the
\* file to the first, at every moment and whatever fails.
THEOREM IndexerDescends == Spec => []EntriesDescend
<1>1. Init => EntriesDescend
  BY DEF Init, EntriesDescend
<1>2. ASSUME AllInv, EntriesDescend, [Next]_vars, main' \in {"null", "killed"}
      PROVE  EntriesDescend'
  <2>1. UNCHANGED <<conf, lookup>>
    <3>1. CASE MainStep \/ SpawnFails \/ MainFails
      BY <1>2, <3>1, MainFailsStep
         DEF MainStep, Open, Plan, Spawn, Poll, Join, JoinNull, AppendPass, Close,
             SpawnFails
    <3>2. ASSUME NEW p \in ThreadIds,
                 \/ ThreadStep(p)
                 \/ ThreadFails(p)
                 \/ ReduceFails(p)
                 \/ \E c \in worker[p].running : IndexBytesFails(p, c)
          PROVE  UNCHANGED <<conf, lookup>>
      BY <1>2, <3>2, ThreadStepAlone, PassInvThreadStep DEF AllInv, Inv
    <3>3. CASE UNCHANGED vars
      BY <3>3 DEF vars
    <3> QED BY <1>2, <3>1, <3>2, <3>3 DEF Next, Fault, Ended
  <2> QED BY <1>2, <2>1 DEF EntriesDescend, Starts
<1>3. AllInv /\ Promised /\ EntriesDescend /\ [Next]_vars /\ AllInv' /\ Promised'
        => EntriesDescend'
  <2>1. ASSUME AllInv', Promised', main' \notin {"null", "killed"}
        PROVE  EntriesDescend'
    <3>1. AllRead' \subseteq conf'.newlines
      BY DEF AllRead, ReadOf
    <3>2. LinesAfter(AllRead)' \subseteq Starts'
      BY <3>1 DEF LinesAfter, Starts
    <3> QED BY <2>1, <3>2 DEF Promised, Descending, Elements, EntriesDescend
  <2> QED BY <1>2, <2>1
<1> QED BY <1>1, <1>3, AllInvAlways, PromisedAlways, PTL DEF Spec

\* An index that is returned counts one line more than there are newlines outside the
\* gaps between threads, whatever failed on the way; only a short pread makes a
\* smaller one.
THEOREM IndexerCounts == Spec => []LinesCounted
<1>1. AllInv /\ Promised => LinesCounted
  <2> SUFFICES ASSUME AllInv, Promised PROVE LinesCounted
    OBVIOUS
  <2>1. AllRead = conf.newlines \ Gap
    BY AllReadIs DEF AllInv, Inv, JoinInv, LoopsOK
  <2> QED BY <2>1 DEF Promised, LinesCounted, ShortOf
<1> QED BY <1>1, AllInvAlways, PromisedAlways, PTL

\* When no newline falls between two threads and no chunk is alone in its array, the
\* index has one entry for the start of every line and as many lines as entries.
THEOREM IndexerExact == Spec => []IndexExact
<1>1. AllInv /\ Promised => IndexExact
  <2> SUFFICES ASSUME AllInv, Promised, main = "ok", "short" \notin conf.faults,
                      Gap = {}, NoLoneChunk
               PROVE  /\ {lookup.entries[j] : j \in DOMAIN lookup.entries} = Starts \cup {0}
                      /\ Len(lookup.entries) = Cardinality(Starts) + 1
                      /\ lookup.len = Len(lookup.entries)
    BY DEF IndexExact
  <2>1. conf \in Requests
    BY DEF AllInv, Inv, JoinInv, LoopsOK
  <2>2. AllRead = conf.newlines
    BY <2>1, AllReadIs
  <2>3. \A q \in 0..(Passes - 1) : WholeOf(conf, q)
    BY <2>1, NoLoneIsWhole DEF NoLoneChunk
  <2>4. /\ lookup.len = Cardinality(conf.newlines) + 1
        /\ Elements(lookup.entries) = LinesAfter(conf.newlines) \cup {0}
        /\ Len(lookup.entries) = lookup.len
    BY <2>2, <2>3 DEF Promised, ShortOf
  <2>5. LinesAfter(conf.newlines) = Starts
    BY DEF LinesAfter, Starts
  <2>6. Cardinality(Starts) = Cardinality(conf.newlines)
    BY <2>1, <2>5, NewlinesFinite, LinesAfterCount
  <2> QED BY <2>4, <2>5, <2>6 DEF Elements
<1> QED BY <1>1, AllInvAlways, PromisedAlways, PTL
===============================================================================
