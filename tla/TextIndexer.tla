----------------------------- MODULE TextIndexer -----------------------------
(***************************************************************************)
(* f_index_text_file: a main thread that goes over the file pass by pass,  *)
(* from the last pass to the first; in each pass it spawns threads         *)
(* (f_index_text_chunk), waits for the progress each of them publishes,    *)
(* joins them in order, reduces their chunks and appends the offsets to    *)
(* the lookup file.  A thread runs its buffers in batches of coroutines    *)
(* (f_index_text_bytes) that send one chunk each over a channel.           *)
(*                                                                         *)
(* One action is what one thread or coroutine does between two points at   *)
(* which another one can see it: the channel, a thread's published         *)
(* progress, thread creation and thread exit.                              *)
(***************************************************************************)
EXTENDS Ranges, Chunks, FiniteSets

CONSTANTS
  Requests,    \* the f_indexer structures and the files they are used on
  MaxThreads   \* largest number of threads in a request

\* What can fail in a request, its faults:
\* "main"      a call of the main thread fails (open, malloc, fwrite, fflush)
\* "create"    pthread_create fails
\* "worker"    a call of a thread fails while its batches run
\* "reduce"    a thread cannot allocate the chunk it should return
\* "coroutine" a coroutine cannot allocate or its pread fails
\* "short"     pread returns fewer bytes than the coroutine asked for
FaultKinds == {"main", "create", "worker", "reduce", "coroutine", "short"}

\* newlines holds the positions of the newlines among the bytes of the file.
\* Beyond threads = buffer the thread ranges wrap around (module ThreadPlan).
ASSUME RequestsAssumption ==
  /\ MaxThreads \in Nat \ {0}
  /\ \A r \in Requests :
       /\ r.size \in Nat
       /\ r.newlines \in SUBSET (0..(r.size - 1))
       /\ r.threads \in 1..MaxThreads
       /\ r.concurrency \in Nat \ {0}
       /\ r.buffer \in Nat
       /\ r.buffer >= r.threads
       /\ r.maxBytes \in Nat \ {0}
       /\ r.faults \subseteq FaultKinds

VARIABLES
  conf,    \* the request
  main,    \* where the main thread is, or how f_index_text_file ended
  pass,    \* itc, the pass being indexed
  i,       \* the loop counter of the main thread
  lines,   \* line_count of the main thread
  worker,  \* the threads of the pass
  chunks,  \* the chunks of the threads joined so far, by thread
  seen,    \* the progress of each thread as the main thread last read it
  lookup   \* the lookup file: its entries and the len of its structure

vars == <<conf, main, pass, i, lines, worker, chunks, seen, lookup>>

ThreadIds == 0..(MaxThreads - 1)

Final == {"ok", "null", "killed"}

-----------------------------------------------------------------------------
(* The division of the file; q is a pass, p a thread, c a buffer. *)

Passes == PassCount(conf.size, conf.maxBytes)

BytesIn(q) == PassBytes(q, conf.size, conf.maxBytes)

Threads(q) == ThreadCount(conf.threads, BytesIn(q), conf.buffer)

From(q, p) ==
  PassFrom(q, conf.maxBytes) + ThreadFrom(p, ThreadPages(BytesIn(q), Threads(q)))

To(q, p) ==
  PassFrom(q, conf.maxBytes)
    + ThreadTo(p, ThreadPages(BytesIn(q), Threads(q)), BytesIn(q))

Buffers(q, p) == ChunkTotal(From(q, p), To(q, p), conf.buffer)

Concurrency(q, p) == ChunkConcurrency(conf.concurrency, Buffers(q, p))

BufferFrom(q, p, c) == ChunkFrom(From(q, p), c, conf.buffer)

BufferBytes(q, p, c) == ChunkBytes(From(q, p), To(q, p), c, conf.buffer)

-----------------------------------------------------------------------------
(* The state *)

\* The NULL pointer to a chunk.
NoChunk == [null |-> TRUE]

\* The function f with k mapped to v: an assignment to an array element.
Put(f, k, v) == [x \in DOMAIN f \cup {k} |-> IF x = k THEN v ELSE f[x]]

\* A thread: where it is, the first buffer of its batch, the next buffer to
\* launch, its running coroutines, the chunks waiting in the channel, its
\* chunk_array, line_count, chunks_finished, the chunks_finished of the progress
\* it published last, and the chunk it returned.
Idle ==
  [pc |-> "none", base |-> 0, next |-> 0, running |-> {}, sent |-> {},
   slots |-> <<>>, lines |-> 0, finished |-> 0, progress |-> 0,
   result |-> NoChunk]

Init ==
  /\ conf \in Requests
  /\ main = "open"
  /\ pass = 0
  /\ i = 0
  /\ lines = 0
  /\ worker = [p \in ThreadIds |-> Idle]
  /\ chunks = <<>>
  /\ seen = [p \in ThreadIds |-> 0]
  /\ lookup = [open |-> FALSE, entries |-> <<>>, len |-> 0]

-----------------------------------------------------------------------------
(* Coroutines: f_index_text_bytes *)

\* The list of the offsets after the newlines among the read bytes from from on,
\* each prepended to the list of the earlier ones.
Scan(from, read) ==
  LET list[k \in 0..read] ==
        IF k = 0 THEN <<>>
        ELSE IF from + k - 1 \in conf.newlines THEN <<from + k>> \o list[k - 1]
        ELSE list[k - 1]
  IN  list[read]

Running(p, c) ==
  /\ main # "killed"
  /\ worker[p].pc \in {"launch", "receive"}
  /\ c \in worker[p].running

\* A coroutine ends with chsend(done, &chunk).
Send(p, c, chunk) ==
  worker' = [worker EXCEPT
    ![p].running = @ \ {c},
    ![p].sent = @ \cup {[from |-> c, chunk |-> chunk]}]

\* The number of bytes pread may return.
BytesRead(count) == IF "short" \in conf.faults THEN 0..count ELSE {count}

IndexBytes(p, c) ==
  /\ Running(p, c)
  /\ \E read \in BytesRead(BufferBytes(pass, p, c)) :
       LET list == Scan(BufferFrom(pass, p, c), read)
       IN  Send(p, c, NewChunk(c, list, Len(list)))
  /\ UNCHANGED <<conf, main, pass, i, lines, chunks, seen, lookup>>

\* A failed coroutine that sends an empty chunk.
EmptyMessage(c) == NewChunk(c, <<>>, 0)

\* What a failed coroutine sends.
FailureMessage(c) == NoChunk

\* chsend(done, NULL, sizeof(f_chunk*)) makes the channel copy from address 0:
\* the process dies, or the receiver gets NULL.
IndexBytesFails(p, c) ==
  /\ "coroutine" \in conf.faults
  /\ Running(p, c)
  /\ \/ /\ main' = "killed"
        /\ UNCHANGED worker
     \/ /\ Send(p, c, FailureMessage(c))
        /\ UNCHANGED main
  /\ UNCHANGED <<conf, pass, i, lines, chunks, seen, lookup>>

-----------------------------------------------------------------------------
(* Threads: f_index_text_chunk *)

At(p, label) == main # "killed" /\ worker[p].pc = label

\* Where a thread goes when the batch that starts at base is next.
NextBatch(p, base) == IF base < Buffers(pass, p) THEN "launch" ELSE "reduce"

\* A batch that ignores where the buffers end.
BatchOverrun(p, base) == base + Concurrency(pass, p)

\* All the buffers of the thread in one batch.
BatchOfAll(p, base) == Buffers(pass, p)

\* The end of the batch that starts at base.
BatchEnd(p, base) == AtMost(base + Concurrency(pass, p), Buffers(pass, p))

Setup(p) ==
  /\ At(p, "setup")
  /\ worker' = [worker EXCEPT ![p].pc = NextBatch(p, 0)]
  /\ UNCHANGED <<conf, main, pass, i, lines, chunks, seen, lookup>>

\* bundle_go for one buffer of the batch.
Launch(p) ==
  /\ At(p, "launch")
  /\ LET w == worker[p]
         last == w.next + 1 = BatchEnd(p, w.base)
     IN  worker' = [worker EXCEPT
           ![p].running = @ \cup {w.next},
           ![p].next = w.next + 1,
           ![p].pc = IF last THEN "receive" ELSE "launch"]
  /\ UNCHANGED <<conf, main, pass, i, lines, chunks, seen, lookup>>

\* The place of a received chunk in chunk_array by order of arrival.
SlotByArrival(w, chunk) == w.finished

\* The place of a received chunk in chunk_array.
Slot(w, chunk) == chunk.current

\* What a thread publishes at the end of a batch when it counts its chunks
\* anew in each batch.
PublishedOfBatch(w) == w.finished - w.base

Published(w) == w.finished

BatchOver(p, w) == w.finished = BatchEnd(p, w.base)

\* chrecv of one chunk.  After the last one of the batch the thread publishes
\* its progress and goes on to the next batch.
Receive(p) ==
  /\ At(p, "receive")
  /\ \E m \in worker[p].sent :
       /\ m.chunk # NoChunk
       /\ LET w == [worker[p] EXCEPT
                     !.sent = @ \ {m},
                     !.slots = Put(@, Slot(worker[p], m.chunk), m.chunk),
                     !.lines = @ + m.chunk.line_count,
                     !.finished = @ + 1]
          IN  worker' = [worker EXCEPT ![p] =
                IF BatchOver(p, w)
                THEN [w EXCEPT !.progress = Published(w),
                               !.base = BatchEnd(p, w.base),
                               !.pc = NextBatch(p, BatchEnd(p, w.base))]
                ELSE w]
  /\ UNCHANGED <<conf, main, pass, i, lines, chunks, seen, lookup>>

\* chrecv of NULL.
ReceiveNull(p) ==
  /\ At(p, "receive")
  /\ \E m \in worker[p].sent : m.chunk = NoChunk
  /\ worker' = [worker EXCEPT ![p].pc = "exited"]
  /\ UNCHANGED <<conf, main, pass, i, lines, chunks, seen, lookup>>

\* The early exits of a thread: an allocation, chmake, bundle_go or chrecv.
ThreadFails(p) ==
  /\ "worker" \in conf.faults
  /\ At(p, "setup") \/ At(p, "launch") \/ At(p, "receive")
  /\ worker' = [worker EXCEPT ![p].pc = "exited"]
  /\ UNCHANGED <<conf, main, pass, i, lines, chunks, seen, lookup>>

\* The channel and the bundle are closed and the chunks reduced to one.
Return(p) ==
  /\ At(p, "reduce")
  /\ LET w == worker[p]
     IN  worker' = [worker EXCEPT
           ![p].pc = "exited",
           ![p].result = ReverseReduce(p, w.slots, Buffers(pass, p), w.lines)]
  /\ UNCHANGED <<conf, main, pass, i, lines, chunks, seen, lookup>>

ReduceFails(p) ==
  /\ "reduce" \in conf.faults
  /\ At(p, "reduce")
  /\ worker' = [worker EXCEPT ![p].pc = "exited"]
  /\ UNCHANGED <<conf, main, pass, i, lines, chunks, seen, lookup>>

-----------------------------------------------------------------------------
(* The main thread: f_index_text_file *)

Open ==
  /\ main = "open"
  /\ pass' = Passes - 1
  /\ main' = "plan"
  /\ UNCHANGED <<conf, i, lines, worker, chunks, seen, lookup>>

\* The ranges of the threads and the arrays of the pass.
Plan ==
  /\ main = "plan"
  /\ main' = "spawn"
  /\ i' = 0
  /\ lines' = 0
  /\ chunks' = <<>>
  /\ UNCHANGED <<conf, pass, worker, seen, lookup>>

Spawn ==
  /\ main = "spawn"
  /\ worker' = [worker EXCEPT ![i].pc = "setup"]
  /\ IF i + 1 < Threads(pass)
     THEN i' = i + 1 /\ UNCHANGED main
     ELSE i' = 0 /\ main' = "poll"
  /\ UNCHANGED <<conf, pass, lines, chunks, seen, lookup>>

\* What pthread_kill(.., SIGINT) does depends on the process: by default it
\* ends, with a handler installed f_index_text_file returns NULL.
SpawnFails ==
  /\ "create" \in conf.faults
  /\ main = "spawn"
  /\ main' \in IF i = 0 THEN {"null"} ELSE {"null", "killed"}
  /\ UNCHANGED <<conf, pass, i, lines, worker, chunks, seen, lookup>>

\* Any progress is enough.
CompleteEarly(p, progress) == progress > 0

\* A thread is waited for until its progress is 1; without buffers it stays 0.
Complete(p, progress) ==
  Buffers(pass, p) > 0 /\ progress = Buffers(pass, p)

\* One turn of the loop that reads the progress of the threads and reports it.
Poll ==
  /\ main = "poll"
  /\ seen' = [p \in ThreadIds |-> worker[p].progress]
  /\ main' = IF Complete(i, seen'[i]) THEN "join" ELSE "poll"
  /\ UNCHANGED <<conf, pass, i, lines, worker, chunks, lookup>>

\* The join loop with a bound one too small.
LastJoinShort(k) == k + 2 >= Threads(pass)

LastJoin(k) == k + 1 = Threads(pass)

Join ==
  /\ main = "join"
  /\ worker[i].pc = "exited"
  /\ LET result == worker[i].result
     IN  /\ result # NoChunk
         /\ lines' = lines + result.line_count
         /\ chunks' = Put(chunks, result.current, result)
  /\ i' = i + 1
  /\ main' = IF LastJoin(i) THEN "append" ELSE "poll"
  /\ UNCHANGED <<conf, pass, worker, seen, lookup>>

\* The result is NULL: the rest of the threads are sent SIGINT, and so is this
\* one, which no longer exists.
JoinNull ==
  /\ main = "join"
  /\ worker[i].pc = "exited"
  /\ worker[i].result = NoChunk
  /\ main' \in {"null", "killed"}
  /\ UNCHANGED <<conf, pass, i, lines, worker, chunks, seen, lookup>>

\* f_lookup_file_from_chunk without the final offset 0.
WithoutZero(chunk, last) ==
  [open    |-> TRUE,
   entries |-> lookup.entries \o chunk.first,
   len     |-> lookup.len + chunk.line_count + (IF last THEN 1 ELSE 0)]

\* f_lookup_file_from_chunk that creates the lookup file anew for every pass.
FromChunkAnew(chunk, last) ==
  [open    |-> TRUE,
   entries |-> chunk.first \o (IF last THEN <<0>> ELSE <<>>),
   len     |-> chunk.line_count + (IF last THEN 1 ELSE 0)]

\* f_lookup_file_from_chunk: created for the first chunk, ended by the offset
\* of the first line after the last one.
FromChunk(chunk, last) ==
  [open    |-> TRUE,
   entries |-> lookup.entries \o chunk.first \o (IF last THEN <<0>> ELSE <<>>),
   len     |-> lookup.len + chunk.line_count + (IF last THEN 1 ELSE 0)]

\* The chunks of the pass go to the lookup file and its threads are freed.
AppendPass ==
  /\ main = "append"
  /\ lookup' = FromChunk(ReverseReduce(0, chunks, Threads(pass), lines), pass = 0)
  /\ worker' = [p \in ThreadIds |-> Idle]
  /\ seen' = [p \in ThreadIds |-> 0]
  /\ IF pass > 0
     THEN pass' = pass - 1 /\ main' = "plan"
     ELSE main' = "close" /\ UNCHANGED pass
  /\ UNCHANGED <<conf, i, lines, chunks>>

\* fclose and f_index_init.
Close ==
  /\ main = "close"
  /\ main' = "ok"
  /\ UNCHANGED <<conf, pass, i, lines, worker, chunks, seen, lookup>>

FailsAt(label) ==
  /\ "main" \in conf.faults
  /\ main = label
  /\ main' = "null"
  /\ UNCHANGED <<conf, pass, i, lines, worker, chunks, seen, lookup>>

\* fopen, fcntl, fseek or ftell.
OpenFails == FailsAt("open")

\* An allocation for the pass.
PlanFails == FailsAt("plan")

\* The reduction of the chunks of the pass, or the lookup file.
AppendFails == FailsAt("append")

\* f_index_init.
CloseFails == FailsAt("close")

\* The early returns of the main thread, but for those of Spawn and Join.
MainFails == OpenFails \/ PlanFails \/ AppendFails \/ CloseFails

\* f_index_text_file has returned, or the process has ended.
Ended == main \in Final /\ UNCHANGED vars

-----------------------------------------------------------------------------

ThreadStep(p) ==
  \/ Setup(p)
  \/ Launch(p)
  \/ \E c \in worker[p].running : IndexBytes(p, c)
  \/ Receive(p)
  \/ ReceiveNull(p)
  \/ Return(p)

MainStep ==
  \/ Open \/ Plan \/ Spawn \/ Poll \/ Join \/ JoinNull \/ AppendPass \/ Close

Fault ==
  \/ SpawnFails
  \/ MainFails
  \/ \E p \in ThreadIds :
       \/ ThreadFails(p)
       \/ ReduceFails(p)
       \/ \E c \in worker[p].running : IndexBytesFails(p, c)

Next ==
  \/ MainStep
  \/ \E p \in ThreadIds : ThreadStep(p)
  \/ Fault
  \/ Ended

Spec == Init /\ [][Next]_vars

\* The operating system runs every thread and the scheduler of the coroutines
\* runs every one of them.  The read of a progress in the polling loop is taken
\* to see the memory in the end: on_progress, which the compiler does not know,
\* is called between two reads.
FairSpec ==
  /\ Spec
  /\ WF_vars(MainStep)
  /\ \A p \in ThreadIds : WF_vars(ThreadStep(p))

-----------------------------------------------------------------------------
(* Correctness *)

ChunkOrNull == Chunk(Nat) \cup {NoChunk}

\* The types of the variables; in particular the loop counter never passes the
\* threads of the pass, and only real chunks are put in the arrays.
TypeOK ==
  /\ conf \in Requests
  /\ main \in {"open", "plan", "spawn", "poll", "join", "append", "close"} \cup Final
  /\ pass \in 0..(Passes - 1)
  /\ i \in 0..Threads(pass)
  /\ lines \in Nat
  /\ \A p \in ThreadIds :
       /\ worker[p].pc \in {"none", "setup", "launch", "receive", "reduce", "exited"}
       /\ worker[p].running \subseteq 0..(Buffers(pass, p) - 1)
       /\ worker[p].result \in ChunkOrNull
       /\ \A c \in DOMAIN worker[p].slots : worker[p].slots[c] \in Chunk(Nat)
  /\ \A p \in DOMAIN chunks : chunks[p] \in Chunk(Nat)
  /\ seen \in [ThreadIds -> Nat]
  /\ lookup \in [open : BOOLEAN, entries : Seq(Nat), len : Nat]

\* Every element of a malloc'ed array that a reduction reads has been assigned,
\* each by the chunk that belongs there, however the coroutines of a thread
\* finish; and no coroutine is left whose chunk the closing of the channel
\* would throw away.
SlotsFilled ==
  /\ \A p \in ThreadIds : worker[p].pc = "reduce" =>
       /\ DOMAIN worker[p].slots = 0..(Buffers(pass, p) - 1)
       /\ \A c \in DOMAIN worker[p].slots : worker[p].slots[c].current = c
       /\ worker[p].running = {}
       /\ worker[p].sent = {}
  /\ main = "append" =>
       /\ DOMAIN chunks = 0..(Threads(pass) - 1)
       /\ \A p \in DOMAIN chunks : chunks[p].current = p

\* A thread's structure is freed, the next pass planned and the file closed only
\* when every thread of the pass has exited.
JoinedBeforeFree ==
  main \in {"plan", "append", "close", "ok"} =>
    \A p \in ThreadIds : worker[p].pc \in {"none", "exited"}

\* No more than concurrency coroutines of a thread exist at a time, as FIndexer
\* promises ("the number of concurrent calls to make in each thread"): this is
\* what bounds the memory for buffers.
ConcurrencyBounded ==
  \A p \in ThreadIds :
    Cardinality(worker[p].running) + Cardinality(worker[p].sent)
      <= conf.concurrency

\* The progress of a pass is reported as 1 before the pass ends, so that the
\* sum the next pass starts from is the number of finished passes.
ProgressReported ==
  main = "append" =>
    \A p \in 0..(Threads(pass) - 1) : seen[p] = Buffers(pass, p)

\* The progress given to on_progress never goes back within a pass, and passes
\* only go from the end of the file to its beginning.
ProgressForward ==
  [][\/ \A p \in ThreadIds : seen'[p] >= seen[p]
     \/ pass' = pass - 1
     \/ main' = "close"]_vars

Starts == {b + 1 : b \in conf.newlines}

\* The lookup file holds starts of lines only, each once, from the last line of
\* the file to the first, at every moment and whatever fails: what
\* test_index_sequential checks of a finished index.
EntriesDescend ==
  /\ \A j \in DOMAIN lookup.entries :
       lookup.entries[j] \in Starts \cup {0}
  /\ \A j, k \in DOMAIN lookup.entries :
       j < k => lookup.entries[j] > lookup.entries[k]

\* The byte between the ranges of two neighbouring threads, which no coroutine
\* reads.
Gap ==
  {b \in conf.newlines :
     \E q \in 0..(Passes - 1) : \E p \in 1..(Threads(q) - 1) : b + 1 = From(q, p)}

\* When f_index_text_file returns an index, the number of lines it gives is one
\* more than the number of newlines outside the gaps between threads, whatever
\* failed on the way: a failed coroutine or thread never yields a smaller index.
\* Only a short pread, which is not noticed, does.
LinesCounted ==
  (main = "ok" /\ "short" \notin conf.faults) =>
    lookup.len = Cardinality(conf.newlines \ Gap) + 1

\* The buffers of a thread, and the threads of a pass, with a newline in them.
BuffersWithLines(q, p) ==
  {c \in 0..(Buffers(q, p) - 1) :
     \E b \in conf.newlines :
       b \in BufferFrom(q, p, c)..(BufferFrom(q, p, c) + BufferBytes(q, p, c) - 1)}

ThreadsWithLines(q) ==
  {p \in 0..(Threads(q) - 1) : BuffersWithLines(q, p) # {}}

\* No array of several chunks of pass q holds exactly one with offsets;
\* f_chunk_array_reverse_reduce loses the offsets of such a chunk.
NoLoneChunkIn(q) ==
  /\ Threads(q) > 1 => Cardinality(ThreadsWithLines(q)) # 1
  /\ \A p \in 0..(Threads(q) - 1) :
       Buffers(q, p) > 1 => Cardinality(BuffersWithLines(q, p)) # 1

NoLoneChunk == \A q \in 0..(Passes - 1) : NoLoneChunkIn(q)

\* When no newline falls between two threads and no chunk is alone, the index
\* is exact: it has one entry for the start of every line, in descending order,
\* and as many lines as entries.
IndexExact ==
  (main = "ok" /\ "short" \notin conf.faults /\ Gap = {} /\ NoLoneChunk) =>
    /\ {lookup.entries[j] : j \in DOMAIN lookup.entries} = Starts \cup {0}
    /\ Len(lookup.entries) = Cardinality(Starts) + 1
    /\ lookup.len = Len(lookup.entries)

\* A call in which nothing fails on a file that is not empty returns an index.
Indexed == (conf.faults = {} /\ conf.size > 0) => <>(main = "ok")

\* A call always ends, also when something fails on the way.
Returns == <>(main \in Final)

\* A thread that has exited without publishing progress 1: one that failed, or one
\* that has no buffer because the file is empty.
Lost(p) ==
  /\ conf.faults \cap {"worker", "coroutine"} # {} \/ conf.size = 0
  /\ worker[p].pc = "exited"
  /\ ~Complete(p, worker[p].progress)

\* Nothing but a lost thread keeps a call from ending: no failure of another kind,
\* no order in which threads and coroutines end, and no lost thread that is not
\* the one the main thread waits for.
ReturnsUnlessLost == <>(main \in Final \/ (main = "poll" /\ Lost(i)))

\* README.md: a newline index on files of an arbitrary size, so every newline
\* of the file is in it.
EveryNewlineIndexed ==
  main = "ok" => lookup.len = Cardinality(conf.newlines) + 1

\* chunk.h says of line_count: the count of offsets used in this chunk.  So the
\* lookup file has as many entries as it has lines.
CountMatchesList ==
  main = "ok" => lookup.len = Len(lookup.entries)
=============================================================================
