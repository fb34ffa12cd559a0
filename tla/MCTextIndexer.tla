--------------------------- MODULE MCTextIndexer ---------------------------
(* Requests on every file of a few bytes, by where its newlines are. *)
EXTENDS TextIndexerRefines

\* The requests with these parameters on every file of n bytes.
RequestsOn(n, threads, concurrency, buffer, maxBytes, faults) ==
  [size : {n}, newlines : SUBSET (0..(n - 1)), threads : {threads},
   concurrency : {concurrency}, buffer : {buffer}, maxBytes : {maxBytes},
   faults : {faults}]

\* Two passes, of 6 bytes and 1 byte.  The first has two threads with two
\* buffers and one, the second a single thread.
TwoPasses(faults) == RequestsOn(7, 2, 2, 2, 6, faults)

\* Three buffers in a thread with batches of two.
TwoBatches(faults) == RequestsOn(5, 1, 2, 2, 8, faults)

\* Three threads of one buffer each.
ThreeThreads == RequestsOn(7, 3, 1, 3, 8, {})

AllButShort == FaultKinds \ {"short"}

\* Every kind of fault; short reads by themselves, on the smaller file.
MCRequests ==
  TwoPasses({}) \cup TwoBatches({}) \cup ThreeThreads
    \cup TwoPasses(AllButShort) \cup TwoBatches(AllButShort)
    \cup TwoBatches({"short", "coroutine"})

\* Requests small enough for the checks of liveness, with two passes in one.
Small(faults) ==
  RequestsOn(3, 1, 2, 1, 8, faults) \cup RequestsOn(5, 2, 1, 2, 4, faults)

\* A thread that fails while its batches run.
WorkerRequests == Small({"worker"})

\* A file without bytes.
EmptyFile == RequestsOn(0, 2, 2, 2, 6, {})

\* The faults after which a call ends, those after which it may not, and a file
\* on which it does not.
LiveRequests ==
  Small({}) \cup Small({"main", "create", "reduce"}) \cup WorkerRequests
    \cup Small({"coroutine"}) \cup EmptyFile

\* For the runs on files in which nothing fails.
FaultlessRequests == TwoPasses({})
=============================================================================
