------------------------------- MODULE Search -------------------------------
(***************************************************************************)
(* f_index_search: threads that each search a range of the lines of an     *)
(* index and hand the lines that match to on_result, one at a time and not *)
(* more than result_limit of them in all.  The count of results is shared: *)
(* it is read without the mutex to stop early, and read again and          *)
(* incremented under the mutex.                                            *)
(*                                                                         *)
(* Lines are numbered from 0, as f_index_lookup does.  The index is exact: *)
(* flookup->len is one more than the number of lines f_index_lookup can    *)
(* fetch.  Whether a line is blank and whether the pattern matches it is   *)
(* part of the request.                                                    *)
(***************************************************************************)
EXTENDS Ranges, Sequences, FiniteSets

CONSTANTS
  Requests,    \* the f_searcher structures and the files they are used on
  MaxThreads   \* largest number of threads in a request

\* What can fail in a request, its faults:
\* "main"   an allocation, pthread_mutex_init or the pattern of the caller fails
\* "create" malloc or pthread_create fails for one of the threads
\* "alloc"  a thread cannot allocate its match data or a result
\* "lookup" f_index_lookup fails or gives NULL, or pcre2_match fails
FaultKinds == {"main", "create", "alloc", "lookup"}

ASSUME RequestsAssumption ==
  /\ MaxThreads \in Nat \ {0}
  /\ \A r \in Requests :
       /\ r.lines \in Nat
       /\ r.matching \in SUBSET (0..(r.lines - 1))
       /\ r.blank \in SUBSET ((0..(r.lines - 1)) \ r.matching)
       /\ r.threads \in 1..MaxThreads
       /\ r.buffer \in Nat
       /\ r.limit \in Int
       /\ r.callback \in BOOLEAN
       /\ r.faults \subseteq FaultKinds

VARIABLES
  conf,       \* the request
  main,       \* where the main thread is, or how f_index_search ended
  i,          \* the loop counter of the main thread
  pc,         \* where each thread is
  at,         \* i of each thread: the first line of its buffer
  line,       \* the next line of the buffer, of each thread
  stop,       \* the end of the lines in the buffer, of each thread
  finished,   \* whether the progress of each thread is 1
  count,      \* *result_count
  mutex,      \* the threads that hold search_mutex: none or one
  delivered   \* the lines given to on_result, in order

vars == <<conf, main, i, pc, at, line, stop, finished, count, mutex, delivered>>

ThreadIds == 0..(MaxThreads - 1)

Final == {"ok", "error", "killed"}

-----------------------------------------------------------------------------
(* The division of the lines *)

\* flookup->len
TotalLines == conf.lines + 1

Threads == AtMost(conf.threads, TotalLines)

\* ceil(total_lines / threads) divides two integers, so it rounds down, and the
\* lines that remain belong to no thread.
LinesPerThread == TotalLines \div Threads

Start(p) == p * LinesPerThread

End(p) == Start(p) + LinesPerThread

\* The number of lines asked for without the cut at the end of the range.
UncutBuffer(p, first) == conf.buffer

\* The number of lines a thread asks for at the line first.
Buffer(p, first) ==
  IF first + conf.buffer > End(p) THEN End(p) - first - 1 ELSE conf.buffer

\* The end of the lines f_index_lookup(first, n) gives: it has none after the
\* last newline.
LookupEnd(first, n) == AtMost(first + n, conf.lines)

-----------------------------------------------------------------------------

Init ==
  /\ conf \in Requests
  /\ main = "init"
  /\ i = 0
  /\ pc = [p \in ThreadIds |-> "none"]
  /\ at = [p \in ThreadIds |-> 0]
  /\ line = [p \in ThreadIds |-> 0]
  /\ stop = [p \in ThreadIds |-> 0]
  /\ finished = [p \in ThreadIds |-> FALSE]
  /\ count = 0
  /\ mutex = {}
  /\ delivered = <<>>

buffers == <<at, line, stop>>

shared == <<count, mutex, delivered>>

-----------------------------------------------------------------------------
(* A thread: f_index_search_thread *)

At(p, label) == main # "killed" /\ pc[p] = label

Goto(p, label) == pc' = [pc EXCEPT ![p] = label]

\* A thread sets its progress to 1 and is about to exit.
Exit(p) == Goto(p, "leaving") /\ finished' = [finished EXCEPT ![p] = TRUE]

\* A thread exits without touching its progress.
ExitSilently(p) == Goto(p, "exited") /\ UNCHANGED finished

\* The limit is met only when one result more than allowed has been counted.
LimitMetLate == count > conf.limit

LimitMet == count >= conf.limit

Begin(p) ==
  /\ At(p, "start")
  /\ at' = [at EXCEPT ![p] = Start(p)]
  /\ Goto(p, "next")
  /\ UNCHANGED <<conf, main, i, line, stop, finished, shared>>

BeginFails(p) ==
  /\ "alloc" \in conf.faults
  /\ At(p, "start")
  /\ ExitSilently(p)
  /\ UNCHANGED <<conf, main, i, buffers, shared>>

\* The loop over the buffers ends, at the end of the range or at the limit.
Stop(p) ==
  /\ At(p, "next")
  /\ at[p] >= End(p) \/ LimitMet
  /\ Exit(p)
  /\ UNCHANGED <<conf, main, i, buffers, shared>>

\* The lines of the next buffer are fetched.
Fetch(p) ==
  /\ At(p, "next")
  /\ at[p] < End(p)
  /\ ~LimitMet
  /\ line' = [line EXCEPT ![p] = at[p]]
  /\ stop' = [stop EXCEPT ![p] = LookupEnd(at[p], Buffer(p, at[p]))]
  /\ Goto(p, "lines")
  /\ UNCHANGED <<conf, main, i, at, finished, shared>>

FetchFails(p) ==
  /\ "lookup" \in conf.faults
  /\ At(p, "next")
  /\ at[p] < End(p)
  /\ ~LimitMet
  /\ Exit(p)
  /\ UNCHANGED <<conf, main, i, buffers, shared>>

\* The thread looks at a line of its buffer.
Looking(p) == At(p, "lines") /\ line[p] < stop[p]

AdvanceLine(p) == line' = [line EXCEPT ![p] = @ + 1]

SkipBlank(p) ==
  /\ Looking(p)
  /\ line[p] \in conf.blank
  /\ AdvanceLine(p)
  /\ UNCHANGED <<conf, main, i, pc, at, stop, finished, shared>>

\* A line without a match; the limit is checked, without the mutex.
SkipOther(p) ==
  /\ Looking(p)
  /\ line[p] \notin conf.blank \cup conf.matching
  /\ IF LimitMet
     THEN Exit(p) /\ UNCHANGED line
     ELSE AdvanceLine(p) /\ UNCHANGED <<pc, finished>>
  /\ UNCHANGED <<conf, main, i, at, stop, shared>>

MatchFails(p) ==
  /\ "lookup" \in conf.faults
  /\ Looking(p)
  /\ line[p] \notin conf.blank
  /\ Exit(p)
  /\ UNCHANGED <<conf, main, i, buffers, shared>>

\* f_search_result_init cannot allocate.
ResultFails(p) ==
  /\ "alloc" \in conf.faults
  /\ Looking(p)
  /\ line[p] \in conf.matching
  /\ ExitSilently(p)
  /\ UNCHANGED <<conf, main, i, buffers, shared>>

\* A match without on_result: the result is freed and not counted.
Discard(p) ==
  /\ Looking(p)
  /\ line[p] \in conf.matching
  /\ ~conf.callback
  /\ AdvanceLine(p)
  /\ UNCHANGED <<conf, main, i, pc, at, stop, finished, shared>>

Match(p) ==
  /\ Looking(p)
  /\ line[p] \in conf.matching
  /\ conf.callback
  /\ Goto(p, "lock")
  /\ UNCHANGED <<conf, main, i, buffers, finished, shared>>

\* A lock that does not wait for the others.
LockWithoutWait(p) ==
  /\ At(p, "lock")
  /\ mutex' = mutex \cup {p}
  /\ Goto(p, "check")
  /\ UNCHANGED <<conf, main, i, buffers, finished, count, delivered>>

Lock(p) ==
  /\ At(p, "lock")
  /\ mutex = {}
  /\ mutex' = mutex \cup {p}
  /\ Goto(p, "check")
  /\ UNCHANGED <<conf, main, i, buffers, finished, count, delivered>>

\* The limit is read again under the mutex.
Check(p) ==
  /\ At(p, "check")
  /\ IF LimitMet
     THEN Exit(p)
     ELSE Goto(p, "count") /\ UNCHANGED finished
  /\ UNCHANGED <<conf, main, i, buffers, shared>>

Count(p) ==
  /\ At(p, "count")
  /\ count' = count + 1
  /\ Goto(p, "callback")
  /\ UNCHANGED <<conf, main, i, buffers, finished, mutex, delivered>>

\* on_result and the release of the mutex.
Callback(p) ==
  /\ At(p, "callback")
  /\ delivered' = Append(delivered, line[p])
  /\ mutex' = mutex \ {p}
  /\ AdvanceLine(p)
  /\ Goto(p, "lines")
  /\ UNCHANGED <<conf, main, i, at, stop, finished, count>>

\* The next buffer begins after the lines fetched.
NextAfterFetched(p) ==
  /\ At(p, "lines")
  /\ line[p] >= stop[p]
  /\ at' = [at EXCEPT ![p] = stop[p]]
  /\ Goto(p, "next")
  /\ UNCHANGED <<conf, main, i, line, stop, finished, shared>>

\* The buffer is done; its size, not the lines fetched, gives the next one.
NextBuffer(p) ==
  /\ At(p, "lines")
  /\ line[p] >= stop[p]
  /\ at' = [at EXCEPT ![p] = @ + conf.buffer]
  /\ Goto(p, "next")
  /\ UNCHANGED <<conf, main, i, line, stop, finished, shared>>

\* What a thread still does after it has set its progress: it frees its buffers,
\* releases the mutex if it met the limit in there, and exits.
Leave(p) ==
  /\ At(p, "leaving")
  /\ mutex' = mutex \ {p}
  /\ Goto(p, "exited")
  /\ UNCHANGED <<conf, main, i, buffers, finished, count, delivered>>

-----------------------------------------------------------------------------
(* The main thread: f_index_search *)

Prepare ==
  /\ main = "init"
  /\ main' = "spawn"
  /\ UNCHANGED <<conf, i, pc, buffers, finished, shared>>

PrepareFails ==
  /\ "main" \in conf.faults
  /\ main = "init"
  /\ main' = "error"
  /\ UNCHANGED <<conf, i, pc, buffers, finished, shared>>

Spawn ==
  /\ main = "spawn"
  /\ Goto(i, "start")
  /\ IF i + 1 < Threads
     THEN i' = i + 1 /\ UNCHANGED main
     ELSE i' = 0 /\ main' = "poll"
  /\ UNCHANGED <<conf, buffers, finished, shared>>

\* The threads created before are left running, or get SIGINT, which ends the
\* process unless it has a handler.
SpawnFails ==
  /\ "create" \in conf.faults
  /\ main = "spawn"
  /\ main' \in IF i = 0 THEN {"error"} ELSE {"error", "killed"}
  /\ UNCHANGED <<conf, i, pc, buffers, finished, shared>>

\* One turn of the loop that reads the progress of the threads and reports it,
\* until that of thread i is 1.
Poll ==
  /\ main = "poll"
  /\ main' = IF finished[i] THEN "join" ELSE "poll"
  /\ UNCHANGED <<conf, i, pc, buffers, finished, shared>>

\* A join loop with a bound one too large.
JoinPastLast ==
  /\ main = "join"
  /\ pc[i] = "exited"
  /\ IF i < Threads
     THEN i' = i + 1 /\ main' = "poll"
     ELSE main' = "ok" /\ UNCHANGED i
  /\ UNCHANGED <<conf, pc, buffers, finished, shared>>

\* The join of a thread that has published progress 1 but may still run.
JoinWithoutWait ==
  /\ main = "join"
  /\ IF i + 1 < Threads
     THEN i' = i + 1 /\ main' = "poll"
     ELSE main' = "ok" /\ UNCHANGED i
  /\ UNCHANGED <<conf, pc, buffers, finished, shared>>

Join ==
  /\ main = "join"
  /\ pc[i] = "exited"
  /\ IF i + 1 < Threads
     THEN i' = i + 1 /\ main' = "poll"
     ELSE main' = "ok" /\ UNCHANGED i
  /\ UNCHANGED <<conf, pc, buffers, finished, shared>>

Ended == main \in Final /\ UNCHANGED vars

-----------------------------------------------------------------------------

ThreadStep(p) ==
  \/ Begin(p) \/ Stop(p) \/ Fetch(p) \/ NextBuffer(p) \/ Leave(p)
  \/ SkipBlank(p) \/ SkipOther(p) \/ Discard(p) \/ Match(p)
  \/ Check(p) \/ Count(p) \/ Callback(p)

MainStep == Prepare \/ Spawn \/ Poll \/ Join

Fault ==
  \/ PrepareFails
  \/ SpawnFails
  \/ \E p \in ThreadIds :
       BeginFails(p) \/ FetchFails(p) \/ MatchFails(p) \/ ResultFails(p)

Next ==
  \/ MainStep
  \/ \E p \in ThreadIds : ThreadStep(p) \/ Lock(p)
  \/ Fault
  \/ Ended

Spec == Init /\ [][Next]_vars

\* The operating system runs every thread.  A mutex of the default kind does not
\* promise a turn to each thread that waits for it; the limit and the lines are
\* finite, so that it is given to some thread is enough.
FairSpec ==
  /\ Spec
  /\ WF_vars(MainStep)
  /\ \A p \in ThreadIds : WF_vars(ThreadStep(p))
  /\ WF_vars(\E p \in ThreadIds : Lock(p))

-----------------------------------------------------------------------------
(* Correctness *)

Labels ==
  {"none", "start", "next", "lines", "lock", "check", "count", "callback",
   "leaving", "exited"}

\* The types of the variables.
TypeOK ==
  /\ conf \in Requests
  /\ main \in {"init", "spawn", "poll", "join"} \cup Final
  /\ i \in ThreadIds
  /\ pc \in [ThreadIds -> Labels]
  /\ at \in [ThreadIds -> Nat]
  /\ line \in [ThreadIds -> Nat]
  /\ stop \in [ThreadIds -> Nat]
  /\ finished \in [ThreadIds -> BOOLEAN]
  /\ count \in Nat
  /\ mutex \subseteq ThreadIds
  /\ delivered \in Seq(Nat)

\* No more results are counted, or given to on_result, than result_limit ("The
\* maximum number of results returned"), however many threads see the limit not
\* yet met at the same time.
LimitRespected ==
  /\ count <= IF conf.limit < 0 THEN 0 ELSE conf.limit
  /\ Len(delivered) <= count

\* on_result is called by one thread at a time.
CallbackExclusive ==
  \A p, r \in ThreadIds :
    pc[p] = "callback" /\ pc[r] = "callback" => p = r

Given == {delivered[k] : k \in DOMAIN delivered}

\* The lines given to on_result match, and none is given twice, although the
\* threads divide the lines by arithmetic that rounds and cuts.
DeliveredOnce ==
  /\ Given \subseteq conf.matching
  /\ Cardinality(Given) = Len(delivered)

\* When f_index_search has returned normally its threads have exited: nobody is
\* left to call on_result, to use the mutex it destroyed or to read what it freed.
QuietAtReturn ==
  main = "ok" =>
    /\ \A p \in ThreadIds : pc[p] \in {"none", "exited"}
    /\ mutex = {}
    /\ count = Len(delivered)

\* The lines that some thread fetches: those of its range, without the last
\* one when line_buffer does not divide the length of the range, and none when
\* line_buffer is 0.
Searched ==
  {l \in 0..(conf.lines - 1) : \E p \in 0..(Threads - 1) :
     /\ l \in Start(p)..(End(p) - 1)
     /\ conf.buffer > 0
     /\ LinesPerThread % conf.buffer = 0 \/ l # End(p) - 1}

\* A search in which nothing fails gives on_result every match in the lines the
\* threads fetch, or as many as the limit allows.
MatchesDelivered ==
  (main = "ok" /\ conf.callback /\ conf.faults = {}) =>
    IF Cardinality(Searched \cap conf.matching) > conf.limit
    THEN count = IF conf.limit < 0 THEN 0 ELSE conf.limit
    ELSE Given = Searched \cap conf.matching

\* A thread that could not allocate and has exited without setting its progress.
Lost(p) == "alloc" \in conf.faults /\ pc[p] = "exited" /\ ~finished[p]

\* A thread that fetches no lines at the same place again and again: line_buffer is
\* 0, which nothing refuses, and nobody can give the results that meet the limit.
Circling(p) == conf.buffer = 0 /\ ~LimitMet /\ pc[p] \in {"next", "lines"}

\* A search always returns, also when something fails on the way, unless the main
\* thread polls for ever for a lost thread or for one that circles; no thread ever
\* waits for a mutex that a thread which failed has not released.
Returns == <>[](main \in Final \/ (main = "poll" /\ (Lost(i) \/ Circling(i))))

\* search.h says of count: How many lines to search.  So when the limit is not
\* met every line of a thread's range that matches has been given to on_result.
RangeSearched ==
  (main = "ok" /\ count < conf.limit) =>
    \A p \in 0..(Threads - 1) :
      conf.matching \cap (Start(p)..(End(p) - 1)) \subseteq Given
=============================================================================
