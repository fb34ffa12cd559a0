# A verification of libflashlight in TLA+

libflashlight builds a *newline index* of a file: a second file that holds the
byte offset of the start of every line, so that any range of lines can be read
without scanning the file. The index is built by several threads, each of which
runs several coroutines; a search then goes over the lines in several threads.
The library is about 2000 lines of C, and nearly everything that can go wrong in
it is arithmetic on ranges, the order in which concurrent work is put together
again, and the handshake by which the main thread waits for its threads. That is
what these modules are about.

## Inventory

| Part | Source | State | Operations | Modules | Status |
|---|---|---|---|---|---|
| Work division | `indexer.c` | none kept; computes arrays of byte ranges | `f_indexer_threads_init`, `f_indexer_chunks_init` | `Ranges`, `ThreadPlan`, `IndexerLemmas`, `ThreadPlanProofs` | modelled, proved |
| Chunks | `chunk.c` | a linked list of offsets with its last node, a count | `f_chunk_new`, `f_chunk_array_reverse_reduce` | `Chunks`, `ChunkReduce`, `IndexerLemmas`, `OffsetListsProofs` | modelled, proved |
| Text indexer | `indexers/text_indexer.c` | pass, loop counters, per thread: progress, chunk array, channel | `f_index_text_file`, `f_index_text_chunk`, `f_index_text_bytes` | `TextIndexer`, `LineIndex`, `Lists`, `TextIndexerRefines`, `TextIndexerProofs`, `LineIndexProofs` | modelled, proved |
| Lookup file | `lookup.c` | the entries on disk, their file and its name, `len` | `f_lookup_file_init`, `_append`, `_from_chunk`, `_free` | `TextIndexer`, `IndexLookup`, `IndexLife`, `IndexLifeProofs` | modelled, proved |
| Lookup in memory | `lookup.c` | array of offsets | `f_lookup_mem_from_chunk` | `OffsetLists`, `OffsetListsProofs` | modelled, proved |
| Index | `index.c` | open file, lookup | `f_index_lookup`, `f_index_init`, `f_index_free` | `IndexLookup`, `IndexLife`, `IndexLifeProofs` | modelled, proved |
| Search | `search.c` | count of results, progress per thread, one global mutex | `f_index_search`, `f_index_search_thread` | `Search`, `SearchCalls`, `SearchProofs`, `SearchCallsProofs` | partly: not the list of results; proved |
| List of offsets | `bytes.c` | linked list | prepend; the conversion to nodes | `TextIndexer` (`Scan`), `ChunkReduce`, `OffsetLists`, `OffsetListsProofs` | modelled, proved |
| Node list | `node.c` | linked list | prepend, in the conversion | `OffsetLists`, `OffsetListsProofs` | partly: its other users are tests |
| Logger | `log.c` | three globals | set callback, level; log | - | left out, see below |
| Debug, lib, generated header, vendored code | `debug.c`, `lib.c`, `flashlight.h`, `vendor/` | none of the library's | - | - | left out |

How they interact:

* `f_index_text_file` calls `f_indexer_threads_init` once per pass, creates one
  thread per range, and *polls* a plain `double progress` in each thread's
  structure until it is 1; only then does it join the thread.
* A thread calls `f_indexer_chunks_init`, launches its buffers in batches of
  `concurrency` coroutines and receives one `f_chunk*` per coroutine over a
  libdill channel. Coroutines of one thread never run in parallel but may run in
  any order.
* Chunks are reduced twice, in a thread over its buffers and in the main thread
  over its threads, by joining linked lists in place.
* Passes run from the end of the file to its beginning, and each appends to the
  lookup file, so the entries descend and the last one is offset 0.
* `f_index_lookup` turns a line number into a position in the lookup file,
  counted from its last entry.
* `f_index_search` divides `flookup->len` by the number of threads; its threads
  call `f_index_lookup` and share one `result_count` and one mutex, under which the
  caller's `on_result` runs. The mutex is global: every search initialises it anew
  and destroys it, so searches meet through it, and a search that failed has left
  its threads running with it.
* Indexes meet in `lookup_dir`: the name of a lookup file comes from `rand()`, which
  the library does not seed (the example of its README and its tests call `srand`, a
  caller that does not gets the same names in every run);
  `f_lookup_file_init` opens the file of that name whether it exists or not, and `f_index_free` removes it by name.

What is hard, and what makes each part correct:

* Work division: every byte in at most one range, none out of the pass, no empty
  range (a thread with an empty range is waited for forever).
* Text indexer: chunks in their slots in whatever order coroutines finish; no
  memory freed before its threads are joined; entries in strictly descending
  order; the count of lines right whatever failed; the call returns.
* Chunks: joined lists do not run in circles, keep their order and their nodes; what
  is made of them in memory agrees with what is written to the file.
* Lookup: the lines asked for, exactly, also after a crash has left lookup files
  behind; every index its own file; no file left that nobody uses.
* Search: the limit under a race of threads; exclusive callback; no line given
  twice; nobody running after the return; the call returns; and all of this again
  for the next search, after one that failed.

The list of hazards in `PROJECT.json` has each of these at its line of source.

## Modules

### `Ranges`

The arithmetic of passes, threads and buffers as operators. Note two traits of
the code: `ceil(a / b)` on integers rounds *down* (`ThreadPages`), while
`ceil(a / (double) b)` rounds up (`CeilDiv`); and thread `i` starts `i` bytes
late, so exactly one byte lies between neighbouring ranges.

### `ThreadPlan`

The loop of `f_indexer_threads_init`, one action per iteration (`Begin`, `Fill`,
`Finish`, `Fail`). The loop assigns `pages`, which its later iterations multiply,
and works in `size_t`; the module keeps both (`SizeMod` is 2^w). `TextIndexer`
uses the closed form of `Ranges`; that the two agree is `PlanIsSpans`, for
requests with `threads <= buffer_size + 1`. Beyond this the subtraction in the
loop can wrap around, and `TextIndexer` assumes `buffer >= threads` for that
reason (`RequestsAssumption`).

### `Chunks` and `ChunkReduce`

A list of offsets is a sequence in `Chunks`; `ReverseReduce` is
`f_chunk_array_reverse_reduce`, including what it does with a single non-empty
chunk among several: `result->first` stays NULL. `ChunkReduce` is the same
function as a loop over `next` pointers, one action per iteration, started also
on chunks that lost their first node in an earlier reduction. `ReduceAgrees` ties
the two together, and is proved for arrays of any length: the rest of the project may
use sequences. `ReverseOrder` says what chunk.h shows, and says it without the words of
`Chunks`: the list has all nodes of the array, descending, and ends at `last`.

### `TextIndexer`

State: the request `conf` (size, positions of the newlines, threads, concurrency,
buffer, bytes per pass, and which kinds of call may fail); the main thread
(`main`, `pass`, `i`, `lines`, `chunks`, `seen`); one record per thread
(`worker`); and the lookup file. One action is what a thread or coroutine does
between two points where another can see it:

| Actions | Code (`text_indexer.c`) |
|---|---|
| `IndexBytes`, `IndexBytesFails` | `f_index_text_bytes`, from the `pread` to the `chsend` |
| `Setup`, `Launch`, `Receive`, `ReceiveNull`, `Return` | `f_index_text_chunk`; the last receive of a batch also publishes the progress |
| `ThreadFails`, `ReduceFails` | its early exits |
| `Open`, `Plan`, `Spawn`, `Poll`, `Join`, `JoinNull`, `AppendPass`, `Close` | `f_index_text_file`; `AppendPass` includes the second reduction, `f_lookup_file_from_chunk` and the frees |
| `SpawnFails`, `MainFails` | its early returns; `MainFails` is `OpenFails`, `PlanFails`, `AppendFails` and `CloseFails`, by the part of the function in which they are |

Choices made where C leaves them open: a coroutine that fails sends from address
NULL, which either ends the process or delivers NULL (`IndexBytesFails`); a
signal sent to a thread either ends the process or, with a handler, does nothing
(`SpawnFails`, `JoinNull`). A failing main thread stops without
cleaning up, as the code does; what a failing append has already written is lost
with the lookup and not kept in the model. Progress is modelled by the number of
finished chunks, so that no fraction is needed; `progress >= 1` is
`Complete`, which a thread without buffers never reaches.

### `LineIndex` and `TextIndexerRefines`

`LineIndex` is what an indexing promises, without threads, coroutines, buffers or
chunks: `IndexPass` puts one pass into the index in a single step, `Return` gives the
index away, `Fail` gives none. What a pass contributes is said by what was read in
it (`Read`) and by whether its reductions keep all of it (`Whole`); a short read may
find less (`Short`). `IndexPass` says what is added, not how: entries in descending
order that are the starts of the lines after the newlines kept, and a `len` that
counts the newlines found, plus the first line with the last pass.

`TextIndexerRefines` maps `TextIndexer` to it: `job` is the request, `left` the number
of passes that are not in the lookup file, `index` the lookup (and no index for a
caller that got NULL). `ReadOf` and `WholeOf` say which newlines of a pass its threads
read and when a reduction meets a single non-empty chunk, from the ranges alone.
`ImplementsLineIndex` is checked in the run `indexing`: an append is the step of the
pass, all else is a stutter, and an ending of the process comes only from a call that
failed. The same is proved for every request in `TextIndexerProofs`. The promises
of `LineIndex` (`PromisedOrder`, `PromisedCount`, `PromisedLines`) are proved for every
job in `LineIndexProofs`. `Lists` has the few operators on lists of offsets that
`LineIndex` and the proofs share.

### `IndexLookup` and `IndexLife`

`IndexLookup` is `f_index_lookup` as operators on the entries of a lookup file:
`Results` is what a call can give. Offsets are computed as the code does, with the
product wrapped and seen as an `off_t` (`Signed`). An entry past the end of the
lookup file is read as any value: `pread` returns 0 and the code then uses what
`malloc` left.

`IndexLife` is what happens to lookup files. State: the setting `conf` (the names each
process draws, the files indexed, the calls looked up, the faults), how many names
each process has drawn, the index it is making with its position in the file, its
live indexes, the directory (`dir`, from names to inodes) and the entries in each
inode. `OpenLookup` draws a name and empties or creates its file; `AppendEntry` writes
one entry at the position of this process, over zeros when another has cut the file;
`InitIndex`, `Free` and `MakeFails` are `f_index_init`, `f_index_free` and an indexing
that returns NULL, which closes and removes nothing. `Crash` ends a process, which
then draws its names from the first on, over its own old files. An index is made from
the exact entries of its file: `TextIndexer` says when they are. `f_index_lookup`
changes no state, so the property `LookupExact` looks up every call in every state.
Names that a process draws are taken to be different; a `rand()` that repeats within
one process is not modelled.

### `OffsetLists`

Runs on from the end of `ChunkReduce`, on the pointers it left. `StartMemory`,
`StoreValue`, `EndMemory` are `f_lookup_mem_from_chunk`, which fills an array from its
end while it frees the list; `StartNodes`, `KeepBytes`, `PrependNode`, `EndNodes` are
`f_node_from_reversed_bytes_node`, for every choice of the atomic offsets. A value of
the array that is not assigned is not in the domain of `values`; a list without an
atomic offset leaves `*out` to what the caller had in it (`Garbage`).
`f_lookup_mem`'s `len` is one more than its lines; `lookup.h` calls it the number of
lines, and its last value repeats the start of the last line. `LineCount` is the
`line_count` of the final chunk, one for each newline, that is for each node of the
array: also for those that a reduction has lost.

### `Search`

State: `conf` (which lines match, which are blank, threads, `line_buffer`, limit,
callback, faults), the main thread, and per thread its label, the first line of
its buffer, the line it looks at and the end of the lines fetched; the shared
count, mutex and the lines given to `on_result`. The label `leaving` is the time
between setting progress 1 and the end of the thread, in which it may still hold
the mutex. The count is read without the mutex in `Stop`, `Fetch` and `SkipOther`,
and with it in `Check`. The code also ends the polling of a thread at progress
0.999, which a thread with 1000 or more lines can reach before its end; the
main thread then waits in the join instead of the polling loop, which no other
thread can tell apart, and the model has only the one wait.

`Lost(p)` and `Circling(p)` name the two ways in which a search may not return: thread
`p` has exited without publishing progress 1 because it could not allocate, or it
fetches no lines at the same place for ever because `line_buffer` is 0, which nothing
refuses. (A lost thread that had come to 0.999 is joined by the code, so the search then
returns; the model lets it wait.) `TextIndexer` has a `Lost` of its own, for a thread
that failed or had no bytes.

### `SearchCalls`

A caller that searches several times. Each call keeps its own threads and count
(`pc`, `left`, `count` by call), all share `mutex`; of a thread's work only the matches
it gives to `on_result` are left. `Exit` stands for the end of its lines and for
every place where it looks at the limit without the mutex, `LookupFails` for a lookup or
a match that fails; both set the progress to 1. A thread that cannot allocate does not
(`BeginFails`, `ResultFails`): it is `Lost`, and a call that comes to wait for it goes
round its polling loop for ever (`Polling`). `Begin` is the `pthread_mutex_init`, whoever
holds the mutex; `PrepareFails`, `MallocFails` and `CreateFails` are the early returns,
which leave the mutex and the threads as they are, unless the SIGINT of `CreateFails`
ends the process; `Destroy` ends a call that went well. The `pthread_mutex` calls do what glibc does
with a default mutex (`Lock`, `Unlocked`, `Destroy`), as the code ignores their results.
`overlap` is a history variable: the calls that began while threads of an earlier one
ran. A search in another thread of the caller would meet `Begin` in the same way; it
is not modelled apart.

## Runs

| Run | Checks | Bounds |
|---|---|---|
| `plan` | `TypeOK`, `PlanIsSpans`, `RangesInOrder`, `RangesNonEmpty` | up to 5 threads, buffers of 1-6 bytes, passes of 0-14 bytes, two offsets: all three sides of `threads = buffer`, all remainders; also a 6-bit `size_t` that wraps |
| `indexing` | the eight invariants of an indexing, `ProgressForward`, `ImplementsLineIndex` | 7 bytes in two passes of 6 and 1 with two threads of two and one buffers; 5 bytes in one thread with three buffers in batches of two; 7 bytes in three threads; *every* set of newline positions; without faults, with all faults but short reads, with short reads |
| `indexing_live` | `Indexed`, `ReturnsUnlessLost` | 3 bytes in one thread with batches of two, 5 bytes in two passes; without faults, with faults of the main thread, with failing threads, with failing coroutines; a file without bytes |
| `search` | six invariants of a search, `Returns` | 5 lines, every set of matching lines, two threads with buffers that do and do not divide the range and limits 1, 2, 9; three threads and limit 1; no callback, limit 0 and below, more threads than lines; all faults; a `line_buffer` of 0 with limits 0 and 1, with and without faults |
| `search_calls` | `TypeOK`, `MutexOwned`, `LimitUnlessOverlap`, `QuietAfterSuccess`, `AllReturn` | two calls of two or three threads, any of which may fail before its threads or while it creates them, and whose threads may fail and be lost; three calls with a failing one between; a limit of 0 |
| `lookup` | `TypeOK`, `LookupExact`, `FilesApart`, `NothingLeft` | files of 0-4 bytes with every set of newlines and all 64 x 64 arguments of a 6-bit `size_t`; one process with two and three names, two processes with the same names and with different ones; with and without crashes and failing indexings |
| `reduce` | `ListsTypeOK`, `ListsEnd`, `ReduceAgrees`, `ReverseOrder`, `MemorySafe`, `MemoryAgrees`, `NodesAdded` | arrays of 1-4 chunks with 0-2 nodes each, also reduced before; every choice of atomic offsets |

Why they are enough: what distinguishes inputs is where newlines fall relative to
range ends, and whether a division leaves a remainder; a few bytes per buffer and
two or three threads show each case (first, middle and last of a series, a gap
inside a file, a buffer that is cut, a pass that is cut). More of the same repeats
them. `plan` covers all divisions; the theorems lift it to all values.

Deadlock is checked for indexing and search. `plan`, `reduce` and `lookup` model
functions that end and processes that stop when they have drawn all their names, so
their configurations switch it off; in the others the end is the action `Ended`, and
any other state without a successor is an error.

What the properties of `indexing` say: `SlotsFilled` (no unassigned or misplaced
element of a malloc'ed array is read, no coroutine is cut off by the closing of the
channel), `JoinedBeforeFree`, `ConcurrencyBounded` (memory), `ProgressReported` and
`ProgressForward` (what `on_progress` sees), `EntriesDescend` (at every moment,
short reads included), `LinesCounted` (a failure never yields a smaller index) and
`IndexExact` (entries and `len` are exactly those of the file, when no newline is in
a gap and no non-empty chunk is alone in an array). `ImplementsLineIndex` says the
same of the way there: each pass is appended once, in one step, in order.
`Indexed` and `ReturnsUnlessLost` say that nothing but a lost thread (`Lost`) can keep
the call from returning.

Of `lookup`: `LookupExact` compares every call whose sum is a `size_t` with the lines
of the file, in every state of every index, and with `FilesApart` it is stated for
processes that draw different names (`Seeded`): two processes that draw the same ones
do overwrite each other's lookup files, as the models show when `Seeded` is dropped.
One process that crashes and runs again over its own files is covered without a
condition. `NothingLeft` holds for both.

`Returns` of `search` says that only a lost thread or one that circles (`Lost`,
`Circling`) can keep a search from returning, and `AllReturn` that in a sequence of
searches only a lost thread of the search that waits can: what the searches before have
left behind, in the mutex or running, holds up nobody.

Of `search_calls`: `MutexOwned` and `LimitUnlessOverlap` are what remains true of the
global mutex, namely that calls one after the other are safe, also after a failed one
whose threads have come to an end; `search_retry` shows that the condition is needed.

### Where the code disagrees with what is said of it

Each has a run in which TLC finds the disagreement.

* `indexing_gap` (`indexer.c:113`): the byte between two thread ranges is read by
  nobody; a newline there is not indexed.
* `indexing_lone` (`chunk.c:88`): when exactly one of several chunks has offsets,
  they are counted but dropped from the list.
* `indexing_stuck` (`text_indexer.c:387`): a thread that exits early never reaches
  progress 1; the main thread polls it forever, and the handling of a NULL result is
  out of reach except for a failing final reduction. The same holds of a file without
  bytes, whose thread has no buffer (a `Lost` thread in `indexing_live`).
* `search_missed` (`search.c:144`): the last line of a thread's range is not fetched
  when `line_buffer` does not divide the range.
* `search_retry` (`search.c:315`): a search that could not allocate a later thread
  returns an error while its first thread runs on; when the caller searches again, the
  mutex is made anew under that thread, whose unlock then lets two threads of the
  second search past the limit.

Also seen while modelling, kept in the list of hazards or here and not in a run of its
own: a search thread that cannot allocate leaves the search polling (`search.c:124`,
`225`; the `Lost` of `Search` and `SearchCalls`), a `line_buffer` of 0 makes a search
circle (`search.c:130`, `Circling`), lines that remain after the division by threads are
searched by nobody (`search.c:354`), the README's search leaves `result_limit` 0 and so
gives no result, the text after the last newline is counted in `len` but cannot be
fetched (`index.c:61`), `f_search_results_prepend` makes its node point to itself
(`search.c:58`; nothing in the library calls it).

## Fairness

`FairSpec` of `TextIndexer`, `Search` and `SearchCalls` has weak fairness for the main thread and
for each thread together with its coroutines: the operating system runs every
thread, and a thread waiting in `chrecv` lets the scheduler of libdill run its
coroutines. No fault is fair. For the mutex only that it is given to *some* waiting
thread is assumed, since a default pthread mutex promises no more. One assumption
goes beyond the source: the polling loops read a plain `double` that another thread
writes, and the models take it that the loop sees the write in the end. With a
callback the compiler does not know this is so in practice; with `on_progress` NULL
it depends on the build.

## Proofs

Every invariant and action property that a run checks, and the refinement, is also
proved, for every value of the constants; liveness is not. `IndexerLemmas` has the
facts that several of the proofs use.

`ThreadPlanProofs` proves of every request, under `PlanAssumption` (positive bounds,
and a `size_t` that holds twice a pass plus its offset):

* `PlanTypes`, `PlanIsClosedForm`, `PlanRangesInOrder`, `PlanRangesNonEmpty`.

The invariant `IInv` says that the loop has written the closed-form range for each
thread below its counter and that `pages` is still the share of a thread, except
after the last iteration that clamps it. That this holds needs that a clamp can only
happen for the last thread, when the buffer holds at least `threads - 1` bytes:
this is the arithmetic of the lemmas of `IndexerLemmas` (`Shares`) and of `SmallMod`,
and the reason for `Regular`.

`TextIndexerProofs` proves of every set of requests, any file, number of passes,
threads and buffers, and any combination of faults, from `RequestsAssumption` alone:

* `IndexerJoins`, `IndexerFillsSlots`, `IndexerBoundsConcurrency`, `IndexerReports`,
  `IndexerProgress`.

The invariant `Inv` has three parts. `JoinInv`: at each label of the main thread,
which threads do not exist yet, which have exited, and that the loop counter is a
thread of the pass. It is enough for `JoinedBeforeFree`, because a step of a thread
only moves a thread that exists and has not exited (`ThreadStepAlone`). `ThreadInv`:
for each thread, how its counters relate at each label (`Counters`), that the
coroutines running and the chunks in the channel are as many as the buffers launched
and not received (`Flow`), and that the chunk of each launched buffer is being
computed, in the channel or in the array, there under its number (`Coverage`). When a
batch ends nothing is under way, so the array has every element. `ReportInv`: the
progress the main thread has read is never ahead of what is published; a thread it
decided to join has nothing left to publish, so what it read stays true; the chunks it
collected are those of the joined threads.

Its second half adds what the chunks hold, again from `RequestsAssumption`
alone:

* `IndexerTypes`, `IndexerImplementsLineIndex`, `IndexerDescends`, `IndexerCounts`,
  `IndexerExact`.

The invariant is `AllInv`, that is `Inv` with two more parts. `DataInv`: each chunk in the
channel or in the array of a thread has the starts of lines after newlines of its own
buffer, in descending order, and all of them when nothing was read short (`Scanned`); a
buffer is in one place; the lines a thread counts are those in its chunks; and what it
returns is the reduction of its array. `PassInv`: the main thread has the results of the
threads it has joined, in their order, and counts the lines in them. Two things have
to be known of the operators. What `Scan` makes of a buffer, and what `Walk` makes of an array of chunks (`WalkResult`, `ReduceResult`: the
lists joined in reverse order, and all of them unless exactly one chunk has offsets),
are both recursive functions; they are proved by induction on the number of bytes or
chunks, which the library's `WFMin` gives in the form of `LeastNat` and `SetInduction`.
And the ranges of passes, threads and buffers have to tile a file but for the gaps
(`PassTiles`, `Shares`), so that joining lists keeps them descending.

The refinement is proved step by step: the initial states map to initial states, an
`AppendPass` maps to `IndexPass`, the ends of the call to `Return`, `Fail` and the end
of the process, and every other step leaves the mapped variables alone. The theorems on
the lookup file then come from those on `LineIndex`: `LinesProved` instantiates
`LineIndexProofs` under the mapping, and what is left is that the threads of a pass read
all newlines outside the gaps (`AllReadIs`) and that no reduction loses a line when no
chunk is alone (`NoLoneIsWhole`).

`LineIndexProofs` proves of every job what the abstract specification promises:

* `LineIndexOrder`, `LineIndexCount`, `LineIndexLines`.

The invariant relates the index to the passes that are in it (`ReadFrom(left)`): its
entries come from these, after all lines of the passes to come (`OrderInv`), its count
is that of their newlines (`CountInv`), and it has all of them unless a reduction lost
one (`LinesInv`).

`SearchProofs` proves of every set of requests and any number of threads, from
`RequestsAssumption` alone:

* `SearchTypes`, `SearchLimit`, `SearchCallbackExclusive`, `SearchQuietAtReturn`,
  `SearchDeliversOnce`, `SearchDeliversMatches`.

None of the safety properties is inductive. `IInv` adds who holds the mutex
(`MutexInv`: a thread between lock and unlock, and a leaving thread only if it met
the limit there), how the count relates to what was delivered (`CountInv`: they
differ by one exactly while a thread is between counting and calling, and a thread
about to count has seen the limit not met, which nobody can change while it holds
the mutex), and which threads have been joined (`JoinInv`).

The last two theorems are about which lines are given, and need `DeliverInv` besides.
It says where each thread is in its range (`PlaceOK`: its buffer begins at a multiple of
`line_buffer`, lies in the lines `Fetched` by the thread and has all of these up to the
next buffer), that every line given is behind the thread in whose range it is
(`GivenInv`; so the next line of a thread is new, and the ranges are disjoint), and
that in a search in which nothing fails a match behind a thread has been given, unless
the thread has stopped at the limit (`DoneOK`). `Fetched` is the range without its last
line when `line_buffer` does not divide its length, the effect of `search_missed`, and
nothing when `line_buffer` is 0.

`SearchCallsProofs` proves of every sequence of calls, any number of threads and
whichever calls fail, from `PlansAssumption` alone:

* `CallsTyped`, `CallsMutexOwned`, `CallsLimit`, `CallsQuiet`.

`CallsQuiet` needs no condition: a call that returned 0 has joined all its threads and
no other call moves them (`CallerInv`, `ResultInv`). The other two speak of calls that
do not overlap, and `AloneInv` says what is then true: the threads of earlier calls are
still (`PastInv`), the mutex is held exactly by the one thread between lock and unlock,
and a destroyed mutex means that nobody runs (`LockInv`), and a thread about to count
has seen the limit not met (`CountInv`). The step that matters is `BeginKeeps`: a new
mutex may replace any old one because no thread of an earlier call is left.

`IndexLifeProofs` proves of every set of processes, names, files and calls, and whichever
processes crash, from `SettingsAssumption` and `LookupAssumption` (the positions in a
lookup file are `off_t`s):

* `IndexTypes`, `IndexFilesApart`, `IndexNothingLeft`, `IndexLookupExact`.

`Inv` says that a process holds files under names it has drawn since it began, each under
another (`Drawn`), so that with `Seeded` nobody holds the file that another is about to
open; that a name has one inode, no inode two names, and a file held is still found under
its name (`Linked`), so that a write or a removal reaches nobody else's file; and that
each file has the entries of its index as far as they have been written (`Contents`).
That a lookup gives the right lines is then a fact about one file (`LookupGives`): entry
`len - 1 - k` is the start of line `k` (`BelowOnto`: in a finite set of numbers exactly
one has `k` below it), and none of the products in `size_t` or `off_t` wraps around.

`OffsetListsProofs` proves of every array of chunks, of any length and with lists of any
length, and of every choice of the atomic offsets, from `ReduceAssumption` alone:

* of the reduction `ListsNeverCircle`, `HeapAgreesWithSequences`, `HeapIsReversed`;
* of what is made of its list `ListsTypes`, `MemoryIsSafe`, `MemoryAgreesWithFile`,
  `BytesAdded`, and `AtomicBytesAgree`: a list made of atomic offsets only is that of the
  lookup file, a consequence that no run checks.

The invariant of the reduction is `ReduceInv`. `ListsEnd` alone is not inductive: that no
list is a circle after `last->next` has been assigned needs that the list assigned lies
below it. In the heap this is one fact, `Linked`: every next pointer is a smaller node
than the one that holds it. It holds because the lists of the array are descending and
those of later chunks lie above those of earlier ones (`ArrayShape`, from the buffers
they were scanned from). `Walked` says that after `i` chunks the pointers from `current`
on are those of the sequence that `Walk` has after `i` chunks, and the result and `head`
are its too; a list that has been lost has `current` NULL again, on the heap as in the
sequence. `Untouched` says that the lists of the chunks to come are still as they were:
the only pointer that an iteration assigns belongs to its own chunk, whose list is
disjoint from all others (`ListKept`, `ListLinked`). Lists on the heap are `IsList`, and
`ListRead` says that `ListFrom`, which follows pointers, then gives the sequence. What
`HeapIsReversed` says then follows from `ReduceResult`, the lemma that also the theorems
on indexings rest on.

`ListsInv` adds the walks. `MemoryInv`: after `k` nodes, `slot` is `LineCount - k`, the
nodes freed are the first `k` of the list, and the values assigned are theirs. As the
list descends, the next node is a new one, and as it has no more nodes than lines were
counted (`OffsetsBound`), `slot` stays above 0. `NodesInv`: after `k` nodes, `out` is
what `NodesAdded` says of the first `k` (`Sums`), and `prev` is the last of them if it is
not atomic. That one more node adds nothing (`SumsSkip`) or one entry in front
(`SumsAdd`) is a fact about counting the atomic nodes from the end.

Only model-checked: the liveness properties (`Indexed`, `ReturnsUnlessLost`, `Returns`,
`AllReturn`), which are out of the prover's reach, as is `ENABLED`. `ListsInv` was itself
checked by TLC on the bounds of `reduce` before it was proved.

## Not modelled

* The text of lines and messages, regular expressions, the directories of
  `fopen_mkdir`, and freeing where no property depends on it. Memory leaks on error
  paths, which the code marks with comments, are not tracked.
* The logger (`log.c`): it writes three globals one after the other while other
  threads may log, and nothing else depends on them. A model would have one property,
  which does not hold and which nothing in the repository claims.
* The list of results (`f_search_results_*`), and of `node.c` what only tests use.
* `f_index_lookup` with a failing `pread` or `malloc`: it returns an error and changes
  nothing. A lookup or a search on an index in memory: both read `flookup`, which
  such an index does not have; `f_index_text_file` makes none.
* A target file that changes after it was indexed; line counts beyond an
  `unsigned int`; the effect of an optimiser on the polling loops.
* `debug.c`, `lib.c`, the generated `flashlight.h` and `vendor/` have no behaviour of
  the library's own.

## Plan

Done, in this order: `Ranges`, `ThreadPlan` and its proofs, `Chunks`, `TextIndexer` and
its proofs, `Search` and its proofs, `IndexLookup`, `ChunkReduce`; then `LineIndex`,
its proofs and `TextIndexerRefines`, `SearchCalls` and its proofs, `IndexLife`,
`OffsetLists`; then the proof of the refinement with the lemmas on lists and reductions,
which lines a search gives, and `IndexLifeProofs`; then `OffsetListsProofs`.

No proof of the plan is left. What a change of the library would call for first: the
list of results and the freeing of nodes, when something in the library uses them; the
logger, when it promises anything to threads that log while a callback is set; and
lookups on an index in memory, when `f_index_lookup` reads one.
