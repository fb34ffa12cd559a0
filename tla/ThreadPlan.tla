----------------------------- MODULE ThreadPlan -----------------------------
(***************************************************************************)
(* f_indexer_threads_init, the loop that hands each thread of a pass its   *)
(* byte range.  The loop assigns the variable pages that its own later     *)
(* iterations read, and it counts in size_t, so a subtraction below zero   *)
(* wraps around.  One action is one iteration of the loop.                 *)
(***************************************************************************)
EXTENDS Ranges

CONSTANTS
  MaxThreads,  \* largest number of threads a caller asks for
  MaxBuffer,   \* largest buffer_size
  MaxTotal,    \* largest number of bytes in one pass
  MaxOffset,   \* largest offset of a pass in the file
  SizeMod      \* 2^w for a size_t of w bits

ASSUME PlanAssumption ==
  /\ MaxThreads \in Nat \ {0}
  /\ MaxBuffer \in Nat \ {0}
  /\ MaxTotal \in Nat
  /\ MaxOffset \in Nat
  /\ SizeMod \in Nat
  /\ SizeMod > 2 * MaxTotal + MaxOffset

VARIABLES
  req,    \* the arguments: threads, total, buffer and offset
  pc,     \* "begin", "fill", "done" or "failed"
  len,    \* init->len, the number of threads that will run
  pages,  \* bytes per thread, as the loop last left it
  i,      \* the loop counter
  plan    \* init->threads: the ranges written so far, by thread

vars == <<req, pc, len, pages, i, plan>>

Requests ==
  [threads : 1..MaxThreads, total : 0..MaxTotal, buffer : 1..MaxBuffer,
   offset : 0..MaxOffset]

Init ==
  /\ req \in Requests
  /\ pc = "begin"
  /\ len = 0
  /\ pages = 0
  /\ i = 0
  /\ plan = <<>>

\* The thread count and the share of each thread, before the loop.
Begin ==
  /\ pc = "begin"
  /\ len' = ThreadCount(req.threads, req.total, req.buffer)
  /\ pages' = ThreadPages(req.total, len')
  /\ pc' = "fill"
  /\ UNCHANGED <<req, i, plan>>

\* One of the two allocations returns NULL and so does the function.
Fail ==
  /\ pc = "begin"
  /\ pc' = "failed"
  /\ UNCHANGED <<req, len, pages, i, plan>>

StartWithoutGap(k, p) == (k * p) % SizeMod

\* start_position = i * pages, then start_position += i.
Start(k, p) == (k * p + k) % SizeMod

\* The rest of the pass in signed arithmetic.
PagesSigned(start, p) == IF start + p > req.total THEN req.total - start ELSE p

PagesUnclamped(start, p) == p

\* pages shrinks when the range would end after the last byte.
PagesFrom(start, p) ==
  IF (start + p) % SizeMod > req.total THEN (req.total - start) % SizeMod ELSE p

Fill ==
  /\ pc = "fill"
  /\ i < len
  /\ LET start == Start(i, pages)
         p     == PagesFrom(start, pages)
         range == [from |-> (start + req.offset) % SizeMod,
                   to   |-> (start + p + req.offset) % SizeMod]
     IN  /\ pages' = p
         /\ plan' = [j \in 0..i |-> IF j = i THEN range ELSE plan[j]]
  /\ i' = i + 1
  /\ UNCHANGED <<req, pc, len>>

Finish ==
  /\ pc = "fill"
  /\ i = len
  /\ pc' = "done"
  /\ UNCHANGED <<req, len, pages, i, plan>>

Next == Begin \/ Fail \/ Fill \/ Finish

Spec == Init /\ [][Next]_vars

-----------------------------------------------------------------------------
(* Correctness *)

\* The types of the variables: the thread count stays within the request, and
\* the loop has written exactly the ranges of the threads before its counter.
TypeOK ==
  /\ req \in Requests
  /\ pc \in {"begin", "fill", "done", "failed"}
  /\ len \in 0..MaxThreads
  /\ pages \in Nat
  /\ i \in 0..len
  /\ plan \in [0..(i - 1) -> [from : Nat, to : Nat]]

\* The range the closed form of module Ranges gives to thread j.
Span(j) ==
  LET p == ThreadPages(req.total, len)
  IN  [from |-> ThreadFrom(j, p) + req.offset,
       to   |-> ThreadTo(j, p, req.total) + req.offset]

\* A buffer of at least threads - 1 bytes keeps the subtraction in the loop
\* from wrapping.
Regular == req.threads <= req.buffer + 1

\* In a regular configuration the loop, although it changes pages under its
\* own feet, writes the closed-form range of every thread.
PlanIsSpans == Regular => \A j \in DOMAIN plan : plan[j] = Span(j)

\* In a regular configuration the ranges follow each other in the order of
\* the threads, no byte is in two of them, exactly one byte lies between two
\* neighbours, and the last range ends with the pass.
RangesInOrder ==
  Regular =>
    /\ \A j \in DOMAIN plan :
         /\ plan[j].from <= plan[j].to
         /\ plan[j].to <= req.offset + req.total
         /\ (j + 1) \in DOMAIN plan => plan[j + 1].from = plan[j].to + 1
    /\ pc = "done" => plan[len - 1].to = req.offset + req.total

\* A thread with an empty range never reports progress 1 and is waited for
\* forever, so a pass with bytes must give every thread at least one of them.
\* A buffer of at least threads bytes is enough for that.
RangesNonEmpty ==
  (req.threads <= req.buffer /\ req.total > 0) =>
    \A j \in DOMAIN plan : plan[j].from < plan[j].to
=============================================================================
