------------------------------- MODULE Ranges -------------------------------
(***************************************************************************)
(* The arithmetic by which the indexer cuts a file into work: passes of at *)
(* most max_bytes_per_iteration bytes, one byte range per thread in each   *)
(* pass, and buffers of at most buffer_size bytes in each thread's range.  *)
(*                                                                         *)
(* Every range is half open: it holds the bytes from, .., to - 1.          *)
(* Thread ranges are given here in closed form.  Module ThreadPlan has the *)
(* loop that computes them and shows that loop and closed form agree.      *)
(***************************************************************************)
EXTENDS Integers

\* ceil(a / (double) b) of two natural numbers, b # 0.
CeilDiv(a, b) == (a + b - 1) \div b

AtMost(a, b) == IF a <= b THEN a ELSE b

-----------------------------------------------------------------------------
(* Passes over the file: the outer loop of f_index_text_file. *)

\* thread_it_count: an empty file still gets one pass.
PassCount(size, maxBytes) ==
  LET n == CeilDiv(size, maxBytes) IN IF n <= 0 THEN 1 ELSE n

PassFrom(pass, maxBytes) == pass * maxBytes

\* local_max_bytes_per_iteration: the last bytes of the file make a short pass.
PassBytes(pass, size, maxBytes) ==
  AtMost(maxBytes, size - PassFrom(pass, maxBytes))

-----------------------------------------------------------------------------
(* Threads in a pass over total bytes: f_indexer_threads_init. *)

\* As many threads as asked for, also for a small pass.
ThreadsUncapped(threads, total, buffer) == IF total = 0 THEN 1 ELSE threads

\* No more threads than buffers; a pass without bytes gets one thread.
ThreadCount(threads, total, buffer) ==
  LET chunks == CeilDiv(total, buffer)
  IN  IF chunks = 0 THEN 1 ELSE AtMost(threads, chunks)

\* ceil(total_bytes_count / threads) divides two integers, so it rounds down.
ThreadPages(total, count) == total \div count

ThreadFrom(i, pages) == i * (pages + 1)

ThreadTo(i, pages, total) == AtMost(ThreadFrom(i, pages) + pages, total)

-----------------------------------------------------------------------------
(* Buffers in a thread's range: f_indexer_chunks_init.  buffer_size is     *)
(* assigned in the loop, but only for the last buffer, so nothing reads    *)
(* the assigned value again.                                               *)

ChunkTotal(from, to, buffer) == CeilDiv(to - from, buffer)

ChunkFrom(from, c, buffer) == from + c * buffer

ChunkBytes(from, to, c, buffer) == AtMost(buffer, to - ChunkFrom(from, c, buffer))

\* How many coroutines run at a time.
ChunkConcurrency(concurrency, chunks) ==
  IF chunks = 0 THEN 1 ELSE AtMost(concurrency, chunks)
=============================================================================
