------------------------------- MODULE Chunks -------------------------------
(***************************************************************************)
(* Chunks of newline offsets.  A coroutine returns one chunk per buffer, a *)
(* thread reduces the chunks of its buffers to one, and the main thread    *)
(* reduces the chunks of its threads to one.                               *)
(*                                                                         *)
(* A linked list is the sequence of the offsets of its nodes, the NULL     *)
(* pointer is the empty sequence, and the pointer to a single node is the  *)
(* node's offset.  Offsets of lines after the first are positive, so 0 is  *)
(* the NULL pointer to a node.                                             *)
(***************************************************************************)
EXTENDS Integers, Sequences

NullNode == 0

Chunk(N) ==
  [current : N, first : Seq(N), last : N, empty : BOOLEAN, line_count : N]

Tail1(list) == IF list = <<>> THEN NullNode ELSE list[Len(list)]

\* f_chunk_new, and the line count its only caller assigns right after it.
NewChunk(current, list, lines) ==
  [current |-> current, first |-> list, last |-> Tail1(list),
   empty |-> list = <<>>, line_count |-> lines]

\* Lists joined in the order they were scanned instead of in reverse.
LinkForward(c, list) == list \o c.first

\* The list that starts at c.first after c.last->next = list.
Link(c, list) == IF c.last = Tail1(c.first) THEN c.first \o list ELSE c.first

\* The loop of f_chunk_array_reverse_reduce after len chunks.  The first chunk
\* with offsets is remembered in current only; result->first is assigned when
\* a second one is linked in front of it.
Walk(chunks, len) ==
  LET walk[k \in 0..len] ==
        IF k = 0
        THEN [current |-> <<>>, first |-> <<>>, last |-> NullNode,
              head |-> TRUE, empty |-> TRUE]
        ELSE LET r == walk[k - 1]
                 c == chunks[k - 1]
             IN  IF c.empty THEN r
                 ELSE IF r.current = <<>>
                 THEN [current |-> c.first,
                       first   |-> r.first,
                       last    |-> IF r.head THEN c.last ELSE r.last,
                       head    |-> FALSE,
                       empty   |-> FALSE]
                 ELSE [r EXCEPT !.current = Link(c, r.current),
                                !.first   = Link(c, r.current)]
  IN  walk[len]

\* f_chunk_array_reverse_reduce.  It leaves line_count to its callers, who
\* assign lines.
ReverseReduce(idx, chunks, len, lines) ==
  IF len = 1
  THEN [chunks[0] EXCEPT !.current = idx, !.line_count = lines]
  ELSE LET r == Walk(chunks, len)
       IN  [current |-> idx, first |-> r.first, last |-> r.last,
            empty |-> r.empty, line_count |-> lines]
=============================================================================
