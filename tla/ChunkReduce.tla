---------------------------- MODULE ChunkReduce ----------------------------
(***************************************************************************)
(* f_chunk_array_reverse_reduce on the heap: the loop that turns an array  *)
(* of linked lists into one list by assigning the next pointers of their   *)
(* last nodes.  One action is one iteration.  Module Chunks has the same   *)
(* function on sequences; here the two are shown to agree.                 *)
(*                                                                         *)
(* Node n is the address and the offset of a node.  The lists of the array *)
(* are disjoint, as the lists of different buffers are.                    *)
(***************************************************************************)
EXTENDS Chunks, Lists, FiniteSets

CONSTANTS
  MaxLen,    \* largest number of chunks in an array
  MaxNodes   \* largest number of nodes in a chunk

ASSUME ReduceAssumption == MaxLen \in Nat \ {0} /\ MaxNodes \in Nat \ {0}

VARIABLES
  lists,    \* the list of each chunk of the array, as it was before the call
  array,    \* the chunks: first, last and empty
  link,     \* the next pointer of each node
  pc,       \* "start", "loop", "done" or "failed"
  i,        \* the loop counter
  current,  \* the first node of the list built so far
  head,     \* whether no chunk with nodes has been met
  result    \* the chunk that is returned

vars == <<lists, array, link, pc, i, current, head, result>>

len == Cardinality(DOMAIN lists)

Nodes == 1..(MaxLen * MaxNodes)

Pointer == Nodes \cup {NullNode}

\* A list of n nodes for chunk c, last node first scanned.
ListOf(c, n) == [k \in 1..n |-> c * MaxNodes + n + 1 - k]

\* A chunk as a coroutine returns it, or as a reduction of several chunks of
\* which one had nodes returns it: not empty, but without its first node.
ChunkOf(list, lost) ==
  [first |-> IF lost \/ list = <<>> THEN NullNode ELSE list[1],
   last  |-> Tail1(list),
   empty |-> list = <<>>]

\* The next pointers of the nodes of the lists.
LinksOf(ls) ==
  [n \in Nodes |->
     IF \E c \in DOMAIN ls : \E k \in 1..(Len(ls[c]) - 1) : ls[c][k] = n
     THEN n - 1 ELSE NullNode]

Init ==
  /\ \E length \in 1..MaxLen :
       \E sizes \in [0..(length - 1) -> 0..MaxNodes] :
       \E lost \in SUBSET {c \in 0..(length - 1) : sizes[c] = 1} :
         /\ lists = [c \in 0..(length - 1) |-> ListOf(c, sizes[c])]
         /\ array = [c \in 0..(length - 1) |->
                       ChunkOf(ListOf(c, sizes[c]), c \in lost)]
  /\ link = LinksOf(lists)
  /\ pc = "start"
  /\ i = 0
  /\ current = NullNode
  /\ head = TRUE
  /\ result = [first |-> NullNode, last |-> NullNode, empty |-> TRUE]

-----------------------------------------------------------------------------

\* A single chunk is copied.
Copy ==
  /\ pc = "start"
  /\ len = 1
  /\ result' = array[0]
  /\ pc' = "done"
  /\ UNCHANGED <<lists, array, link, i, current, head>>

Begin ==
  /\ pc = "start"
  /\ len # 1
  /\ pc' = "loop"
  /\ UNCHANGED <<lists, array, link, i, current, head, result>>

\* malloc of the result returns NULL.
Fail ==
  /\ pc = "start"
  /\ pc' = "failed"
  /\ UNCHANGED <<lists, array, link, i, current, head, result>>

\* A counter that the body of the loop increments once more.
IterateTwice ==
  /\ pc = "loop"
  /\ i < len
  /\ i' = i + 2
  /\ UNCHANGED <<lists, array, pc>>

Iterate ==
  /\ pc = "loop"
  /\ i < len
  /\ i' = i + 1
  /\ UNCHANGED <<lists, array, pc>>

Skip ==
  /\ Iterate
  /\ array[i].empty
  /\ UNCHANGED <<link, current, head, result>>

\* The first chunk with nodes, or the first after a list was lost.
Take ==
  /\ Iterate
  /\ ~array[i].empty
  /\ current = NullNode
  /\ current' = array[i].first
  /\ result' = [result EXCEPT !.last = IF head THEN array[i].last ELSE @,
                              !.empty = FALSE]
  /\ head' = FALSE
  /\ UNCHANGED link

\* f_chunks_swap that links the chunk behind the list instead of before it.
SwapReversed(last, child) == [link EXCEPT ![child] = last]

\* f_chunks_swap: (*last)->next = *child.
Swap(last, child) == [link EXCEPT ![last] = child]

\* The chunk is linked behind itself.
PrependToItself ==
  /\ Iterate
  /\ ~array[i].empty
  /\ current # NullNode
  /\ link' = Swap(array[i].last, array[i].first)
  /\ current' = array[i].first
  /\ result' = [result EXCEPT !.first = array[i].first, !.empty = FALSE]
  /\ UNCHANGED head

\* The list built so far is linked behind the chunk.
Prepend ==
  /\ Iterate
  /\ ~array[i].empty
  /\ current # NullNode
  /\ link' = Swap(array[i].last, current)
  /\ current' = array[i].first
  /\ result' = [result EXCEPT !.first = array[i].first, !.empty = FALSE]
  /\ UNCHANGED head

Finish ==
  /\ pc = "loop"
  /\ i = len
  /\ pc' = "done"
  /\ UNCHANGED <<lists, array, link, i, current, head, result>>

Next == Copy \/ Begin \/ Fail \/ Skip \/ Take \/ Prepend \/ Finish

Spec == Init /\ [][Next]_vars

-----------------------------------------------------------------------------
(* Correctness *)

\* The node reached from n after k next pointers; NULL stays NULL.
Follow(n, k) ==
  LET f[j \in 0..k] == IF j = 0 THEN n
                       ELSE IF f[j - 1] = NullNode THEN NullNode ELSE link[f[j - 1]]
  IN  f[k]

\* The number of nodes of the list from n on, when it ends.
Length(n) ==
  CHOOSE k \in 0..Cardinality(Nodes) :
    Follow(n, k) = NullNode /\ \A j \in 0..(k - 1) : Follow(n, j) # NullNode

ListFrom(n) == [k \in 1..Length(n) |-> Follow(n, k - 1)]

\* The types of the variables.
TypeOK ==
  /\ array \in [DOMAIN lists -> [first : Pointer, last : Pointer, empty : BOOLEAN]]
  /\ link \in [Nodes -> Pointer]
  /\ pc \in {"start", "loop", "done", "failed"}
  /\ i \in 0..len
  /\ current \in Pointer
  /\ head \in BOOLEAN
  /\ result \in [first : Pointer, last : Pointer, empty : BOOLEAN]

\* No list runs in a circle, at no moment: f_lookup_file_from_chunk and
\* f_bytes_node_free follow the pointers until NULL.
ListsEnd == \A n \in Nodes : Follow(n, Cardinality(Nodes)) = NullNode

\* The chunk c of the array as a value of module Chunks.
AsChunk(c) ==
  [current |-> c,
   first   |-> IF array[c].first = NullNode THEN <<>> ELSE lists[c],
   last    |-> array[c].last,
   empty   |-> array[c].empty,
   line_count |-> Len(lists[c])]

\* The array as module Chunks has it.
Chunked == [c \in DOMAIN lists |-> AsChunk(c)]

\* The pointers the loop leaves are those of the list that ReverseReduce computes
\* on sequences, also when it is given chunks that lost their first node.
ReduceAgrees ==
  pc = "done" =>
    LET r == ReverseReduce(0, Chunked, len, 0)
    IN  /\ ListFrom(result.first) = r.first
        /\ result.last = r.last
        /\ result.empty = r.empty

Occupied == {c \in DOMAIN lists : lists[c] # <<>>}

\* No chunk of the array has lost its first node before.
NothingLost == \A c \in Occupied : array[c].first # NullNode

\* The nodes of the lists: one for each newline.
AllNodes == UNION {Elements(lists[c]) : c \in DOMAIN lists}

\* chunk.h shows the result: the lists of the array in reverse order, which has
\* the nodes descending, and the last node of the first one as its last.  It is so
\* when no chunk came without its first node and the chunks with nodes are none,
\* two or more, or the array has a single chunk.
ReverseOrder ==
  (pc = "done" /\ NothingLost /\ (len = 1 \/ Cardinality(Occupied) # 1)) =>
    LET list == ListFrom(result.first)
    IN  /\ Descending(list)
        /\ Elements(list) = AllNodes
        /\ result.last = Tail1(list)
=============================================================================
