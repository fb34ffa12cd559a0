----------------------------- MODULE OffsetLists -----------------------------
(***************************************************************************)
(* What can be made of the list of offsets that f_chunk_array_reverse_     *)
(* reduce leaves: an index in memory (f_lookup_mem_from_chunk), or a list  *)
(* of line lengths put together from atomic offsets and offsets that are   *)
(* to be added to the next one (f_node_from_reversed_bytes_node).  Both    *)
(* walk the list on the heap; one action is one iteration.                 *)
(*                                                                         *)
(* The offset of a node is its number: the list runs from the largest      *)
(* offset to the smallest.                                                 *)
(***************************************************************************)
EXTENDS ChunkReduce, SequencesExt

VARIABLES
  use,      \* what is made of the list: "none", "memory" or "nodes"
  step,     \* "walk", "done" or "failed"
  node,     \* current
  values,   \* the values of the index in memory that have been assigned
  slot,     \* i: the value that the next offset is assigned to
  freed,    \* the nodes that have been freed
  atomic,   \* the nodes whose offset is not to be added to the next one
  prev,     \* the node before, when it is not atomic
  last,     \* whether *out has been assigned
  out       \* the list made

uses == <<use, step, node, values, slot, freed, atomic, prev, last, out>>

allVars == <<vars, uses>>

\* What the caller's variable may hold: NULL or a pointer to something.
Garbage == {<<>>, <<1>>}

\* The function f with k mapped to v: an assignment to an element of a malloc'ed
\* array, whose domain is what has been assigned.
Put(f, k, v) == [x \in DOMAIN f \cup {k} |-> IF x = k THEN v ELSE f[x]]

InitUses ==
  /\ use = "none"
  /\ step = "walk"
  /\ node = NullNode
  /\ values = <<>>
  /\ slot = 0
  /\ freed = {}
  /\ atomic = {}
  /\ prev = NullNode
  /\ last = FALSE
  /\ out = <<>>

\* final_chunk->line_count, the sum over the buffers of their newlines: no two lists
\* share a node, so it is the number of all nodes.
LineCount == Cardinality(AllNodes)

Reduced == pc = "done" /\ use = "none"

-----------------------------------------------------------------------------
(* f_lookup_mem_from_chunk *)

\* Values for the lines and nothing else.
StartMemoryShort ==
  /\ Reduced
  /\ use' = "memory"
  /\ node' = result.first
  /\ slot' = LineCount - 1
  /\ UNCHANGED <<vars, step, values, freed, atomic, prev, last, out>>

StartMemory ==
  /\ Reduced
  /\ use' = "memory"
  /\ node' = result.first
  /\ slot' = LineCount
  /\ UNCHANGED <<vars, step, values, freed, atomic, prev, last, out>>

StoreValue ==
  /\ use = "memory" /\ step = "walk"
  /\ node # NullNode
  /\ values' = Put(values, slot, node)
  /\ slot' = slot - 1
  /\ freed' = freed \cup {node}
  /\ node' = link[node]
  /\ UNCHANGED <<vars, use, step, atomic, prev, last, out>>

\* values[0] = 0 and values[len + 1] = values[len], which a list shorter than the
\* line count has not assigned.
EndMemory ==
  /\ use = "memory" /\ step = "walk"
  /\ node = NullNode
  /\ LET zeroed == Put(values, 0, 0)
     IN  values' = IF LineCount \in DOMAIN zeroed
                   THEN Put(zeroed, LineCount + 1, zeroed[LineCount]) ELSE zeroed
  /\ step' = "done"
  /\ UNCHANGED <<vars, use, node, slot, freed, atomic, prev, last, out>>

-----------------------------------------------------------------------------
(* f_node_from_reversed_bytes_node *)

StartNodes ==
  /\ Reduced
  /\ use' = "nodes"
  /\ node' = result.first
  /\ \E s \in SUBSET AllNodes : atomic' = s
  /\ UNCHANGED <<vars, step, values, slot, freed, prev, last, out>>

Walking == use = "nodes" /\ step = "walk" /\ node # NullNode

\* A node that is not atomic waits for the next one; one that waits already is
\* forgotten.
KeepBytes ==
  /\ Walking
  /\ node \notin atomic
  /\ prev' = node
  /\ node' = link[node]
  /\ UNCHANGED <<vars, use, step, values, slot, freed, atomic, last, out>>

\* prev is not reset.
PrependNodeKeepingPrev ==
  /\ Walking
  /\ node \in atomic
  /\ LET offset == IF prev = NullNode THEN node ELSE prev + node
     IN  out' = <<offset>> \o out
  /\ last' = TRUE
  /\ node' = link[node]
  /\ UNCHANGED <<vars, use, step, values, slot, freed, atomic, prev>>

PrependNode ==
  /\ Walking
  /\ node \in atomic
  /\ LET offset == IF prev = NullNode THEN node ELSE prev + node
     IN  out' = <<offset>> \o out
  /\ last' = TRUE
  /\ prev' = NullNode
  /\ node' = link[node]
  /\ UNCHANGED <<vars, use, step, values, slot, freed, atomic>>

\* The offset 0 is prepended; what follows it when nothing was assigned to *out
\* is whatever the caller's variable held.
EndNodes ==
  /\ use = "nodes" /\ step = "walk"
  /\ node = NullNode
  /\ out' \in {<<0>> \o rest : rest \in IF last THEN {out} ELSE Garbage}
  /\ step' = "done"
  /\ UNCHANGED <<vars, use, node, values, slot, freed, atomic, prev, last>>

\* An allocation fails; what has been made so far is not given back.
UseFails ==
  /\ use = "nodes" \/ Reduced
  /\ step = "walk"
  /\ step' = "failed"
  /\ use' = IF use = "none" THEN "memory" ELSE use
  /\ UNCHANGED <<vars, node, values, slot, freed, atomic, prev, last, out>>

-----------------------------------------------------------------------------

Use ==
  StartMemory \/ StoreValue \/ EndMemory
    \/ StartNodes \/ KeepBytes \/ PrependNode \/ EndNodes \/ UseFails

ListsInit == Init /\ InitUses

ListsNext == (Next /\ UNCHANGED uses) \/ Use

ListsSpec == ListsInit /\ [][ListsNext]_allVars

-----------------------------------------------------------------------------
(* Correctness *)

\* The types of the variables.
ListsTypeOK ==
  /\ TypeOK
  /\ use \in {"none", "memory", "nodes"}
  /\ step \in {"walk", "done", "failed"}
  /\ node \in Pointer /\ prev \in Pointer
  /\ \A k \in DOMAIN values : values[k] \in Nat
  /\ slot \in Int
  /\ freed \subseteq Nodes /\ atomic \subseteq Nodes
  /\ last \in BOOLEAN
  /\ out \in Seq(Nat)

\* The walk that builds an index in memory frees the list behind itself: it never
\* comes back to a node it has freed, and never assigns outside the values or to
\* the one of offset 0, whatever the reductions have done to the list.
MemorySafe ==
  (use = "memory" /\ step = "walk" /\ node # NullNode) =>
    /\ node \notin freed
    /\ slot \in 1..LineCount

\* The entries that f_lookup_file_from_chunk writes to the lookup file.
FileEntries == ListFrom(result.first) \o <<0>>

\* When no offset was lost, the index in memory has the lines of the index in the
\* lookup file in ascending order, and the start of the last one twice.
MemoryAgrees ==
  (use = "memory" /\ step = "done" /\ Len(FileEntries) = LineCount + 1) =>
    values = [k \in 0..(LineCount + 1) |->
                Reverse(FileEntries)[IF k <= LineCount THEN k + 1 ELSE LineCount + 1]]

\* When all offsets are atomic, the list made has the starts of the lines in
\* ascending order; otherwise every atomic offset is increased by the offset
\* directly before it in the list if that is not atomic, as bytes.h shows.  This
\* takes one atomic offset: without one nothing has been assigned to *out.
NodesAdded ==
  (use = "nodes" /\ step = "done" /\ last) =>
    LET list == ListFrom(result.first)
        added(k) == list[k] + (IF k > 1 /\ list[k - 1] \notin atomic THEN list[k - 1] ELSE 0)
        whole == {k \in DOMAIN list : list[k] \in atomic}
    IN  out = <<0>> \o [n \in 1..Cardinality(whole) |->
                          added(CHOOSE k \in whole : Cardinality({j \in whole : j >= k}) = n)]
=============================================================================
