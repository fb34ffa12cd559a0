------------------------------ MODULE LineIndex ------------------------------
(***************************************************************************)
(* What an indexing promises, without its threads, coroutines, buffers and *)
(* chunks: the passes of a file are put into its index one after the other,*)
(* from the end of the file, each in a single step that adds the starts of *)
(* the lines that begin in the pass, the last one first.                   *)
(*                                                                         *)
(* Module TextIndexerRefines shows that f_index_text_file does this        *)
(* whatever the order in which its threads and coroutines run.             *)
(***************************************************************************)
EXTENDS Lists, FiniteSets

CONSTANTS
  Passes(_),   \* the number of passes of a job
  Read(_, _),  \* the newlines among the bytes that the threads of a pass read
  Whole(_, _), \* whether the reductions of a pass keep all of them
  Short(_),    \* whether a read may be short
  Faulty(_)    \* whether a call may fail

VARIABLES
  job,     \* what is to be indexed
  status,  \* "running", or how the indexing ended
  left,    \* the number of passes that are not in the index yet
  index    \* whether it exists, its entries and its number of lines

vars == <<job, status, left, index>>

\* The newlines of a pass come before those of the next one.
IsJob(j) ==
  /\ Passes(j) \in Nat \ {0}
  /\ \A q \in 0..(Passes(j) - 1) : Read(j, q) \in SUBSET Nat /\ IsFiniteSet(Read(j, q))
  /\ \A q, r \in 0..(Passes(j) - 1) :
       q < r => \A b \in Read(j, q), c \in Read(j, r) : b < c

NoIndex == [open |-> FALSE, entries |-> <<>>, len |-> 0]

Init ==
  /\ IsJob(job)
  /\ status = "running"
  /\ left = Passes(job)
  /\ index = NoIndex

-----------------------------------------------------------------------------

\* The entries that a step adds.
Added == SubSeq(index'.entries, Len(index.entries) + 1, Len(index'.entries))

\* The newlines of pass q that a step finds, and those it keeps.
Finds(q, found) == Short(job) \/ found = Read(job, q)

Keeps(q, found, kept) == Short(job) \/ ~Whole(job, q) \/ kept = found

IndexPass ==
  /\ status = "running"
  /\ left > 0
  /\ left' = left - 1
  /\ index' \in [open : {TRUE}, entries : Seq(Nat), len : Nat]
  /\ index'.entries = index.entries \o Added
  /\ Descending(Added)
  /\ \E found \in SUBSET Read(job, left - 1) : \E kept \in SUBSET found :
       /\ Finds(left - 1, found)
       /\ Keeps(left - 1, found, kept)
       /\ index'.len = index.len + Cardinality(found) + (IF left = 1 THEN 1 ELSE 0)
       /\ Elements(Added) = LinesAfter(kept) \cup (IF left = 1 THEN {0} ELSE {})
  /\ UNCHANGED <<job, status>>

Return ==
  /\ status = "running"
  /\ left = 0
  /\ status' = "ok"
  /\ UNCHANGED <<job, left, index>>

\* An indexing that fails gives no index, not a part of one.  The process may end
\* with it, also later, by what a failed indexing has left running.
Fail ==
  /\ Faulty(job)
  /\ \/ status = "running" /\ status' \in {"null", "killed"}
     \/ status = "null" /\ status' = "killed"
  /\ left' = 0
  /\ index' = NoIndex
  /\ UNCHANGED job

Next == IndexPass \/ Return \/ Fail

Spec == Init /\ [][Next]_vars

-----------------------------------------------------------------------------
(* What follows from the promise; proved in LineIndexProofs. *)

\* The newlines read in the passes from q on.
ReadFrom(q) == UNION {Read(job, r) : r \in q..(Passes(job) - 1)}

\* The entries are starts of lines that some thread read, from the last line to
\* the first, each once.
PromisedOrder ==
  /\ Descending(index.entries)
  /\ Elements(index.entries) \subseteq LinesAfter(ReadFrom(0)) \cup {0}

\* An index that is returned counts one line more than newlines were read.
PromisedCount ==
  (status = "ok" /\ ~Short(job)) =>
    index.len = Cardinality(ReadFrom(0)) + 1

\* When no reduction loses a line it has an entry for each line, and as many
\* entries as lines.
PromisedLines ==
  (status = "ok" /\ ~Short(job) /\ \A q \in 0..(Passes(job) - 1) : Whole(job, q)) =>
    /\ Elements(index.entries) = LinesAfter(ReadFrom(0)) \cup {0}
    /\ Len(index.entries) = index.len
=============================================================================
