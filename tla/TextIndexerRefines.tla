-------------------------- MODULE TextIndexerRefines --------------------------
(***************************************************************************)
(* f_index_text_file implements LineIndex.  There only the steps of the    *)
(* main thread that append a pass or end the call are seen, and the step   *)
(* of a coroutine that ends the process.                                   *)
(***************************************************************************)
EXTENDS TextIndexer

\* A request as a job: pass q is cut into thread ranges, which start at From and
\* end at To, and these into buffers.
PassesOf(r) == PassCount(r.size, r.maxBytes)

BytesOf(r, q) == PassBytes(q, r.size, r.maxBytes)

ThreadsOf(r, q) == ThreadCount(r.threads, BytesOf(r, q), r.buffer)

\* The bytes that thread p of the pass reads.
RangeOf(r, q, p) ==
  LET first == PassFrom(q, r.maxBytes)
      pages == ThreadPages(BytesOf(r, q), ThreadsOf(r, q))
  IN  (first + ThreadFrom(p, pages))..((first + ThreadTo(p, pages, BytesOf(r, q))) - 1)

ReadOf(r, q) ==
  UNION {r.newlines \cap RangeOf(r, q, p) : p \in 0..(ThreadsOf(r, q) - 1)}

\* No array of several chunks holds exactly one that is not empty.
WholeOf(r, q) ==
  LET newlines(p) == r.newlines \cap RangeOf(r, q, p)
      first(p) == CHOOSE b \in RangeOf(r, q, p) : \A c \in RangeOf(r, q, p) : b <= c
      hit == {p \in 0..(ThreadsOf(r, q) - 1) : newlines(p) # {}}
  IN  /\ ThreadsOf(r, q) > 1 => Cardinality(hit) # 1
      /\ \A p \in hit : Cardinality(RangeOf(r, q, p)) > r.buffer =>
           Cardinality({(b - first(p)) \div r.buffer : b \in newlines(p)}) # 1

ShortOf(r) == "short" \in r.faults

FaultyOf(r) == r.faults \ {"short"} # {}

\* The passes that are not in the lookup file.
Left ==
  CASE main = "open" -> Passes
    [] main \in {"plan", "spawn", "poll", "join", "append"} -> pass + 1
    [] OTHER -> 0

\* A caller that gets NULL has no index, whatever is left in the lookup file.
Index ==
  IF main \in {"null", "killed"} THEN [open |-> FALSE, entries |-> <<>>, len |-> 0]
  ELSE lookup

Lines == INSTANCE LineIndex WITH
  Passes <- PassesOf, Read <- ReadOf, Whole <- WholeOf, Short <- ShortOf,
  Faulty <- FaultyOf,
  job    <- conf,
  status <- IF main \in Final THEN main ELSE "running",
  left   <- Left,
  index  <- Index

\* However its threads and coroutines are scheduled, and whatever fails on the way,
\* f_index_text_file does what LineIndex says: each pass adds the lines its
\* threads read, all of them and in order, in the step that appends to the lookup
\* file; no pass is appended twice or left out; a call that fails gives no index,
\* and only a call that failed can end the process later.
ImplementsLineIndex == Lines!Spec
=============================================================================
