------------------------------ MODULE MCSearch ------------------------------
(* Searches of every file of a few lines, by which of them match. *)
EXTENDS Search

\* The searches with these parameters of every file of n lines; the lines of
\* blank are blank where they do not match.
SearchesOf(n, blank, threads, buffer, limit, callback, faults) ==
  {[lines |-> n, matching |-> m, blank |-> blank \ m, threads |-> threads,
    buffer |-> buffer, limit |-> limit, callback |-> callback,
    faults |-> faults] : m \in SUBSET (0..(n - 1))}

\* Two threads, buffers that divide the ranges and buffers that do not, and a
\* limit that is met, met exactly, or not met.
TwoThreads ==
  UNION {SearchesOf(5, {0, 3}, 2, buffer, limit, TRUE, {}) :
           buffer \in 1..2, limit \in {1, 2, 9}}

\* Three threads race for the last result.
ThreeThreads ==
  {r \in SearchesOf(5, {}, 3, 2, 1, TRUE, {}) : Cardinality(r.matching) >= 3}

\* More threads than lines, no limit, a limit of 0 and no callback.
Corners ==
  SearchesOf(1, {}, 3, 2, 2, TRUE, {}) \cup SearchesOf(3, {}, 2, 1, 0, TRUE, {})
    \cup SearchesOf(3, {0}, 2, 1, -1, TRUE, {})
    \cup SearchesOf(3, {0}, 2, 1, 2, FALSE, {})

\* Every kind of fault, while two threads whose ranges are not a whole number of
\* buffers race for the last of two results.
Failing ==
  SearchesOf(5, {0}, 2, 2, 2, TRUE, FaultKinds)
    \cup SearchesOf(3, {0}, 2, 1, 1, FALSE, FaultKinds)

\* A line_buffer of 0: the limit is met from the start, or not, or threads fail.
NoBuffer ==
  UNION {SearchesOf(3, {0}, 2, 0, limit, TRUE, faults) :
           limit \in {0, 1}, faults \in {{}, FaultKinds}}

MCRequests == TwoThreads \cup ThreeThreads \cup Corners \cup Failing \cup NoBuffer
=============================================================================
