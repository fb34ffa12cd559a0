---------------------------- MODULE MCSearchCalls ----------------------------
(* Callers that make two or three calls of two or three threads. *)
EXTENDS SearchCalls

CallOf(matches, limit, faults) ==
  [matches |-> matches, limit |-> limit, faults |-> faults]

\* Two threads race for the last result.
Race(faults) == {CallOf(<<2, 1>>, 2, faults), CallOf(<<1, 1>>, 1, faults)}

\* Two calls, each of which may fail in any way, and two whose threads are three.
Twice ==
  {<<a, b>> : a, b \in Race(FaultKinds)}
    \cup {<<CallOf(<<1, 1, 1>>, 2, FaultKinds), CallOf(<<1, 0, 1>>, 1, FaultKinds)>>}

\* Three calls, of which the second may fail.
Thrice ==
  {<<a, b, a>> : a \in {CallOf(<<1, 1>>, 1, {})}, b \in {CallOf(<<1, 1>>, 1, FaultKinds)}}

\* A call that cannot allocate all of its threads is made again.
Retry == {<<CallOf(<<1, 1>>, 1, {"malloc"}), CallOf(<<1, 1>>, 1, {})>>}

MCPlans == Twice \cup Thrice \cup {<<CallOf(<<1, 1>>, 0, {})>>}
=============================================================================
