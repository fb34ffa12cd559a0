---------------------------- MODULE SearchProofs ----------------------------
(***************************************************************************)
(* Proofs about f_index_search, for every set of searches, every number of *)
(* threads and whichever calls fail.                                       *)
(***************************************************************************)
EXTENDS Search, IndexerLemmas

-----------------------------------------------------------------------------
(* The inductive invariant *)

\* The threads between the lock of search_mutex and its release.
Critical == {"check", "count", "callback"}

\* Only one thread is in there, it is the one that holds the mutex, and nobody
\* holds the mutex who will not release it.
MutexInv ==
  /\ \A p \in ThreadIds : pc[p] \in Critical => mutex = {p}
  /\ \A p \in mutex : pc[p] \in Critical \cup {"leaving"}

\* A thread about to count has just seen the limit not met, and only the thread
\* in its callback has a result counted and not yet given.
CountInv ==
  /\ count <= IF conf.limit < 0 THEN 0 ELSE conf.limit
  /\ \A p \in ThreadIds : pc[p] = "count" => count < conf.limit
  /\ (\A p \in ThreadIds : pc[p] # "callback") => Len(delivered) = count
  /\ (\E p \in ThreadIds : pc[p] = "callback") => Len(delivered) + 1 = count

\* The threads are created and joined in order.
JoinInv ==
  /\ main = "init" => i = 0
  /\ main \in {"init", "spawn"} =>
       i < Threads /\ \A p \in ThreadIds : p >= i => pc[p] = "none"
  /\ main \in {"poll", "join"} =>
       /\ i < Threads
       /\ \A p \in ThreadIds : p < i => pc[p] = "exited"
       /\ \A p \in ThreadIds : p >= Threads => pc[p] = "none"
  /\ main = "ok" =>
       \A p \in ThreadIds : pc[p] = IF p < Threads THEN "exited" ELSE "none"

IInv == TypeOK /\ MutexInv /\ CountInv /\ JoinInv

-----------------------------------------------------------------------------
(* Lemmas about the division of the lines *)

\* What the assumption on the constants gives for a search.
LEMMA ConfFacts ==
  ASSUME conf \in Requests
  PROVE  /\ conf.lines \in Nat
         /\ conf.buffer \in Nat
         /\ conf.limit \in Int
         /\ conf.callback \in BOOLEAN
         /\ Threads \in 1..MaxThreads
         /\ MaxThreads \in Nat \ {0}
  BY RequestsAssumption DEF Threads, TotalLines, AtMost

\* The range of a thread begins and ends at a line number.
LEMMA RangeTypes ==
  ASSUME conf \in Requests, NEW p \in ThreadIds
  PROVE  Start(p) \in Nat /\ End(p) \in Nat
<1>1. conf.lines \in Nat /\ Threads \in Nat \ {0}
  BY ConfFacts
<1>2. TotalLines \in Nat
  BY <1>1 DEF TotalLines
<1>3. LinesPerThread \in Nat
  BY <1>1, <1>2, Z3 DEF LinesPerThread
<1>4. p \in Nat
  BY ConfFacts DEF ThreadIds
<1>5. p * LinesPerThread \in Nat
  BY <1>3, <1>4
<1> QED BY <1>3, <1>5 DEF Start, End

\* The lines of a buffer end at a line number.
LEMMA FetchTypes ==
  ASSUME conf \in Requests, NEW p \in ThreadIds, NEW first \in Nat, first < End(p)
  PROVE  LookupEnd(first, Buffer(p, first)) \in Nat
<1>1. conf.lines \in Nat /\ conf.buffer \in Nat
  BY ConfFacts
<1>2. End(p) \in Nat
  BY RangeTypes
<1>3. Buffer(p, first) \in Nat
  BY <1>1, <1>2 DEF Buffer
<1> QED BY <1>1, <1>3 DEF LookupEnd, AtMost

-----------------------------------------------------------------------------
(* Every step keeps the invariant *)

LEMMA InitIInv == Init => IInv
<1> SUFFICES ASSUME Init PROVE IInv
  OBVIOUS
<1>1. conf.limit \in Int /\ Threads \in 1..MaxThreads /\ MaxThreads \in Nat \ {0}
  BY ConfFacts DEF Init
<1>2. TypeOK
  BY <1>1 DEF Init, TypeOK, ThreadIds, Labels, Final
<1>3. MutexInv
  BY DEF Init, MutexInv, Critical
<1>4. CountInv
  BY <1>1 DEF Init, CountInv
<1>5. JoinInv
  BY <1>1 DEF Init, JoinInv
<1> QED BY <1>2, <1>3, <1>4, <1>5 DEF IInv

\* The steps of a thread that neither take nor release the mutex, nor count:
\* they move the thread from a place outside of it to another one.
Outside == {"none", "start", "next", "lines", "lock", "exited"}

\* A step that moves thread p from a place without the mutex to another, and
\* changes neither the shared variables nor the main thread, keeps the invariant.
LEMMA OutsideStep ==
  ASSUME IInv, TypeOK', NEW p \in ThreadIds, NEW label \in Outside \cup {"leaving"},
         label # "none",
         pc[p] \in Outside \ {"none", "exited"}, Goto(p, label),
         UNCHANGED <<conf, main, i, shared>>
  PROVE  IInv'
<1>1. /\ pc \in [ThreadIds -> Labels]
      /\ pc' = [pc EXCEPT ![p] = label]
      /\ conf' = conf /\ main' = main /\ i' = i
      /\ count' = count /\ mutex' = mutex /\ delivered' = delivered
  BY DEF IInv, TypeOK, Goto, shared
<1>2. \A r \in ThreadIds : r # p => pc'[r] = pc[r]
  BY <1>1
<1>3. pc'[p] = label
  BY <1>1
<1>4. MutexInv'
  BY <1>1, <1>2, <1>3 DEF IInv, MutexInv, Critical, Outside, TypeOK
<1>5. CountInv'
  BY <1>1, <1>2, <1>3 DEF IInv, CountInv, Outside
<1>6. JoinInv'
  <2>1. Threads' = Threads
    BY <1>1 DEF Threads, TotalLines
  <2>2. pc[p] \notin {"none", "exited"} /\ label # "none"
    BY DEF Outside
  <2> QED BY <1>1, <1>2, <1>3, <2>1, <2>2 DEF IInv, JoinInv
<1> QED BY <1>4, <1>5, <1>6 DEF IInv

\* Every step keeps the types.
LEMMA NextTypeOK == TypeOK /\ JoinInv /\ [Next]_vars => TypeOK'
<1> SUFFICES ASSUME TypeOK, JoinInv, [Next]_vars PROVE TypeOK'
  OBVIOUS
<1> USE DEF TypeOK, buffers, shared, Labels, Final
<1>1. ASSUME MainStep PROVE TypeOK'
  <2>1. Threads \in 1..MaxThreads /\ MaxThreads \in Nat \ {0}
    BY ConfFacts
  <2>2. 0 \in ThreadIds /\ (i + 1 < Threads => i + 1 \in ThreadIds)
    <3>1. i \in 0..(MaxThreads - 1)
      BY DEF ThreadIds
    <3> QED BY <2>1, <3>1 DEF ThreadIds
  <2>3. CASE Prepare
    BY <2>3 DEF Prepare
  <2>4. CASE Spawn
    <3>1. main = "spawn" /\ i < Threads
      BY <2>4 DEF Spawn, JoinInv
    <3>2. i' \in ThreadIds
      BY <2>2, <2>4 DEF Spawn
    <3> QED BY <2>4, <3>2 DEF Spawn, Goto
  <2>5. CASE Poll
    BY <2>5 DEF Poll
  <2>6. CASE Join
    <3>1. i' \in ThreadIds
      BY <2>2, <2>6 DEF Join
    <3> QED BY <2>6, <3>1 DEF Join
  <2> QED BY <1>1, <2>3, <2>4, <2>5, <2>6 DEF MainStep
<1>2. ASSUME NEW p \in ThreadIds, ThreadStep(p) \/ Lock(p) PROVE TypeOK'
  <2>1. CASE Begin(p)
    BY <2>1, RangeTypes DEF Begin, Goto
  <2>2. CASE Stop(p)
    BY <2>2 DEF Stop, Exit, Goto
  <2>3. CASE Fetch(p)
    <3>1. LookupEnd(at[p], Buffer(p, at[p])) \in Nat
      BY <2>3, FetchTypes DEF Fetch
    <3> QED BY <2>3, <3>1 DEF Fetch, Goto
  <2>4. CASE NextBuffer(p)
    <3>1. at[p] + conf.buffer \in Nat
      BY ConfFacts
    <3> QED BY <2>4, <3>1 DEF NextBuffer, Goto
  <2>5. CASE Leave(p)
    BY <2>5 DEF Leave, Goto
  <2>6. CASE SkipBlank(p)
    BY <2>6 DEF SkipBlank, AdvanceLine
  <2>7. CASE SkipOther(p)
    <3>1. line' = line \/ AdvanceLine(p)
      BY <2>7 DEF SkipOther
    <3>2. line' \in [ThreadIds -> Nat]
      <4>1. CASE line' = line
        BY <4>1
      <4>2. CASE AdvanceLine(p)
        BY <4>2 DEF AdvanceLine
      <4> QED BY <3>1, <4>1, <4>2
    <3>3. pc' \in [ThreadIds -> Labels] /\ finished' \in [ThreadIds -> BOOLEAN]
      BY <2>7 DEF SkipOther, Exit, Goto
    <3> QED BY <2>7, <3>2, <3>3 DEF SkipOther
  <2>8. CASE Discard(p)
    BY <2>8 DEF Discard, AdvanceLine
  <2>9. CASE Match(p)
    BY <2>9 DEF Match, Goto
  <2>10. CASE Lock(p)
    BY <2>10 DEF Lock, Goto
  <2>11. CASE Check(p)
    BY <2>11 DEF Check, Exit, Goto
  <2>12. CASE Count(p)
    BY <2>12 DEF Count, Goto
  <2>13. CASE Callback(p)
    <3>1. Append(delivered, line[p]) \in Seq(Nat)
      OBVIOUS
    <3> QED BY <2>13, <3>1 DEF Callback, AdvanceLine, Goto
  <2> QED BY <1>2, <2>1, <2>2, <2>3, <2>4, <2>5, <2>6, <2>7, <2>8, <2>9,
             <2>10, <2>11, <2>12, <2>13 DEF ThreadStep
<1>3. ASSUME Fault PROVE TypeOK'
  <2>1. CASE PrepareFails
    BY <2>1 DEF PrepareFails
  <2>2. CASE SpawnFails
    BY <2>2 DEF SpawnFails
  <2>3. ASSUME NEW p \in ThreadIds,
               BeginFails(p) \/ FetchFails(p) \/ MatchFails(p) \/ ResultFails(p)
        PROVE  TypeOK'
    BY <2>3 DEF BeginFails, FetchFails, MatchFails, ResultFails, Exit,
                ExitSilently, Goto
  <2> QED BY <1>3, <2>1, <2>2, <2>3 DEF Fault
<1>4. CASE UNCHANGED vars \/ Ended
  BY <1>4 DEF Ended, vars
<1> QED BY <1>1, <1>2, <1>3, <1>4 DEF Next

\* The steps of a thread that stay away from the mutex keep the invariant.
LEMMA AwayFromMutex ==
  ASSUME IInv, TypeOK', NEW p \in ThreadIds,
         \/ Begin(p) \/ Stop(p) \/ Fetch(p) \/ NextBuffer(p)
         \/ SkipBlank(p) \/ SkipOther(p) \/ Discard(p) \/ Match(p)
         \/ BeginFails(p) \/ FetchFails(p) \/ MatchFails(p) \/ ResultFails(p)
  PROVE  IInv'
<1>1. /\ UNCHANGED <<conf, main, i, shared>>
      /\ pc[p] \in {"start", "next", "lines"}
      /\ \/ \E label \in {"next", "lines", "lock", "leaving", "exited"} : Goto(p, label)
         \/ UNCHANGED pc
  BY DEF Begin, Stop, Fetch, NextBuffer, SkipBlank, SkipOther, Discard, Match,
         BeginFails, FetchFails, MatchFails, ResultFails, Looking, At, Exit,
         ExitSilently, AdvanceLine
<1>2. CASE UNCHANGED pc
  BY <1>1, <1>2 DEF IInv, MutexInv, CountInv, JoinInv, shared, Threads, TotalLines
<1>3. ASSUME NEW label \in {"next", "lines", "lock", "leaving", "exited"},
             Goto(p, label)
      PROVE  IInv'
  BY <1>1, <1>3, OutsideStep DEF Outside
<1> QED BY <1>1, <1>2, <1>3

\* The steps around the mutex keep the invariant.
LEMMA AroundMutex ==
  ASSUME IInv, TypeOK', NEW p \in ThreadIds,
         Lock(p) \/ Check(p) \/ Count(p) \/ Callback(p) \/ Leave(p)
  PROVE  IInv'
<1>1. /\ pc \in [ThreadIds -> Labels] /\ mutex \subseteq ThreadIds
      /\ count \in Nat /\ conf.limit \in Int /\ delivered \in Seq(Nat)
      /\ \A r \in ThreadIds : pc[r] \in Critical => mutex = {r}
      /\ \A r \in mutex : pc[r] \in Critical \cup {"leaving"}
  BY ConfFacts DEF IInv, TypeOK, MutexInv
<1>2. conf' = conf /\ main' = main /\ i' = i
  BY DEF Lock, Check, Count, Callback, Leave
<1>3. JoinInv'
  <2>1. Threads' = Threads
    BY <1>2 DEF Threads, TotalLines
  <2>2. \A r \in ThreadIds : r # p => pc'[r] = pc[r]
    BY <1>1 DEF Lock, Check, Count, Callback, Leave, Exit, Goto
  <2>3. pc[p] \notin {"none", "exited"} /\ pc'[p] # "none"
    BY <1>1 DEF Lock, Check, Count, Callback, Leave, Exit, Goto, At
  <2> QED BY <1>2, <2>1, <2>2, <2>3 DEF IInv, JoinInv
<1>4. CASE Lock(p)
  <2>1. /\ pc[p] = "lock" /\ mutex = {} /\ mutex' = {p}
        /\ pc' = [pc EXCEPT ![p] = "check"]
        /\ count' = count /\ delivered' = delivered
    BY <1>4 DEF Lock, At, Goto
  <2>2. MutexInv'
    BY <1>1, <2>1 DEF MutexInv, Critical
  <2>3. CountInv'
    BY <1>1, <1>2, <2>1 DEF IInv, CountInv
  <2> QED BY <1>3, <2>2, <2>3 DEF IInv
<1>5. CASE Check(p)
  <2>1. /\ pc[p] = "check" /\ mutex' = mutex
        /\ count' = count /\ delivered' = delivered
        /\ \/ pc' = [pc EXCEPT ![p] = "leaving"]
           \/ pc' = [pc EXCEPT ![p] = "count"] /\ ~(count >= conf.limit)
    BY <1>5 DEF Check, At, Goto, Exit, LimitMet, shared
  <2>2. MutexInv'
    BY <1>1, <2>1 DEF MutexInv, Critical
  <2>3. CountInv'
    BY <1>1, <1>2, <2>1 DEF IInv, CountInv
  <2> QED BY <1>3, <2>2, <2>3 DEF IInv
<1>6. CASE Count(p)
  <2>1. /\ pc[p] = "count" /\ mutex' = mutex
        /\ count' = count + 1 /\ delivered' = delivered
        /\ pc' = [pc EXCEPT ![p] = "callback"]
    BY <1>6 DEF Count, At, Goto
  <2>2. MutexInv'
    BY <1>1, <2>1 DEF MutexInv, Critical
  <2>3. \A r \in ThreadIds : r # p => pc[r] \notin Critical
    BY <1>1, <2>1 DEF Critical
  <2>4. CountInv'
    BY <1>1, <1>2, <2>1, <2>3 DEF IInv, CountInv, Critical
  <2> QED BY <1>3, <2>2, <2>4 DEF IInv
<1>7. CASE Callback(p)
  <2>1. /\ pc[p] = "callback" /\ mutex' = mutex \ {p}
        /\ count' = count /\ delivered' = Append(delivered, line[p])
        /\ pc' = [pc EXCEPT ![p] = "lines"]
    BY <1>7 DEF Callback, At, Goto
  <2>2. \A r \in ThreadIds : r # p => pc[r] \notin Critical
    BY <1>1, <2>1 DEF Critical
  <2>3. MutexInv'
    BY <1>1, <2>1, <2>2 DEF MutexInv, Critical
  <2>4. Len(delivered') = Len(delivered) + 1 /\ Len(delivered) \in Nat
    BY <1>1, <2>1 DEF IInv, TypeOK
  <2>5. CountInv'
    BY <1>1, <1>2, <2>1, <2>2, <2>4 DEF IInv, CountInv, Critical
  <2> QED BY <1>3, <2>3, <2>5 DEF IInv
<1>8. CASE Leave(p)
  <2>1. /\ pc[p] = "leaving" /\ mutex' = mutex \ {p}
        /\ count' = count /\ delivered' = delivered
        /\ pc' = [pc EXCEPT ![p] = "exited"]
    BY <1>8 DEF Leave, At, Goto
  <2>2. MutexInv'
    BY <1>1, <2>1 DEF MutexInv, Critical
  <2>3. CountInv'
    BY <1>1, <1>2, <2>1 DEF IInv, CountInv
  <2> QED BY <1>3, <2>2, <2>3 DEF IInv
<1> QED BY <1>4, <1>5, <1>6, <1>7, <1>8

\* The steps of the main thread keep the invariant.
LEMMA MainSteps ==
  ASSUME IInv, TypeOK', MainStep \/ PrepareFails \/ SpawnFails
  PROVE  IInv'
<1>1. /\ pc \in [ThreadIds -> Labels] /\ i \in ThreadIds
      /\ Threads \in 1..MaxThreads /\ MaxThreads \in Nat \ {0}
  BY ConfFacts DEF IInv, TypeOK
<1>2. CASE Spawn
  <2>1. /\ main = "spawn" /\ pc' = [pc EXCEPT ![i] = "start"] /\ conf' = conf
        /\ mutex' = mutex /\ count' = count /\ delivered' = delivered
        /\ IF i + 1 < Threads THEN i' = i + 1 /\ main' = main
                              ELSE i' = 0 /\ main' = "poll"
    BY <1>2 DEF Spawn, Goto, shared
  <2>2. pc[i] = "none" /\ i < Threads
    BY <1>1, <2>1 DEF IInv, JoinInv, ThreadIds
  <2>3. MutexInv'
    BY <1>1, <2>1, <2>2 DEF IInv, MutexInv, Critical, TypeOK
  <2>4. CountInv'
    BY <1>1, <2>1, <2>2 DEF IInv, CountInv
  <2>5. Threads' = Threads
    BY <2>1 DEF Threads, TotalLines
  <2>6. JoinInv'
    BY <1>1, <2>1, <2>2, <2>5 DEF IInv, JoinInv, ThreadIds
  <2> QED BY <2>3, <2>4, <2>6 DEF IInv
<1>3. CASE ~Spawn
  <2>1. /\ pc' = pc /\ conf' = conf
        /\ mutex' = mutex /\ count' = count /\ delivered' = delivered
    BY <1>3 DEF MainStep, Prepare, Poll, Join, PrepareFails, SpawnFails, shared
  <2>2. MutexInv' /\ CountInv'
    BY <2>1 DEF IInv, MutexInv, CountInv
  <2>3. Threads' = Threads
    BY <2>1 DEF Threads, TotalLines
  <2>4. JoinInv'
    <3>1. CASE Prepare
      BY <3>1, <2>1, <2>3 DEF Prepare, IInv, JoinInv
    <3>2. CASE Poll
      BY <3>2, <2>1, <2>3 DEF Poll, IInv, JoinInv
    <3>3. CASE Join
      BY <3>3, <1>1, <2>1, <2>3 DEF Join, IInv, JoinInv, ThreadIds
    <3>4. CASE PrepareFails \/ SpawnFails
      BY <3>4, <2>1, <2>3 DEF PrepareFails, SpawnFails, IInv, JoinInv
    <3> QED BY <1>3, <3>1, <3>2, <3>3, <3>4 DEF MainStep
  <2> QED BY <2>2, <2>4 DEF IInv
<1> QED BY <1>2, <1>3

\* The invariant is kept by every step.
LEMMA NextIInv == IInv /\ [Next]_vars => IInv'
<1> SUFFICES ASSUME IInv, [Next]_vars PROVE IInv'
  OBVIOUS
<1>1. TypeOK'
  BY NextTypeOK DEF IInv
<1>2. CASE MainStep
  BY <1>1, <1>2, MainSteps
<1>3. ASSUME NEW p \in ThreadIds, ThreadStep(p) \/ Lock(p) PROVE IInv'
  BY <1>1, <1>3, AwayFromMutex, AroundMutex DEF ThreadStep
<1>4. CASE Fault
  BY <1>1, <1>4, MainSteps, AwayFromMutex DEF Fault
<1>5. CASE UNCHANGED vars \/ Ended
  BY <1>5 DEF Ended, vars, IInv, TypeOK, MutexInv, CountInv, JoinInv, Threads,
              TotalLines
<1> QED BY <1>2, <1>3, <1>4, <1>5 DEF Next

-----------------------------------------------------------------------------
(* Which lines are given to on_result *)

\* A thread with a buffer of lines, and one that has found a match in it.
Scanning == {"lines", "lock", "check", "count", "callback"}

Deciding == {"lock", "check", "count", "callback"}

\* The lines that a thread fetches.
Fetched(p) ==
  {l \in Start(p)..(End(p) - 1) :
     /\ l < conf.lines
     /\ conf.buffer > 0
     /\ LinesPerThread % conf.buffer = 0 \/ l # End(p) - 1}

\* A line at which a buffer of the thread begins.
Boundary(p, first) == \E k \in Nat : first = Start(p) + k * conf.buffer

\* Where a thread is in its range.
PlaceOK(p) ==
  /\ pc[p] # "none" => p < Threads
  /\ pc[p] \in {"next"} \cup Scanning => Boundary(p, at[p])
  /\ pc[p] \in Scanning =>
       /\ at[p] <= line[p]
       /\ line[p] <= at[p] + conf.buffer
       /\ stop[p] <= at[p] + conf.buffer
       /\ at[p]..(stop[p] - 1) \subseteq Fetched(p)
       /\ \A l \in Fetched(p) : l < at[p] + conf.buffer => l < stop[p]
  /\ pc[p] \in Deciding =>
       line[p] < stop[p] /\ line[p] \in conf.matching /\ conf.callback

\* The thread is past line l of its range.
Passed(p, l) ==
  /\ pc[p] \notin {"none", "start"}
  /\ pc[p] = "next" => l < at[p]
  /\ pc[p] \in Scanning => l < line[p]

\* The lines given match, are behind the thread in whose range they are, and are
\* different.
GivenInv ==
  /\ \A l \in Given : l \in conf.matching /\ \E p \in ThreadIds : l \in Fetched(p) /\ Passed(p, l)
  /\ \A j, k \in DOMAIN delivered : delivered[j] = delivered[k] => j = k

\* In a search in which nothing fails a thread has given each match behind it,
\* unless it stopped at the limit.
DoneOK(p) ==
  (conf.callback /\ conf.faults = {}) =>
     \A l \in Fetched(p) \cap conf.matching :
        Passed(p, l) => \/ l \in Given
                        \/ pc[p] \in {"leaving", "exited"} /\ count >= conf.limit

DeliverInv == GivenInv /\ \A p \in ThreadIds : PlaceOK(p) /\ DoneOK(p)

-----------------------------------------------------------------------------
(* The ranges of the threads *)

LEMMA ShareType ==
  ASSUME conf \in Requests
  PROVE  LinesPerThread \in Nat
<1>1. conf.lines \in Nat /\ Threads \in Nat \ {0}
  BY ConfFacts
<1>2. TotalLines \in Nat
  BY <1>1 DEF TotalLines
<1> QED BY <1>1, <1>2, Division DEF LinesPerThread

\* No line is in the ranges of two threads.
LEMMA RangesDisjoint ==
  ASSUME conf \in Requests, NEW p \in ThreadIds, NEW r \in ThreadIds,
         NEW l \in Fetched(p), l \in Fetched(r)
  PROVE  p = r
<1>1. LinesPerThread \in Nat /\ p \in Nat /\ r \in Nat
  BY ShareType, ConfFacts DEF ThreadIds
<1>2. ASSUME NEW a \in Nat, NEW b \in Nat, a < b
      PROVE  a * LinesPerThread + LinesPerThread <= b * LinesPerThread
  <2>1. (a + 1) * LinesPerThread <= b * LinesPerThread
    BY <1>1, <1>2, ProductMonotone
  <2>2. (a + 1) * LinesPerThread = a * LinesPerThread + LinesPerThread
    BY <1>1, Z3
  <2> QED BY <2>1, <2>2
<1>3. /\ Start(p) \in Nat /\ End(p) \in Nat /\ Start(r) \in Nat /\ End(r) \in Nat
  BY RangeTypes
<1>4. p < r => End(p) <= Start(r)
  BY <1>1, <1>2 DEF Start, End
<1>5. r < p => End(r) <= Start(p)
  BY <1>1, <1>2 DEF Start, End
<1>6. l \in Start(p)..(End(p) - 1) /\ l \in Start(r)..(End(r) - 1)
  BY DEF Fetched
<1> QED BY <1>1, <1>3, <1>4, <1>5, <1>6

\* The buffers of a range end where the range ends exactly when line_buffer divides
\* its length.
LEMMA Boundaries ==
  ASSUME conf \in Requests, NEW p \in ThreadIds, NEW first, Boundary(p, first)
  PROVE  /\ first \in Nat
         /\ Start(p) <= first
         /\ Boundary(p, first + conf.buffer)
         /\ conf.buffer > 0 =>
              /\ (first < End(p) /\ first + conf.buffer > End(p)) =>
                   LinesPerThread % conf.buffer # 0
              /\ first + conf.buffer = End(p) => LinesPerThread % conf.buffer = 0
<1> DEFINE b == conf.buffer
           P == LinesPerThread
           s == Start(p)
<1>1. b \in Nat /\ P \in Nat /\ s \in Nat /\ End(p) = s + P
  BY ConfFacts, ShareType, RangeTypes DEF End
<1>2. PICK k \in Nat : first = s + k * b
  BY DEF Boundary
<1>3. Boundary(p, first + b) <=> \E n \in Nat : first + b = s + n * b
  BY DEF Boundary
<1> HIDE DEF b, P, s
<1>4. k * b \in Nat /\ (k + 1) * b = k * b + b
  <2>1. (k + 1) * b = k * b + b
    BY <1>1, Z3
  <2> QED BY <1>1, <2>1, ProductMonotone
<1>5. first \in Nat /\ s <= first
  BY <1>1, <1>2, <1>4
<1>6. Boundary(p, first + b)
  <2>1. first + b = s + (k + 1) * b
    BY <1>1, <1>2, <1>4
  <2> QED BY <1>3, <2>1
<1>7. b > 0 => P \div b \in Nat /\ P = b * (P \div b) + (P % b) /\ P % b \in 0..(b - 1)
  BY <1>1, Division
<1>8. ASSUME b > 0, first < s + P, first + b > s + P PROVE P % b # 0
  <2> DEFINE m == P \div b
             rest == P % b
  <2>1. m \in Nat /\ P = b * m + rest
    BY <1>7, <1>8
  <2> HIDE DEF m, rest
  <2>2. ASSUME rest = 0 PROVE FALSE
    <3>1. b * m = P /\ m * b = b * m
      BY <1>1, <2>1, <2>2
    <3>2. k * b < m * b /\ m * b < (k + 1) * b
      BY <1>1, <1>2, <1>4, <1>8, <3>1
    <3>3. CASE m <= k
      <4>1. m * b <= k * b
        BY <1>1, <2>1, <3>3, ProductMonotone
      <4> QED BY <1>1, <1>4, <3>1, <3>2, <4>1
    <3>4. CASE k + 1 <= m
      <4>1. (k + 1) * b <= m * b
        BY <1>1, <2>1, <3>4, ProductMonotone
      <4> QED BY <1>1, <1>4, <3>1, <3>2, <4>1
    <3> QED BY <2>1, <3>3, <3>4
  <2> QED BY <2>2 DEF rest
<1>9. ASSUME b > 0, first + b = s + P PROVE P % b = 0
  <2>1. P = (k + 1) * b
    BY <1>1, <1>2, <1>4, <1>9
  <2>2. P \div b = k + 1
    <3>1. b \in Nat \ {0}
      BY <1>1, <1>9
    <3>2. k + 1 \in Nat /\ (k + 1) * b <= P /\ P < (k + 1) * b + b
      BY <1>1, <1>4, <2>1, <3>1
    <3> QED BY <1>1, <3>1, <3>2, DivisionUnique
  <2>3. P = b * (k + 1) + (P % b)
    BY <1>7, <1>9, <2>2
  <2>4. b * (k + 1) = (k + 1) * b
    BY <1>1
  <2> DEFINE rest == P % b
  <2>5. rest \in Nat
    BY <1>1, <1>7, <1>9
  <2> HIDE DEF rest
  <2>6. rest = 0
    BY <1>1, <1>4, <2>1, <2>3, <2>4, <2>5 DEF rest
  <2> QED BY <2>6 DEF rest
<1> QED BY <1>1, <1>5, <1>6, <1>8, <1>9 DEF b, P, s

\* The lines that a buffer gets are those of the range that the thread fetches, and
\* there are no others before the next buffer.
LEMMA FetchBounds ==
  ASSUME conf \in Requests, NEW p \in ThreadIds, NEW first, Boundary(p, first),
         first < End(p), NEW last, last = LookupEnd(first, Buffer(p, first))
  PROVE  /\ last \in Nat
         /\ last <= first + conf.buffer
         /\ first..(last - 1) \subseteq Fetched(p)
         /\ \A l \in Fetched(p) : l < first + conf.buffer => l < last
<1> DEFINE b == conf.buffer
           divides == LinesPerThread % conf.buffer = 0
           n == Buffer(p, first)
<1>1. /\ b \in Nat /\ conf.lines \in Nat
      /\ Start(p) \in Nat /\ End(p) \in Nat
  BY ConfFacts, RangeTypes
<1>2. /\ first \in Nat
      /\ Start(p) <= first
      /\ b > 0 => /\ first + b > End(p) => ~divides
                  /\ first + b = End(p) => divides
  BY Boundaries
<1>3. n = IF first + b > End(p) THEN End(p) - first - 1 ELSE b
  BY DEF Buffer
<1>4. last = IF first + n <= conf.lines THEN first + n ELSE conf.lines
  BY DEF LookupEnd, AtMost
<1>5. \A l : l \in Fetched(p) <=> /\ l \in Start(p)..(End(p) - 1)
                                  /\ l < conf.lines
                                  /\ b > 0
                                  /\ divides \/ l # End(p) - 1
  BY DEF Fetched
<1> HIDE DEF b, divides, n
<1>6. /\ n \in Nat /\ first + n <= first + b
      /\ first + b > End(p) => first + n = End(p) - 1
      /\ first + b <= End(p) => n = b
  BY <1>1, <1>2, <1>3
<1>7. last \in Nat /\ last <= first + n /\ last <= conf.lines
  BY <1>1, <1>2, <1>4, <1>6
<1>8. ASSUME NEW l \in first..(last - 1) PROVE l \in Fetched(p)
  <2>1. l \in Nat /\ first <= l /\ l < first + n /\ l < conf.lines /\ b > 0
    BY <1>1, <1>2, <1>6, <1>7
  <2>2. CASE first + b > End(p)
    BY <1>1, <1>2, <1>5, <1>6, <2>1, <2>2
  <2>3. CASE first + b = End(p)
    BY <1>1, <1>2, <1>5, <1>6, <2>1, <2>3
  <2>4. CASE first + b < End(p)
    BY <1>1, <1>2, <1>5, <1>6, <2>1, <2>4
  <2> QED BY <1>1, <1>2, <2>2, <2>3, <2>4
<1>9. ASSUME NEW l \in Fetched(p), l < first + b PROVE l < last
  <2>1. /\ l \in Start(p)..(End(p) - 1) /\ l < conf.lines /\ b > 0
        /\ divides \/ l # End(p) - 1
    BY <1>5
  <2>2. l < first + n
    <3>1. CASE first + b > End(p)
      BY <1>1, <1>2, <1>6, <2>1, <3>1
    <3>2. CASE first + b <= End(p)
      BY <1>6, <1>9, <3>2
    <3> QED BY <1>1, <1>2, <3>1, <3>2
  <2> QED BY <1>1, <1>2, <1>4, <1>6, <2>1, <2>2
<1>10. last <= first + b
  BY <1>1, <1>2, <1>6, <1>7
<1> QED BY <1>7, <1>8, <1>9, <1>10 DEF b

-----------------------------------------------------------------------------
(* Every step keeps what is known of the lines given *)

\* The ranges depend on the request only.
LEMMA RangesFrozen ==
  ASSUME conf' = conf
  PROVE  /\ Threads' = Threads
         /\ \A p : Fetched(p)' = Fetched(p) /\ End(p)' = End(p)
         /\ \A p, first : Boundary(p, first)' <=> Boundary(p, first)
BY DEF Threads, TotalLines, Fetched, Boundary, Start, End, LinesPerThread

\* A thread that does not move, while others may count and give results.
LEMMA PlaceStays ==
  ASSUME NEW p \in ThreadIds, conf' = conf,
         pc'[p] = pc[p], at'[p] = at[p], line'[p] = line[p], stop'[p] = stop[p]
  PROVE  /\ PlaceOK(p) => PlaceOK(p)'
         /\ \A l : Passed(p, l)' <=> Passed(p, l)
<1>1. Boundary(p, at[p])' <=> Boundary(p, at[p])
  BY DEF Boundary, Start, LinesPerThread, Threads, TotalLines
<1>2. PlaceOK(p) => PlaceOK(p)'
  BY <1>1, RangesFrozen DEF PlaceOK
<1> QED BY <1>2 DEF Passed

LEMMA DoneStays ==
  ASSUME NEW p \in ThreadIds, conf' = conf, TypeOK, TypeOK',
         pc'[p] = pc[p], at'[p] = at[p], line'[p] = line[p], stop'[p] = stop[p],
         Given \subseteq Given', count <= count', DoneOK(p)
  PROVE  DoneOK(p)'
<1>1. /\ \A l : Passed(p, l)' <=> Passed(p, l)
      /\ Fetched(p)' = Fetched(p)
  BY PlaceStays, RangesFrozen
<1>2. count >= conf.limit => count' >= conf'.limit
  <2>1. count \in Nat /\ count' \in Nat /\ conf.limit \in Int
    BY ConfFacts DEF TypeOK
  <2> QED BY <2>1
<1> QED BY <1>1, <1>2 DEF DoneOK

\* What the steps of a thread leave alone.
LEMMA ThreadFrame ==
  ASSUME TypeOK, NEW p \in ThreadIds,
         \/ ThreadStep(p) \/ Lock(p)
         \/ BeginFails(p) \/ FetchFails(p) \/ MatchFails(p) \/ ResultFails(p)
  PROVE  /\ conf' = conf
         /\ \A r \in ThreadIds \ {p} :
              pc'[r] = pc[r] /\ at'[r] = at[r] /\ line'[r] = line[r] /\ stop'[r] = stop[r]
<1> USE DEF TypeOK, Goto, Exit, ExitSilently, AdvanceLine, buffers
<1>1. CASE Begin(p) \/ Stop(p) \/ Fetch(p) \/ NextBuffer(p) \/ Leave(p)
  BY <1>1 DEF Begin, Stop, Fetch, NextBuffer, Leave
<1>2. CASE SkipBlank(p) \/ SkipOther(p) \/ Discard(p) \/ Match(p)
  BY <1>2 DEF SkipBlank, SkipOther, Discard, Match
<1>3. CASE Check(p) \/ Count(p) \/ Callback(p) \/ Lock(p)
  BY <1>3 DEF Check, Count, Callback, Lock
<1>4. CASE BeginFails(p) \/ FetchFails(p) \/ MatchFails(p) \/ ResultFails(p)
  BY <1>4 DEF BeginFails, FetchFails, MatchFails, ResultFails
<1> QED BY <1>1, <1>2, <1>3, <1>4 DEF ThreadStep

\* A step of a thread that gives nothing.
LEMMA QuietStep ==
  ASSUME DeliverInv, TypeOK, TypeOK', NEW p \in ThreadIds, conf' = conf,
         \A r \in ThreadIds \ {p} :
           pc'[r] = pc[r] /\ at'[r] = at[r] /\ line'[r] = line[r] /\ stop'[r] = stop[r],
         delivered' = delivered, count <= count',
         PlaceOK(p)', DoneOK(p)',
         \A l \in Fetched(p) : Passed(p, l) => Passed(p, l)'
  PROVE  DeliverInv'
<1>1. Given' = Given
  BY DEF Given
<1>2. \A r \in ThreadIds \ {p} : PlaceOK(r)' /\ DoneOK(r)'
  BY <1>1, PlaceStays, DoneStays DEF DeliverInv
<1>3. ASSUME NEW l \in Given
      PROVE  l \in conf.matching /\ \E r \in ThreadIds : l \in Fetched(r)' /\ Passed(r, l)'
  <2>1. PICK r \in ThreadIds : l \in Fetched(r) /\ Passed(r, l)
    BY DEF DeliverInv, GivenInv
  <2>2. Fetched(r)' = Fetched(r)
    BY RangesFrozen
  <2>3. Passed(r, l)'
    <3>1. CASE r = p
      BY <2>1, <3>1
    <3>2. CASE r # p
      BY <2>1, <3>2, PlaceStays
    <3> QED BY <3>1, <3>2
  <2>4. l \in conf.matching
    BY DEF DeliverInv, GivenInv
  <2> QED BY <2>1, <2>2, <2>3, <2>4
<1>4. GivenInv'
  BY <1>1, <1>3 DEF GivenInv, DeliverInv
<1> QED BY <1>2, <1>4 DEF DeliverInv

\* A thread leaves the lines: at the end of its range, at the limit, or because
\* something failed.
LEMMA ExitKeepsLines ==
  ASSUME DeliverInv, TypeOK, TypeOK', NEW p \in ThreadIds, conf' = conf,
         \A r \in ThreadIds \ {p} :
           pc'[r] = pc[r] /\ at'[r] = at[r] /\ line'[r] = line[r] /\ stop'[r] = stop[r],
         delivered' = delivered, count' = count,
         pc'[p] \in {"leaving", "exited"}, pc[p] # "none",
         \/ conf.faults # {}
         \/ LimitMet
         \/ pc[p] = "next" /\ at[p] >= End(p)
         \/ pc[p] = "leaving"
  PROVE  DeliverInv'
<1>1. Given' = Given
  BY DEF Given
<1>2. PlaceOK(p)'
  BY RangesFrozen DEF DeliverInv, PlaceOK, Scanning, Deciding
<1>3. \A l \in Fetched(p) : Passed(p, l)'
  BY DEF Passed, Scanning
<1>4. DoneOK(p)'
  <2> SUFFICES ASSUME conf.callback, conf.faults = {},
                      NEW l \in Fetched(p) \cap conf.matching
               PROVE  l \in Given \/ count >= conf.limit
    BY <1>1, RangesFrozen DEF DoneOK
  <2>1. CASE LimitMet
    BY <2>1 DEF LimitMet
  <2>2. CASE pc[p] = "next" /\ at[p] >= End(p)
    <3>1. Start(p) \in Nat /\ End(p) \in Nat /\ at[p] \in Nat
      BY RangeTypes DEF TypeOK
    <3>2. l \in Start(p)..(End(p) - 1)
      BY DEF Fetched
    <3>3. l < at[p]
      BY <2>2, <3>1, <3>2
    <3>4. Passed(p, l)
      BY <2>2, <3>3 DEF Passed, Scanning
    <3> QED BY <2>2, <3>4 DEF DeliverInv, DoneOK
  <2>3. CASE pc[p] = "leaving"
    <3>1. Passed(p, l)
      BY <2>3 DEF Passed, Scanning
    <3> QED BY <2>3, <3>1 DEF DeliverInv, DoneOK
  <2> QED BY <2>1, <2>2, <2>3
<1>5. count <= count'
  BY DEF TypeOK
<1> QED BY <1>2, <1>3, <1>4, <1>5, QuietStep

\* A thread begins its range.
LEMMA BeginKeepsLines ==
  ASSUME DeliverInv, TypeOK, TypeOK', NEW p \in ThreadIds, Begin(p)
  PROVE  DeliverInv'
<1>1. /\ conf' = conf /\ delivered' = delivered /\ count' = count
      /\ pc[p] = "start" /\ pc'[p] = "next" /\ at'[p] = Start(p)
  BY DEF Begin, At, Goto, shared, TypeOK
<1>2. \A r \in ThreadIds \ {p} :
        pc'[r] = pc[r] /\ at'[r] = at[r] /\ line'[r] = line[r] /\ stop'[r] = stop[r]
  BY ThreadFrame DEF ThreadStep
<1>3. conf \in Requests /\ Start(p) \in Nat
  BY RangeTypes DEF TypeOK
<1>4. PlaceOK(p)'
  <2>1. Boundary(p, Start(p))
    BY <1>3, ConfFacts DEF Boundary
  <2>2. Boundary(p, at[p])'
    BY <1>1, <2>1 DEF Boundary, Start, LinesPerThread, Threads, TotalLines
  <2>3. p < Threads
    BY <1>1 DEF DeliverInv, PlaceOK
  <2> QED BY <1>1, <2>2, <2>3, RangesFrozen DEF PlaceOK, Scanning, Deciding
<1>5. \A l \in Fetched(p) : ~Passed(p, l) /\ ~Passed(p, l)'
  BY <1>1, <1>3, RangeTypes DEF Passed, Fetched
<1>6. DoneOK(p)'
  BY <1>1, <1>5, RangesFrozen DEF DoneOK
<1>7. count <= count'
  BY <1>1 DEF TypeOK
<1> QED BY <1>1, <1>2, <1>4, <1>5, <1>6, <1>7, QuietStep

\* A thread gets the lines of a buffer.
LEMMA FetchKeepsLines ==
  ASSUME DeliverInv, TypeOK, TypeOK', NEW p \in ThreadIds, Fetch(p)
  PROVE  DeliverInv'
<1> DEFINE last == LookupEnd(at[p], Buffer(p, at[p]))
<1>1. /\ conf' = conf /\ delivered' = delivered /\ count' = count /\ at' = at
      /\ pc[p] = "next" /\ pc'[p] = "lines" /\ at[p] < End(p)
      /\ line'[p] = at[p] /\ stop'[p] = last
  BY DEF Fetch, At, Goto, shared, TypeOK
<1>2. \A r \in ThreadIds \ {p} :
        pc'[r] = pc[r] /\ at'[r] = at[r] /\ line'[r] = line[r] /\ stop'[r] = stop[r]
  BY ThreadFrame DEF ThreadStep
<1>3. conf \in Requests /\ conf.buffer \in Nat /\ at[p] \in Nat
  BY ConfFacts DEF TypeOK
<1>4. p < Threads /\ Boundary(p, at[p])
  BY <1>1 DEF DeliverInv, PlaceOK
<1>5. /\ last \in Nat
      /\ last <= at[p] + conf.buffer
      /\ at[p]..(last - 1) \subseteq Fetched(p)
      /\ \A l \in Fetched(p) : l < at[p] + conf.buffer => l < last
  <2>1. PICK first : first = at[p]
    OBVIOUS
  <2>2. LET end == LookupEnd(first, Buffer(p, first))
        IN  /\ end \in Nat
            /\ end <= first + conf.buffer
            /\ first..(end - 1) \subseteq Fetched(p)
            /\ \A l \in Fetched(p) : l < first + conf.buffer => l < end
    BY <1>1, <1>3, <1>4, <2>1, FetchBounds
  <2> QED BY <2>1, <2>2
<1> HIDE DEF last
<1>6. PlaceOK(p)'
  <2>1. Boundary(p, at[p])'
    BY <1>1, <1>4 DEF Boundary, Start, LinesPerThread, Threads, TotalLines
  <2> QED BY <1>1, <1>3, <1>4, <1>5, <2>1, RangesFrozen DEF PlaceOK, Deciding
<1>7. \A l : Passed(p, l)' <=> Passed(p, l)
  BY <1>1 DEF Passed, Scanning
<1>8. DoneOK(p)'
  <2>1. Given' = Given
    BY <1>1 DEF Given
  <2> QED BY <1>1, <1>7, <2>1, RangesFrozen DEF DeliverInv, DoneOK
<1>9. count <= count'
  BY <1>1 DEF TypeOK
<1> QED BY <1>1, <1>2, <1>6, <1>7, <1>8, <1>9, QuietStep

\* A thread goes on to its next buffer.
LEMMA NextKeepsLines ==
  ASSUME DeliverInv, TypeOK, TypeOK', NEW p \in ThreadIds, NextBuffer(p)
  PROVE  DeliverInv'
<1>1. /\ conf' = conf /\ delivered' = delivered /\ count' = count
      /\ pc[p] = "lines" /\ pc'[p] = "next" /\ line[p] >= stop[p]
      /\ at'[p] = at[p] + conf.buffer
  BY DEF NextBuffer, At, Goto, shared, TypeOK
<1>2. \A r \in ThreadIds \ {p} :
        pc'[r] = pc[r] /\ at'[r] = at[r] /\ line'[r] = line[r] /\ stop'[r] = stop[r]
  BY ThreadFrame DEF ThreadStep
<1>3. /\ conf \in Requests /\ conf.buffer \in Nat
      /\ at[p] \in Nat /\ line[p] \in Nat /\ stop[p] \in Nat
  BY ConfFacts DEF TypeOK
<1>4. /\ p < Threads /\ Boundary(p, at[p])
      /\ line[p] <= at[p] + conf.buffer
      /\ \A l \in Fetched(p) : l < at[p] + conf.buffer => l < stop[p]
  BY <1>1 DEF DeliverInv, PlaceOK, Scanning
<1>5. \A l \in Fetched(p) : l \in Nat
  BY <1>3, RangeTypes DEF Fetched
<1>6. PlaceOK(p)'
  <2>1. PICK first : first = at[p]
    OBVIOUS
  <2>2. Boundary(p, first + conf.buffer)
    BY <1>3, <1>4, <2>1, Boundaries
  <2>3. Boundary(p, at[p])'
    BY <1>1, <2>1, <2>2 DEF Boundary, Start, LinesPerThread, Threads, TotalLines
  <2> QED BY <1>1, <1>4, <2>3, RangesFrozen DEF PlaceOK, Scanning, Deciding
<1>7. \A l \in Fetched(p) : Passed(p, l) <=> l < line[p]
  BY <1>1 DEF Passed, Scanning
<1>8. \A l \in Fetched(p) : Passed(p, l)' <=> l < at[p] + conf.buffer
  BY <1>1 DEF Passed, Scanning
<1>9. \A l \in Fetched(p) : Passed(p, l) <=> Passed(p, l)'
  <2> SUFFICES ASSUME NEW l \in Fetched(p)
               PROVE  l < line[p] <=> l < at[p] + conf.buffer
    BY <1>7, <1>8
  <2>1. l < at[p] + conf.buffer => l < stop[p]
    BY <1>4
  <2> QED BY <1>1, <1>3, <1>4, <1>5, <2>1
<1>10. DoneOK(p)'
  <2>1. Given' = Given
    BY <1>1 DEF Given
  <2> QED BY <1>1, <1>9, <2>1, RangesFrozen DEF DeliverInv, DoneOK
<1>11. count <= count'
  BY <1>1 DEF TypeOK
<1> QED BY <1>1, <1>2, <1>6, <1>9, <1>10, <1>11, QuietStep

\* A thread goes on after a line that it does not give: one that does not match,
\* or any without on_result.
LEMMA AdvanceKeepsLines ==
  ASSUME DeliverInv, TypeOK, TypeOK', NEW p \in ThreadIds,
         conf' = conf, delivered' = delivered, count' = count,
         \A r \in ThreadIds \ {p} :
           pc'[r] = pc[r] /\ at'[r] = at[r] /\ line'[r] = line[r] /\ stop'[r] = stop[r],
         pc[p] = "lines", line[p] < stop[p],
         pc' = pc, at' = at, stop' = stop, AdvanceLine(p),
         line[p] \notin conf.matching \/ ~conf.callback
  PROVE  DeliverInv'
<1>1. line'[p] = line[p] + 1
  BY DEF AdvanceLine, TypeOK
<1>2. /\ conf \in Requests /\ conf.buffer \in Nat
      /\ at[p] \in Nat /\ line[p] \in Nat /\ stop[p] \in Nat
  BY ConfFacts DEF TypeOK
<1>3. /\ p < Threads /\ Boundary(p, at[p])
      /\ at[p] <= line[p] /\ stop[p] <= at[p] + conf.buffer
      /\ at[p]..(stop[p] - 1) \subseteq Fetched(p)
      /\ \A l \in Fetched(p) : l < at[p] + conf.buffer => l < stop[p]
  BY DEF DeliverInv, PlaceOK, Scanning
<1>4. PlaceOK(p)'
  <2>1. Boundary(p, at[p])'
    BY <1>3 DEF Boundary, Start, LinesPerThread, Threads, TotalLines
  <2>2. at[p] <= line[p] + 1 /\ line[p] + 1 <= at[p] + conf.buffer
    BY <1>2, <1>3
  <2> QED BY <1>1, <1>3, <2>1, <2>2, RangesFrozen DEF PlaceOK, Deciding
<1>5. \A l \in Fetched(p) : l \in Nat
  BY <1>2, RangeTypes DEF Fetched
<1>6. \A l \in Fetched(p) : Passed(p, l)' <=> Passed(p, l) \/ l = line[p]
  BY <1>1, <1>2, <1>5 DEF Passed, Scanning
<1>7. DoneOK(p)'
  <2>1. Given' = Given
    BY DEF Given
  <2> QED BY <1>6, <2>1, RangesFrozen DEF DeliverInv, DoneOK
<1>8. count <= count'
  BY DEF TypeOK
<1> QED BY <1>4, <1>6, <1>7, <1>8, QuietStep

\* A thread finds a match, or comes nearer to giving it.
LEMMA DecideKeepsLines ==
  ASSUME DeliverInv, TypeOK, TypeOK', NEW p \in ThreadIds,
         conf' = conf, delivered' = delivered, count <= count',
         \A r \in ThreadIds \ {p} :
           pc'[r] = pc[r] /\ at'[r] = at[r] /\ line'[r] = line[r] /\ stop'[r] = stop[r],
         pc[p] \in Scanning, pc'[p] \in Deciding,
         at' = at, line' = line, stop' = stop,
         line[p] < stop[p], line[p] \in conf.matching, conf.callback
  PROVE  DeliverInv'
<1>1. pc'[p] \in Scanning /\ pc'[p] # "next"
  BY DEF Scanning, Deciding
<1>2. Boundary(p, at[p])' <=> Boundary(p, at[p])
  BY DEF Boundary, Start, LinesPerThread, Threads, TotalLines
<1>3. PlaceOK(p)'
  BY <1>1, <1>2, RangesFrozen DEF DeliverInv, PlaceOK, Scanning
<1>4. \A l : Passed(p, l)' <=> Passed(p, l)
  BY <1>1 DEF Passed, Scanning
<1>5. DoneOK(p)'
  <2>1. Given' = Given
    BY DEF Given
  <2>2. pc[p] \notin {"leaving", "exited"}
    BY DEF Scanning
  <2> QED BY <1>4, <2>1, <2>2, RangesFrozen DEF DeliverInv, DoneOK
<1> QED BY <1>3, <1>4, <1>5, QuietStep

\* A thread gives a line: a new one, since those given in its range are behind it.
LEMMA CallbackKeepsLines ==
  ASSUME DeliverInv, TypeOK, TypeOK', NEW p \in ThreadIds, Callback(p)
  PROVE  DeliverInv'
<1> DEFINE l == line[p]
<1>1. /\ conf' = conf /\ count' = count /\ at' = at /\ stop' = stop
      /\ pc[p] = "callback" /\ pc'[p] = "lines" /\ line'[p] = l + 1
      /\ delivered' = Append(delivered, l)
  BY DEF Callback, At, Goto, AdvanceLine, TypeOK
<1>2. \A r \in ThreadIds \ {p} :
        pc'[r] = pc[r] /\ at'[r] = at[r] /\ line'[r] = line[r] /\ stop'[r] = stop[r]
  BY ThreadFrame DEF ThreadStep
<1>3. /\ conf \in Requests /\ conf.buffer \in Nat
      /\ at[p] \in Nat /\ l \in Nat /\ stop[p] \in Nat
      /\ delivered \in Seq(Nat) /\ Len(delivered) \in Nat
  <2>1. conf \in Requests /\ conf.buffer \in Nat
    BY ConfFacts DEF TypeOK
  <2>2. at[p] \in Nat /\ l \in Nat /\ stop[p] \in Nat
    BY DEF TypeOK
  <2>3. delivered \in Seq(Nat) /\ Len(delivered) \in Nat
    BY LenProperties DEF TypeOK
  <2> QED BY <2>1, <2>2, <2>3
<1>4. /\ p < Threads /\ Boundary(p, at[p])
      /\ at[p] <= l /\ stop[p] <= at[p] + conf.buffer
      /\ at[p]..(stop[p] - 1) \subseteq Fetched(p)
      /\ \A a \in Fetched(p) : a < at[p] + conf.buffer => a < stop[p]
      /\ l < stop[p] /\ l \in conf.matching
  BY <1>1 DEF DeliverInv, PlaceOK, Scanning, Deciding
<1> HIDE DEF l
<1>5. l \in Fetched(p)
  BY <1>3, <1>4
<1>6. PlaceOK(p)'
  <2>1. Boundary(p, at[p])'
    BY <1>1, <1>4 DEF Boundary, Start, LinesPerThread, Threads, TotalLines
  <2>2. at[p] <= l + 1 /\ l + 1 <= at[p] + conf.buffer
    BY <1>3, <1>4
  <2> QED BY <1>1, <1>4, <2>1, <2>2, RangesFrozen DEF PlaceOK, Deciding
<1>7. /\ Len(delivered') = Len(delivered) + 1
      /\ DOMAIN delivered = 1..Len(delivered)
      /\ DOMAIN delivered' = 1..(Len(delivered) + 1)
      /\ \A j \in 1..Len(delivered) : delivered'[j] = delivered[j]
      /\ delivered'[Len(delivered) + 1] = l
  BY <1>1, <1>3, AppendProperties
<1>8. Given' = Given \cup {l}
  <2>1. ASSUME NEW a \in Given' PROVE a \in Given \cup {l}
    <3>1. PICK j \in 1..(Len(delivered) + 1) : a = delivered'[j]
      BY <1>7 DEF Given
    <3>2. j \in 1..Len(delivered) \/ j = Len(delivered) + 1
      BY <1>3
    <3> QED BY <1>7, <3>1, <3>2 DEF Given
  <2>2. ASSUME NEW a \in Given PROVE a \in Given'
    <3>1. PICK j \in 1..Len(delivered) : a = delivered[j]
      BY <1>7 DEF Given
    <3>2. j \in 1..(Len(delivered) + 1)
      BY <1>3
    <3> QED BY <1>7, <3>1, <3>2 DEF Given
  <2>3. l \in Given'
    <3>1. Len(delivered) + 1 \in 1..(Len(delivered) + 1)
      BY <1>3
    <3> QED BY <1>7, <3>1 DEF Given
  <2> QED BY <2>1, <2>2, <2>3
<1>9. \A a \in Fetched(p) : a \in Nat
  BY <1>3, RangeTypes DEF Fetched
<1>10. \A a \in Fetched(p) : Passed(p, a)' <=> Passed(p, a) \/ a = l
  BY <1>1, <1>3, <1>9 DEF Passed, Scanning, l
<1>11. DoneOK(p)'
  BY <1>1, <1>8, <1>10, RangesFrozen DEF DeliverInv, DoneOK
<1>12. l \notin Given
  <2> SUFFICES ASSUME l \in Given PROVE FALSE
    OBVIOUS
  <2>1. PICK r \in ThreadIds : l \in Fetched(r) /\ Passed(r, l)
    BY DEF DeliverInv, GivenInv
  <2>2. r = p
    BY <1>3, <1>5, <2>1, RangesDisjoint
  <2> QED BY <1>1, <1>3, <2>1, <2>2 DEF Passed, Scanning, l
<1>13. ASSUME NEW j \in DOMAIN delivered', NEW k \in DOMAIN delivered',
              delivered'[j] = delivered'[k]
       PROVE  j = k
  <2>1. /\ j \in 1..Len(delivered) \/ j = Len(delivered) + 1
        /\ k \in 1..Len(delivered) \/ k = Len(delivered) + 1
    BY <1>3, <1>7
  <2>2. \A n \in 1..Len(delivered) : delivered'[n] # l
    BY <1>7, <1>12 DEF Given
  <2> QED BY <1>7, <1>13, <2>1, <2>2 DEF DeliverInv, GivenInv
<1>14. ASSUME NEW a \in Given'
       PROVE  a \in conf.matching /\ \E r \in ThreadIds : a \in Fetched(r)' /\ Passed(r, a)'
  <2>1. CASE a = l
    BY <1>4, <1>5, <1>10, <2>1, RangesFrozen, <1>1
  <2>2. CASE a \in Given
    <3>1. PICK r \in ThreadIds : a \in Fetched(r) /\ Passed(r, a)
      BY <2>2 DEF DeliverInv, GivenInv
    <3>2. Passed(r, a)'
      <4>1. CASE r = p
        BY <1>10, <3>1, <4>1
      <4>2. CASE r # p
        BY <1>1, <1>2, <3>1, <4>2, PlaceStays
      <4> QED BY <4>1, <4>2
    <3>3. a \in Fetched(r)'
      BY <1>1, <3>1, RangesFrozen
    <3> QED BY <2>2, <3>2, <3>3 DEF DeliverInv, GivenInv
  <2> QED BY <1>8, <2>1, <2>2
<1>15. GivenInv'
  BY <1>1, <1>13, <1>14 DEF GivenInv
<1>16. \A r \in ThreadIds \ {p} : PlaceOK(r)' /\ DoneOK(r)'
  <2>1. Given \subseteq Given' /\ count <= count'
    BY <1>1, <1>8 DEF TypeOK
  <2> QED BY <1>1, <1>2, <2>1, PlaceStays, DoneStays DEF DeliverInv
<1> QED BY <1>6, <1>11, <1>15, <1>16 DEF DeliverInv

\* The steps of the threads.
LEMMA ThreadKeepsLines ==
  ASSUME DeliverInv, TypeOK, TypeOK', NEW p \in ThreadIds,
         \/ ThreadStep(p) \/ Lock(p)
         \/ BeginFails(p) \/ FetchFails(p) \/ MatchFails(p) \/ ResultFails(p)
  PROVE  DeliverInv'
<1>1. /\ conf' = conf
      /\ \A r \in ThreadIds \ {p} :
           pc'[r] = pc[r] /\ at'[r] = at[r] /\ line'[r] = line[r] /\ stop'[r] = stop[r]
  BY ThreadFrame
<1>2. count \in Nat /\ pc \in [ThreadIds -> Labels] /\ count <= count
  BY DEF TypeOK
<1>3. CASE Begin(p)
  BY <1>3, BeginKeepsLines
<1>4. CASE Fetch(p)
  BY <1>4, FetchKeepsLines
<1>5. CASE NextBuffer(p)
  BY <1>5, NextKeepsLines
<1>6. CASE Callback(p)
  BY <1>6, CallbackKeepsLines
<1>7. CASE BeginFails(p) \/ FetchFails(p) \/ MatchFails(p) \/ ResultFails(p)
  <2>1. /\ conf.faults # {} /\ delivered' = delivered /\ count' = count
        /\ pc'[p] \in {"leaving", "exited"} /\ pc[p] # "none"
    BY <1>2, <1>7 DEF BeginFails, FetchFails, MatchFails, ResultFails, Exit, ExitSilently,
                      Goto, At, Looking, shared
  <2> QED BY <1>1, <2>1, ExitKeepsLines
<1>8. CASE Stop(p)
  <2>1. /\ delivered' = delivered /\ count' = count
        /\ pc'[p] = "leaving" /\ pc[p] = "next"
        /\ at[p] >= End(p) \/ LimitMet
    BY <1>2, <1>8 DEF Stop, Exit, Goto, At, shared
  <2> QED BY <1>1, <2>1, ExitKeepsLines
<1>9. CASE Leave(p)
  <2>1. /\ delivered' = delivered /\ count' = count
        /\ pc'[p] = "exited" /\ pc[p] = "leaving"
    BY <1>2, <1>9 DEF Leave, Goto, At
  <2> QED BY <1>1, <2>1, ExitKeepsLines
<1>10. ASSUME SkipOther(p) \/ Check(p), LimitMet PROVE DeliverInv'
  <2>1. /\ delivered' = delivered /\ count' = count
        /\ pc'[p] = "leaving" /\ pc[p] # "none"
    BY <1>2, <1>10 DEF SkipOther, Check, Exit, Goto, At, Looking, shared
  <2> QED BY <1>1, <1>10, <2>1, ExitKeepsLines
<1>11. ASSUME \/ SkipBlank(p) \/ Discard(p)
              \/ SkipOther(p) /\ ~LimitMet
       PROVE  DeliverInv'
  <2>1. /\ delivered' = delivered /\ count' = count
        /\ pc[p] = "lines" /\ line[p] < stop[p]
        /\ pc' = pc /\ at' = at /\ stop' = stop /\ AdvanceLine(p)
    BY <1>11 DEF SkipBlank, Discard, SkipOther, Looking, At, shared
  <2>2. line[p] \notin conf.matching \/ ~conf.callback
    <3>1. conf.blank \cap conf.matching = {}
      BY RequestsAssumption DEF TypeOK
    <3> QED BY <1>11, <3>1 DEF SkipBlank, Discard, SkipOther
  <2> QED BY <1>1, <2>1, <2>2, AdvanceKeepsLines
<1>12. CASE Match(p)
  <2>1. /\ delivered' = delivered /\ count' = count
        /\ pc[p] = "lines" /\ pc'[p] = "lock"
        /\ at' = at /\ line' = line /\ stop' = stop
        /\ line[p] < stop[p] /\ line[p] \in conf.matching /\ conf.callback
    BY <1>2, <1>12 DEF Match, Looking, At, Goto, shared, buffers
  <2> QED BY <1>1, <1>2, <2>1, DecideKeepsLines DEF Scanning, Deciding
<1>13. ASSUME Lock(p) \/ Count(p) \/ (Check(p) /\ ~LimitMet) PROVE DeliverInv'
  <2>1. /\ delivered' = delivered /\ count' \in {count, count + 1}
        /\ pc[p] \in Deciding /\ pc'[p] \in Deciding
        /\ at' = at /\ line' = line /\ stop' = stop
    BY <1>2, <1>13 DEF Lock, Count, Check, At, Goto, shared, buffers, Deciding
  <2>2. line[p] < stop[p] /\ line[p] \in conf.matching /\ conf.callback
    BY <2>1 DEF DeliverInv, PlaceOK
  <2>3. count <= count'
    BY <1>2, <2>1
  <2>4. pc[p] \in Scanning
    BY <2>1 DEF Scanning, Deciding
  <2> QED BY <1>1, <2>1, <2>2, <2>3, <2>4, DecideKeepsLines
<1> QED BY <1>3, <1>4, <1>5, <1>6, <1>7, <1>8, <1>9, <1>10, <1>11, <1>12, <1>13
    DEF ThreadStep

LEMMA MainKeepsLines ==
  ASSUME IInv, DeliverInv, TypeOK', MainStep \/ PrepareFails \/ SpawnFails
  PROVE  DeliverInv'
<1>1. /\ conf' = conf /\ delivered' = delivered /\ count' = count
      /\ at' = at /\ line' = line /\ stop' = stop
  BY DEF MainStep, Prepare, Spawn, Poll, Join, PrepareFails, SpawnFails, shared, buffers
<1>2. TypeOK /\ i \in ThreadIds /\ count <= count
  BY DEF IInv, TypeOK
<1>3. PICK p \in ThreadIds : p = i
  BY <1>2
<1>4. Given' = Given
  BY <1>1 DEF Given
<1>5. CASE Spawn
  <2>1. main = "spawn" /\ pc' = [pc EXCEPT ![p] = "start"]
    BY <1>3, <1>5 DEF Spawn, Goto
  <2>2. pc[p] = "none" /\ p < Threads
    <3>1. p \in Nat
      BY <1>2, ConfFacts DEF ThreadIds, TypeOK
    <3> QED BY <1>3, <2>1, <3>1 DEF IInv, JoinInv
  <2>3. pc'[p] = "start" /\ \A r \in ThreadIds \ {p} : pc'[r] = pc[r]
    BY <1>2, <2>1 DEF TypeOK
  <2>4. PlaceOK(p)'
    BY <1>1, <2>2, <2>3, RangesFrozen DEF PlaceOK, Scanning, Deciding
  <2>5. \A l : ~Passed(p, l) /\ ~Passed(p, l)'
    BY <2>2, <2>3 DEF Passed
  <2>6. DoneOK(p)'
    BY <2>5 DEF DoneOK
  <2> QED BY <1>1, <1>2, <2>3, <2>4, <2>5, <2>6, QuietStep
<1>6. CASE Prepare \/ Poll \/ Join \/ PrepareFails \/ SpawnFails
  <2>1. pc' = pc
    BY <1>6 DEF Prepare, Poll, Join, PrepareFails, SpawnFails
  <2>2. PlaceOK(p)' /\ DoneOK(p)' /\ \A l : Passed(p, l)' <=> Passed(p, l)
    BY <1>1, <1>2, <1>4, <2>1, PlaceStays, DoneStays DEF DeliverInv
  <2> QED BY <1>1, <1>2, <2>1, <2>2, QuietStep
<1> QED BY <1>5, <1>6 DEF MainStep

LEMMA DeliverInvInit == Init => DeliverInv
<1> SUFFICES ASSUME Init PROVE DeliverInv
  OBVIOUS
<1>1. GivenInv
  <2>1. DOMAIN delivered = {}
    BY DEF Init
  <2> QED BY <2>1 DEF Given, GivenInv
<1>2. \A p \in ThreadIds : PlaceOK(p) /\ DoneOK(p)
  BY DEF Init, PlaceOK, DoneOK, Passed, Scanning, Deciding
<1> QED BY <1>1, <1>2 DEF DeliverInv

LEMMA DeliverInvStep == IInv /\ DeliverInv /\ [Next]_vars => DeliverInv'
<1> SUFFICES ASSUME IInv, DeliverInv, [Next]_vars PROVE DeliverInv'
  OBVIOUS
<1>1. TypeOK /\ TypeOK'
  BY NextIInv DEF IInv
<1>2. CASE MainStep \/ PrepareFails \/ SpawnFails
  BY <1>1, <1>2, MainKeepsLines
<1>3. ASSUME NEW p \in ThreadIds,
             \/ ThreadStep(p) \/ Lock(p)
             \/ BeginFails(p) \/ FetchFails(p) \/ MatchFails(p) \/ ResultFails(p)
      PROVE  DeliverInv'
  BY <1>1, <1>3, ThreadKeepsLines
<1>4. CASE UNCHANGED vars
  <2>1. Given' = Given /\ conf' = conf /\ delivered' = delivered /\ count' = count
        /\ pc' = pc /\ at' = at /\ line' = line /\ stop' = stop
    BY <1>4 DEF vars, Given
  <2>2. \A p \in ThreadIds : PlaceOK(p)' /\ DoneOK(p)' /\ \A l : Passed(p, l)' <=> Passed(p, l)
    <3>1. count <= count'
      BY <1>1, <2>1 DEF TypeOK
    <3> QED BY <1>1, <2>1, <3>1, PlaceStays, DoneStays DEF DeliverInv
  <2>3. GivenInv'
    BY <2>1, <2>2, RangesFrozen DEF DeliverInv, GivenInv
  <2> QED BY <2>2, <2>3 DEF DeliverInv
<1> QED BY <1>2, <1>3, <1>4 DEF Next, Fault, Ended

-----------------------------------------------------------------------------
(* The theorems *)

\* In every reachable state the variables of a search have their types.
THEOREM SearchTypes == Spec => []TypeOK
<1>1. IInv => TypeOK
  BY DEF IInv
<1> QED BY <1>1, InitIInv, NextIInv, PTL DEF Spec

\* However many threads read the count before any of them increments it, no more
\* than result_limit results are counted or given to on_result, because the
\* thread that holds the mutex reads the count again.
THEOREM SearchLimit == Spec => []LimitRespected
<1>1. IInv => LimitRespected
  BY DEF IInv, TypeOK, CountInv, LimitRespected
<1> QED BY <1>1, InitIInv, NextIInv, PTL DEF Spec

\* on_result never runs in two threads at a time.
THEOREM SearchCallbackExclusive == Spec => []CallbackExclusive
<1>1. IInv => CallbackExclusive
  BY DEF IInv, MutexInv, Critical, CallbackExclusive
<1> QED BY <1>1, InitIInv, NextIInv, PTL DEF Spec

\* When f_index_search returns 0 all its threads have exited, its mutex is free
\* and every counted result has been given to on_result.
THEOREM SearchQuietAtReturn == Spec => []QuietAtReturn
<1>1. IInv => QuietAtReturn
  BY DEF IInv, TypeOK, MutexInv, CountInv, JoinInv, Critical, QuietAtReturn
<1> QED BY <1>1, InitIInv, NextIInv, PTL DEF Spec

\* What a search gives is as long as it has different lines.
LEMMA GivenCount ==
  ASSUME TypeOK, GivenInv
  PROVE  IsFiniteSet(Given) /\ Cardinality(Given) = Len(delivered)
<1>1. Len(delivered) \in Nat /\ delivered \in [1..Len(delivered) -> Nat]
      /\ DOMAIN delivered = 1..Len(delivered)
  BY LenProperties DEF TypeOK
<1>2. delivered \in [1..Len(delivered) -> Given]
  BY <1>1 DEF Given
<1>3. \A e \in Given : \E k \in 1..Len(delivered) : delivered[k] = e
  BY <1>1 DEF Given
<1>4. \A j, k \in 1..Len(delivered) : delivered[j] = delivered[k] => j = k
  BY <1>1 DEF GivenInv
<1>5. delivered \in Bijection(1..Len(delivered), Given)
  BY <1>2, <1>3, <1>4 DEF Bijection, Injection, Surjection, IsInjective
<1>6. ExistsBijection(1..Len(delivered), Given)
  BY <1>5 DEF ExistsBijection
<1> QED BY <1>1, <1>6, FS_CountingElements, FS_NatBijection

\* The lines given to on_result match, and none is given twice, although the threads
\* divide the lines by arithmetic that rounds and cuts.
THEOREM SearchDeliversOnce == Spec => []DeliveredOnce
<1>1. IInv /\ DeliverInv => DeliveredOnce
  BY GivenCount DEF IInv, DeliverInv, GivenInv, DeliveredOnce
<1> QED BY <1>1, InitIInv, NextIInv, DeliverInvInit, DeliverInvStep, PTL DEF Spec

\* The matches in the lines that the threads of the search fetch.
Matches == Searched \cap conf.matching

LEMMA MatchesFinite ==
  ASSUME conf \in Requests
  PROVE  IsFiniteSet(Matches)
<1>1. conf.lines - 1 \in Int
  BY ConfFacts
<1>2. IsFiniteSet(0..(conf.lines - 1))
  BY <1>1, FS_Interval
<1>3. Matches \in SUBSET (0..(conf.lines - 1))
  BY DEF Matches, Searched
<1> QED BY <1>2, <1>3, FS_Subset

\* What the search is to fetch is what its threads fetch.
LEMMA SearchedIsFetched ==
  ASSUME conf \in Requests
  PROVE  /\ \A p \in ThreadIds : p < Threads => Fetched(p) \subseteq Searched
         /\ \A l \in Searched : \E p \in ThreadIds : p < Threads /\ l \in Fetched(p)
<1>1. conf.lines \in Nat /\ Threads \in Nat /\ MaxThreads \in Nat /\ Threads <= MaxThreads
  BY ConfFacts
<1>2. \A p \in ThreadIds : Start(p) \in Nat /\ End(p) \in Nat /\ p \in Nat
  BY <1>1, RangeTypes DEF ThreadIds
<1>3. \A p \in 0..(Threads - 1) : p \in ThreadIds /\ p < Threads
  BY <1>1 DEF ThreadIds
<1>4. \A p \in ThreadIds : p < Threads => p \in 0..(Threads - 1)
  BY <1>1, <1>2
<1>5. ASSUME NEW p \in ThreadIds, p < Threads, NEW l \in Fetched(p)
      PROVE  l \in Searched
  <2>1. p \in 0..(Threads - 1)
    BY <1>4, <1>5
  <2>2. l \in 0..(conf.lines - 1)
    BY <1>1, <1>2 DEF Fetched
  <2> QED BY <2>1, <2>2 DEF Searched, Fetched
<1>6. ASSUME NEW l \in Searched
      PROVE  \E p \in ThreadIds : p < Threads /\ l \in Fetched(p)
  <2>1. /\ l \in 0..(conf.lines - 1)
        /\ \E p \in 0..(Threads - 1) :
             /\ l \in Start(p)..(End(p) - 1)
             /\ conf.buffer > 0
             /\ LinesPerThread % conf.buffer = 0 \/ l # End(p) - 1
    BY DEF Searched
  <2>2. l < conf.lines
    BY <1>1, <2>1
  <2> QED BY <1>3, <2>1, <2>2 DEF Fetched
<1> QED BY <1>5, <1>6

\* Nothing is given that the threads do not fetch.
LEMMA GivenSearched ==
  ASSUME TypeOK, DeliverInv
  PROVE  Given \subseteq Matches
<1>1. ASSUME NEW l \in Given PROVE l \in Searched /\ l \in conf.matching
  <2>1. l \in conf.matching
    BY DEF DeliverInv, GivenInv
  <2>2. PICK p \in ThreadIds : l \in Fetched(p) /\ Passed(p, l)
    BY DEF DeliverInv, GivenInv
  <2>3. p < Threads
    BY <2>2 DEF DeliverInv, PlaceOK, Passed
  <2> QED BY <2>1, <2>2, <2>3, SearchedIsFetched DEF TypeOK
<1> QED BY <1>1 DEF Matches

\* At the end of a search in which nothing fails only the limit explains a match
\* that has not been given.
LEMMA MatchesGiven ==
  ASSUME IInv, DeliverInv, main = "ok", conf.callback, conf.faults = {},
         ~(count >= conf.limit)
  PROVE  Given = Matches
<1>1. ASSUME NEW l \in Matches PROVE l \in Given
  <2>1. PICK p \in ThreadIds : p < Threads /\ l \in Fetched(p)
    BY SearchedIsFetched DEF Matches, IInv, TypeOK
  <2>2. pc[p] = "exited"
    BY <2>1 DEF IInv, JoinInv
  <2>3. Passed(p, l)
    BY <2>2 DEF Passed, Scanning
  <2>4. l \in Fetched(p) \cap conf.matching
    BY <2>1 DEF Matches
  <2> QED BY <2>3, <2>4 DEF DeliverInv, DoneOK
<1>2. Given \subseteq Matches
  BY GivenSearched DEF IInv
<1> QED BY <1>1, <1>2

\* A search in which nothing fails gives on_result every match in the lines that its
\* threads fetch, or as many as the limit allows.
THEOREM SearchDeliversMatches == Spec => []MatchesDelivered
<1>1. ASSUME IInv, DeliverInv, main = "ok", conf.callback, conf.faults = {}
      PROVE  IF Cardinality(Matches) > conf.limit
             THEN count = IF conf.limit < 0 THEN 0 ELSE conf.limit
             ELSE Given = Matches
  <2>1. conf \in Requests /\ conf.limit \in Int /\ count \in Nat
    BY <1>1, ConfFacts DEF IInv, TypeOK
  <2>2. count <= IF conf.limit < 0 THEN 0 ELSE conf.limit
    BY <1>1 DEF IInv, CountInv
  <2>3. Len(delivered) = count
    BY <1>1 DEF IInv, JoinInv, CountInv
  <2>4. Cardinality(Given) = count
    BY <1>1, <2>3, GivenCount DEF IInv, DeliverInv
  <2>5. Given \in SUBSET Matches /\ IsFiniteSet(Matches)
    BY <1>1, <2>1, GivenSearched, MatchesFinite DEF IInv
  <2>6. /\ count <= Cardinality(Matches)
        /\ count = Cardinality(Matches) => Given = Matches
    BY <2>4, <2>5, FS_Subset
  <2>7. Cardinality(Matches) \in Nat
    BY <2>5, FS_CardinalityType
  <2>8. ~(count >= conf.limit) => Given = Matches
    BY <1>1, MatchesGiven
  <2>9. CASE Cardinality(Matches) > conf.limit
    <3>1. count >= conf.limit
      BY <2>1, <2>4, <2>7, <2>8, <2>9
    <3>2. count = IF conf.limit < 0 THEN 0 ELSE conf.limit
      BY <2>1, <2>2, <3>1
    <3> QED BY <2>9, <3>2
  <2>10. CASE ~(Cardinality(Matches) > conf.limit)
    <3>1. count >= conf.limit => count = Cardinality(Matches)
      BY <2>1, <2>6, <2>7, <2>10
    <3>2. Given = Matches
      BY <2>6, <2>8, <3>1
    <3> QED BY <2>10, <3>2
  <2> QED BY <2>9, <2>10
<1>2. IInv /\ DeliverInv => MatchesDelivered
  BY <1>1 DEF MatchesDelivered, Matches
<1> QED BY <1>2, InitIInv, NextIInv, DeliverInvInit, DeliverInvStep, PTL DEF Spec
=============================================================================
