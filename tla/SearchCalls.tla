----------------------------- MODULE SearchCalls -----------------------------
(***************************************************************************)
(* A caller that searches again and again.  Each f_index_search makes its  *)
(* own threads, regex and result count, but search_mutex is one global     *)
(* that every call initialises when it begins and destroys when it ends    *)
(* well.  A call that fails destroys nothing and waits for nobody: the     *)
(* threads it has created go on.                                           *)
(*                                                                         *)
(* Module Search has one call in detail; of its threads only the matches   *)
(* that they hand to on_result are left here.  The calls to pthread_mutex  *)
(* do what glibc does with a mutex of the default kind: init makes it free *)
(* whoever holds it, unlock does not ask who holds it, destroy refuses a   *)
(* mutex that is held, and lock and unlock fail on one that is destroyed.  *)
(* search.c looks at none of these results but that of init.               *)
(***************************************************************************)
EXTENDS Naturals, Sequences, FiniteSets

CONSTANTS
  Plans,       \* the sequences of calls that a caller makes
  MaxCalls,    \* largest number of calls in a plan
  MaxThreads   \* largest number of threads in a call

\* What can fail in a call, its faults:
\* "early"  the regex is invalid or an allocation before the first thread fails
\* "malloc" the structure of a thread cannot be allocated
\* "create" pthread_create fails
\* "alloc"  a thread cannot allocate its match data or a result
\* "lookup" f_index_lookup fails or gives NULL, or pcre2_match fails
FaultKinds == {"early", "malloc", "create", "alloc", "lookup"}

\* The matches in the lines of each thread, result_limit and the faults.
CallType == [matches : Seq(Nat), limit : Nat, faults : SUBSET FaultKinds]

ASSUME PlansAssumption ==
  /\ MaxCalls \in Nat \ {0}
  /\ MaxThreads \in Nat \ {0}
  /\ Plans \subseteq Seq(CallType)
  /\ \A plan \in Plans :
       /\ Len(plan) \in 1..MaxCalls
       /\ \A k \in DOMAIN plan : Len(plan[k].matches) \in 1..MaxThreads

VARIABLES
  plan,     \* the calls the caller makes
  call,     \* the number of the call, 0 before the first
  main,     \* where the caller's thread is
  i,        \* its loop counter
  pc,       \* where each thread of each call is
  left,     \* the matches that are left in its lines
  count,    \* *result_count of each call
  mutex,    \* search_mutex: "free", "held" or "dead"
  result,   \* how each call returned
  overlap   \* the calls that began while threads of an earlier one ran

vars == <<plan, call, main, i, pc, left, count, mutex, result, overlap>>

Calls == 1..MaxCalls

Threads == Calls \X (1..MaxThreads)

Init ==
  /\ plan \in Plans
  /\ call = 0
  /\ main = "idle"
  /\ i = 1
  /\ pc = [t \in Threads |-> "none"]
  /\ left = [t \in Threads |-> 0]
  /\ count = [k \in Calls |-> 0]
  /\ mutex = "free"
  /\ result = [k \in Calls |-> "none"]
  /\ overlap = {}

Running(k) == {t \in Threads : t[1] = k /\ pc[t] \notin {"none", "exited", "lost"}}

\* A thread that has exited without setting its progress to 1.
Lost(t) == pc[t] = "lost"

threads == <<pc, left, count>>

-----------------------------------------------------------------------------
(* The caller: f_index_search *)

\* The mutex is initialised by the first call only.
BeginAnew ==
  /\ main = "idle"
  /\ call < Len(plan)
  /\ call' = call + 1
  /\ mutex' = IF call = 0 THEN "free" ELSE mutex
  /\ i' = 1
  /\ main' = "prepare"
  /\ overlap' = IF \E k \in Calls : Running(k) # {} THEN overlap \cup {call'} ELSE overlap
  /\ UNCHANGED <<plan, threads, result>>

\* pthread_mutex_init.
Begin ==
  /\ main = "idle"
  /\ call < Len(plan)
  /\ call' = call + 1
  /\ mutex' = "free"
  /\ i' = 1
  /\ main' = "prepare"
  /\ overlap' = IF \E k \in Calls : Running(k) # {} THEN overlap \cup {call'} ELSE overlap
  /\ UNCHANGED <<plan, threads, result>>

Returns(value) == result' = [result EXCEPT ![call] = value] /\ main' = "idle"

\* The regex is compiled and the arrays and the result count are allocated.
Prepare ==
  /\ main = "prepare"
  /\ main' = "spawn"
  /\ UNCHANGED <<plan, call, i, threads, mutex, result, overlap>>

PrepareFails ==
  /\ main = "prepare"
  /\ "early" \in plan[call].faults
  /\ Returns("error")
  /\ UNCHANGED <<plan, call, i, threads, mutex, overlap>>

Spawn ==
  /\ main = "spawn"
  /\ pc' = [pc EXCEPT ![<<call, i>>] = "look"]
  /\ left' = [left EXCEPT ![<<call, i>>] = plan[call].matches[i]]
  /\ IF i < Len(plan[call].matches)
     THEN i' = i + 1 /\ UNCHANGED main
     ELSE i' = 1 /\ main' = "join"
  /\ UNCHANGED <<plan, call, count, mutex, result, overlap>>

\* A thread's structure cannot be allocated; the earlier threads are left running.
MallocFails ==
  /\ main = "spawn"
  /\ "malloc" \in plan[call].faults
  /\ Returns("error")
  /\ UNCHANGED <<plan, call, i, threads, mutex, overlap>>

\* pthread_create fails: the earlier threads get SIGINT, which ends the process
\* unless it has a handler.
CreateFails ==
  /\ main = "spawn"
  /\ "create" \in plan[call].faults
  /\ \/ Returns("error")
     \/ i > 1 /\ main' = "killed" /\ UNCHANGED result
  /\ UNCHANGED <<plan, call, i, threads, mutex, overlap>>

\* The last thread is not joined.
JoinAllButLast ==
  /\ main = "join"
  /\ i < Len(plan[call].matches) => pc[<<call, i>>] = "exited"
  /\ IF i < Len(plan[call].matches)
     THEN i' = i + 1 /\ UNCHANGED main
     ELSE i' = 1 /\ main' = "destroy"
  /\ UNCHANGED <<plan, call, threads, mutex, result, overlap>>

\* The progress of thread i is 1 and it has been joined.
Join ==
  /\ main = "join"
  /\ pc[<<call, i>>] = "exited"
  /\ IF i < Len(plan[call].matches)
     THEN i' = i + 1 /\ UNCHANGED main
     ELSE i' = 1 /\ main' = "destroy"
  /\ UNCHANGED <<plan, call, threads, mutex, result, overlap>>

\* The loop that waits for the progress of thread i goes round again, and will not
\* see it change.
Polling ==
  /\ main = "join"
  /\ Lost(<<call, i>>)
  /\ UNCHANGED vars

\* pthread_mutex_destroy, and f_index_search returns.
Destroy ==
  /\ main = "destroy"
  /\ mutex' = IF mutex = "free" THEN "dead" ELSE mutex
  /\ Returns("ok")
  /\ UNCHANGED <<plan, call, i, threads, overlap>>

-----------------------------------------------------------------------------
(* A thread: f_index_search_thread *)

At(t, label) == main # "killed" /\ pc[t] = label

Goto(t, label) == pc' = [pc EXCEPT ![t] = label]

caller == <<plan, call, main, i, result, overlap>>

LimitMet(t) == count[t[1]] >= plan[t[1]].limit

\* The exits that set the progress to 1: at the end of its lines, or where it looks
\* at the limit without the mutex, before a buffer and after a line without a match.
Exit(t) ==
  /\ At(t, "look")
  /\ left[t] = 0 \/ LimitMet(t)
  /\ Goto(t, "exited")
  /\ UNCHANGED <<caller, left, count, mutex>>

\* A lookup or a match fails; the progress is set to 1 here too.
LookupFails(t) ==
  /\ At(t, "look")
  /\ "lookup" \in plan[t[1]].faults
  /\ Goto(t, "exited")
  /\ UNCHANGED <<caller, left, count, mutex>>

\* The match data, which a thread allocates first, cannot be allocated.
BeginFails(t) ==
  /\ At(t, "look")
  /\ "alloc" \in plan[t[1]].faults
  /\ left[t] = plan[t[1]].matches[t[2]]
  /\ Goto(t, "lost")
  /\ UNCHANGED <<caller, left, count, mutex>>

\* f_search_result_init cannot allocate the result of a match.
ResultFails(t) ==
  /\ At(t, "look")
  /\ "alloc" \in plan[t[1]].faults
  /\ left[t] > 0
  /\ Goto(t, "lost")
  /\ UNCHANGED <<caller, left, count, mutex>>

\* A thread that goes on after the end of its lines.
MatchPastEnd(t) ==
  /\ At(t, "look")
  /\ left' = [left EXCEPT ![t] = @ - 1]
  /\ Goto(t, "lock")
  /\ UNCHANGED <<caller, count, mutex>>

Match(t) ==
  /\ At(t, "look")
  /\ left[t] > 0
  /\ left' = [left EXCEPT ![t] = @ - 1]
  /\ Goto(t, "lock")
  /\ UNCHANGED <<caller, count, mutex>>

Lock(t) ==
  /\ At(t, "lock")
  /\ mutex # "held"
  /\ mutex' = IF mutex = "free" THEN "held" ELSE mutex
  /\ Goto(t, "check")
  /\ UNCHANGED <<caller, left, count>>

\* The limit is not looked at again under the mutex.
NoCheck(t) ==
  /\ At(t, "check")
  /\ Goto(t, "count")
  /\ UNCHANGED <<caller, left, count, mutex>>

Check(t) ==
  /\ At(t, "check")
  /\ Goto(t, IF LimitMet(t) THEN "quit" ELSE "count")
  /\ UNCHANGED <<caller, left, count, mutex>>

Count(t) ==
  /\ At(t, "count")
  /\ count' = [count EXCEPT ![t[1]] = @ + 1]
  /\ Goto(t, "callback")
  /\ UNCHANGED <<caller, left, mutex>>

\* pthread_mutex_unlock.
Unlocked == IF mutex = "held" THEN "free" ELSE mutex

Callback(t) ==
  /\ At(t, "callback")
  /\ mutex' = Unlocked
  /\ Goto(t, "look")
  /\ UNCHANGED <<caller, left, count>>

\* The mutex is not released when the limit is met.
QuitHolding(t) ==
  /\ At(t, "quit")
  /\ Goto(t, "exited")
  /\ UNCHANGED <<caller, left, count, mutex>>

\* The limit was met under the mutex.
Quit(t) ==
  /\ At(t, "quit")
  /\ mutex' = Unlocked
  /\ Goto(t, "exited")
  /\ UNCHANGED <<caller, left, count>>

\* The caller makes no more calls, or the process has ended.
Ended ==
  /\ main = "killed" \/ (main = "idle" /\ call = Len(plan))
  /\ UNCHANGED vars

-----------------------------------------------------------------------------

MainStep == Begin \/ Prepare \/ Spawn \/ Join \/ Destroy

ThreadStep(t) ==
  Exit(t) \/ Match(t) \/ Check(t) \/ Count(t) \/ Callback(t) \/ Quit(t)

Fault ==
  \/ PrepareFails \/ MallocFails \/ CreateFails
  \/ \E t \in Threads : BeginFails(t) \/ LookupFails(t) \/ ResultFails(t)

Next ==
  \/ MainStep
  \/ \E t \in Threads : ThreadStep(t) \/ Lock(t)
  \/ Fault
  \/ Polling
  \/ Ended

Spec == Init /\ [][Next]_vars

\* As in Search: every thread runs, and a mutex is given to some thread that waits.
FairSpec ==
  /\ Spec
  /\ WF_vars(MainStep)
  /\ \A t \in Threads : WF_vars(ThreadStep(t))
  /\ WF_vars(\E t \in Threads : Lock(t))

-----------------------------------------------------------------------------
(* Correctness *)

\* The types of the variables.
TypeOK ==
  /\ plan \in Plans
  /\ call \in 0..Len(plan)
  /\ main \in {"idle", "prepare", "spawn", "join", "destroy", "killed"}
  /\ i \in 1..MaxThreads
  /\ pc \in [Threads ->
       {"none", "look", "lock", "check", "count", "callback", "quit", "exited", "lost"}]
  /\ left \in [Threads -> Nat]
  /\ count \in [Calls -> Nat]
  /\ mutex \in {"free", "held", "dead"}
  /\ result \in [Calls -> {"none", "ok", "error"}]
  /\ overlap \subseteq Calls

InLock(t) == pc[t] \in {"check", "count", "callback", "quit"}

\* While no call begins before the threads of the earlier ones have ended, nobody
\* waits for a destroyed mutex or gets past it, the mutex is held exactly when a
\* thread is between lock and unlock, and there is one such thread: search after
\* search, after calls that failed early, and after a failed call whose threads
\* have come to an end.
MutexOwned ==
  overlap = {} =>
    /\ \A t \in Threads : pc[t] = "lock" \/ InLock(t) => mutex # "dead"
    /\ mutex = "held" <=> \E t \in Threads : InLock(t)
    /\ \A t, u \in Threads : InLock(t) /\ InLock(u) => t = u

\* search.h: "The maximum number of results returned".  It holds of every call
\* of the sequence, as long as no two calls overlap.
LimitOfEach ==
  \A k \in 1..call : count[k] <= plan[k].limit

LimitUnlessOverlap == overlap = {} => LimitOfEach

\* A call that returned 0 has left nothing behind that could call on_result or
\* disturb the calls after it; only a call that failed has.
QuietAfterSuccess ==
  \A k \in Calls : result[k] = "ok" => Running(k) = {}

\* All calls of the caller return, whatever state the calls before have left the
\* mutex in and whatever fails in them, unless the process is killed or a call polls
\* for ever for a lost thread of its own.
AllReturn ==
  <>(\/ main = "killed"
     \/ main = "idle" /\ call = Len(plan)
     \/ main = "join" /\ Lost(<<call, i>>))
=============================================================================
