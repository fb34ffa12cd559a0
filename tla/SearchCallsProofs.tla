-------------------------- MODULE SearchCallsProofs --------------------------
(***************************************************************************)
(* Proofs about a sequence of calls to f_index_search that share           *)
(* search_mutex: for every sequence of calls, any number of threads and    *)
(* whichever calls fail.                                                   *)
(***************************************************************************)
EXTENDS SearchCalls, TLAPS

-----------------------------------------------------------------------------
(* The inductive invariant *)

Still(t) == pc[t] \in {"none", "exited", "lost"}

\* The threads of a call are created and joined in order, and the calls to come
\* have neither threads nor results.
CallerInv ==
  /\ call = 0 => main = "idle"
  /\ \A t \in Threads : t[1] > call => pc[t] = "none"
  /\ \A k \in Calls : k > call => count[k] = 0
  /\ main = "prepare" => i = 1 /\ \A t \in Threads : t[1] = call => pc[t] = "none"
  /\ main = "spawn" =>
       /\ i <= Len(plan[call].matches)
       /\ \A t \in Threads : t[1] = call /\ t[2] >= i => pc[t] = "none"
  /\ main = "join" =>
       /\ i <= Len(plan[call].matches)
       /\ \A t \in Threads : t[1] = call /\ t[2] < i => Still(t)
       /\ \A t \in Threads : t[1] = call /\ t[2] > Len(plan[call].matches) => Still(t)
  /\ main = "destroy" => \A t \in Threads : t[1] = call => Still(t)

\* A call that has returned 0 is over.
ResultInv ==
  \A k \in Calls : result[k] = "ok" =>
    /\ k <= call
    /\ k = call => main = "idle"
    /\ \A t \in Threads : t[1] = k => Still(t)

\* As long as no call has begun before its time: the threads that run are those of
\* the current call, one of them at most is between lock and unlock, and it is the
\* one that holds the mutex.
PastInv == main # "idle" => \A t \in Threads : t[1] < call => Still(t)

LockInv ==
  /\ \A t \in Threads : InLock(t) => mutex = "held"
  /\ mutex = "held" => \E t \in Threads : InLock(t)
  /\ \A t, u \in Threads : InLock(t) /\ InLock(u) => t = u
  /\ mutex = "dead" => main = "idle" /\ \A t \in Threads : Still(t)

\* A thread about to count has seen the limit not met while it held the mutex.
CountInv ==
  /\ \A k \in 1..call : count[k] <= plan[k].limit
  /\ \A t \in Threads : pc[t] = "count" => count[t[1]] < plan[t[1]].limit

AloneInv == overlap = {} => PastInv /\ LockInv /\ CountInv

IInv == TypeOK /\ CallerInv /\ ResultInv /\ AloneInv

-----------------------------------------------------------------------------
(* What the assumption on the constants says of the current call *)

LEMMA PlanFacts ==
  ASSUME TypeOK
  PROVE  /\ MaxCalls \in Nat \ {0} /\ MaxThreads \in Nat \ {0}
         /\ call \in Nat /\ Len(plan) \in 1..MaxCalls
         /\ \A k \in 1..Len(plan) :
              /\ k \in Calls
              /\ Len(plan[k].matches) \in 1..MaxThreads
              /\ plan[k].limit \in Nat
              /\ \A j \in 1..Len(plan[k].matches) :
                   plan[k].matches[j] \in Nat /\ <<k, j>> \in Threads
<1>1. plan \in Seq(CallType) /\ Len(plan) \in 1..MaxCalls
  BY PlansAssumption DEF TypeOK
<1>2. \A k \in 1..Len(plan) : k \in DOMAIN plan /\ plan[k] \in CallType
  BY <1>1
<1>3. MaxCalls \in Nat \ {0} /\ MaxThreads \in Nat \ {0} /\ call \in Nat
  BY <1>1, PlansAssumption DEF TypeOK
<1>4. ASSUME NEW k \in 1..Len(plan)
      PROVE  /\ k \in Calls
             /\ Len(plan[k].matches) \in 1..MaxThreads
             /\ plan[k].limit \in Nat
             /\ \A j \in 1..Len(plan[k].matches) :
                  plan[k].matches[j] \in Nat /\ <<k, j>> \in Threads
  <2>1. k \in Calls
    BY <1>1, <1>3 DEF Calls
  <2>2. Len(plan[k].matches) \in 1..MaxThreads
    BY <1>2, PlansAssumption DEF TypeOK
  <2>3. plan[k].matches \in Seq(Nat) /\ plan[k].limit \in Nat
    BY <1>2 DEF CallType
  <2>4. ASSUME NEW j \in 1..Len(plan[k].matches)
        PROVE  plan[k].matches[j] \in Nat /\ <<k, j>> \in Threads
    BY <1>3, <2>1, <2>2, <2>3 DEF Threads
  <2> QED BY <2>1, <2>2, <2>3, <2>4
<1> QED BY <1>1, <1>3, <1>4

\* A thread is a pair of a call and a number within it.
LEMMA ThreadFacts ==
  ASSUME TypeOK, NEW t \in Threads
  PROVE  t[1] \in Calls /\ t[2] \in 1..MaxThreads /\ t = <<t[1], t[2]>>
         /\ t[1] \in Nat /\ t[2] \in Nat
  BY PlansAssumption DEF Threads, Calls

-----------------------------------------------------------------------------
(* The steps of the caller *)

LEMMA InitIInv == Init => IInv
<1> SUFFICES ASSUME Init PROVE IInv
  OBVIOUS
<1>1. TypeOK
  BY PlansAssumption DEF Init, TypeOK
<1>2. \A t \in Threads : pc[t] = "none"
  BY DEF Init
<1>3. CallerInv
  BY <1>1, <1>2, ThreadFacts DEF Init, CallerInv, Calls
<1>4. ResultInv
  BY DEF Init, ResultInv
<1>5. AloneInv
  BY <1>2 DEF Init, AloneInv, PastInv, LockInv, CountInv, InLock, Still
<1> QED BY <1>1, <1>3, <1>4, <1>5 DEF IInv

LEMMA BeginKeeps ==
  ASSUME IInv, Begin
  PROVE  IInv'
<1> USE DEF IInv
<1>1. /\ main = "idle" /\ main' = "prepare" /\ call < Len(plan) /\ call' = call + 1
      /\ UNCHANGED <<plan, pc, left, count, result>> /\ mutex' = "free" /\ i' = 1
  BY DEF Begin, threads
<1>2. /\ call \in Nat /\ call' \in 1..Len(plan) /\ call' \in Calls
      /\ MaxThreads \in Nat \ {0}
      /\ \A k \in 1..Len(plan) : plan[k].limit \in Nat
  BY <1>1, PlanFacts
<1>3. \A t \in Threads : t[1] \in Nat /\ t[1] \in Calls
  BY ThreadFacts
<1>4. TypeOK'
  <2>1. overlap' \subseteq Calls
    BY <1>2 DEF Begin, TypeOK
  <2> QED BY <1>1, <1>2, <2>1 DEF TypeOK
<1>5. CallerInv'
  <2>1. \A t \in Threads : t[1] >= call' => pc[t] = "none"
    BY <1>1, <1>2, <1>3 DEF CallerInv
  <2>2. \A k \in Calls : k > call' => count[k] = 0
    BY <1>1, <1>2 DEF CallerInv, Calls
  <2> QED BY <1>1, <1>2, <1>3, <2>1, <2>2 DEF CallerInv
<1>6. ResultInv'
  <2>1. ASSUME NEW k \in Calls, result[k] = "ok"
        PROVE  k < call' /\ \A t \in Threads : t[1] = k => Still(t)
    BY <1>1, <1>2, <2>1 DEF ResultInv, Calls
  <2> QED BY <1>1, <1>2, <2>1 DEF ResultInv, Still, Calls
<1>7. AloneInv'
  <2> SUFFICES ASSUME overlap' = {} PROVE (PastInv /\ LockInv /\ CountInv)'
    BY DEF AloneInv
  <2>1. overlap = {} /\ \A k \in Calls : Running(k) = {}
    BY DEF Begin
  <2>2. \A t \in Threads : Still(t)
    BY <1>3, <2>1 DEF Running, Still
  <2>3. PastInv'
    BY <1>1, <2>2 DEF PastInv, Still
  <2>4. LockInv'
    BY <1>1, <2>2 DEF LockInv, Still, InLock
  <2>5. CountInv'
    <3>1. count[call'] = 0
      BY <1>1, <1>2 DEF CallerInv
    <3>2. \A k \in 1..call : count[k] <= plan[k].limit
      BY <2>1 DEF AloneInv, CountInv
    <3>3. \A k \in 1..call' : k \in 1..call \/ k = call'
      BY <1>1, <1>2
    <3>4. \A k \in 1..call' : count[k] <= plan[k].limit
      BY <1>2, <3>1, <3>2, <3>3
    <3> QED BY <1>1, <2>2, <3>4 DEF CountInv, Still
  <2> QED BY <2>3, <2>4, <2>5
<1> QED BY <1>4, <1>5, <1>6, <1>7

\* The steps of the caller that touch neither the threads nor the mutex.
LEMMA QuietKeeps ==
  ASSUME IInv, Prepare \/ PrepareFails \/ MallocFails \/ CreateFails
  PROVE  IInv'
<1> USE DEF IInv
<1>1. /\ main \in {"prepare", "spawn"} /\ main' \in {"spawn", "idle", "killed"}
      /\ UNCHANGED <<plan, call, i, pc, left, count, mutex, overlap>>
      /\ main' = "spawn" => Prepare
  BY DEF Prepare, PrepareFails, MallocFails, CreateFails, Returns, threads
<1>2. result' = result \/ result' = [result EXCEPT ![call] = "error"]
  BY DEF Prepare, PrepareFails, MallocFails, CreateFails, Returns
<1>3. call \in 1..Len(plan) /\ call \in Calls /\ Len(plan[call].matches) \in 1..MaxThreads
  BY <1>1, PlanFacts DEF TypeOK, CallerInv
<1>4. TypeOK'
  BY <1>1, <1>2 DEF TypeOK
<1>5. CallerInv'
  <2>1. CASE main' = "spawn"
    <3>1. main = "prepare"
      BY <1>1, <2>1 DEF Prepare
    <3>2. i = 1
      BY <3>1 DEF CallerInv
    <3> QED BY <1>1, <1>3, <2>1, <3>1, <3>2 DEF CallerInv
  <2>2. CASE main' \in {"idle", "killed"}
    BY <1>1, <1>3, <2>2 DEF CallerInv
  <2> QED BY <1>1, <2>1, <2>2
<1>6. ResultInv'
  <2>1. \A k \in Calls : result'[k] = "ok" => result[k] = "ok"
    BY <1>2, <1>3 DEF TypeOK
  <2>2. result[call] # "ok"
    BY <1>1, <1>3 DEF ResultInv
  <2> QED BY <1>1, <1>2, <1>3, <2>1, <2>2 DEF ResultInv, Still, TypeOK
<1>7. AloneInv'
  BY <1>1 DEF AloneInv, PastInv, LockInv, CountInv, InLock, Still
<1> QED BY <1>4, <1>5, <1>6, <1>7

LEMMA SpawnKeeps ==
  ASSUME IInv, Spawn
  PROVE  IInv'
<1> USE DEF IInv
<1> DEFINE t0 == <<call, i>>
           n == Len(plan[call].matches)
<1>1. /\ main = "spawn" /\ i <= n /\ call \in 1..Len(plan) /\ call \in Calls /\ n \in 1..MaxThreads
      /\ plan[call].matches[i] \in Nat /\ i \in Nat /\ MaxThreads \in Nat
      /\ \A k \in 1..Len(plan) : plan[k].limit \in Nat
      /\ i \in 1..n /\ t0 \in Threads /\ t0[1] = call /\ t0[2] = i
  <2>1. main = "spawn" /\ i <= n /\ call \in 1..Len(plan) /\ i \in 1..MaxThreads
    BY PlanFacts DEF Spawn, TypeOK, CallerInv
  <2>2. i \in 1..n
    BY <2>1, PlanFacts
  <2> QED BY <2>1, <2>2, PlanFacts
<1>2. /\ pc' = [pc EXCEPT ![t0] = "look"] /\ left' = [left EXCEPT ![t0] = plan[call].matches[i]]
      /\ UNCHANGED <<plan, call, count, mutex, result, overlap>>
      /\ i < n => i' = i + 1 /\ main' = main
      /\ ~(i < n) => i' = 1 /\ main' = "join"
  BY DEF Spawn
<1>3. \A t \in Threads : t[1] \in Nat /\ t[2] \in Nat /\ t = <<t[1], t[2]>>
  BY ThreadFacts
<1>4. /\ pc'[t0] = "look" /\ \A t \in Threads : t # t0 => pc'[t] = pc[t]
      /\ pc[t0] = "none" /\ main' # "idle" /\ main # "idle"
      /\ main' \in {"spawn", "join"}
  BY <1>1, <1>2 DEF TypeOK, CallerInv
<1>5. TypeOK'
  <2>1. i' \in 1..MaxThreads /\ main' \in {"spawn", "join"}
    BY <1>1, <1>2
  <2>2. pc' \in [Threads ->
          {"none", "look", "lock", "check", "count", "callback", "quit", "exited", "lost"}]
    BY <1>1, <1>2 DEF TypeOK
  <2>3. left' \in [Threads -> Nat]
    BY <1>1, <1>2 DEF TypeOK
  <2> QED BY <1>2, <2>1, <2>2, <2>3 DEF TypeOK
<1>6. CallerInv'
  <2>1. \A t \in Threads : t[1] > call => pc'[t] = "none"
    BY <1>1, <1>3, <1>4 DEF CallerInv
  <2>2. CASE i < n
    <3>1. \A t \in Threads : t[1] = call /\ t[2] >= i + 1 => pc'[t] = "none"
      <4>1. \A t \in Threads : t[1] = call /\ t[2] >= i + 1 => t # t0 /\ t[2] >= i
        BY <1>1, <1>3
      <4> QED BY <1>1, <1>4, <4>1 DEF CallerInv
    <3> QED BY <1>1, <1>2, <2>1, <2>2, <3>1 DEF CallerInv
  <2>3. CASE ~(i < n)
    <3>1. \A t \in Threads : t[1] = call /\ t[2] > n => pc'[t] = "none"
      <4>1. \A t \in Threads : t[1] = call /\ t[2] > n => t # t0 /\ t[2] >= i
        BY <1>1, <1>3
      <4> QED BY <1>1, <1>4, <4>1 DEF CallerInv
    <3>2. \A t \in Threads : ~(t[2] < 1)
      BY ThreadFacts, <1>1
    <3> QED BY <1>1, <1>2, <2>1, <2>3, <3>1, <3>2 DEF CallerInv, Still
  <2> QED BY <2>2, <2>3
<1>7. ResultInv'
  <2>1. result[call] # "ok"
    BY <1>1 DEF ResultInv
  <2> QED BY <1>1, <1>2, <1>4, <2>1 DEF ResultInv, Still
<1>8. AloneInv'
  <2> SUFFICES ASSUME overlap = {} PROVE (PastInv /\ LockInv /\ CountInv)'
    BY <1>2 DEF AloneInv
  <2>1. \A t \in Threads : (InLock(t))' <=> InLock(t)
    BY <1>4 DEF InLock
  <2>2. PastInv'
    BY <1>1, <1>2, <1>3, <1>4 DEF AloneInv, PastInv, Still
  <2>3. LockInv'
    BY <1>1, <1>2, <1>4, <2>1 DEF AloneInv, LockInv
  <2>4. CountInv'
    BY <1>2, <1>4 DEF AloneInv, CountInv
  <2> QED BY <2>2, <2>3, <2>4
<1> QED BY <1>5, <1>6, <1>7, <1>8

LEMMA JoinKeeps ==
  ASSUME IInv, Join
  PROVE  IInv'
<1> USE DEF IInv
<1> DEFINE n == Len(plan[call].matches)
<1>1. /\ main = "join" /\ i <= n /\ call \in 1..Len(plan) /\ call \in Calls /\ n \in 1..MaxThreads
      /\ i \in 1..MaxThreads /\ MaxThreads \in Nat /\ pc[<<call, i>>] = "exited"
  BY PlanFacts DEF Join, TypeOK, CallerInv
<1>2. /\ UNCHANGED <<plan, call, pc, left, count, mutex, result, overlap>>
      /\ i < n => i' = i + 1 /\ main' = main
      /\ ~(i < n) => i' = 1 /\ main' = "destroy"
  BY DEF Join, threads
<1>3. \A t \in Threads : t[1] \in Nat /\ t[2] \in Nat /\ t = <<t[1], t[2]>>
  BY ThreadFacts
<1>4. TypeOK'
  <2>1. i' \in 1..MaxThreads /\ main' \in {"join", "destroy"}
    BY <1>1, <1>2
  <2> QED BY <1>2, <2>1 DEF TypeOK
<1>5. \A t \in Threads : t[1] = call /\ t[2] <= i => Still(t)
  <2>1. \A t \in Threads : t[1] = call /\ t[2] = i => Still(t)
    BY <1>1, <1>3 DEF Still
  <2>2. \A t \in Threads : t[1] = call /\ t[2] < i => Still(t)
    BY <1>1 DEF CallerInv
  <2>3. \A t \in Threads : t[2] <= i => t[2] < i \/ t[2] = i
    BY <1>1, <1>3
  <2> QED BY <2>1, <2>2, <2>3
<1>6. CallerInv'
  <2>1. CASE i < n
    <3>1. \A t \in Threads : t[2] < i + 1 => t[2] <= i
      BY <1>1, <1>3
    <3>2. i + 1 <= n
      BY <1>1, <2>1
    <3> QED BY <1>1, <1>2, <1>5, <2>1, <3>1, <3>2 DEF CallerInv, Still
  <2>2. CASE ~(i < n)
    <3>1. \A t \in Threads : t[2] <= i \/ t[2] > n
      BY <1>1, <1>3, <2>2
    <3> QED BY <1>1, <1>2, <1>5, <2>2, <3>1 DEF CallerInv, Still
  <2> QED BY <2>1, <2>2
<1>7. ResultInv'
  <2>1. main' # "idle" /\ main # "idle"
    BY <1>1, <1>2
  <2> QED BY <1>2, <2>1 DEF ResultInv, Still
<1>8. AloneInv'
  <2>1. main' # "idle" /\ main # "idle"
    BY <1>1, <1>2
  <2> QED BY <1>2, <2>1 DEF AloneInv, PastInv, LockInv, CountInv, InLock, Still
<1> QED BY <1>4, <1>6, <1>7, <1>8

LEMMA DestroyKeeps ==
  ASSUME IInv, Destroy
  PROVE  IInv'
<1> USE DEF IInv
<1>1. /\ main = "destroy" /\ main' = "idle" /\ call \in Nat /\ call # 0
      /\ UNCHANGED <<plan, call, i, pc, left, count, overlap>>
      /\ result' = [result EXCEPT ![call] = "ok"]
      /\ mutex' = IF mutex = "free" THEN "dead" ELSE mutex
  BY PlanFacts DEF Destroy, Returns, CallerInv, threads
<1>2. \A t \in Threads : t[1] \in Nat
  BY ThreadFacts
<1>3. TypeOK'
  BY <1>1 DEF TypeOK
<1>4. CallerInv'
  BY <1>1 DEF CallerInv
<1>5. ResultInv'
  <2>1. \A k \in Calls : result'[k] = "ok" => result[k] = "ok" \/ k = call
    BY <1>1 DEF TypeOK
  <2>2. \A t \in Threads : t[1] = call => Still(t)
    BY <1>1 DEF CallerInv
  <2> QED BY <1>1, <2>1, <2>2 DEF ResultInv, Still
<1>6. AloneInv'
  <2> SUFFICES ASSUME overlap = {} PROVE (PastInv /\ LockInv /\ CountInv)'
    BY <1>1 DEF AloneInv
  <2>1. ASSUME NEW t \in Threads PROVE Still(t)
    <3>1. t[1] < call \/ t[1] = call \/ t[1] > call
      BY <1>1, <1>2
    <3> QED BY <1>1, <3>1 DEF AloneInv, PastInv, CallerInv, Still
  <2>2. \A t \in Threads : ~InLock(t)
    BY <2>1 DEF Still, InLock
  <2>3. mutex # "held"
    BY <2>2 DEF AloneInv, LockInv
  <2>4. LockInv'
    BY <1>1, <2>1, <2>2, <2>3 DEF LockInv, InLock, Still
  <2>5. CountInv' /\ PastInv'
    BY <1>1 DEF AloneInv, CountInv, PastInv
  <2> QED BY <2>4, <2>5
<1> QED BY <1>3, <1>4, <1>5, <1>6

-----------------------------------------------------------------------------
(* The steps of a thread *)

\* What every step of a thread keeps: it moves one thread that runs, and leaves the
\* caller alone.
LEMMA ThreadKeeps ==
  ASSUME IInv, NEW t \in Threads, ~Still(t), NEW label, label # "none",
         pc' = [pc EXCEPT ![t] = label], UNCHANGED <<plan, call, main, i, result, overlap>>,
         \A k \in Calls : k > call => count'[k] = count[k]
  PROVE  CallerInv' /\ ResultInv' /\ (overlap = {} => PastInv')
         /\ t[1] \in 1..call /\ (overlap = {} => mutex # "dead")
         /\ pc'[t] = label /\ \A u \in Threads : u # t => pc'[u] = pc[u]
<1> USE DEF IInv
<1>1. pc'[t] = label /\ \A u \in Threads : u # t => pc'[u] = pc[u]
  BY DEF TypeOK
<1>2. t[1] \in Nat /\ t[1] >= 1 /\ t[2] \in Nat /\ call \in Nat
  BY ThreadFacts, PlanFacts DEF Calls
<1>3. pc[t] \notin {"none", "exited", "lost"}
  BY DEF Still
<1>4. t[1] <= call
  BY <1>2, <1>3 DEF CallerInv
<1>5. \A u \in Threads : Still(u) \/ pc[u] = "none" => u # t
  BY <1>3
<1>6. CallerInv'
  BY <1>1, <1>5 DEF CallerInv, Still
<1>7. ResultInv'
  BY <1>1, <1>5 DEF ResultInv, Still
<1>8. overlap = {} => PastInv'
  BY <1>1, <1>5 DEF AloneInv, PastInv, Still
<1>9. overlap = {} => mutex # "dead"
  BY DEF AloneInv, LockInv
<1> QED BY <1>1, <1>2, <1>4, <1>6, <1>7, <1>8, <1>9

PCs ==
  {"none", "look", "lock", "check", "count", "callback", "quit", "exited", "lost"}

\* A step outside of the mutex: to wait for it, or to exit in any of its ways.
LEMMA OutsideKeeps ==
  ASSUME IInv, NEW t \in Threads,
         Exit(t) \/ Match(t) \/ LookupFails(t) \/ BeginFails(t) \/ ResultFails(t)
  PROVE  IInv'
<1>1. PICK label \in {"exited", "lost", "lock"} :
        /\ pc[t] = "look" /\ pc' = [pc EXCEPT ![t] = label]
        /\ UNCHANGED <<plan, call, main, i, result, overlap, count, mutex>>
        /\ left' = left \/ (left[t] > 0 /\ left' = [left EXCEPT ![t] = @ - 1])
  BY DEF Exit, Match, LookupFails, BeginFails, ResultFails, At, Goto, caller
<1>2. ~Still(t)
  BY <1>1 DEF Still
<1>3. CallerInv' /\ ResultInv' /\ (overlap = {} => PastInv') /\ pc'[t] = label
      /\ (overlap = {} => mutex # "dead") /\ \A u \in Threads : u # t => pc'[u] = pc[u]
  BY <1>1, <1>2, ThreadKeeps
<1>4. TypeOK'
  <2>1. pc' \in [Threads -> PCs]
    BY <1>1 DEF IInv, TypeOK, PCs
  <2>2. left' \in [Threads -> Nat]
    BY <1>1 DEF IInv, TypeOK
  <2> QED BY <1>1, <2>1, <2>2 DEF IInv, TypeOK, PCs
<1>5. \A u \in Threads : (InLock(u))' <=> InLock(u)
  BY <1>1, <1>3 DEF InLock
<1>6. overlap = {} => LockInv'
  BY <1>1, <1>3, <1>5 DEF IInv, AloneInv, LockInv
<1>7. overlap = {} => CountInv'
  BY <1>1, <1>3 DEF IInv, AloneInv, CountInv
<1> QED BY <1>1, <1>3, <1>4, <1>6, <1>7 DEF IInv, AloneInv

LEMMA LockKeeps ==
  ASSUME IInv, NEW t \in Threads, Lock(t)
  PROVE  IInv'
<1>1. /\ pc[t] = "lock" /\ mutex # "held" /\ pc' = [pc EXCEPT ![t] = "check"]
      /\ UNCHANGED <<plan, call, main, i, result, overlap, count, left>>
      /\ mutex' = IF mutex = "free" THEN "held" ELSE mutex
  BY DEF Lock, At, Goto, caller
<1>2. ~Still(t)
  BY <1>1 DEF Still
<1>3. CallerInv' /\ ResultInv' /\ (overlap = {} => PastInv') /\ pc'[t] = "check"
      /\ (overlap = {} => mutex # "dead") /\ \A u \in Threads : u # t => pc'[u] = pc[u]
  BY <1>1, <1>2, ThreadKeeps
<1>4. TypeOK'
  BY <1>1 DEF IInv, TypeOK
<1>5. overlap = {} => LockInv'
  <2> SUFFICES ASSUME overlap = {} PROVE LockInv'
    OBVIOUS
  <2>1. mutex = "free" /\ mutex' = "held"
    BY <1>1, <1>3 DEF IInv, TypeOK
  <2>2. \A u \in Threads : ~InLock(u)
    BY <1>1 DEF IInv, AloneInv, LockInv
  <2>3. \A u \in Threads : (InLock(u))' <=> u = t
    BY <1>3, <2>2 DEF InLock
  <2> QED BY <2>1, <2>3 DEF LockInv
<1>6. overlap = {} => CountInv'
  BY <1>1, <1>3 DEF IInv, AloneInv, CountInv
<1> QED BY <1>1, <1>3, <1>4, <1>5, <1>6 DEF IInv, AloneInv

\* Check and Count: the thread that holds the mutex keeps it.
LEMMA HolderKeeps ==
  ASSUME IInv, NEW t \in Threads, Check(t) \/ Count(t)
  PROVE  IInv'
<1>1. PICK label \in {"quit", "count", "callback"} :
        /\ InLock(t) /\ pc' = [pc EXCEPT ![t] = label]
        /\ UNCHANGED <<plan, call, main, i, result, overlap, left, mutex>>
        /\ \/ count' = count /\ (label = "count" => ~LimitMet(t))
           \/ pc[t] = "count" /\ label = "callback" /\ count' = [count EXCEPT ![t[1]] = @ + 1]
  BY DEF Check, Count, At, Goto, caller, InLock
<1>2. ~Still(t) /\ t[1] \in Calls /\ t[1] \in Nat
  BY <1>1, ThreadFacts DEF Still, InLock, IInv
<1>3. t[1] <= call /\ call \in Nat
  <2>1. call \in Nat
    BY PlanFacts DEF IInv
  <2> QED BY <1>2, <2>1 DEF IInv, CallerInv, Still
<1>4. \A k \in Calls : k > call => count'[k] = count[k]
  <2>1. \A k \in Calls : k > call => k # t[1]
    BY <1>2, <1>3 DEF Calls
  <2>2. count \in [Calls -> Nat]
    BY DEF IInv, TypeOK
  <2> QED BY <1>1, <2>1, <2>2
<1>5. CallerInv' /\ ResultInv' /\ (overlap = {} => PastInv') /\ pc'[t] = label
      /\ t[1] \in 1..call /\ \A u \in Threads : u # t => pc'[u] = pc[u]
  BY <1>1, <1>2, <1>4, ThreadKeeps
<1>6. TypeOK'
  <2>1. pc' \in [Threads -> PCs]
    BY <1>1 DEF IInv, TypeOK, PCs
  <2>2. count' \in [Calls -> Nat]
    BY <1>1, <1>2 DEF IInv, TypeOK
  <2> QED BY <1>1, <2>1, <2>2 DEF IInv, TypeOK, PCs
<1>7. \A u \in Threads : (InLock(u))' <=> InLock(u)
  BY <1>1, <1>5 DEF InLock
<1>8. overlap = {} => LockInv'
  <2> SUFFICES ASSUME overlap = {} PROVE LockInv'
    OBVIOUS
  <2>1. mutex = "held" /\ mutex' = "held"
    BY <1>1 DEF IInv, AloneInv, LockInv
  <2> QED BY <1>7, <2>1 DEF IInv, AloneInv, LockInv
<1>9. overlap = {} => CountInv'
  <2> SUFFICES ASSUME overlap = {} PROVE CountInv'
    OBVIOUS
  <2>1. \A u \in Threads : pc'[u] = "count" => u = t
    <3>1. \A u \in Threads : pc'[u] = "count" => InLock(u)
      BY <1>7 DEF InLock
    <3> QED BY <1>1, <3>1 DEF IInv, AloneInv, LockInv
  <2>2. call \in 0..Len(plan) /\ Len(plan) \in 1..MaxCalls
        /\ \A k \in 1..Len(plan) : k \in Calls /\ plan[k].limit \in Nat
    BY PlanFacts DEF IInv, TypeOK
  <2>3. \A k \in 1..call : k \in Calls /\ count[k] \in Nat /\ plan[k].limit \in Nat
    <3>1. 1..call \subseteq 1..Len(plan)
      BY <2>2
    <3>2. count \in [Calls -> Nat]
      BY DEF IInv, TypeOK
    <3> QED BY <2>2, <3>1, <3>2
  <2>4. \A k \in 1..call : count[k] <= plan[k].limit
    BY DEF IInv, AloneInv, CountInv
  <2>5. CASE count' = count /\ (label = "count" => ~LimitMet(t))
    <3>1. label = "count" => count[t[1]] < plan[t[1]].limit
      BY <1>5, <2>3, <2>5 DEF LimitMet
    <3> QED BY <1>1, <1>5, <2>1, <2>4, <2>5, <3>1 DEF CountInv
  <2>6. CASE pc[t] = "count" /\ label = "callback" /\ count' = [count EXCEPT ![t[1]] = @ + 1]
    <3>1. count[t[1]] < plan[t[1]].limit
      BY <2>6 DEF IInv, AloneInv, CountInv
    <3>2. count[t[1]] + 1 <= plan[t[1]].limit
      BY <1>5, <2>3, <3>1
    <3>3. \A k \in 1..call : count'[k] = IF k = t[1] THEN count[k] + 1 ELSE count[k]
      BY <2>3, <2>6 DEF IInv, TypeOK
    <3>4. \A k \in 1..call : count'[k] <= plan[k].limit
      BY <2>4, <3>2, <3>3
    <3>5. \A u \in Threads : pc'[u] # "count"
      BY <1>5, <2>1, <2>6
    <3> QED BY <1>1, <3>4, <3>5 DEF CountInv
  <2> QED BY <1>1, <2>5, <2>6
<1> QED BY <1>1, <1>5, <1>6, <1>8, <1>9 DEF IInv, AloneInv

\* Callback and Quit: the thread that holds the mutex gives it back.
LEMMA UnlockKeeps ==
  ASSUME IInv, NEW t \in Threads, Callback(t) \/ Quit(t)
  PROVE  IInv'
<1>1. PICK label \in {"look", "exited"} :
        /\ InLock(t) /\ pc' = [pc EXCEPT ![t] = label]
        /\ UNCHANGED <<plan, call, main, i, result, overlap, left, count>>
        /\ mutex' = Unlocked
  BY DEF Callback, Quit, At, Goto, caller, InLock
<1>2. ~Still(t)
  BY <1>1 DEF Still, InLock
<1>3. CallerInv' /\ ResultInv' /\ (overlap = {} => PastInv') /\ pc'[t] = label
      /\ \A u \in Threads : u # t => pc'[u] = pc[u]
  BY <1>1, <1>2, ThreadKeeps
<1>4. TypeOK'
  <2>1. pc' \in [Threads -> PCs]
    BY <1>1 DEF IInv, TypeOK, PCs
  <2>2. mutex' \in {"free", "held", "dead"}
    BY <1>1 DEF IInv, TypeOK, Unlocked
  <2> QED BY <1>1, <2>1, <2>2 DEF IInv, TypeOK, PCs
<1>5. overlap = {} => LockInv'
  <2> SUFFICES ASSUME overlap = {} PROVE LockInv'
    OBVIOUS
  <2>1. mutex' = "free"
    BY <1>1 DEF IInv, AloneInv, LockInv, Unlocked
  <2>2. \A u \in Threads : InLock(u) => u = t
    BY <1>1 DEF IInv, AloneInv, LockInv
  <2>3. \A u \in Threads : ~(InLock(u))'
    BY <1>3, <2>2 DEF InLock
  <2> QED BY <2>1, <2>3 DEF LockInv
<1>6. overlap = {} => CountInv'
  BY <1>1, <1>3 DEF IInv, AloneInv, CountInv
<1> QED BY <1>1, <1>3, <1>4, <1>5, <1>6 DEF IInv, AloneInv

-----------------------------------------------------------------------------

LEMMA NextIInv == IInv /\ [Next]_vars => IInv'
<1> SUFFICES ASSUME IInv, [Next]_vars PROVE IInv'
  OBVIOUS
<1>1. CASE Begin
  BY <1>1, BeginKeeps
<1>2. CASE Prepare \/ PrepareFails \/ MallocFails \/ CreateFails
  BY <1>2, QuietKeeps
<1>3. CASE Spawn
  BY <1>3, SpawnKeeps
<1>4. CASE Join
  BY <1>4, JoinKeeps
<1>5. CASE Destroy
  BY <1>5, DestroyKeeps
<1>6. ASSUME NEW t \in Threads,
             ThreadStep(t) \/ Lock(t) \/ LookupFails(t) \/ BeginFails(t) \/ ResultFails(t)
      PROVE  IInv'
  <2>1. CASE Exit(t) \/ Match(t) \/ LookupFails(t) \/ BeginFails(t) \/ ResultFails(t)
    BY <2>1, OutsideKeeps
  <2>2. CASE Lock(t)
    BY <2>2, LockKeeps
  <2>3. CASE Check(t) \/ Count(t)
    BY <2>3, HolderKeeps
  <2>4. CASE Callback(t) \/ Quit(t)
    BY <2>4, UnlockKeeps
  <2> QED BY <1>6, <2>1, <2>2, <2>3, <2>4 DEF ThreadStep
<1>7. CASE UNCHANGED vars
  <2> USE <1>7 DEF vars
  <2>1. TypeOK'
    BY DEF IInv, TypeOK
  <2>2. CallerInv' /\ ResultInv'
    BY DEF IInv, CallerInv, ResultInv, Still
  <2>3. AloneInv'
    BY DEF IInv, AloneInv, PastInv, LockInv, CountInv, InLock, Still
  <2> QED BY <2>1, <2>2, <2>3 DEF IInv
<1> QED BY <1>1, <1>2, <1>3, <1>4, <1>5, <1>6, <1>7
   DEF Next, MainStep, Fault, Polling, Ended

THEOREM Inductive == Spec => []IInv
  BY InitIInv, NextIInv, PTL DEF Spec

\* The variables of a sequence of calls have their types.
THEOREM CallsTyped == Spec => []TypeOK
<1>1. IInv => TypeOK
  BY DEF IInv
<1> QED BY <1>1, Inductive, PTL

\* While no call begins before the threads of the earlier ones have ended, one
\* thread at a time is between lock and unlock of search_mutex, and nobody meets a
\* mutex that a call before has destroyed: Begin makes it anew whatever is left.
THEOREM CallsMutexOwned == Spec => []MutexOwned
<1>1. IInv => MutexOwned
  <2> SUFFICES ASSUME IInv, overlap = {}
               PROVE  /\ \A t \in Threads : pc[t] = "lock" \/ InLock(t) => mutex # "dead"
                      /\ mutex = "held" <=> \E t \in Threads : InLock(t)
                      /\ \A t, u \in Threads : InLock(t) /\ InLock(u) => t = u
    BY DEF MutexOwned
  <2>1. \A t \in Threads : pc[t] = "lock" \/ InLock(t) => ~Still(t)
    BY DEF InLock, Still
  <2> QED BY <2>1 DEF IInv, AloneInv, LockInv
<1> QED BY <1>1, Inductive, PTL

\* Without such an overlap every call keeps to its result_limit, also when calls
\* before it have failed.
THEOREM CallsLimit == Spec => []LimitUnlessOverlap
<1>1. IInv => LimitUnlessOverlap
  BY DEF IInv, AloneInv, CountInv, LimitUnlessOverlap, LimitOfEach
<1> QED BY <1>1, Inductive, PTL

\* Once f_index_search has returned 0 its threads have ended, whatever the calls
\* before and after it do.
THEOREM CallsQuiet == Spec => []QuietAfterSuccess
<1>1. IInv => QuietAfterSuccess
  BY DEF IInv, ResultInv, QuietAfterSuccess, Running, Still
<1> QED BY <1>1, Inductive, PTL
=============================================================================
