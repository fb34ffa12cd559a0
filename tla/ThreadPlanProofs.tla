-------------------------- MODULE ThreadPlanProofs --------------------------
(***************************************************************************)
(* Proofs about f_indexer_threads_init, for every number of threads, every *)
(* buffer size, every number of bytes and every width of size_t that holds *)
(* them.                                                                   *)
(***************************************************************************)
EXTENDS ThreadPlan, IndexerLemmas

-----------------------------------------------------------------------------
(* The inductive invariant *)

\* The thread count is fixed before the loop, and until the last iteration pages
\* is still the share it was before the loop, in a regular configuration.
LoopInvariant ==
  /\ pc \in {"begin", "failed"} => len = 0 /\ i = 0
  /\ pc \in {"fill", "done"} => len = ThreadCount(req.threads, req.total, req.buffer)
  /\ pc = "done" => i = len
  /\ (Regular /\ pc = "fill" /\ i < len) => pages = ThreadPages(req.total, len)

IInv == TypeOK /\ LoopInvariant /\ PlanIsSpans

\* What the assumption on the constants gives for a request.
LEMMA RequestBounds ==
  ASSUME TypeOK
  PROVE  /\ req.threads \in Nat \ {0} /\ req.threads <= MaxThreads
         /\ req.buffer \in Nat \ {0}
         /\ req.total \in Nat /\ req.offset \in Nat
         /\ SizeMod \in Nat \ {0}
         /\ 2 * req.total + req.offset < SizeMod
  BY PlanAssumption DEF TypeOK, Requests

\* The remainder of a number smaller than the divisor is that number.
LEMMA SmallMod ==
  ASSUME NEW a \in Nat, NEW m \in Nat \ {0}, a < m
  PROVE  a % m = a
  BY Z3

\* The loop invariant holds before the loop.
LEMMA InitIInv == Init => IInv
  BY PlanAssumption DEF Init, IInv, TypeOK, LoopInvariant, PlanIsSpans, Requests

\* One iteration writes the closed-form range of thread i and leaves pages as it
\* was unless the iteration is the last.
LEMMA FillStep ==
  ASSUME IInv, Fill
  PROVE  IInv'
<1> DEFINE start == Start(i, pages)
           p == PagesFrom(start, pages)
           range == [from |-> (start + req.offset) % SizeMod,
                     to   |-> (start + p + req.offset) % SizeMod]
<1>1. /\ pc = "fill" /\ i < len /\ i \in Nat /\ len \in Nat /\ len <= MaxThreads
      /\ pages \in Nat
      /\ pages' = p
      /\ plan' = [j \in 0..i |-> IF j = i THEN range ELSE plan[j]]
      /\ i' = i + 1 /\ req' = req /\ pc' = pc /\ len' = len
  BY PlanAssumption DEF IInv, TypeOK, Fill
<1>2. /\ req.threads \in Nat \ {0} /\ req.buffer \in Nat \ {0}
      /\ req.total \in Nat /\ req.offset \in Nat
      /\ SizeMod \in Nat \ {0}
      /\ 2 * req.total + req.offset < SizeMod
  BY RequestBounds DEF IInv
<1>3. start \in Nat
  <2>1. i * pages + i \in Nat
    BY <1>1
  <2>2. (i * pages + i) % SizeMod \in Nat
    BY <2>1, <1>2, Z3
  <2> QED BY <2>2 DEF Start
<1>4. p \in Nat
  <2>1. (req.total - start) % SizeMod \in Nat
    BY <1>2, <1>3, Z3
  <2> QED BY <2>1, <1>1 DEF PagesFrom
<1>5. range \in [from : Nat, to : Nat]
  <2>1. start + req.offset \in Nat /\ start + p + req.offset \in Nat
    BY <1>2, <1>3, <1>4
  <2>2. /\ (start + req.offset) % SizeMod \in Nat
        /\ (start + p + req.offset) % SizeMod \in Nat
    BY <2>1, <1>2, Z3
  <2> QED BY <2>2
<1>6. TypeOK'
  <2>1. plan' \in [0..(i' - 1) -> [from : Nat, to : Nat]]
    <3>1. \A j \in 0..(i - 1) : plan[j] \in [from : Nat, to : Nat]
      BY DEF IInv, TypeOK
    <3> HIDE DEF range
    <3> QED BY <3>1, <1>1, <1>5
  <2>2. req' \in Requests /\ pc' \in {"begin", "fill", "done", "failed"}
        /\ len' \in 0..MaxThreads
    BY <1>1 DEF IInv, TypeOK
  <2> QED BY <2>1, <2>2, <1>1, <1>4 DEF TypeOK
<1>7. ASSUME Regular
      PROVE  range = Span(i) /\ (i + 1 < len => p = pages)
  <2> DEFINE P == ThreadPages(req.total, len)
  <2>1. len = ThreadCount(req.threads, req.total, req.buffer) /\ pages = P
    BY <1>1, <1>7 DEF IInv, LoopInvariant
  <2>2. /\ P \in Nat
        /\ P <= req.total
        /\ i * (P + 1) \in Nat /\ i * (P + 1) <= req.total
        /\ i + 1 < len => i * (P + 1) + P < req.total
    <3>1. req.threads <= req.buffer + 1
      BY <1>7 DEF Regular
    <3>2. /\ P \in Nat
          /\ P <= req.total
          /\ \A k \in 0..(len - 1) : k * (P + 1) \in Nat /\ k * (P + 1) <= req.total
          /\ \A k \in 0..(len - 2) : k * (P + 1) + P < req.total
      BY <3>1, <2>1, <1>2, Shares
    <3> HIDE DEF P
    <3>3. i \in 0..(len - 1) /\ (i + 1 < len => i \in 0..(len - 2))
      BY <1>1
    <3>4. i * (P + 1) \in Nat /\ i * (P + 1) <= req.total
      BY <3>2, <3>3
    <3>5. i + 1 < len => i * (P + 1) + P < req.total
      BY <3>2, <3>3
    <3> QED BY <3>2, <3>4, <3>5
  <2> HIDE DEF P
  <2>3. start = i * (P + 1)
    <3>1. i * P + i = i * (P + 1)
      BY <1>1, <2>2, Z3
    <3>2. i * (P + 1) < SizeMod
      BY <1>2, <2>2
    <3>3. (i * (P + 1)) % SizeMod = i * (P + 1)
      BY <3>2, <2>2, <1>2, SmallMod
    <3> QED BY <3>1, <3>3, <2>1 DEF Start
  <2>4. (start + P) % SizeMod = start + P
    <3>1. start + P \in Nat /\ start + P < SizeMod
      BY <2>2, <2>3, <1>2
    <3> QED BY <3>1, <1>2, SmallMod
  <2>5. (req.total - start) % SizeMod = req.total - start
    <3>1. req.total - start \in Nat /\ req.total - start < SizeMod
      BY <2>2, <2>3, <1>2
    <3> QED BY <3>1, <1>2, SmallMod
  <2>6. p = IF start + P > req.total THEN req.total - start ELSE P
    BY <2>1, <2>4, <2>5 DEF PagesFrom
  <2>7. start + p = AtMost(start + P, req.total)
    BY <2>2, <2>3, <2>6, <1>2 DEF AtMost
  <2>8. (start + req.offset) % SizeMod = start + req.offset
    <3>1. start + req.offset \in Nat /\ start + req.offset < SizeMod
      BY <2>2, <2>3, <1>2
    <3> QED BY <3>1, <1>2, SmallMod
  <2>9. (start + p + req.offset) % SizeMod = start + p + req.offset
    <3>1. start + p \in Nat /\ start + p <= req.total
      BY <2>2, <2>3, <2>6, <1>2
    <3>2. /\ start + p + req.offset \in Nat
          /\ start + p + req.offset < SizeMod
      BY <3>1, <1>2, <1>3, <1>4
    <3> QED BY <3>2, <1>2, SmallMod
  <2>10. Span(i) = [from |-> start + req.offset,
                    to   |-> AtMost(start + P, req.total) + req.offset]
    BY <2>3 DEF Span, ThreadFrom, ThreadTo, P
  <2>11. i + 1 < len => p = pages
    BY <2>1, <2>2, <2>3, <2>6, <1>2
  <2> QED BY <2>7, <2>8, <2>9, <2>10, <2>11
<1> HIDE DEF range, p, start
<1>8. LoopInvariant'
  <2>1. pc' = "fill" /\ len' = ThreadCount(req.threads, req.total, req.buffer)'
    BY <1>1 DEF IInv, LoopInvariant
  <2>2. (Regular' /\ i' < len') => pages' = ThreadPages(req.total, len)'
    BY <1>1, <1>7 DEF IInv, LoopInvariant, Regular
  <2> QED BY <2>1, <2>2 DEF LoopInvariant
<1>9. PlanIsSpans'
  <2>1. SUFFICES ASSUME Regular', NEW j \in DOMAIN plan'
                 PROVE  plan'[j] = Span(j)'
    BY DEF PlanIsSpans
  <2>2. Regular /\ Span(j)' = Span(j)
    BY <2>1, <1>1 DEF Regular, Span
  <2>3. DOMAIN plan = 0..(i - 1) /\ j \in 0..i
    BY <2>1, <1>1 DEF IInv, TypeOK
  <2>4. CASE j = i
    BY <2>4, <2>2, <2>3, <1>1, <1>7
  <2>5. CASE j # i
    BY <2>5, <2>2, <2>3, <1>1 DEF IInv, PlanIsSpans
  <2> QED BY <2>4, <2>5
<1> QED BY <1>6, <1>8, <1>9 DEF IInv

\* The invariant is kept by every step.
LEMMA NextIInv == IInv /\ [Next]_vars => IInv'
<1> SUFFICES ASSUME IInv, [Next]_vars PROVE IInv'
  OBVIOUS
<1>1. CASE Begin
  <2>1. /\ req.threads \in Nat \ {0} /\ req.threads <= MaxThreads
        /\ req.buffer \in Nat \ {0} /\ req.total \in Nat
    BY RequestBounds DEF IInv
  <2>2. /\ len' \in Nat \ {0} /\ len' <= req.threads
        /\ len' = ThreadCount(req.threads, req.total, req.buffer)
    BY <1>1, <2>1, ThreadCountBounds DEF Begin
  <2>3. pages' \in Nat /\ pages' = ThreadPages(req.total, len')
    BY <1>1, <2>1, <2>2, Division DEF Begin, ThreadPages
  <2>4. /\ pc = "begin" /\ pc' = "fill" /\ req' = req /\ i' = i /\ plan' = plan
        /\ i = 0
    BY <1>1 DEF Begin, IInv, LoopInvariant
  <2>5. TypeOK'
    BY <2>1, <2>2, <2>3, <2>4, PlanAssumption DEF IInv, TypeOK
  <2>6. LoopInvariant'
    BY <2>2, <2>3, <2>4 DEF LoopInvariant, Regular
  <2>7. PlanIsSpans'
    BY <2>4 DEF IInv, TypeOK, PlanIsSpans
  <2> QED BY <2>5, <2>6, <2>7 DEF IInv
<1>2. CASE Fail
  BY <1>2 DEF Fail, IInv, TypeOK, LoopInvariant, PlanIsSpans, Regular, Span
<1>3. CASE Fill
  BY <1>3, FillStep
<1>4. CASE Finish
  BY <1>4 DEF Finish, IInv, TypeOK, LoopInvariant, PlanIsSpans, Regular, Span
<1>5. CASE UNCHANGED vars
  BY <1>5 DEF vars, IInv, TypeOK, LoopInvariant, PlanIsSpans, Regular, Span
<1> QED BY <1>1, <1>2, <1>3, <1>4, <1>5 DEF Next

\* In every reachable state the variables of f_indexer_threads_init have their
\* types: no more threads are planned than asked for, the loop stays in its
\* array and every range is a pair of positions.
THEOREM PlanTypes == Spec => []TypeOK
<1>1. IInv => TypeOK
  BY DEF IInv
<1> QED BY <1>1, InitIInv, NextIInv, PTL DEF Spec

\* With at most buffer_size + 1 threads the loop of f_indexer_threads_init, which
\* assigns the variable its later iterations read, writes for every thread the
\* range of the closed form that the model of the indexer uses.
THEOREM PlanIsClosedForm == Spec => []PlanIsSpans
<1>1. IInv => PlanIsSpans
  BY DEF IInv
<1> QED BY <1>1, InitIInv, NextIInv, PTL DEF Spec

\* What the closed form gives for the ranges written so far, in a regular
\* configuration: P is the share of a thread.
LEMMA SpanFacts ==
  ASSUME IInv, Regular, NEW j \in DOMAIN plan,
         NEW P, P = ThreadPages(req.total, len)
  PROVE  /\ j \in 0..(len - 1) /\ len \in Nat /\ P \in Nat
         /\ j * (P + 1) \in Nat /\ j * (P + 1) <= req.total
         /\ plan[j].from = j * (P + 1) + req.offset
         /\ plan[j].to = AtMost(j * (P + 1) + P, req.total) + req.offset
         /\ j + 1 < len => j * (P + 1) + P < req.total
         /\ (len - 1) * (P + 1) + P >= req.total
<1>1. /\ req.threads \in Nat \ {0} /\ req.buffer \in Nat \ {0}
      /\ req.total \in Nat /\ req.offset \in Nat
  BY RequestBounds DEF IInv
<1>2. /\ len \in Nat /\ i \in 0..len /\ DOMAIN plan = 0..(i - 1)
  BY PlanAssumption DEF IInv, TypeOK
<1>3. j \in 0..(len - 1) /\ (j + 1 < len => j \in 0..(len - 2))
  BY <1>2
<1>4. len = ThreadCount(req.threads, req.total, req.buffer)
  BY <1>2, <1>3 DEF IInv, TypeOK, LoopInvariant
<1>5. /\ P \in Nat
      /\ \A k \in 0..(len - 1) : k * (P + 1) \in Nat /\ k * (P + 1) <= req.total
      /\ \A k \in 0..(len - 2) : k * (P + 1) + P < req.total
      /\ (len - 1) * (P + 1) + P >= req.total
  BY <1>1, <1>4, Shares DEF Regular
<1>6. plan[j] = [from |-> j * (P + 1) + req.offset,
                 to   |-> AtMost(j * (P + 1) + P, req.total) + req.offset]
  BY DEF IInv, PlanIsSpans, Span, ThreadFrom, ThreadTo
<1>7. j * (P + 1) \in Nat /\ j * (P + 1) <= req.total
  BY <1>3, <1>5
<1>8. j + 1 < len => j * (P + 1) + P < req.total
  BY <1>3, <1>5
<1>9. /\ plan[j].from = j * (P + 1) + req.offset
      /\ plan[j].to = AtMost(j * (P + 1) + P, req.total) + req.offset
  BY <1>6
<1> QED BY <1>2, <1>3, <1>5, <1>7, <1>8, <1>9

\* The ranges of a regular configuration are in order.
LEMMA IInvOrder == IInv => RangesInOrder
<1> SUFFICES ASSUME IInv, Regular
             PROVE  /\ \A j \in DOMAIN plan :
                         /\ plan[j].from <= plan[j].to
                         /\ plan[j].to <= req.offset + req.total
                         /\ (j + 1) \in DOMAIN plan => plan[j + 1].from = plan[j].to + 1
                    /\ pc = "done" => plan[len - 1].to = req.offset + req.total
  BY DEF RangesInOrder
<1> DEFINE P == ThreadPages(req.total, len)
<1>1. req.total \in Nat /\ req.offset \in Nat
  BY RequestBounds DEF IInv
<1>2. ASSUME NEW j \in DOMAIN plan
      PROVE  /\ plan[j].from <= plan[j].to
             /\ plan[j].to <= req.offset + req.total
             /\ (j + 1) \in DOMAIN plan => plan[j + 1].from = plan[j].to + 1
  <2>1. /\ j \in 0..(len - 1) /\ len \in Nat /\ P \in Nat
        /\ j * (P + 1) \in Nat /\ j * (P + 1) <= req.total
        /\ plan[j].from = j * (P + 1) + req.offset
        /\ plan[j].to = AtMost(j * (P + 1) + P, req.total) + req.offset
        /\ j + 1 < len => j * (P + 1) + P < req.total
    BY <1>2, SpanFacts
  <2>2. ASSUME (j + 1) \in DOMAIN plan
        PROVE  plan[j + 1].from = plan[j].to + 1
    <3>1. /\ (j + 1) \in 0..(len - 1)
          /\ plan[j + 1].from = (j + 1) * (P + 1) + req.offset
      BY <2>2, SpanFacts
    <3> HIDE DEF P
    <3>2. (j + 1) * (P + 1) = j * (P + 1) + P + 1
      BY <2>1, Z3
    <3>3. plan[j].to = j * (P + 1) + P + req.offset
      BY <2>1, <3>1, <1>1 DEF AtMost
    <3> QED BY <3>1, <3>2, <3>3, <2>1, <1>1
  <2> HIDE DEF P
  <2>3. plan[j].from <= plan[j].to /\ plan[j].to <= req.offset + req.total
    BY <2>1, <1>1 DEF AtMost
  <2> QED BY <2>2, <2>3
<1>3. ASSUME pc = "done"
      PROVE  plan[len - 1].to = req.offset + req.total
  <2>1. (len - 1) \in DOMAIN plan
    <3>1. /\ req.threads \in Nat \ {0} /\ req.buffer \in Nat \ {0}
          /\ len = ThreadCount(req.threads, req.total, req.buffer)
      BY <1>3, RequestBounds DEF IInv, LoopInvariant
    <3>2. len \in Nat \ {0}
      BY <3>1, <1>1, ThreadCountBounds
    <3> QED BY <3>2, <1>3 DEF IInv, TypeOK, LoopInvariant
  <2>2. /\ P \in Nat /\ len \in Nat
        /\ (len - 1) * (P + 1) \in Nat
        /\ plan[len - 1].to = AtMost((len - 1) * (P + 1) + P, req.total) + req.offset
        /\ (len - 1) * (P + 1) + P >= req.total
    BY <2>1, SpanFacts
  <2> HIDE DEF P
  <2> QED BY <2>2, <1>1 DEF AtMost
<1> QED BY <1>2, <1>3

\* No range is empty when there are at most buffer threads.
LEMMA IInvNonEmpty == IInv => RangesNonEmpty
<1> SUFFICES ASSUME IInv, req.threads <= req.buffer, req.total > 0,
                    NEW j \in DOMAIN plan
             PROVE  plan[j].from < plan[j].to
  BY DEF RangesNonEmpty
<1> DEFINE P == ThreadPages(req.total, len)
<1>1. /\ req.threads \in Nat \ {0} /\ req.buffer \in Nat \ {0}
      /\ req.total \in Nat /\ req.offset \in Nat
  BY RequestBounds DEF IInv
<1>2. /\ j \in 0..(len - 1) /\ len \in Nat /\ P \in Nat
      /\ j * (P + 1) \in Nat
      /\ plan[j].from = j * (P + 1) + req.offset
      /\ plan[j].to = AtMost(j * (P + 1) + P, req.total) + req.offset
  BY <1>1, SpanFacts DEF Regular
<1>3. len = ThreadCount(req.threads, req.total, req.buffer)
  <2>1. i # 0
    BY DEF IInv, TypeOK
  <2> QED BY <2>1 DEF IInv, TypeOK, LoopInvariant
<1>4. P >= 1 /\ \A k \in 0..(len - 1) : k * (P + 1) < req.total
  BY <1>1, <1>3, SharesNonEmpty
<1> HIDE DEF P
<1>5. j * (P + 1) < req.total
  BY <1>2, <1>4
<1> QED BY <1>1, <1>2, <1>4, <1>5 DEF AtMost

\* With at most buffer_size + 1 threads the ranges follow each other in the order
\* of the threads and are disjoint, one byte lies between any two neighbours,
\* and the last ends with the pass.
THEOREM PlanRangesInOrder == Spec => []RangesInOrder
<1> QED BY IInvOrder, InitIInv, NextIInv, PTL DEF Spec

\* With at most buffer_size threads every thread of a pass that has bytes gets at
\* least one of them, so that its progress can reach 1.
THEOREM PlanRangesNonEmpty == Spec => []RangesNonEmpty
<1> QED BY IInvNonEmpty, InitIInv, NextIInv, PTL DEF Spec
=============================================================================
