--------------------------- MODULE IndexerLemmas ---------------------------
(***************************************************************************)
(* Facts that the proofs about the indexer share: induction, lists of      *)
(* offsets, the reduction of chunks, and the arithmetic of the ranges.     *)
(***************************************************************************)
EXTENDS Ranges, Chunks, Lists, FiniteSetTheorems, SequenceTheorems,
        WellFoundedInduction, TLAPS

-----------------------------------------------------------------------------
(* Induction, for sets of natural numbers *)

\* A set of natural numbers has a least element.
LEMMA LeastNat ==
  ASSUME NEW T \in SUBSET Nat, T # {}
  PROVE  \E m \in T : \A n \in T : m <= n
<1> DEFINE R == OpToRel(<, Nat)
<1>1. IsWellFoundedOn(R, Nat)
  BY NatLessThanWellFounded
<1>2. PICK m \in T : \A n \in T : ~(<<n, m>> \in R)
  <2> HIDE DEF R
  <2> QED BY <1>1, WFMin
<1>3. \A n \in T : ~(n < m)
  BY <1>2 DEF OpToRel
<1> QED BY <1>3

\* A set with 0 and the successor of each of its numbers has every number.
LEMMA SetInduction ==
  ASSUME NEW T, 0 \in T, \A n \in Nat : n \in T => n + 1 \in T
  PROVE  Nat \subseteq T
<1> SUFFICES ASSUME Nat \ T # {} PROVE FALSE
  OBVIOUS
<1>1. PICK m \in Nat \ T : \A n \in Nat \ T : m <= n
  BY LeastNat
<1>2. m - 1 \in Nat /\ m - 1 \in T
  BY <1>1
<1> QED BY <1>1, <1>2

-----------------------------------------------------------------------------
(* Lists *)

\* The elements of two sequences put together.
LEMMA ElementsConcat ==
  ASSUME NEW s \in Seq(Nat), NEW t \in Seq(Nat)
  PROVE  Elements(s \o t) = Elements(s) \cup Elements(t)
<1>1. /\ Len(s \o t) = Len(s) + Len(t)
      /\ \A k \in 1..(Len(s) + Len(t)) :
           (s \o t)[k] = IF k <= Len(s) THEN s[k] ELSE t[k - Len(s)]
      /\ s \o t \in Seq(Nat)
  BY ConcatProperties
<1>2. /\ Len(s) \in Nat /\ Len(t) \in Nat
      /\ DOMAIN s = 1..Len(s) /\ DOMAIN t = 1..Len(t)
      /\ DOMAIN (s \o t) = 1..(Len(s) + Len(t))
  BY <1>1, LenProperties
<1>3. ASSUME NEW e \in Elements(s \o t)
      PROVE  e \in Elements(s) \cup Elements(t)
  <2>1. PICK k \in 1..(Len(s) + Len(t)) : e = (s \o t)[k]
    BY <1>2, <1>3 DEF Elements
  <2>2. CASE k <= Len(s)
    BY <1>1, <1>2, <2>1, <2>2 DEF Elements
  <2>3. CASE k > Len(s)
    <3>1. k - Len(s) \in 1..Len(t) /\ e = t[k - Len(s)]
      BY <1>1, <1>2, <2>1, <2>3
    <3> QED BY <1>2, <3>1 DEF Elements
  <2> QED BY <1>2, <2>2, <2>3
<1>4. ASSUME NEW e \in Elements(s)
      PROVE  e \in Elements(s \o t)
  <2>1. PICK k \in 1..Len(s) : e = s[k]
    BY <1>2, <1>4 DEF Elements
  <2>2. k \in 1..(Len(s) + Len(t)) /\ e = (s \o t)[k]
    BY <1>1, <1>2, <2>1
  <2> QED BY <1>2, <2>2 DEF Elements
<1>5. ASSUME NEW e \in Elements(t)
      PROVE  e \in Elements(s \o t)
  <2>1. PICK k \in 1..Len(t) : e = t[k]
    BY <1>2, <1>5 DEF Elements
  <2>2. k + Len(s) \in 1..(Len(s) + Len(t)) /\ e = (s \o t)[k + Len(s)]
    BY <1>1, <1>2, <2>1
  <2> QED BY <1>2, <2>2 DEF Elements
<1> QED BY <1>3, <1>4, <1>5

\* A descending sequence behind one of larger elements.
LEMMA DescendingConcat ==
  ASSUME NEW s \in Seq(Nat), NEW t \in Seq(Nat),
         Descending(s), Descending(t),
         \A a \in Elements(s), b \in Elements(t) : a > b
  PROVE  Descending(s \o t)
<1>1. /\ Len(s \o t) = Len(s) + Len(t)
      /\ \A k \in 1..(Len(s) + Len(t)) :
           (s \o t)[k] = IF k <= Len(s) THEN s[k] ELSE t[k - Len(s)]
      /\ s \o t \in Seq(Nat)
  BY ConcatProperties
<1>2. /\ Len(s) \in Nat /\ Len(t) \in Nat
      /\ DOMAIN s = 1..Len(s) /\ DOMAIN t = 1..Len(t)
      /\ DOMAIN (s \o t) = 1..(Len(s) + Len(t))
  BY <1>1, LenProperties
<1> SUFFICES ASSUME NEW j \in 1..(Len(s) + Len(t)), NEW k \in 1..(Len(s) + Len(t)),
                    j < k
             PROVE  (s \o t)[j] > (s \o t)[k]
  BY <1>2 DEF Descending
<1>3. CASE k <= Len(s)
  <2>1. j \in DOMAIN s /\ k \in DOMAIN s
    BY <1>2, <1>3
  <2> QED BY <1>1, <1>2, <1>3, <2>1 DEF Descending
<1>4. CASE j > Len(s)
  <2>1. j - Len(s) \in DOMAIN t /\ k - Len(s) \in DOMAIN t /\ j - Len(s) < k - Len(s)
    BY <1>2, <1>4
  <2>2. (s \o t)[j] = t[j - Len(s)] /\ (s \o t)[k] = t[k - Len(s)]
    BY <1>1, <1>2, <1>4
  <2> QED BY <2>1, <2>2 DEF Descending
<1>5. CASE j <= Len(s) /\ k > Len(s)
  <2>1. j \in DOMAIN s /\ k - Len(s) \in DOMAIN t
    BY <1>2, <1>5
  <2>2. (s \o t)[j] = s[j] /\ (s \o t)[k] = t[k - Len(s)]
    BY <1>1, <1>2, <1>5
  <2> QED BY <2>1, <2>2 DEF Elements
<1> QED BY <1>2, <1>3, <1>4, <1>5

\* A descending sequence has as many elements as it is long.
LEMMA DescendingLen ==
  ASSUME NEW s \in Seq(Nat), Descending(s)
  PROVE  IsFiniteSet(Elements(s)) /\ Cardinality(Elements(s)) = Len(s)
<1>1. Len(s) \in Nat /\ s \in [1..Len(s) -> Nat] /\ DOMAIN s = 1..Len(s)
  BY LenProperties
<1>2. s \in [1..Len(s) -> Elements(s)]
  BY <1>1 DEF Elements
<1>3. \A j, k \in 1..Len(s) : s[j] = s[k] => j = k
  <2> SUFFICES ASSUME NEW j \in 1..Len(s), NEW k \in 1..Len(s), j # k
               PROVE  s[j] # s[k]
    OBVIOUS
  <2>1. s[j] \in Nat /\ s[k] \in Nat /\ (j < k \/ k < j)
    BY <1>1
  <2> QED BY <1>1, <2>1 DEF Descending
<1>4. \A e \in Elements(s) : \E k \in 1..Len(s) : s[k] = e
  BY <1>1 DEF Elements
<1>5. s \in Bijection(1..Len(s), Elements(s))
  BY <1>2, <1>3, <1>4 DEF Bijection, Injection, Surjection, IsInjective
<1>6. ExistsBijection(1..Len(s), Elements(s))
  BY <1>5 DEF ExistsBijection
<1> QED BY <1>1, <1>6, FS_CountingElements, FS_NatBijection

\* As many lines begin after newlines as there are newlines.
LEMMA LinesAfterCount ==
  ASSUME NEW S \in SUBSET Nat, IsFiniteSet(S)
  PROVE  /\ IsFiniteSet(LinesAfter(S))
         /\ Cardinality(LinesAfter(S)) = Cardinality(S)
<1> DEFINE f == [b \in S |-> b + 1]
<1>1. f \in Bijection(S, LinesAfter(S))
  <2>1. f \in [S -> LinesAfter(S)]
    BY DEF LinesAfter
  <2>2. \A a, b \in S : f[a] = f[b] => a = b
    OBVIOUS
  <2>3. \A e \in LinesAfter(S) : \E b \in S : f[b] = e
    BY DEF LinesAfter
  <2> HIDE DEF f
  <2> QED BY <2>1, <2>2, <2>3 DEF Bijection, Injection, Surjection, IsInjective
<1>2. ExistsBijection(S, LinesAfter(S))
  BY <1>1 DEF ExistsBijection
<1> QED BY <1>2, FS_Bijection

-----------------------------------------------------------------------------
(* Reductions *)

\* A chunk whose last pointer and empty flag are those of its list, which the
\* reduction of an array with a single chunk that is not empty is not.
Proper(chunk) ==
  /\ chunk.last = Tail1(chunk.first)
  /\ chunk.empty <=> chunk.first = <<>>

\* The last node of two lists linked together.
LEMMA TailConcat ==
  ASSUME NEW s \in Seq(Nat), NEW t \in Seq(Nat), t # <<>>
  PROVE  Tail1(s \o t) = Tail1(t) /\ s \o t # <<>>
<1>1. /\ Len(s \o t) = Len(s) + Len(t)
      /\ \A k \in 1..(Len(s) + Len(t)) :
           (s \o t)[k] = IF k <= Len(s) THEN s[k] ELSE t[k - Len(s)]
  BY ConcatProperties
<1>2. Len(s) \in Nat /\ Len(t) \in Nat \ {0}
  BY EmptySeq, LenProperties
<1>3. s \o t # <<>>
  BY <1>1, <1>2, EmptySeq
<1>4. (s \o t)[Len(s) + Len(t)] = t[Len(t)]
  BY <1>1, <1>2
<1> QED BY <1>1, <1>3, <1>4 DEF Tail1

LEMMA TailNat == ASSUME NEW s \in Seq(Nat) PROVE Tail1(s) \in Nat
<1>1. Len(s) \in Nat /\ (s # <<>> => Len(s) # 0) /\ s \in [1..Len(s) -> Nat]
  BY LenProperties, EmptySeq
<1> QED BY <1>1 DEF Tail1, NullNode

\* A list is empty when it has no elements.
LEMMA ElementsEmpty ==
  /\ Elements(<<>>) = {} /\ Descending(<<>>)
  /\ \A s \in Seq(Nat) : Elements(s) = {} => s = <<>>
<1>1. Elements(<<>>) = {} /\ Descending(<<>>)
  BY DEF Elements, Descending
<1>2. ASSUME NEW s \in Seq(Nat), Elements(s) = {} PROVE s = <<>>
  <2>1. DOMAIN s = {} /\ DOMAIN s = 1..Len(s) /\ Len(s) \in Nat
    BY <1>2, LenProperties DEF Elements
  <2>2. Len(s) = 0
    BY <2>1
  <2> QED BY <2>2, EmptySeq
<1> QED BY <1>1, <1>2

\* What the loop of the reduction knows after one more chunk c, when it knew r.
WalkNext(r, c) ==
  IF c.empty THEN r
  ELSE IF r.current = <<>>
  THEN [current |-> c.first,
        first   |-> r.first,
        last    |-> IF r.head THEN c.last ELSE r.last,
        head    |-> FALSE,
        empty   |-> FALSE]
  ELSE [r EXCEPT !.current = Link(c, r.current),
                 !.first   = Link(c, r.current)]

WalkStart ==
  [current |-> <<>>, first |-> <<>>, last |-> NullNode, head |-> TRUE, empty |-> TRUE]

\* walk[k] is what the loop knows after k of the n chunks.
IsWalk(walk, chunks, n) ==
  /\ walk = [k \in 0..n |-> walk[k]]
  /\ walk[0] = WalkStart
  /\ \A k \in 1..n : walk[k] = WalkNext(walk[k - 1], chunks[k - 1])

\* The loop of the reduction is defined for arrays of every length.
LEMMA WalkDefined ==
  ASSUME NEW chunks
  PROVE  \A n \in Nat : \E walk : IsWalk(walk, chunks, n)
<1> DEFINE T == {n \in Nat : \E walk : IsWalk(walk, chunks, n)}
<1>1. 0 \in T
  <2>1. IsWalk([k \in 0..0 |-> WalkStart], chunks, 0)
    BY DEF IsWalk
  <2> QED BY <2>1
<1>2. ASSUME NEW n \in Nat, n \in T PROVE n + 1 \in T
  <2>1. PICK w : IsWalk(w, chunks, n)
    BY <1>2
  <2> DEFINE v == [k \in 0..(n + 1) |->
                     IF k = n + 1 THEN WalkNext(w[n], chunks[n]) ELSE w[k]]
  <2>2. \A k \in 0..n : v[k] = w[k]
    OBVIOUS
  <2>3. v[n + 1] = WalkNext(v[n], chunks[n])
    BY <2>2
  <2>4. ASSUME NEW k \in 1..(n + 1)
        PROVE  v[k] = WalkNext(v[k - 1], chunks[k - 1])
    <3>1. CASE k = n + 1
      BY <2>3, <3>1
    <3>2. CASE k # n + 1
      <4>1. k \in 0..n /\ k - 1 \in 0..n /\ k \in 1..n
        BY <3>2
      <4> QED BY <2>1, <2>2, <4>1 DEF IsWalk
    <3> QED BY <3>1, <3>2
  <2>5. v = [k \in 0..(n + 1) |-> v[k]] /\ v[0] = WalkStart
    BY <2>1, <2>2 DEF IsWalk
  <2> HIDE DEF v
  <2>6. IsWalk(v, chunks, n + 1)
    BY <2>4, <2>5 DEF IsWalk
  <2> QED BY <2>6
<1> HIDE DEF T
<1>3. Nat \subseteq T
  BY <1>1, <1>2, SetInduction
<1> QED BY <1>3 DEF T

\* Walk is where the loop ends.
LEMMA WalkEnd ==
  ASSUME NEW chunks, NEW n \in Nat
  PROVE  \E walk : IsWalk(walk, chunks, n) /\ Walk(chunks, n) = walk[n]
<1> DEFINE Body(x) == [k \in 0..n |->
             IF k = 0 THEN WalkStart ELSE WalkNext(x[k - 1], chunks[k - 1])]
           v == CHOOSE x : x = Body(x)
<1>1. PICK w : IsWalk(w, chunks, n)
  BY WalkDefined
<1>2. w = Body(w)
  <2>1. \A k \in 0..n : k # 0 => k \in 1..n
    OBVIOUS
  <2> QED BY <1>1, <2>1 DEF IsWalk
<1>3. v = Body(v)
  <2> HIDE DEF Body
  <2> QED BY <1>2
<1>4. Walk(chunks, n) = v[n]
  BY DEF Walk, WalkNext, WalkStart
<1>5. IsWalk(v, chunks, n)
  <2> HIDE DEF v
  <2>1. v = [k \in 0..n |-> v[k]]
    BY <1>3
  <2>2. v[0] = WalkStart
    BY <1>3
  <2>3. \A k \in 1..n : v[k] = WalkNext(v[k - 1], chunks[k - 1])
    BY <1>3
  <2> QED BY <2>1, <2>2, <2>3 DEF IsWalk
<1> QED BY <1>4, <1>5

\* One more chunk.
LEMMA WalkStep ==
  ASSUME NEW chunks, NEW n \in Nat
  PROVE  /\ Walk(chunks, 0) = WalkStart
         /\ Walk(chunks, n + 1) = WalkNext(Walk(chunks, n), chunks[n])
<1>1. PICK v : IsWalk(v, chunks, n) /\ Walk(chunks, n) = v[n]
  BY WalkEnd
<1>2. PICK w : IsWalk(w, chunks, n + 1) /\ Walk(chunks, n + 1) = w[n + 1]
  BY WalkEnd
<1>3. Walk(chunks, 0) = WalkStart
  BY WalkEnd DEF IsWalk
<1> DEFINE T == {k \in Nat : k <= n => v[k] = w[k]}
<1>4. 0 \in T
  BY <1>1, <1>2 DEF IsWalk
<1>5. ASSUME NEW k \in Nat, k \in T PROVE k + 1 \in T
  <2> SUFFICES ASSUME k + 1 <= n PROVE v[k + 1] = w[k + 1]
    OBVIOUS
  <2>1. v[k] = w[k] /\ k + 1 \in 1..n /\ k + 1 \in 1..(n + 1) /\ (k + 1) - 1 = k
    BY <1>5
  <2>2. v[k + 1] = WalkNext(v[(k + 1) - 1], chunks[(k + 1) - 1])
    BY <1>1, <2>1 DEF IsWalk
  <2>3. w[k + 1] = WalkNext(w[(k + 1) - 1], chunks[(k + 1) - 1])
    BY <1>2, <2>1 DEF IsWalk
  <2> QED BY <2>1, <2>2, <2>3
<1> HIDE DEF T
<1>6. n \in T
  BY <1>4, <1>5, SetInduction
<1>7. w[n + 1] = WalkNext(w[n], chunks[n])
  <2>1. n + 1 \in 1..(n + 1) /\ (n + 1) - 1 = n
    OBVIOUS
  <2>2. w[n + 1] = WalkNext(w[(n + 1) - 1], chunks[(n + 1) - 1])
    BY <1>2, <2>1 DEF IsWalk
  <2> QED BY <2>1, <2>2
<1> QED BY <1>1, <1>2, <1>3, <1>6, <1>7 DEF T

\* The offsets in the first n chunks of an array.
OffsetsIn(chunks, n) == UNION {Elements(chunks[k].first) : k \in 0..(n - 1)}

\* The chunks of an array with offsets.
Filled(chunks, n) == {k \in 0..(n - 1) : chunks[k].first # <<>>}

\* An array of n chunks as the reduction gets it: the list of each is descending
\* and the offsets of each are above those of the earlier ones.
Ordered(chunks, n) ==
  /\ \A k \in 0..(n - 1) :
       chunks[k] \in Chunk(Nat) /\ Descending(chunks[k].first)
  /\ \A j, k \in 0..(n - 1) :
       j < k => \A a \in Elements(chunks[j].first), b \in Elements(chunks[k].first) :
                  a < b

LEMMA OffsetsStep ==
  ASSUME NEW chunks, NEW n \in Nat
  PROVE  OffsetsIn(chunks, n + 1) = OffsetsIn(chunks, n) \cup Elements(chunks[n].first)
<1>1. 0..(n + 1 - 1) = 0..(n - 1) \cup {n}
  OBVIOUS
<1> QED BY <1>1 DEF OffsetsIn

\* What the loop has after k chunks: a part of their offsets in order, either in
\* current only or in first as well.
WalkSound(r, chunks, k) ==
  /\ r \in [current : Seq(Nat), first : Seq(Nat), last : Nat, head : BOOLEAN,
            empty : BOOLEAN]
  /\ Descending(r.current)
  /\ Elements(r.current) \subseteq OffsetsIn(chunks, k)
  /\ r.first = <<>> \/ r.first = r.current

\* With proper chunks current has all of them, and first as soon as two chunks
\* have offsets.
WalkExact(r, chunks, k) ==
  /\ Elements(r.current) = OffsetsIn(chunks, k)
  /\ r.empty <=> r.current = <<>>
  /\ r.head <=> r.current = <<>>
  /\ r.last = Tail1(r.current)
  /\ r.first = <<>> => \A a, b \in Filled(chunks, k) : a = b

LEMMA WalkSoundStep ==
  ASSUME NEW chunks, NEW n \in Nat, Ordered(chunks, n), NEW k \in 0..(n - 1),
         NEW r, WalkSound(r, chunks, k)
  PROVE  WalkSound(WalkNext(r, chunks[k]), chunks, k + 1)
<1> DEFINE c == chunks[k]
           s == WalkNext(r, c)
<1> SUFFICES WalkSound(s, chunks, k + 1)
  OBVIOUS
<1>1. c \in Chunk(Nat) /\ Descending(c.first)
  BY DEF Ordered
<1>2. OffsetsIn(chunks, k + 1) = OffsetsIn(chunks, k) \cup Elements(c.first)
  BY OffsetsStep
<1>3. \A a \in Elements(c.first), b \in Elements(r.current) : a > b
  <2> SUFFICES ASSUME NEW a \in Elements(c.first), NEW b \in Elements(r.current)
               PROVE  a > b
    OBVIOUS
  <2>1. PICK j \in 0..(k - 1) : b \in Elements(chunks[j].first)
    BY DEF WalkSound, OffsetsIn
  <2>2. j \in 0..(n - 1) /\ j < k
    BY <2>1
  <2>3. b < a
    BY <2>1, <2>2 DEF Ordered
  <2>4. a \in Nat /\ b \in Nat
    <3>1. chunks[j] \in Chunk(Nat)
      BY <2>2 DEF Ordered
    <3>2. \A l \in Seq(Nat) : Elements(l) \subseteq Nat
      BY LenProperties DEF Elements
    <3> QED BY <1>1, <2>1, <3>1, <3>2 DEF Chunk
  <2> QED BY <2>3, <2>4
<1>4. Link(c, r.current) \in {c.first \o r.current, c.first}
  BY DEF Link
<1>5. /\ c.first \in Seq(Nat) /\ r.current \in Seq(Nat)
      /\ c.first \o r.current \in Seq(Nat)
      /\ Elements(c.first \o r.current) = Elements(c.first) \cup Elements(r.current)
      /\ Descending(c.first \o r.current)
  BY <1>1, <1>3, ElementsConcat, DescendingConcat, ConcatProperties DEF WalkSound, Chunk
<1> HIDE DEF c
<1>6. /\ Link(c, r.current) \in Seq(Nat)
      /\ Descending(Link(c, r.current))
      /\ Elements(Link(c, r.current)) \subseteq OffsetsIn(chunks, k + 1)
  BY <1>1, <1>2, <1>4, <1>5 DEF WalkSound
<1>7. CASE c.empty
  BY <1>2, <1>7 DEF WalkNext, WalkSound
<1>8. CASE ~c.empty /\ r.current = <<>>
  BY <1>1, <1>2, <1>8 DEF WalkNext, WalkSound, Chunk
<1>9. CASE ~c.empty /\ r.current # <<>>
  <2> DEFINE l == Link(c, r.current)
  <2> HIDE DEF l
  <2>1. s = [r EXCEPT !.current = l, !.first = l]
    BY <1>9 DEF WalkNext, l
  <2>2. /\ s \in [current : Seq(Nat), first : Seq(Nat), last : Nat, head : BOOLEAN,
                  empty : BOOLEAN]
        /\ s.current = l /\ s.first = l
    BY <1>6, <2>1 DEF WalkSound, l
  <2> QED BY <1>6, <2>2 DEF WalkSound, l
<1> QED BY <1>7, <1>8, <1>9

LEMMA WalkExactStep ==
  ASSUME NEW chunks, NEW n \in Nat, Ordered(chunks, n), NEW k \in 0..(n - 1),
         Proper(chunks[k]), NEW r, WalkSound(r, chunks, k), WalkExact(r, chunks, k)
  PROVE  WalkExact(WalkNext(r, chunks[k]), chunks, k + 1)
<1> DEFINE c == chunks[k]
           s == WalkNext(r, c)
<1> SUFFICES WalkExact(s, chunks, k + 1)
  OBVIOUS
<1>1. c \in Chunk(Nat) /\ c.first \in Seq(Nat) /\ r.current \in Seq(Nat)
  BY DEF Ordered, Chunk, WalkSound
<1>2. OffsetsIn(chunks, k + 1) = OffsetsIn(chunks, k) \cup Elements(c.first)
  BY OffsetsStep
<1>3. Filled(chunks, k + 1) = Filled(chunks, k) \cup (IF c.first = <<>> THEN {} ELSE {k})
  <2>1. 0..(k + 1 - 1) = 0..(k - 1) \cup {k}
    OBVIOUS
  <2> QED BY <2>1 DEF Filled
<1>4. c.last = Tail1(c.first) /\ (c.empty <=> c.first = <<>>)
  BY DEF Proper
<1>5. r.current = <<>> => Filled(chunks, k) = {}
  <2> SUFFICES ASSUME r.current = <<>>, NEW j \in 0..(k - 1) PROVE chunks[j].first = <<>>
    BY DEF Filled
  <2>1. Elements(chunks[j].first) = {}
    BY ElementsEmpty DEF WalkExact, OffsetsIn
  <2>2. j \in 0..(n - 1)
    OBVIOUS
  <2> QED BY <2>1, <2>2, ElementsEmpty DEF Ordered, Chunk
<1> HIDE DEF c
<1>6. CASE c.empty
  BY <1>2, <1>3, <1>4, <1>6, ElementsEmpty DEF WalkNext, WalkExact
<1>7. CASE ~c.empty /\ r.current = <<>>
  <2>1. /\ s.current = c.first /\ s.first = r.first /\ s.last = c.last
        /\ s.head = FALSE /\ s.empty = FALSE
    BY <1>7 DEF WalkNext, WalkExact
  <2> HIDE DEF s
  <2>2. OffsetsIn(chunks, k) = {}
    BY <1>7, ElementsEmpty DEF WalkExact
  <2>3. Filled(chunks, k + 1) = {k}
    BY <1>3, <1>4, <1>5, <1>7
  <2> QED BY <1>2, <1>4, <1>7, <2>1, <2>2, <2>3 DEF WalkExact
<1>8. CASE ~c.empty /\ r.current # <<>>
  <2> DEFINE l == c.first \o r.current
  <2>1. /\ s.current = l /\ s.first = l /\ s.last = r.last
        /\ s.head = r.head /\ s.empty = r.empty
    BY <1>4, <1>8 DEF WalkNext, WalkSound, Link
  <2>2. l # <<>> /\ Tail1(l) = Tail1(r.current)
    BY <1>1, <1>8, TailConcat
  <2>3. Elements(l) = Elements(c.first) \cup Elements(r.current)
    BY <1>1, ElementsConcat
  <2> HIDE DEF s, l
  <2> QED BY <1>2, <1>8, <2>1, <2>2, <2>3 DEF WalkExact
<1> QED BY <1>6, <1>7, <1>8

LEMMA WalkResult ==
  ASSUME NEW chunks, NEW n \in Nat, Ordered(chunks, n)
  PROVE  /\ WalkSound(Walk(chunks, n), chunks, n)
         /\ (\A k \in 0..(n - 1) : Proper(chunks[k]))
              => WalkExact(Walk(chunks, n), chunks, n)
<1>1. PICK w : IsWalk(w, chunks, n) /\ Walk(chunks, n) = w[n]
  BY WalkEnd
<1> DEFINE Good(k) ==
             /\ WalkSound(w[k], chunks, k)
             /\ (\A j \in 0..(n - 1) : Proper(chunks[j])) => WalkExact(w[k], chunks, k)
           T == {k \in Nat : k <= n => Good(k)}
<1>2. 0 \in T
  <2>1. w[0] = WalkStart
    BY <1>1 DEF IsWalk
  <2>2. OffsetsIn(chunks, 0) = {} /\ Filled(chunks, 0) = {}
    BY DEF OffsetsIn, Filled
  <2>3. <<>> \in Seq(Nat) /\ NullNode \in Nat
    BY EmptySeq DEF NullNode
  <2>4. WalkSound(WalkStart, chunks, 0)
    BY <2>2, <2>3, ElementsEmpty DEF WalkSound, WalkStart
  <2>5. WalkExact(WalkStart, chunks, 0)
    BY <2>2, ElementsEmpty DEF WalkExact, WalkStart, Tail1
  <2> QED BY <2>1, <2>4, <2>5
<1>3. ASSUME NEW k \in Nat, k \in T PROVE k + 1 \in T
  <2> SUFFICES ASSUME k + 1 <= n PROVE Good(k + 1)
    OBVIOUS
  <2>1. Good(k) /\ k \in 0..(n - 1)
    BY <1>3
  <2>2. w[k + 1] = WalkNext(w[k], chunks[k])
    <3>1. k + 1 \in 1..n /\ (k + 1) - 1 = k
      BY <2>1
    <3>2. w[k + 1] = WalkNext(w[(k + 1) - 1], chunks[(k + 1) - 1])
      BY <1>1, <3>1 DEF IsWalk
    <3> QED BY <3>1, <3>2
  <2>3. WalkSound(w[k + 1], chunks, k + 1)
    BY <2>1, <2>2, WalkSoundStep
  <2>4. (\A j \in 0..(n - 1) : Proper(chunks[j])) => WalkExact(w[k + 1], chunks, k + 1)
    BY <2>1, <2>2, WalkExactStep
  <2> QED BY <2>3, <2>4
<1> HIDE DEF T, Good
<1>4. n \in T
  BY <1>2, <1>3, SetInduction
<1> QED BY <1>1, <1>4 DEF T, Good

\* f_chunk_array_reverse_reduce: the result has offsets of the array only, in
\* descending order, and all of them when every chunk is proper and the array has
\* a single chunk or not exactly one with offsets.
LEMMA ReduceResult ==
  ASSUME NEW chunks, NEW n \in Nat, Ordered(chunks, n), NEW idx \in Nat,
         NEW total \in Nat,
         NEW r, r = ReverseReduce(idx, chunks, n, total)
  PROVE  /\ r \in Chunk(Nat)
         /\ r.current = idx
         /\ r.line_count = total
         /\ Descending(r.first)
         /\ Elements(r.first) \subseteq OffsetsIn(chunks, n)
         /\ (/\ \A k \in 0..(n - 1) : Proper(chunks[k])
             /\ n > 1 => Cardinality(Filled(chunks, n)) # 1)
            => Proper(r) /\ Elements(r.first) = OffsetsIn(chunks, n)
<1>1. CASE n = 1
  <2>1. r = [chunks[0] EXCEPT !.current = idx, !.line_count = total]
    BY <1>1 DEF ReverseReduce
  <2>2. chunks[0] \in Chunk(Nat) /\ Descending(chunks[0].first)
    BY <1>1 DEF Ordered
  <2>3. OffsetsIn(chunks, n) = Elements(chunks[0].first)
    <3>1. 0..(n - 1) = {0}
      BY <1>1
    <3> QED BY <3>1 DEF OffsetsIn
  <2>4. /\ r \in Chunk(Nat) /\ r.current = idx /\ r.line_count = total
        /\ r.first = chunks[0].first /\ r.last = chunks[0].last
        /\ r.empty = chunks[0].empty
    BY <2>1, <2>2 DEF Chunk
  <2>5. 0 \in 0..(n - 1)
    BY <1>1
  <2> QED BY <2>2, <2>3, <2>4, <2>5 DEF Proper
<1>2. CASE n # 1
  <2> DEFINE s == Walk(chunks, n)
  <2>1. r = [current |-> idx, first |-> s.first, last |-> s.last,
             empty |-> s.empty, line_count |-> total]
    BY <1>2 DEF ReverseReduce
  <2>2. /\ WalkSound(s, chunks, n)
        /\ (\A k \in 0..(n - 1) : Proper(chunks[k])) => WalkExact(s, chunks, n)
    BY WalkResult
  <2> HIDE DEF s
  <2>3. /\ r \in Chunk(Nat) /\ r.current = idx /\ r.line_count = total
        /\ r.first = s.first /\ r.last = s.last /\ r.empty = s.empty
    BY <2>1, <2>2 DEF WalkSound, Chunk
  <2>4. Descending(r.first) /\ Elements(r.first) \subseteq OffsetsIn(chunks, n)
    BY <2>2, <2>3, ElementsEmpty DEF WalkSound
  <2>5. ASSUME \A k \in 0..(n - 1) : Proper(chunks[k]),
               n > 1 => Cardinality(Filled(chunks, n)) # 1
        PROVE  Proper(r) /\ Elements(r.first) = OffsetsIn(chunks, n)
    <3>1. WalkExact(s, chunks, n)
      BY <2>2, <2>5
    <3>2. s.first = s.current
      <4> SUFFICES ASSUME s.first = <<>> PROVE s.current = <<>>
        BY <2>2 DEF WalkSound
      <4>1. \A a, b \in Filled(chunks, n) : a = b
        BY <3>1 DEF WalkExact
      <4>2. Filled(chunks, n) = {}
        <5> SUFFICES ASSUME NEW a \in Filled(chunks, n) PROVE FALSE
          OBVIOUS
        <5>1. Filled(chunks, n) = {a}
          BY <4>1
        <5>2. Cardinality(Filled(chunks, n)) = 1
          BY <5>1, FS_Singleton
        <5>3. n = 0
          BY <1>2, <2>5, <5>2
        <5> QED BY <5>3 DEF Filled
      <4>3. OffsetsIn(chunks, n) = {}
        BY <4>2, ElementsEmpty DEF Filled, OffsetsIn
      <4> QED BY <2>2, <3>1, <4>3, ElementsEmpty DEF WalkExact, WalkSound
    <3> QED BY <2>3, <3>1, <3>2 DEF WalkExact, Proper
  <2> QED BY <2>3, <2>4, <2>5
<1> QED BY <1>1, <1>2

-----------------------------------------------------------------------------
(* Ranges *)

\* Division with remainder, for any positive divisor.
LEMMA Division ==
  ASSUME NEW a \in Nat, NEW b \in Nat \ {0}
  PROVE  /\ a \div b \in Nat
         /\ a = b * (a \div b) + (a % b)
         /\ a % b \in 0..(b - 1)
  BY Z3

\* A product grows with its first factor.
LEMMA ProductMonotone ==
  ASSUME NEW a \in Nat, NEW b \in Nat, NEW c \in Nat, a <= b
  PROVE  /\ a * c \in Nat
         /\ a * c <= b * c
         /\ c * a <= c * b
  BY Z3

\* The thread count is positive, at most the request, and all but one of the
\* threads could be given a full buffer.
LEMMA ThreadCountBounds ==
  ASSUME NEW threads \in Nat \ {0}, NEW total \in Nat, NEW buffer \in Nat \ {0},
         NEW L, L = ThreadCount(threads, total, buffer)
  PROVE  /\ L \in Nat \ {0}
         /\ L <= threads
         /\ L >= 2 => (L - 1) * buffer < total
<1> DEFINE C == (total + buffer - 1) \div buffer
<1>1. C \in Nat /\ total + buffer - 1 = buffer * C + ((total + buffer - 1) % buffer)
      /\ (total + buffer - 1) % buffer \in 0..(buffer - 1)
  <2>1. total + buffer - 1 \in Nat
    OBVIOUS
  <2> QED BY <2>1, Division
<1>2. L = IF C = 0 THEN 1 ELSE IF threads <= C THEN threads ELSE C
  BY DEF ThreadCount, CeilDiv, AtMost
<1> HIDE DEF C
<1>3. L \in Nat \ {0} /\ L <= threads
  BY <1>1, <1>2
<1>4. ASSUME L >= 2 PROVE (L - 1) * buffer < total
  <2>1. L <= C
    BY <1>1, <1>2, <1>4
  <2>2. buffer * L <= buffer * C
    BY <2>1, <1>1, <1>3, ProductMonotone
  <2>3. buffer * C <= total + buffer - 1
    BY <1>1
  <2>4. buffer * L <= total + buffer - 1
    <3>1. buffer * L \in Int /\ buffer * C \in Int
      BY <1>1, <1>3
    <3> QED BY <3>1, <2>2, <2>3
  <2>5. (L - 1) * buffer = buffer * L - buffer
    BY <1>3, Z3
  <2>6. buffer * L \in Int
    BY <1>3
  <2> QED BY <2>4, <2>5, <2>6
<1> QED BY <1>3, <1>4

\* With at most buffer + 1 threads every range but the last has its full share
\* of bytes, and the last one begins within the pass and reaches its end.
LEMMA Shares ==
  ASSUME NEW threads \in Nat \ {0}, NEW total \in Nat, NEW buffer \in Nat \ {0},
         threads <= buffer + 1,
         NEW L, L = ThreadCount(threads, total, buffer),
         NEW P, P = ThreadPages(total, L)
  PROVE  /\ P \in Nat
         /\ P <= total
         /\ \A k \in 0..(L - 1) : k * (P + 1) \in Nat /\ k * (P + 1) <= total
         /\ \A k \in 0..(L - 2) : k * (P + 1) + P < total
         /\ (L - 1) * (P + 1) + P >= total
<1> DEFINE r == total % L
<1>1. /\ L \in Nat \ {0}
      /\ L <= threads
      /\ L >= 2 => (L - 1) * buffer < total
  BY ThreadCountBounds
<1>2. P \in Nat /\ total = L * P + r /\ r \in 0..(L - 1)
  BY <1>1, Division DEF ThreadPages
<1> HIDE DEF r
<1>3. L * P \in Nat /\ (L - 1) * (P + 1) = L * P - P + L - 1
  BY <1>1, <1>2, Z3
<1>4. P <= L * P
  <2>1. 1 * P <= L * P
    BY <1>1, <1>2, ProductMonotone
  <2> QED BY <2>1, <1>2
<1>5. P + r >= L - 1
  <2>1. CASE L = 1
    BY <2>1, <1>2
  <2>2. CASE L >= 2
    <3>1. SUFFICES ASSUME P + r <= L - 2 PROVE FALSE
      BY <1>1, <1>2
    <3>2. P + 1 <= buffer
      BY <3>1, <1>1, <1>2
    <3>3. (L - 1) * (P + 1) <= (L - 1) * buffer
      BY <3>2, <1>1, <1>2, <2>2, ProductMonotone
    <3>4. (L - 1) * (P + 1) \in Int /\ (L - 1) * buffer \in Int
      BY <1>1, <1>2
    <3>5. (L - 1) * buffer < total
      BY <1>1, <2>2
    <3>6. L * P - P + L - 1 < total
      BY <3>3, <3>4, <3>5, <1>3
    <3> QED BY <3>1, <3>6, <1>1, <1>2, <1>3
  <2> QED BY <1>1, <2>1, <2>2
<1>6. ASSUME NEW k \in 0..(L - 1)
      PROVE  k * (P + 1) \in Nat /\ k * (P + 1) <= total
  <2>1. k * (P + 1) \in Nat /\ k * (P + 1) <= (L - 1) * (P + 1)
    BY <1>1, <1>2, ProductMonotone
  <2> QED BY <2>1, <1>1, <1>2, <1>3, <1>5
<1>7. ASSUME NEW k \in 0..(L - 2)
      PROVE  k * (P + 1) + P < total
  <2>1. k * (P + 1) \in Nat /\ k * (P + 1) <= (L - 2) * (P + 1)
    BY <1>1, <1>2, ProductMonotone
  <2>2. (L - 2) * (P + 1) = L * P - 2 * P + L - 2
    BY <1>1, <1>2, Z3
  <2> QED BY <2>1, <2>2, <1>1, <1>2, <1>3, <1>5
<1> QED BY <1>1, <1>2, <1>3, <1>4, <1>5, <1>6, <1>7

\* With at most buffer threads every thread of a pass with bytes has a byte.
LEMMA SharesNonEmpty ==
  ASSUME NEW threads \in Nat \ {0}, NEW total \in Nat \ {0},
         NEW buffer \in Nat \ {0}, threads <= buffer,
         NEW L, L = ThreadCount(threads, total, buffer),
         NEW P, P = ThreadPages(total, L)
  PROVE  P >= 1 /\ \A k \in 0..(L - 1) : k * (P + 1) < total
<1> DEFINE r == total % L
<1>1. /\ L \in Nat \ {0}
      /\ L <= threads
      /\ L >= 2 => (L - 1) * buffer < total
  BY ThreadCountBounds
<1>2. P \in Nat /\ total = L * P + r /\ r \in 0..(L - 1)
  BY <1>1, Division DEF ThreadPages
<1> HIDE DEF r
<1>3. L * P \in Nat /\ (L - 1) * (P + 1) = L * P - P + L - 1
  BY <1>1, <1>2, Z3
<1>4. P + r >= L
  <2>1. CASE L = 1
    BY <2>1, <1>2
  <2>2. CASE L >= 2
    <3>1. SUFFICES ASSUME P + r <= L - 1 PROVE FALSE
      BY <1>1, <1>2
    <3>2. P + 1 <= buffer
      BY <3>1, <1>1, <1>2
    <3>3. (L - 1) * (P + 1) <= (L - 1) * buffer
      BY <3>2, <1>1, <1>2, <2>2, ProductMonotone
    <3>4. (L - 1) * (P + 1) \in Int /\ (L - 1) * buffer \in Int
      BY <1>1, <1>2
    <3>5. (L - 1) * buffer < total
      BY <1>1, <2>2
    <3>6. L * P - P + L - 1 < total
      BY <3>3, <3>4, <3>5, <1>3
    <3> QED BY <3>1, <3>6, <1>1, <1>2, <1>3
  <2> QED BY <1>1, <2>1, <2>2
<1>5. P >= 1
  BY <1>1, <1>2, <1>4
<1>6. ASSUME NEW k \in 0..(L - 1)
      PROVE  k * (P + 1) < total
  <2>1. k * (P + 1) \in Nat /\ k * (P + 1) <= (L - 1) * (P + 1)
    BY <1>1, <1>2, ProductMonotone
  <2> QED BY <2>1, <1>1, <1>2, <1>3, <1>4
<1> QED BY <1>5, <1>6

\* The number of passes is positive, and every pass begins within the file, or
\* at its start when the file is empty.
LEMMA PassBounds ==
  ASSUME NEW size \in Nat, NEW maxBytes \in Nat \ {0},
         NEW q \in 0..(PassCount(size, maxBytes) - 1)
  PROVE  PassBytes(q, size, maxBytes) \in Nat
<1> DEFINE C == (size + maxBytes - 1) \div maxBytes
<1>1. C \in Nat /\ maxBytes * C <= size + maxBytes - 1
  <2>1. size + maxBytes - 1 \in Nat
    OBVIOUS
  <2>2. /\ C \in Nat
        /\ size + maxBytes - 1 = maxBytes * C + ((size + maxBytes - 1) % maxBytes)
        /\ (size + maxBytes - 1) % maxBytes \in 0..(maxBytes - 1)
    BY <2>1, Division
  <2> HIDE DEF C
  <2>3. maxBytes * C \in Int
    BY <2>2
  <2> QED BY <2>2, <2>3
<1>2. PassCount(size, maxBytes) = IF C <= 0 THEN 1 ELSE C
  BY DEF PassCount, CeilDiv
<1> HIDE DEF C
<1>3. q * maxBytes \in Nat /\ q * maxBytes <= size
  <2>1. CASE q = 0
    BY <2>1
  <2>2. CASE q # 0
    <3>1. q \in Nat /\ q + 1 \in Nat /\ q + 1 <= C
      BY <1>1, <1>2, <2>2
    <3>2. maxBytes * (q + 1) <= maxBytes * C
      BY <1>1, <3>1, ProductMonotone
    <3>3. maxBytes * (q + 1) = q * maxBytes + maxBytes
      BY <3>1, Z3
    <3>4. q * maxBytes \in Nat /\ maxBytes * C \in Int
      BY <1>1, <3>1
    <3> QED BY <1>1, <3>2, <3>3, <3>4
  <2> QED BY <2>1, <2>2
<1> QED BY <1>3 DEF PassBytes, PassFrom, AtMost
\* Quotients are ordered as the products with the divisor are.
LEMMA DivisionUnique ==
  ASSUME NEW a \in Nat, NEW b \in Nat \ {0}, NEW q \in Nat, q * b <= a, a < q * b + b
  PROVE  a \div b = q
<1> DEFINE d == a \div b
           m == a % b
<1>1. d \in Nat /\ a = b * d + m /\ m \in 0..(b - 1)
  BY Division
<1> HIDE DEF d, m
<1>2. q * b \in Nat /\ b * d \in Nat
  BY <1>1, ProductMonotone
<1>3. CASE d < q
  <2>1. (d + 1) * b <= q * b
    BY <1>1, <1>3, ProductMonotone
  <2>2. (d + 1) * b = b * d + b
    BY <1>1, Z3
  <2> QED BY <1>1, <1>2, <2>1, <2>2
<1>4. CASE d > q
  <2>1. (q + 1) * b <= d * b
    BY <1>1, <1>4, ProductMonotone
  <2>2. (q + 1) * b = q * b + b /\ d * b = b * d
    BY <1>1, Z3
  <2> QED BY <1>1, <1>2, <2>1, <2>2
<1>5. d = q
  BY <1>1, <1>3, <1>4
<1> QED BY <1>5 DEF d

\* CeilDiv rounds up: it is the least number whose product reaches a.
LEMMA CeilDivBounds ==
  ASSUME NEW a \in Nat, NEW b \in Nat \ {0}, NEW C, C = CeilDiv(a, b)
  PROVE  /\ C \in Nat
         /\ \A c \in Nat : c < C <=> c * b < a
<1>1. a + b - 1 \in Nat
  OBVIOUS
<1> DEFINE m == (a + b - 1) % b
<1>2. C \in Nat /\ a + b - 1 = b * C + m /\ m \in 0..(b - 1)
  BY <1>1, Division DEF CeilDiv
<1> HIDE DEF m
<1>3. ASSUME NEW c \in Nat PROVE c < C <=> c * b < a
  <2>1. c * b \in Nat /\ b * C \in Nat
    BY <1>2, ProductMonotone
  <2>2. CASE c < C
    <3>1. (c + 1) * b <= C * b
      BY <1>2, <2>2, ProductMonotone
    <3>2. (c + 1) * b = c * b + b /\ C * b = b * C
      BY <1>2, Z3
    <3> QED BY <1>2, <2>1, <2>2, <3>1, <3>2
  <2>3. CASE c >= C
    <3>1. b * C <= b * c
      BY <1>2, <2>3, ProductMonotone
    <3>2. b * c = c * b
      BY Z3
    <3> QED BY <1>2, <2>1, <2>3, <3>1, <3>2
  <2> QED BY <1>2, <2>2, <2>3
<1> QED BY <1>2, <1>3

\* N passes cover a file, in order and without overlap, and only the last one may
\* be short.
PassesTile(N, size, maxBytes) ==
  /\ N \in Nat \ {0}
  /\ \A q \in 0..(N - 1) :
       /\ PassFrom(q, maxBytes) \in Nat
       /\ PassBytes(q, size, maxBytes) \in 0..maxBytes
       /\ PassFrom(q, maxBytes) + PassBytes(q, size, maxBytes) <= size
       /\ q < N - 1 => PassBytes(q, size, maxBytes) = maxBytes
  /\ \A q, r \in 0..(N - 1) :
       q < r => PassFrom(q, maxBytes) + PassBytes(q, size, maxBytes)
                  <= PassFrom(r, maxBytes)
  /\ \A b \in 0..(size - 1) : \E q \in 0..(N - 1) :
       b \in PassFrom(q, maxBytes)
               ..(PassFrom(q, maxBytes) + PassBytes(q, size, maxBytes) - 1)

\* The passes cover the file, in order and without overlap, and only the last
\* one may be short.
LEMMA PassTiles ==
  ASSUME NEW size \in Nat, NEW maxBytes \in Nat \ {0},
         NEW N, N = PassCount(size, maxBytes)
  PROVE  PassesTile(N, size, maxBytes)
<1> DEFINE C == CeilDiv(size, maxBytes)
<1>1. C \in Nat /\ \A c \in Nat : c < C <=> c * maxBytes < size
  BY CeilDivBounds
<1> HIDE DEF C
<1>2. N = IF C <= 0 THEN 1 ELSE C
  BY DEF PassCount, C
<1>3. N \in Nat \ {0}
  BY <1>1, <1>2
<1>4. ASSUME NEW q \in 0..(N - 1)
      PROVE  /\ q * maxBytes \in Nat
             /\ q * maxBytes <= size
             /\ q < N - 1 => q * maxBytes + maxBytes <= size
             /\ PassBytes(q, size, maxBytes) =
                  IF maxBytes <= size - q * maxBytes THEN maxBytes
                  ELSE size - q * maxBytes
  <2>1. q \in Nat /\ q * maxBytes \in Nat
    BY <1>3, ProductMonotone
  <2>2. q * maxBytes <= size
    <3>1. CASE q = 0
      BY <3>1
    <3>2. CASE q # 0
      <4>1. q < C
        BY <1>1, <1>2, <2>1, <3>2
      <4> QED BY <1>1, <2>1, <4>1
    <3> QED BY <3>1, <3>2
  <2>3. ASSUME q < N - 1 PROVE q * maxBytes + maxBytes <= size
    <3>1. q + 1 \in Nat /\ q + 1 < C
      BY <1>1, <1>2, <2>1, <2>3
    <3>2. (q + 1) * maxBytes < size
      BY <1>1, <3>1
    <3>3. (q + 1) * maxBytes = q * maxBytes + maxBytes
      BY <2>1, Z3
    <3> QED BY <2>1, <3>2, <3>3
  <2> QED BY <2>1, <2>2, <2>3 DEF PassBytes, PassFrom, AtMost
<1>5. ASSUME NEW q \in 0..(N - 1), NEW r \in 0..(N - 1), q < r
      PROVE  q * maxBytes + maxBytes <= r * maxBytes
  <2>1. q \in Nat /\ r \in Nat /\ q + 1 <= r
    BY <1>3, <1>5
  <2>2. (q + 1) * maxBytes <= r * maxBytes
    BY <2>1, ProductMonotone
  <2>3. (q + 1) * maxBytes = q * maxBytes + maxBytes
    BY <2>1, Z3
  <2> QED BY <2>2, <2>3
<1>6. ASSUME NEW b \in 0..(size - 1)
      PROVE  \E q \in 0..(N - 1) :
               b \in (q * maxBytes)..(q * maxBytes + PassBytes(q, size, maxBytes) - 1)
  <2> DEFINE q == b \div maxBytes
             m == b % maxBytes
  <2>1. q \in Nat /\ b = maxBytes * q + m /\ m \in 0..(maxBytes - 1)
    <3>1. b \in Nat
      OBVIOUS
    <3> QED BY <3>1, Division
  <2> HIDE DEF q, m
  <2>2. q * maxBytes \in Nat /\ q * maxBytes = maxBytes * q
    BY <2>1, Z3
  <2>3. q * maxBytes < size
    BY <2>1, <2>2
  <2>4. q \in 0..(N - 1)
    BY <1>1, <1>2, <2>1, <2>3
  <2>5. b \in (q * maxBytes)..(q * maxBytes + PassBytes(q, size, maxBytes) - 1)
    BY <1>4, <2>1, <2>2, <2>4
  <2> QED BY <2>4, <2>5
<1>7. ASSUME NEW q \in 0..(N - 1), NEW r \in 0..(N - 1), q < r
      PROVE  q * maxBytes + PassBytes(q, size, maxBytes) <= r * maxBytes
  BY <1>4, <1>5, <1>7
<1>8. ASSUME NEW q \in 0..(N - 1)
      PROVE  /\ PassBytes(q, size, maxBytes) \in 0..maxBytes
             /\ q * maxBytes + PassBytes(q, size, maxBytes) <= size
             /\ q < N - 1 => PassBytes(q, size, maxBytes) = maxBytes
  BY <1>4
<1> QED BY <1>3, <1>4, <1>6, <1>7, <1>8 DEF PassesTile, PassFrom

\* L threads of P bytes cover a pass, in order, but for one byte between
\* neighbours.
ThreadsTile(L, P, total) ==
  /\ \A k \in 0..(L - 1) :
       /\ ThreadFrom(k, P) \in Nat
       /\ ThreadTo(k, P, total) \in Nat
       /\ ThreadFrom(k, P) <= ThreadTo(k, P, total)
       /\ ThreadTo(k, P, total) <= total
  /\ \A k \in 1..(L - 1) : ThreadTo(k - 1, P, total) + 1 = ThreadFrom(k, P)
  /\ \A j, k \in 0..(L - 1) :
       j < k => ThreadTo(j, P, total) < ThreadFrom(k, P)
  /\ \A x \in 0..(total - 1) :
       \/ \E k \in 0..(L - 1) : x \in ThreadFrom(k, P)..(ThreadTo(k, P, total) - 1)
       \/ \E k \in 1..(L - 1) : x + 1 = ThreadFrom(k, P)

\* With at most buffer threads their ranges cover a pass, in order, but for one
\* byte between neighbours.
LEMMA ThreadTiles ==
  ASSUME NEW threads \in Nat \ {0}, NEW total \in Nat, NEW buffer \in Nat \ {0},
         threads <= buffer,
         NEW L, L = ThreadCount(threads, total, buffer),
         NEW P, P = ThreadPages(total, L)
  PROVE  ThreadsTile(L, P, total)
<1>1. /\ P \in Nat
      /\ \A k \in 0..(L - 1) : k * (P + 1) \in Nat /\ k * (P + 1) <= total
      /\ \A k \in 0..(L - 2) : k * (P + 1) + P < total
      /\ (L - 1) * (P + 1) + P >= total
  <2>1. threads <= buffer + 1
    OBVIOUS
  <2> QED BY <2>1, Shares
<1>2. L \in Nat \ {0}
  BY ThreadCountBounds
<1>3. \A k \in Nat : (k + 1) * (P + 1) = k * (P + 1) + P + 1 /\ k * (P + 1) \in Nat
  BY <1>1, Z3
<1>4. ASSUME NEW k \in 0..(L - 1)
      PROVE  /\ ThreadFrom(k, P) = k * (P + 1)
             /\ ThreadTo(k, P, total) =
                  IF k * (P + 1) + P <= total THEN k * (P + 1) + P ELSE total
             /\ k < L - 1 => ThreadTo(k, P, total) = k * (P + 1) + P
             /\ k = L - 1 => ThreadTo(k, P, total) = total
  <2>1. k \in Nat /\ k * (P + 1) \in Nat
    BY <1>2, <1>3
  <2>2. k < L - 1 => k \in 0..(L - 2)
    BY <1>2
  <2> QED BY <1>1, <2>1, <2>2 DEF ThreadFrom, ThreadTo, AtMost
<1>5. ASSUME NEW k \in 0..(L - 1)
      PROVE  /\ ThreadFrom(k, P) \in Nat
             /\ ThreadTo(k, P, total) \in Nat
             /\ ThreadFrom(k, P) <= ThreadTo(k, P, total)
             /\ ThreadTo(k, P, total) <= total
  <2>1. k * (P + 1) \in Nat /\ k * (P + 1) <= total /\ P \in Nat
    BY <1>1
  <2>2. /\ ThreadFrom(k, P) = k * (P + 1)
        /\ ThreadTo(k, P, total) =
             IF k * (P + 1) + P <= total THEN k * (P + 1) + P ELSE total
    BY <1>4
  <2> QED BY <2>1, <2>2
<1>6. ASSUME NEW k \in 1..(L - 1)
      PROVE  ThreadTo(k - 1, P, total) + 1 = ThreadFrom(k, P)
  <2>1. k - 1 \in 0..(L - 1) /\ k \in 0..(L - 1) /\ k - 1 < L - 1 /\ k - 1 \in Nat
    BY <1>2
  <2>2. ThreadTo(k - 1, P, total) = (k - 1) * (P + 1) + P
    BY <1>4, <2>1
  <2>3. ThreadFrom(k, P) = k * (P + 1)
    BY <1>4, <2>1
  <2>4. ((k - 1) + 1) * (P + 1) = (k - 1) * (P + 1) + P + 1
    BY <1>3, <2>1
  <2>5. (k - 1) + 1 = k /\ (k - 1) * (P + 1) \in Nat
    BY <1>3, <2>1
  <2> QED BY <1>1, <2>2, <2>3, <2>4, <2>5
<1>7. ASSUME NEW j \in 0..(L - 1), NEW k \in 0..(L - 1), j < k
      PROVE  ThreadTo(j, P, total) < ThreadFrom(k, P)
  <2>1. j \in Nat /\ k \in Nat /\ j < L - 1 /\ j + 1 <= k
    BY <1>2, <1>7
  <2>2. ThreadTo(j, P, total) = j * (P + 1) + P /\ ThreadFrom(k, P) = k * (P + 1)
    BY <1>4, <2>1
  <2>3. (j + 1) * (P + 1) <= k * (P + 1)
    BY <1>1, <2>1, ProductMonotone
  <2>4. (j + 1) * (P + 1) = j * (P + 1) + P + 1 /\ j * (P + 1) \in Nat /\ k * (P + 1) \in Nat
    BY <1>3, <2>1
  <2> QED BY <1>1, <2>2, <2>3, <2>4
<1>8. ASSUME NEW x \in 0..(total - 1)
      PROVE  \/ \E k \in 0..(L - 1) : x \in ThreadFrom(k, P)..(ThreadTo(k, P, total) - 1)
             \/ \E k \in 1..(L - 1) : x + 1 = ThreadFrom(k, P)
  <2> DEFINE k == x \div (P + 1)
             m == x % (P + 1)
  <2>1. k \in Nat /\ x = (P + 1) * k + m /\ m \in 0..P
    <3>1. x \in Nat /\ P + 1 \in Nat \ {0} /\ (P + 1) - 1 = P
      BY <1>1
    <3>2. x \div (P + 1) \in Nat /\ x = (P + 1) * (x \div (P + 1)) + (x % (P + 1))
          /\ x % (P + 1) \in 0..((P + 1) - 1)
      BY <3>1, Division
    <3> QED BY <3>1, <3>2
  <2> HIDE DEF k, m
  <2>2. (P + 1) * k = k * (P + 1) /\ k * (P + 1) \in Nat
        /\ (k + 1) * (P + 1) = k * (P + 1) + P + 1
    BY <1>1, <1>3, <2>1, Z3
  <2>3. k <= L - 1
    <3> SUFFICES ASSUME L <= k PROVE FALSE
      BY <1>2, <2>1
    <3>1. L * (P + 1) <= k * (P + 1)
      <4>1. P + 1 \in Nat /\ L \in Nat
        BY <1>1, <1>2
      <4> QED BY <2>1, <4>1, ProductMonotone
    <3>2. ((L - 1) + 1) * (P + 1) = (L - 1) * (P + 1) + P + 1 /\ (L - 1) * (P + 1) \in Nat
      BY <1>2, <1>3
    <3>3. (L - 1) + 1 = L
      BY <1>2
    <3> QED BY <1>1, <2>1, <2>2, <3>1, <3>2, <3>3
  <2>4. k \in 0..(L - 1)
    BY <1>2, <2>1, <2>3
  <2>5. CASE m < P \/ k = L - 1
    <3>1. x >= ThreadFrom(k, P) /\ x < ThreadTo(k, P, total)
      <4>1. CASE k < L - 1
        BY <1>1, <1>4, <2>1, <2>2, <2>4, <2>5, <4>1
      <4>2. CASE k = L - 1
        <5>1. ThreadFrom(k, P) = k * (P + 1) /\ ThreadTo(k, P, total) = total
          BY <1>4, <2>4, <4>2
        <5>2. P \in Nat
          BY <1>1
        <5> QED BY <2>1, <2>2, <5>1, <5>2
      <4> QED BY <1>2, <2>1, <2>3, <4>1, <4>2
    <3>2. x \in ThreadFrom(k, P)..(ThreadTo(k, P, total) - 1)
      BY <1>5, <2>4, <3>1
    <3> QED BY <2>4, <3>2
  <2>6. CASE m = P /\ k # L - 1
    <3>1. k + 1 \in 1..(L - 1) /\ k + 1 \in 0..(L - 1)
      BY <1>2, <2>1, <2>3, <2>6
    <3>2. x + 1 = ThreadFrom(k + 1, P)
      BY <1>1, <1>4, <2>1, <2>2, <2>6, <3>1
    <3> QED BY <3>1, <3>2
  <2> QED BY <1>1, <2>1, <2>5, <2>6
<1> QED BY <1>5, <1>6, <1>7, <1>8 DEF ThreadsTile

\* A pass with more bytes gets at least as many threads.
LEMMA ThreadCountMonotone ==
  ASSUME NEW threads \in Nat \ {0}, NEW buffer \in Nat \ {0},
         NEW a \in Nat, NEW b \in Nat, a <= b
  PROVE  ThreadCount(threads, a, buffer) <= ThreadCount(threads, b, buffer)
<1> DEFINE C == CeilDiv(a, buffer)
           D == CeilDiv(b, buffer)
<1>1. C \in Nat /\ \A c \in Nat : c < C <=> c * buffer < a
  BY CeilDivBounds
<1>2. D \in Nat /\ \A c \in Nat : c < D <=> c * buffer < b
  BY CeilDivBounds
<1>3. ThreadCount(threads, a, buffer) = (IF C = 0 THEN 1 ELSE AtMost(threads, C))
      /\ ThreadCount(threads, b, buffer) = (IF D = 0 THEN 1 ELSE AtMost(threads, D))
  BY DEF ThreadCount
<1> HIDE DEF C, D
<1>4. C <= D
  <2> SUFFICES ASSUME D < C PROVE FALSE
    BY <1>1, <1>2
  <2>1. D * buffer < a /\ ~(D * buffer < b)
    BY <1>1, <1>2
  <2>2. D * buffer \in Nat
    BY <1>2, ProductMonotone
  <2> QED BY <2>1, <2>2
<1> QED BY <1>1, <1>2, <1>3, <1>4 DEF AtMost

\* C buffers cover a range, in order and without overlap: byte b is in buffer
\* (b - from) \div buffer.
BuffersTile(C, from, to, buffer) ==
  /\ C \in Nat
  /\ C > 1 <=> to - from > buffer
  /\ \A c \in 0..(C - 1) :
       /\ ChunkFrom(from, c, buffer) \in Nat
       /\ ChunkBytes(from, to, c, buffer) \in Nat
       /\ \A b \in ChunkFrom(from, c, buffer)
                     ..(ChunkFrom(from, c, buffer) + ChunkBytes(from, to, c, buffer) - 1) :
            b \in from..(to - 1) /\ (b - from) \div buffer = c
  /\ \A c, d \in 0..(C - 1) :
       c < d => ChunkFrom(from, c, buffer) + ChunkBytes(from, to, c, buffer)
                  <= ChunkFrom(from, d, buffer)
  /\ \A b \in from..(to - 1) :
       LET c == (b - from) \div buffer
       IN  /\ c \in 0..(C - 1)
           /\ b \in ChunkFrom(from, c, buffer)
                     ..(ChunkFrom(from, c, buffer) + ChunkBytes(from, to, c, buffer) - 1)

\* The buffers of a range cover it, in order and without overlap: byte b is in
\* buffer (b - from) \div buffer.
LEMMA BufferTiles ==
  ASSUME NEW from \in Nat, NEW to \in Nat, from <= to, NEW buffer \in Nat \ {0},
         NEW C, C = ChunkTotal(from, to, buffer)
  PROVE  BuffersTile(C, from, to, buffer)
<1>1. to - from \in Nat
  OBVIOUS
<1>2. C \in Nat /\ \A c \in Nat : c < C <=> c * buffer < to - from
  BY <1>1, CeilDivBounds DEF ChunkTotal
<1>3. \A c \in Nat : c * buffer \in Nat
  BY ProductMonotone
<1>4. C > 1 <=> to - from > buffer
  <2>1. 1 * buffer = buffer
    BY Z3
  <2>2. 1 < C <=> buffer < to - from
    BY <1>2, <2>1
  <2> QED BY <1>2, <2>2
<1>5. ASSUME NEW c \in Nat
      PROVE  /\ ChunkFrom(from, c, buffer) = from + c * buffer
             /\ ChunkBytes(from, to, c, buffer) =
                  IF buffer <= to - (from + c * buffer) THEN buffer
                  ELSE to - (from + c * buffer)
  BY DEF ChunkFrom, ChunkBytes, AtMost
<1>6. ASSUME NEW c \in 0..(C - 1)
      PROVE  /\ ChunkFrom(from, c, buffer) \in Nat
             /\ ChunkBytes(from, to, c, buffer) \in Nat
             /\ \A b \in ChunkFrom(from, c, buffer)
                           ..(ChunkFrom(from, c, buffer) + ChunkBytes(from, to, c, buffer) - 1) :
                  b \in from..(to - 1) /\ (b - from) \div buffer = c
  <2>1. c \in Nat /\ c * buffer \in Nat /\ c * buffer < to - from
    BY <1>2, <1>3
  <2>2. ChunkFrom(from, c, buffer) \in Nat /\ ChunkBytes(from, to, c, buffer) \in Nat
    BY <1>5, <2>1
  <2>3. ASSUME NEW b \in ChunkFrom(from, c, buffer)
                     ..(ChunkFrom(from, c, buffer) + ChunkBytes(from, to, c, buffer) - 1)
        PROVE  b \in from..(to - 1) /\ (b - from) \div buffer = c
    <3>1. b - from \in Nat /\ c * buffer <= b - from /\ b - from < c * buffer + buffer
          /\ b \in from..(to - 1)
      BY <1>5, <2>1, <2>2
    <3> QED BY <2>1, <3>1, DivisionUnique
  <2> QED BY <2>2, <2>3
<1>7. ASSUME NEW b \in from..(to - 1)
      PROVE  /\ (b - from) \div buffer \in 0..(C - 1)
             /\ b \in ChunkFrom(from, (b - from) \div buffer, buffer)
                       ..(ChunkFrom(from, (b - from) \div buffer, buffer)
                            + ChunkBytes(from, to, (b - from) \div buffer, buffer) - 1)
  <2> DEFINE c == (b - from) \div buffer
             m == (b - from) % buffer
  <2>1. b - from \in Nat
    OBVIOUS
  <2>2. c \in Nat /\ b - from = buffer * c + m /\ m \in 0..(buffer - 1)
    BY <2>1, Division
  <2> HIDE DEF c, m
  <2>3. c * buffer \in Nat /\ buffer * c = c * buffer
    BY <2>2, Z3
  <2>4. c < C
    <3>1. c * buffer < to - from
      BY <2>2, <2>3
    <3> QED BY <1>2, <2>2, <3>1
  <2>5. c \in 0..(C - 1)
    BY <1>2, <2>2, <2>4
  <2>6. b \in ChunkFrom(from, c, buffer)
               ..(ChunkFrom(from, c, buffer) + ChunkBytes(from, to, c, buffer) - 1)
    BY <1>5, <2>2, <2>3
  <2> QED BY <2>5, <2>6 DEF c
<1>8. ASSUME NEW c \in 0..(C - 1), NEW d \in 0..(C - 1), c < d
      PROVE  ChunkFrom(from, c, buffer) + ChunkBytes(from, to, c, buffer)
               <= ChunkFrom(from, d, buffer)
  <2>1. c \in Nat /\ d \in Nat /\ c + 1 <= d
    BY <1>2, <1>8
  <2>2. c * buffer \in Nat /\ d * buffer \in Nat
    BY <1>3, <2>1
  <2>3. (c + 1) * buffer <= d * buffer /\ (c + 1) * buffer = c * buffer + buffer
    BY <2>1, ProductMonotone, Z3
  <2>4. /\ ChunkFrom(from, c, buffer) = from + c * buffer
        /\ ChunkFrom(from, d, buffer) = from + d * buffer
        /\ ChunkBytes(from, to, c, buffer) \in Nat
        /\ ChunkBytes(from, to, c, buffer) <= buffer
    BY <1>5, <1>6, <2>1, <2>2
  <2> QED BY <2>2, <2>3, <2>4
<1> QED BY <1>2, <1>4, <1>6, <1>7, <1>8 DEF BuffersTile
=============================================================================
