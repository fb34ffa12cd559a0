------------------------- MODULE OffsetListsProofs -------------------------
(***************************************************************************)
(* Proofs about ChunkReduce and OffsetLists, for arrays of any length with *)
(* lists of any length.                                                    *)
(***************************************************************************)
EXTENDS OffsetLists, IndexerLemmas

-----------------------------------------------------------------------------
(* Lists on the heap *)

\* The node behind the first k nodes of a list, NULL at its end.
After(s, k) == IF k = Len(s) THEN NullNode ELSE s[k + 1]

\* The next pointers from n on are those of the list s.
IsList(heap, n, s) ==
  /\ n = After(s, 0)
  /\ \A k \in 1..Len(s) : heap[s[k]] = After(s, k)

\* What Follow finds after one more step.
NextOf(n) == IF n = NullNode THEN NullNode ELSE link[n]

\* f[j] is the node reached from n after j of k steps.
IsFollow(f, n, k) ==
  /\ f = [j \in 0..k |-> f[j]]
  /\ f[0] = n
  /\ \A j \in 1..k : f[j] = NextOf(f[j - 1])

LEMMA NodesFinite ==
  /\ MaxLen * MaxNodes \in Nat
  /\ IsFiniteSet(Nodes) /\ Cardinality(Nodes) = MaxLen * MaxNodes
  /\ Nodes \subseteq Nat /\ NullNode \notin Nodes
<1>1. MaxLen * MaxNodes \in Nat
  BY ReduceAssumption
<1> QED BY <1>1, FS_Interval DEF Nodes, NullNode

LEMMA Pointers ==
  /\ Pointer \subseteq Nat /\ Nodes \subseteq Pointer
  /\ \A p \in Pointer : p # NullNode <=> p \in Nodes
  /\ NullNode = 0 /\ NullNode \in Pointer
BY NodesFinite DEF Pointer, NullNode

LEMMA NodeLists ==
  ASSUME NEW s \in Seq(Nodes)
  PROVE  s \in Seq(Nat)
<1>1. Len(s) \in Nat /\ s \in [1..Len(s) -> Nodes]
  BY LenProperties
<1>2. s \in [1..Len(s) -> Nat]
  BY <1>1, NodesFinite
<1> QED BY <1>1, <1>2, SeqDef

\* A list of nodes by its positions.
LEMMA ListPlaces ==
  ASSUME NEW s \in Seq(Nodes)
  PROVE  /\ Len(s) \in Nat
         /\ \A k \in 1..Len(s) : s[k] \in Nodes /\ s[k] \in Elements(s)
         /\ \A e \in Elements(s) : \E k \in 1..Len(s) : e = s[k]
         /\ Descending(s) => \A j, k \in 1..Len(s) : j < k => s[j] > s[k]
         /\ s = <<>> <=> Len(s) = 0
<1>1. Len(s) \in Nat /\ s \in [1..Len(s) -> Nodes]
  BY LenProperties
<1>2. DOMAIN s = 1..Len(s)
  BY LenProperties
<1>3. s = <<>> <=> Len(s) = 0
  BY EmptySeq
<1>4. Descending(s) => \A j, k \in 1..Len(s) : j < k => s[j] > s[k]
  BY <1>2, Zenon DEF Descending
<1>5. \A e \in Elements(s) : \E k \in 1..Len(s) : e = s[k]
  BY <1>2, Zenon DEF Elements
<1>6. \A k \in 1..Len(s) : s[k] \in Elements(s)
  BY <1>2, Zenon DEF Elements
<1>7. \A k \in 1..Len(s) : s[k] \in Nodes
  BY <1>1
<1> QED BY <1>1, <1>3, <1>4, <1>5, <1>6, <1>7

\* Pointers can be followed for any number of steps.
LEMMA FollowDefined ==
  ASSUME NEW n
  PROVE  \A k \in Nat : \E f : IsFollow(f, n, k)
<1> DEFINE T == {k \in Nat : \E f : IsFollow(f, n, k)}
<1>1. 0 \in T
  <2>1. IsFollow([j \in 0..0 |-> n], n, 0)
    BY DEF IsFollow
  <2> QED BY <2>1
<1>2. ASSUME NEW k \in Nat, k \in T PROVE k + 1 \in T
  <2>1. PICK f : IsFollow(f, n, k)
    BY <1>2
  <2> DEFINE g == [j \in 0..(k + 1) |-> IF j = k + 1 THEN NextOf(f[k]) ELSE f[j]]
  <2>2. \A j \in 0..k : g[j] = f[j]
    OBVIOUS
  <2>3. g[k + 1] = NextOf(g[k])
    BY <2>2
  <2>4. ASSUME NEW j \in 1..(k + 1) PROVE g[j] = NextOf(g[j - 1])
    <3>1. CASE j = k + 1
      BY <2>3, <3>1
    <3>2. CASE j # k + 1
      <4>1. j \in 0..k /\ j - 1 \in 0..k /\ j \in 1..k
        BY <3>2
      <4> QED BY <2>1, <2>2, <4>1 DEF IsFollow
    <3> QED BY <3>1, <3>2
  <2>5. g = [j \in 0..(k + 1) |-> g[j]] /\ g[0] = n
    BY <2>1, <2>2 DEF IsFollow
  <2> HIDE DEF g
  <2>6. IsFollow(g, n, k + 1)
    BY <2>4, <2>5 DEF IsFollow
  <2> QED BY <2>6
<1> HIDE DEF T
<1>3. Nat \subseteq T
  BY <1>1, <1>2, SetInduction
<1> QED BY <1>3 DEF T

\* Follow is where they lead.
LEMMA FollowEnd ==
  ASSUME NEW n, NEW k \in Nat
  PROVE  \E f : IsFollow(f, n, k) /\ Follow(n, k) = f[k]
<1> DEFINE Body(x) == [j \in 0..k |->
             IF j = 0 THEN n
             ELSE IF x[j - 1] = NullNode THEN NullNode ELSE link[x[j - 1]]]
           v == CHOOSE x : x = Body(x)
<1>1. PICK f : IsFollow(f, n, k)
  BY FollowDefined
<1>2. f = Body(f)
  <2>1. \A j \in 0..k : j # 0 => j \in 1..k
    OBVIOUS
  <2> QED BY <1>1, <2>1 DEF IsFollow, NextOf
<1>3. v = Body(v)
  <2> HIDE DEF Body
  <2> QED BY <1>2
<1>4. Follow(n, k) = v[k]
  BY DEF Follow
<1>5. IsFollow(v, n, k)
  <2> HIDE DEF v
  <2>1. v = [j \in 0..k |-> v[j]]
    BY <1>3
  <2>2. v[0] = n
    BY <1>3
  <2>3. \A j \in 1..k : v[j] = NextOf(v[j - 1])
    BY <1>3 DEF NextOf
  <2> QED BY <2>1, <2>2, <2>3 DEF IsFollow
<1> QED BY <1>4, <1>5

LEMMA FollowStep ==
  ASSUME NEW n, NEW k \in Nat
  PROVE  Follow(n, 0) = n /\ Follow(n, k + 1) = NextOf(Follow(n, k))
<1>1. PICK f : IsFollow(f, n, k) /\ Follow(n, k) = f[k]
  BY FollowEnd
<1>2. PICK g : IsFollow(g, n, k + 1) /\ Follow(n, k + 1) = g[k + 1]
  BY FollowEnd
<1>3. Follow(n, 0) = n
  BY FollowEnd DEF IsFollow
<1> DEFINE T == {j \in Nat : j <= k => f[j] = g[j]}
<1>4. 0 \in T
  BY <1>1, <1>2 DEF IsFollow
<1>5. ASSUME NEW j \in Nat, j \in T PROVE j + 1 \in T
  <2> SUFFICES ASSUME j + 1 <= k PROVE f[j + 1] = g[j + 1]
    OBVIOUS
  <2>1. f[j] = g[j] /\ j + 1 \in 1..k /\ j + 1 \in 1..(k + 1) /\ (j + 1) - 1 = j
    BY <1>5
  <2>2. f[j + 1] = NextOf(f[(j + 1) - 1])
    BY <1>1, <2>1 DEF IsFollow
  <2>3. g[j + 1] = NextOf(g[(j + 1) - 1])
    BY <1>2, <2>1 DEF IsFollow
  <2> QED BY <2>1, <2>2, <2>3
<1> HIDE DEF T
<1>6. k \in T
  BY <1>4, <1>5, SetInduction
<1>7. g[k + 1] = NextOf(g[k])
  <2>1. k + 1 \in 1..(k + 1) /\ (k + 1) - 1 = k
    OBVIOUS
  <2>2. g[k + 1] = NextOf(g[(k + 1) - 1])
    BY <1>2, <2>1 DEF IsFollow
  <2> QED BY <2>1, <2>2
<1> QED BY <1>1, <1>2, <1>3, <1>6, <1>7 DEF T

\* Every pointer leads to a smaller node.
Linked == link \in [Nodes -> Pointer] /\ \A n \in Nodes : link[n] < n

\* Then following the pointers for as many steps as there are nodes ends.
LEMMA LinkedEnds ==
  ASSUME Linked
  PROVE  ListsEnd
<1> SUFFICES ASSUME NEW n \in Nodes PROVE Follow(n, Cardinality(Nodes)) = NullNode
  BY DEF ListsEnd
<1> DEFINE Near(k) == /\ Follow(n, k) \in Pointer
                      /\ Follow(n, k) = NullNode \/ Follow(n, k) <= n - k
           T == {k \in Nat : Near(k)}
<1>1. 0 \in T
  BY FollowStep, NodesFinite DEF Pointer
<1>2. ASSUME NEW k \in Nat, k \in T PROVE k + 1 \in T
  <2>1. Follow(n, k + 1) = NextOf(Follow(n, k))
    BY FollowStep
  <2>2. CASE Follow(n, k) = NullNode
    BY <2>1, <2>2 DEF NextOf, Pointer
  <2>3. CASE Follow(n, k) # NullNode
    <3>1. Follow(n, k) \in Nodes /\ Follow(n, k) <= n - k
      BY <1>2, <2>3 DEF Pointer
    <3>2. Follow(n, k + 1) = link[Follow(n, k)]
      BY <2>1, <2>3 DEF NextOf
    <3>3. link[Follow(n, k)] \in Pointer /\ link[Follow(n, k)] < Follow(n, k)
      BY <3>1 DEF Linked
    <3>4. n \in Nat /\ Follow(n, k) \in Nat /\ Follow(n, k + 1) \in Nat
      BY <3>1, <3>2, <3>3, Pointers
    <3> QED BY <3>1, <3>2, <3>3, <3>4
  <2> QED BY <2>2, <2>3
<1> HIDE DEF T
<1>3. Cardinality(Nodes) \in T
  BY <1>1, <1>2, SetInduction, NodesFinite
<1>4. n <= Cardinality(Nodes)
  BY NodesFinite DEF Nodes
<1>5. n \in Nat /\ Cardinality(Nodes) \in Nat
  BY NodesFinite
<1>6. Near(Cardinality(Nodes))
  BY <1>3 DEF T
<1> DEFINE m == Follow(n, Cardinality(Nodes))
<1>7. m \in Nat /\ (m = NullNode \/ m <= n - Cardinality(Nodes))
  BY <1>6, Pointers
<1> HIDE DEF m
<1>8. m # NullNode => m = 0
  BY <1>4, <1>5, <1>7
<1>9. m = NullNode
  BY <1>8 DEF NullNode
<1> QED BY <1>9 DEF m

\* A list of nodes is what ListFrom reads from its first node.
LEMMA ListRead ==
  ASSUME NEW n, NEW s \in Seq(Nodes), Descending(s), IsList(link, n, s)
  PROVE  ListFrom(n) = s
<1>1. Len(s) \in Nat /\ \A k \in 1..Len(s) : s[k] \in Nodes
  BY ListPlaces
<1>2. Len(s) <= Cardinality(Nodes) /\ Cardinality(Nodes) \in Nat
  <2>1. s \in Seq(Nat)
    BY NodeLists
  <2>2. Elements(s) \subseteq Nodes
    BY ListPlaces
  <2> QED BY <2>1, <2>2, DescendingLen, NodesFinite, FS_Subset
<1> DEFINE T == {k \in Nat : k <= Len(s) => Follow(n, k) = After(s, k)}
<1>3. 0 \in T
  BY FollowStep DEF IsList
<1>4. ASSUME NEW k \in Nat, k \in T PROVE k + 1 \in T
  <2> SUFFICES ASSUME k + 1 <= Len(s) PROVE Follow(n, k + 1) = After(s, k + 1)
    OBVIOUS
  <2>1. Follow(n, k) = s[k + 1] /\ k + 1 \in 1..Len(s)
    BY <1>1, <1>4 DEF After
  <2>2. s[k + 1] # NullNode
    BY <1>1, <2>1, NodesFinite
  <2>3. Follow(n, k + 1) = NextOf(Follow(n, k))
    BY FollowStep
  <2>4. NextOf(s[k + 1]) = link[s[k + 1]]
    BY <2>2 DEF NextOf
  <2> QED BY <2>1, <2>3, <2>4 DEF IsList
<1> HIDE DEF T
<1>5. \A k \in 0..Len(s) : Follow(n, k) = After(s, k)
  <2>1. Nat \subseteq T
    BY <1>3, <1>4, SetInduction
  <2> QED BY <1>1, <2>1 DEF T
<1>6. \A k \in 0..(Len(s) - 1) : Follow(n, k) = s[k + 1] /\ Follow(n, k) # NullNode
  BY <1>1, <1>5, NodesFinite DEF After
<1>7. Follow(n, Len(s)) = NullNode
  BY <1>1, <1>5 DEF After
<1>8. Length(n) = Len(s)
  <2> DEFINE Ends(k) == /\ Follow(n, k) = NullNode
                        /\ \A j \in 0..(k - 1) : Follow(n, j) # NullNode
  <2>1. Len(s) \in 0..Cardinality(Nodes) /\ Ends(Len(s))
    BY <1>1, <1>2, <1>6, <1>7
  <2>2. ASSUME NEW k \in 0..Cardinality(Nodes), Ends(k) PROVE k = Len(s)
    <3>1. ~(k < Len(s))
      BY <1>1, <1>6, <2>2
    <3>2. ~(k > Len(s))
      BY <1>1, <1>2, <1>7, <2>2
    <3> QED BY <1>1, <1>2, <3>1, <3>2
  <2>3. Length(n) = CHOOSE k \in 0..Cardinality(Nodes) : Ends(k)
    BY DEF Length
  <2> HIDE DEF Ends
  <2> QED BY <2>1, <2>2, <2>3
<1>9. s = [k \in 1..Len(s) |-> s[k]]
  BY LenProperties
<1>10. \A k \in 1..Len(s) : Follow(n, k - 1) = s[k]
  BY <1>1, <1>6
<1> QED BY <1>8, <1>9, <1>10 DEF ListFrom

\* An assignment to the pointer of a node that is not in a list leaves the list.
LEMMA ListKept ==
  ASSUME NEW heap \in [Nodes -> Pointer], NEW n, NEW s \in Seq(Nodes), IsList(heap, n, s),
         NEW m, NEW x, m \notin Elements(s)
  PROVE  IsList([heap EXCEPT ![m] = x], n, s)
<1>1. \A k \in 1..Len(s) : s[k] \in Nodes /\ s[k] # m
  BY ListPlaces
<1> QED BY <1>1 DEF IsList

\* A list linked behind the last node of another.
LEMMA ListLinked ==
  ASSUME NEW heap \in [Nodes -> Pointer],
         NEW s \in Seq(Nodes), Descending(s), s # <<>>, IsList(heap, After(s, 0), s),
         NEW m, NEW t \in Seq(Nodes), IsList(heap, m, t), Elements(s) \cap Elements(t) = {}
  PROVE  IsList([heap EXCEPT ![Tail1(s)] = m], After(s, 0), s \o t)
<1> DEFINE g == [heap EXCEPT ![Tail1(s)] = m]
<1>1. /\ Len(s) \in Nat /\ Len(s) # 0 /\ \A k \in 1..Len(s) : s[k] \in Nodes
      /\ Len(t) \in Nat /\ \A k \in 1..Len(t) : t[k] \in Nodes
  BY ListPlaces
<1>2. /\ Len(s \o t) = Len(s) + Len(t)
      /\ \A k \in 1..(Len(s) + Len(t)) :
           (s \o t)[k] = IF k <= Len(s) THEN s[k] ELSE t[k - Len(s)]
      /\ s \o t \in Seq(Nodes)
  BY ConcatProperties
<1>4. Tail1(s) = s[Len(s)]
  BY DEF Tail1
<1>5. After(s \o t, 0) = After(s, 0)
  BY <1>1, <1>2 DEF After
<1>6. ASSUME NEW k \in 1..(Len(s) + Len(t)), k < Len(s)
      PROVE  g[(s \o t)[k]] = After(s \o t, k)
  <2>1. k \in 1..Len(s) /\ k + 1 \in 1..Len(s) /\ s[k] \in Nodes /\ (s \o t)[k] = s[k]
    BY <1>1, <1>2, <1>6
  <2>2. s[k] # s[Len(s)]
    <3>1. Len(s) \in 1..Len(s)
      BY <1>1
    <3>2. s[k] > s[Len(s)]
      BY <1>6, <2>1, <3>1, ListPlaces
    <3>3. s[k] \in Nat
      BY <2>1, NodesFinite
    <3> QED BY <3>2, <3>3
  <2>3. g[s[k]] = heap[s[k]]
    BY <1>4, <2>1, <2>2
  <2>4. heap[s[k]] = s[k + 1]
    BY <1>1, <1>6, <2>1 DEF IsList, After
  <2>5. After(s \o t, k) = s[k + 1]
    <3>1. k # Len(s) + Len(t) /\ k + 1 \in 1..(Len(s) + Len(t)) /\ k + 1 <= Len(s)
      BY <1>1, <1>6
    <3> QED BY <1>2, <3>1 DEF After
  <2> QED BY <2>1, <2>3, <2>4, <2>5
<1>7. g[(s \o t)[Len(s)]] = After(s \o t, Len(s))
  <2>1. (s \o t)[Len(s)] = Tail1(s) /\ Tail1(s) \in Nodes
    BY <1>1, <1>2, <1>4
  <2>2. g[Tail1(s)] = m
    BY <2>1
  <2>3. After(s \o t, Len(s)) = After(t, 0)
    <3>1. CASE Len(t) = 0
      BY <1>1, <1>2, <3>1 DEF After
    <3>2. CASE Len(t) # 0
      <4>1. /\ Len(s) + 1 \in 1..(Len(s) + Len(t)) /\ ~(Len(s) + 1 <= Len(s))
            /\ (Len(s) + 1) - Len(s) = 1 /\ Len(s) # Len(s) + Len(t)
        BY <1>1, <3>2
      <4>2. (s \o t)[Len(s) + 1] = t[1]
        BY <1>2, <4>1
      <4> QED BY <1>1, <1>2, <3>2, <4>1, <4>2 DEF After
    <3> QED BY <3>1, <3>2
  <2> QED BY <2>1, <2>2, <2>3 DEF IsList
<1>8. ASSUME NEW k \in 1..(Len(s) + Len(t)), k > Len(s)
      PROVE  g[(s \o t)[k]] = After(s \o t, k)
  <2> DEFINE j == k - Len(s)
  <2>1. j \in 1..Len(t) /\ (s \o t)[k] = t[j] /\ t[j] \in Nodes
    BY <1>1, <1>2, <1>8
  <2>2. t[j] # Tail1(s)
    <3>1. t[j] \in Elements(t)
      BY <2>1, ListPlaces
    <3>2. Tail1(s) \in Elements(s)
      <4>1. Len(s) \in 1..Len(s)
        BY <1>1
      <4> QED BY <1>4, <4>1, ListPlaces
    <3> QED BY <3>1, <3>2
  <2>3. g[t[j]] = After(t, j)
    BY <2>1, <2>2 DEF IsList
  <2>4. After(s \o t, k) = After(t, j)
    <3>1. CASE k = Len(s) + Len(t)
      BY <1>1, <1>2, <3>1 DEF After
    <3>2. CASE k # Len(s) + Len(t)
      <4>1. /\ k + 1 \in 1..(Len(s) + Len(t)) /\ ~(k + 1 <= Len(s))
            /\ (k + 1) - Len(s) = j + 1 /\ j # Len(t)
        BY <1>1, <1>8, <3>2
      <4>2. (s \o t)[k + 1] = t[j + 1]
        BY <1>2, <4>1
      <4> QED BY <1>2, <3>2, <4>1, <4>2 DEF After
    <3> QED BY <3>1, <3>2
  <2> QED BY <2>1, <2>3, <2>4
<1>9. \A k \in 1..Len(s \o t) : g[(s \o t)[k]] = After(s \o t, k)
  <2> SUFFICES ASSUME NEW k \in 1..(Len(s) + Len(t))
               PROVE  g[(s \o t)[k]] = After(s \o t, k)
    BY <1>2
  <2>1. k < Len(s) \/ k = Len(s) \/ k > Len(s)
    BY <1>1
  <2> HIDE DEF g
  <2> QED BY <1>6, <1>7, <1>8, <2>1
<1> QED BY <1>5, <1>9 DEF IsList

-----------------------------------------------------------------------------
(* The array of chunks *)

\* The lists of the array are disjoint and descending, the nodes of each above
\* those of the earlier ones; a chunk has the last node of its list, and the first
\* unless a reduction has lost it, which happens to lists of a single node.
ArrayShape ==
  /\ len \in 1..MaxLen
  /\ DOMAIN lists = 0..(len - 1)
  /\ array \in [0..(len - 1) -> [first : Pointer, last : Pointer, empty : BOOLEAN]]
  /\ \A c \in 0..(len - 1) :
       /\ lists[c] \in Seq(Nodes)
       /\ Descending(lists[c])
       /\ array[c].last = Tail1(lists[c])
       /\ array[c].empty <=> lists[c] = <<>>
       /\ array[c].first = NullNode \/ array[c].first = After(lists[c], 0)
       /\ lists[c] = <<>> => array[c].first = NullNode
  /\ \A c, d \in 0..(len - 1) :
       c < d => \A a \in Elements(lists[c]), b \in Elements(lists[d]) : a < b

\* A list as Init makes it.
LEMMA ListOfShape ==
  ASSUME NEW c \in 0..(MaxLen - 1), NEW n \in 0..MaxNodes
  PROVE  /\ ListOf(c, n) \in Seq(Nodes)
         /\ Len(ListOf(c, n)) = n
         /\ Descending(ListOf(c, n))
         /\ \A k \in 1..n : ListOf(c, n)[k] = c * MaxNodes + n + 1 - k
         /\ \A e \in Elements(ListOf(c, n)) :
              e \in Nat /\ c * MaxNodes < e /\ e <= c * MaxNodes + MaxNodes
         /\ c * MaxNodes \in Nat
<1> DEFINE s == ListOf(c, n)
           m == c * MaxNodes
<1>1. m \in Nat /\ m + MaxNodes <= MaxLen * MaxNodes /\ MaxNodes \in Nat /\ MaxLen \in Nat
  <2>1. /\ (c + 1) * MaxNodes <= MaxLen * MaxNodes
        /\ (c + 1) * MaxNodes = m + MaxNodes /\ m \in Nat
    BY ReduceAssumption, ProductMonotone
  <2> QED BY <2>1, ReduceAssumption
<1> HIDE DEF m
<1>2. s = [k \in 1..n |-> m + n + 1 - k]
  BY DEF ListOf, m
<1> HIDE DEF s
<1>3. \A k \in 1..n : m + n + 1 - k \in Nodes
  <2>1. MaxLen * MaxNodes \in Nat
    BY NodesFinite
  <2> QED BY <1>1, <2>1 DEF Nodes
<1>4. s \in [1..n -> Nodes]
  BY <1>2, <1>3
<1>5. s \in Seq(Nodes) /\ Len(s) = n
  <2>1. n \in Nat
    BY <1>1
  <2>2. s \in Seq(Nodes)
    BY <1>4, <2>1, SeqDef
  <2>3. DOMAIN s = 1..n
    BY <1>4
  <2>4. DOMAIN s = 1..Len(s) /\ Len(s) \in Nat
    BY <2>2, LenProperties
  <2> QED BY <2>1, <2>2, <2>3, <2>4
<1>6. \A k \in 1..n : s[k] = m + n + 1 - k
  BY <1>2
<1>7. Descending(s)
  <2> SUFFICES ASSUME NEW j \in DOMAIN s, NEW k \in DOMAIN s, j < k PROVE s[j] > s[k]
    BY DEF Descending
  <2>1. j \in 1..n /\ k \in 1..n
    BY <1>4
  <2>2. s[j] = m + n + 1 - j /\ s[k] = m + n + 1 - k
    BY <1>6, <2>1
  <2> QED BY <1>1, <2>1, <2>2
<1>8. \A e \in Elements(s) : e \in Nat /\ m < e /\ e <= m + MaxNodes
  <2> SUFFICES ASSUME NEW e \in Elements(s)
               PROVE  e \in Nat /\ m < e /\ e <= m + MaxNodes
    OBVIOUS
  <2>1. PICK k \in 1..n : e = s[k]
    BY <1>5, ListPlaces
  <2>2. e = m + n + 1 - k
    BY <1>6, <2>1
  <2> QED BY <1>1, <2>1, <2>2
<1> QED BY <1>1, <1>5, <1>6, <1>7, <1>8 DEF s, m

\* The nodes of the lists of an array, and their pointers, as they are before the
\* reduction.
LEMMA InitShape ==
  ASSUME Init
  PROVE  /\ ArrayShape
         /\ Linked
         /\ \A c \in 0..(len - 1) : IsList(link, After(lists[c], 0), lists[c])
<1>1. PICK length \in 1..MaxLen :
        \E sizes \in [0..(length - 1) -> 0..MaxNodes] :
        \E lost \in SUBSET {c \in 0..(length - 1) : sizes[c] = 1} :
          /\ lists = [c \in 0..(length - 1) |-> ListOf(c, sizes[c])]
          /\ array = [c \in 0..(length - 1) |->
                        ChunkOf(ListOf(c, sizes[c]), c \in lost)]
  BY DEF Init
<1>2. PICK sizes \in [0..(length - 1) -> 0..MaxNodes] :
        \E lost \in SUBSET {c \in 0..(length - 1) : sizes[c] = 1} :
          /\ lists = [c \in 0..(length - 1) |-> ListOf(c, sizes[c])]
          /\ array = [c \in 0..(length - 1) |->
                        ChunkOf(ListOf(c, sizes[c]), c \in lost)]
  BY <1>1
<1>3. PICK lost \in SUBSET {c \in 0..(length - 1) : sizes[c] = 1} :
          /\ lists = [c \in 0..(length - 1) |-> ListOf(c, sizes[c])]
          /\ array = [c \in 0..(length - 1) |->
                        ChunkOf(ListOf(c, sizes[c]), c \in lost)]
  BY <1>2
<1>4. link = LinksOf(lists)
  BY DEF Init
<1>5. MaxLen \in Nat /\ MaxNodes \in Nat /\ length \in Nat /\ length # 0
  BY ReduceAssumption
<1>6. len = length /\ DOMAIN lists = 0..(length - 1)
  <2>1. DOMAIN lists = 0..(length - 1)
    BY <1>3
  <2>2. Cardinality(0..(length - 1)) = length
    BY <1>5, FS_Interval
  <2> QED BY <2>1, <2>2 DEF len
<1>7. ASSUME NEW c \in 0..(length - 1)
      PROVE  /\ c \in 0..(MaxLen - 1) /\ sizes[c] \in 0..MaxNodes
             /\ lists[c] = ListOf(c, sizes[c])
             /\ array[c] = ChunkOf(lists[c], c \in lost)
  BY <1>1, <1>2, <1>3, <1>5, <1>7
<1>8. ASSUME NEW c \in 0..(length - 1)
      PROVE  /\ lists[c] \in Seq(Nodes)
             /\ Descending(lists[c])
             /\ Len(lists[c]) = sizes[c] /\ sizes[c] \in Nat
             /\ \A k \in 1..Len(lists[c]) :
                  lists[c][k] = c * MaxNodes + Len(lists[c]) + 1 - k
             /\ \A e \in Elements(lists[c]) :
                  e \in Nat /\ c * MaxNodes < e /\ e <= c * MaxNodes + MaxNodes
             /\ c * MaxNodes \in Nat
  <2>1. c \in 0..(MaxLen - 1) /\ sizes[c] \in 0..MaxNodes /\ lists[c] = ListOf(c, sizes[c])
    BY <1>7
  <2>2. sizes[c] \in Nat
    BY <1>5, <2>1
  <2> QED BY <2>1, <2>2, ListOfShape
<1>9. ASSUME NEW c \in 0..(length - 1), NEW d \in 0..(length - 1), c < d,
             NEW a \in Elements(lists[c]), NEW b \in Elements(lists[d])
      PROVE  a < b
  <2>1. a \in Nat /\ a <= c * MaxNodes + MaxNodes /\ c * MaxNodes \in Nat
    BY <1>8
  <2>2. b \in Nat /\ d * MaxNodes < b /\ d * MaxNodes \in Nat
    BY <1>8
  <2>3. (c + 1) * MaxNodes <= d * MaxNodes /\ (c + 1) * MaxNodes = c * MaxNodes + MaxNodes
    BY <1>5, <1>9, ProductMonotone
  <2> DEFINE p == c * MaxNodes
             q == d * MaxNodes
  <2>4. p \in Nat /\ q \in Nat /\ a <= p + MaxNodes /\ q < b /\ p + MaxNodes <= q
    BY <2>1, <2>2, <2>3
  <2> HIDE DEF p, q
  <2> QED BY <1>5, <2>1, <2>2, <2>4
<1>10. ASSUME NEW c \in 0..(length - 1)
       PROVE  /\ array[c] \in [first : Pointer, last : Pointer, empty : BOOLEAN]
              /\ array[c].last = Tail1(lists[c])
              /\ array[c].empty <=> lists[c] = <<>>
              /\ array[c].first = NullNode \/ array[c].first = After(lists[c], 0)
              /\ lists[c] = <<>> => array[c].first = NullNode
  <2> DEFINE s == lists[c]
  <2>1. array[c] = ChunkOf(s, c \in lost) /\ s \in Seq(Nodes)
    BY <1>7, <1>8
  <2>2. CASE s = <<>>
    <3>1. array[c] = [first |-> NullNode, last |-> NullNode, empty |-> TRUE]
      BY <2>1, <2>2 DEF ChunkOf, Tail1
    <3> QED BY <2>2, <3>1, Pointers DEF Tail1
  <2>3. CASE s # <<>>
    <3> HIDE DEF s
    <3>1. Len(s) \in Nat /\ Len(s) # 0 /\ s[1] \in Nodes /\ s[Len(s)] \in Nodes
      <4>1. Len(s) \in Nat /\ Len(s) # 0
        BY <2>1, <2>3, ListPlaces
      <4>2. 1 \in 1..Len(s) /\ Len(s) \in 1..Len(s)
        BY <4>1
      <4> QED BY <2>1, <4>1, <4>2, ListPlaces
    <3>2. After(s, 0) = s[1] /\ Tail1(s) = s[Len(s)]
      BY <2>3, <3>1 DEF After, Tail1
    <3>3. array[c] = [first |-> IF c \in lost THEN NullNode ELSE s[1],
                      last  |-> s[Len(s)], empty |-> FALSE]
      BY <2>1, <2>3, <3>2 DEF ChunkOf
    <3>4. s[1] \in Pointer /\ s[Len(s)] \in Pointer /\ NullNode \in Pointer
      BY <3>1, Pointers
    <3> QED BY <2>3, <3>2, <3>3, <3>4 DEF s
  <2> QED BY <2>2, <2>3
<1>11. ArrayShape
  <2>1. array \in [0..(len - 1) -> [first : Pointer, last : Pointer, empty : BOOLEAN]]
    BY <1>3, <1>6, <1>10
  <2> HIDE DEF len
  <2> QED BY <1>6, <1>8, <1>9, <1>10, <2>1 DEF ArrayShape
<1>12. Linked
  <2> DEFINE Inner(n) == \E c \in DOMAIN lists : \E k \in 1..(Len(lists[c]) - 1) :
                           lists[c][k] = n
  <2>1. link = [n \in Nodes |-> IF Inner(n) THEN n - 1 ELSE NullNode]
    BY <1>4 DEF LinksOf
  <2>2. ASSUME NEW n \in Nodes PROVE n - 1 \in Pointer /\ n - 1 < n /\ NullNode < n
    <3>1. n \in 1..(MaxLen * MaxNodes) /\ MaxLen * MaxNodes \in Nat
      BY NodesFinite DEF Nodes
    <3>2. n - 1 = 0 \/ n - 1 \in 1..(MaxLen * MaxNodes)
      BY <3>1
    <3> QED BY <3>1, <3>2 DEF Pointer, Nodes, NullNode
  <2> HIDE DEF Inner
  <2> QED BY <2>1, <2>2, Pointers DEF Linked
<1>13. ASSUME NEW c \in 0..(length - 1)
       PROVE  IsList(link, After(lists[c], 0), lists[c])
  <2> SUFFICES ASSUME NEW k \in 1..Len(lists[c])
               PROVE  link[lists[c][k]] = After(lists[c], k)
    BY DEF IsList
  <2> DEFINE s == lists[c]
             n == s[k]
             Inner == \E d \in DOMAIN lists : \E j \in 1..(Len(lists[d]) - 1) :
                        lists[d][j] = n
  <2>1. s \in Seq(Nodes) /\ Len(s) \in Nat /\ n \in Nodes
    BY <1>8, ListPlaces
  <2>2. link[n] = IF Inner THEN n - 1 ELSE NullNode
    BY <1>4, <2>1 DEF LinksOf
  <2>3. CASE k < Len(s)
    <3>1. k \in 1..(Len(s) - 1) /\ k + 1 \in 1..Len(s) /\ k # Len(s)
      BY <2>1, <2>3
    <3>2. Inner
      BY <1>6, <3>1
    <3>3. s[k] = c * MaxNodes + Len(s) + 1 - k /\ s[k + 1] = c * MaxNodes + Len(s) + 1 - (k + 1)
      BY <1>8, <3>1
    <3>4. c * MaxNodes \in Nat
      BY <1>8
    <3>5. s[k + 1] = n - 1
      BY <2>1, <3>1, <3>3, <3>4
    <3> QED BY <2>2, <3>1, <3>2, <3>5 DEF After
  <2>4. CASE k = Len(s)
    <3>1. ~Inner
      <4> SUFFICES ASSUME NEW d \in DOMAIN lists, NEW j \in 1..(Len(lists[d]) - 1),
                          lists[d][j] = n
                   PROVE  FALSE
        OBVIOUS
      <4>1. /\ d \in 0..(length - 1) /\ c \in 0..(length - 1)
            /\ lists[d] \in Seq(Nodes) /\ Len(lists[d]) \in Nat
        BY <1>6, <1>8
      <4>2. j \in 1..Len(lists[d]) /\ j < Len(lists[d])
        BY <4>1
      <4>3. n \in Elements(lists[d]) /\ n \in Elements(s) /\ n \in Nat
        BY <2>1, <4>1, <4>2, ListPlaces, NodesFinite
      <4>4. d = c
        <5>1. ~(c < d)
          <6> SUFFICES ASSUME c < d PROVE n < n
            BY <4>3
          <6> QED BY <1>9, <4>1, <4>3
        <5>2. ~(d < c)
          <6> SUFFICES ASSUME d < c PROVE n < n
            BY <4>3
          <6> QED BY <1>9, <4>1, <4>3
        <5> QED BY <1>5, <4>1, <5>1, <5>2
      <4>5. s[j] > s[k]
        BY <1>8, <2>1, <2>4, <4>2, <4>4, ListPlaces
      <4> QED BY <4>3, <4>4, <4>5
    <3> QED BY <2>2, <2>4, <3>1 DEF After
  <2> QED BY <2>1, <2>3, <2>4
<1> HIDE DEF len
<1> QED BY <1>6, <1>11, <1>12, <1>13

\* The chunks in the terms of module Chunks are in order, and the list of each is
\* that of the array unless its first node is lost.
LEMMA ChunkedShape ==
  ASSUME ArrayShape
  PROVE  /\ len \in Nat
         /\ \A n \in 0..len : Ordered(Chunked, n)
         /\ \A c \in 0..(len - 1) :
              /\ Chunked[c].first = IF array[c].first = NullNode THEN <<>> ELSE lists[c]
              /\ Chunked[c].last = array[c].last
              /\ Chunked[c].empty = array[c].empty
              /\ Elements(Chunked[c].first) \subseteq Elements(lists[c])
              /\ Chunked[c].first \in Seq(Nodes)
<1>1. /\ len \in Nat /\ len # 0
      /\ DOMAIN lists = 0..(len - 1)
  BY ReduceAssumption DEF ArrayShape
<1> HIDE DEF len
<1>2. ASSUME NEW c \in 0..(len - 1)
      PROVE  /\ Chunked[c].first = IF array[c].first = NullNode THEN <<>> ELSE lists[c]
             /\ Chunked[c].last = array[c].last
             /\ Chunked[c].empty = array[c].empty
             /\ Chunked[c].current = c
             /\ Chunked[c].line_count = Len(lists[c])
             /\ Chunked[c] = [current |-> c, first |-> Chunked[c].first,
                              last |-> Chunked[c].last, empty |-> Chunked[c].empty,
                              line_count |-> Chunked[c].line_count]
  <2>1. Chunked[c] = AsChunk(c)
    BY <1>1 DEF Chunked
  <2> QED BY <2>1 DEF AsChunk
<1>3. ASSUME NEW c \in 0..(len - 1)
      PROVE  /\ Elements(Chunked[c].first) \subseteq Elements(lists[c])
             /\ Chunked[c].first \in Seq(Nodes)
             /\ Descending(Chunked[c].first)
  <2>1. lists[c] \in Seq(Nodes) /\ Descending(lists[c])
    BY DEF ArrayShape
  <2>2. <<>> \in Seq(Nodes) /\ Elements(<<>>) = {} /\ Descending(<<>>)
    BY EmptySeq, ElementsEmpty
  <2>3. Chunked[c].first = <<>> \/ Chunked[c].first = lists[c]
    BY <1>2
  <2> QED BY <2>1, <2>2, <2>3
<1>4. ASSUME NEW c \in 0..(len - 1)
      PROVE  Chunked[c] \in Chunk(Nat)
  <2>1. Chunked[c].first \in Seq(Nat)
    BY <1>3, NodeLists
  <2>2. Chunked[c].last \in Nat /\ Chunked[c].empty \in BOOLEAN
    <3>1. array[c] \in [first : Pointer, last : Pointer, empty : BOOLEAN]
      BY DEF ArrayShape
    <3>2. array[c].last \in Nat /\ array[c].empty \in BOOLEAN
      BY <3>1, Pointers
    <3> QED BY <1>2, <3>2
  <2>3. Chunked[c].line_count \in Nat
    <3>1. lists[c] \in Seq(Nodes)
      BY DEF ArrayShape
    <3>2. Len(lists[c]) \in Nat
      BY <3>1, LenProperties
    <3> QED BY <1>2, <3>2
  <2>4. c \in Nat
    BY <1>1
  <2> DEFINE x == Chunked[c]
  <2>5. x = [current |-> c, first |-> x.first, last |-> x.last, empty |-> x.empty,
             line_count |-> x.line_count]
    BY <1>2
  <2> HIDE DEF x
  <2>6. x.first \in Seq(Nat) /\ x.last \in Nat /\ x.empty \in BOOLEAN /\ x.line_count \in Nat
    BY <2>1, <2>2, <2>3 DEF x
  <2>7. x \in Chunk(Nat)
    BY <2>4, <2>5, <2>6 DEF Chunk
  <2> QED BY <2>7 DEF x
<1>5. ASSUME NEW c \in 0..(len - 1), NEW d \in 0..(len - 1), c < d,
             NEW a \in Elements(Chunked[c].first), NEW b \in Elements(Chunked[d].first)
      PROVE  a < b
  <2>1. a \in Elements(lists[c]) /\ b \in Elements(lists[d])
    BY <1>3
  <2> QED BY <1>5, <2>1 DEF ArrayShape
<1>6. ASSUME NEW n \in 0..len PROVE Ordered(Chunked, n)
  <2>1. \A c \in 0..(n - 1) : c \in 0..(len - 1)
    BY <1>1
  <2> QED BY <1>3, <1>4, <1>5, <2>1 DEF Ordered
<1> QED BY <1>1, <1>2, <1>3, <1>6

-----------------------------------------------------------------------------
(* The loop of the reduction *)

\* The lists of the chunks from n on are as they were.
Untouched(heap, n) ==
  \A c \in 0..(len - 1) : c >= n => IsList(heap, After(lists[c], 0), lists[c])

\* The loop has done to pointers what Walk does to sequences for the first n chunks.
Walked(heap, n, cur, hd, res) ==
  LET w == Walk(Chunked, n)
  IN  /\ IsList(heap, cur, w.current)
      /\ hd = w.head
      /\ res = [first |-> After(w.first, 0), last |-> w.last, empty |-> w.empty]
      /\ cur # NullNode => ~w.empty

\* What the function returns, on sequences.
Final == ReverseReduce(0, Chunked, len, 0)

Offsets == Final.first

\* The pointers of the result are those of the list it is on sequences.
Finished(heap, res) ==
  /\ IsList(heap, res.first, Offsets)
  /\ res.last = Final.last
  /\ res.empty = Final.empty

\* The inductive invariant of the reduction.
ReduceInv ==
  /\ TypeOK
  /\ ArrayShape
  /\ Linked
  /\ pc = "start" => i = 0
  /\ pc = "loop" => len # 1
  /\ pc \in {"start", "loop"} =>
       Untouched(link, i) /\ Walked(link, i, current, head, result)
  /\ pc = "done" => Finished(link, result)

\* No step changes the array.
LEMMA SameArray ==
  ASSUME UNCHANGED <<lists, array>>
  PROVE  /\ len' = len /\ Chunked' = Chunked /\ Final' = Final /\ AllNodes' = AllNodes
         /\ ArrayShape => ArrayShape'
<1>1. lists' = lists /\ array' = array
  OBVIOUS
<1>2. len' = len
  BY <1>1 DEF len
<1>3. Chunked' = Chunked
  BY <1>1 DEF Chunked, AsChunk
<1>4. Final' = Final
  BY <1>2, <1>3 DEF Final
<1>5. AllNodes' = AllNodes
  BY <1>1 DEF AllNodes
<1>6. ArrayShape => ArrayShape'
  BY <1>1, <1>2 DEF ArrayShape
<1> QED BY <1>2, <1>3, <1>4, <1>5, <1>6

\* What the loop has after n chunks.
LEMMA WalkShape ==
  ASSUME ArrayShape, NEW n \in 0..len
  PROVE  LET w == Walk(Chunked, n)
         IN  /\ w \in [current : Seq(Nodes), first : Seq(Nodes), last : Nat,
                       head : BOOLEAN, empty : BOOLEAN]
             /\ Descending(w.current)
             /\ \A a \in Elements(w.current) : \E c \in 0..(n - 1) : a \in Elements(lists[c])
             /\ w.first = <<>> \/ w.first = w.current
<1> DEFINE w == Walk(Chunked, n)
<1>1. len \in Nat /\ n \in Nat
  BY ChunkedShape
<1>2. WalkSound(w, Chunked, n)
  BY <1>1, ChunkedShape, WalkResult
<1> HIDE DEF w
<1>3. \A a \in Elements(w.current) :
        \E c \in 0..(n - 1) : a \in Elements(lists[c]) /\ a \in Nodes
  <2> SUFFICES ASSUME NEW a \in Elements(w.current)
               PROVE  \E c \in 0..(n - 1) : a \in Elements(lists[c]) /\ a \in Nodes
    OBVIOUS
  <2>1. PICK c \in 0..(n - 1) : a \in Elements(Chunked[c].first)
    BY <1>2 DEF WalkSound, OffsetsIn
  <2>2. c \in 0..(len - 1)
    BY <1>1
  <2>3. a \in Elements(lists[c]) /\ lists[c] \in Seq(Nodes)
    BY <2>1, <2>2, ChunkedShape DEF ArrayShape
  <2>4. a \in Nodes
    BY <2>3, ListPlaces
  <2> QED BY <2>3, <2>4
<1>4. w.current \in Seq(Nodes)
  <2> DEFINE t == w.current
  <2>1. t \in Seq(Nat)
    BY <1>2 DEF WalkSound
  <2>2. \A k \in DOMAIN t : t[k] \in Nodes
    BY <1>3 DEF Elements
  <2> HIDE DEF t
  <2>3. Len(t) \in Nat /\ t \in [1..Len(t) -> Nat]
    BY <2>1, LenProperties
  <2>4. t \in [1..Len(t) -> Nodes]
    BY <2>2, <2>3
  <2>5. t \in Seq(Nodes)
    BY <2>3, <2>4, SeqDef
  <2> QED BY <2>5 DEF t
<1>5. w.first \in Seq(Nodes) /\ (w.first = <<>> \/ w.first = w.current)
  <2>1. w.first = <<>> \/ w.first = w.current
    BY <1>2 DEF WalkSound
  <2> QED BY <1>4, <2>1, EmptySeq
<1>6. w \in [current : Seq(Nodes), first : Seq(Nodes), last : Nat,
             head : BOOLEAN, empty : BOOLEAN]
  <2>1. /\ w = [current |-> w.current, first |-> w.first, last |-> w.last,
                head |-> w.head, empty |-> w.empty]
        /\ w.last \in Nat /\ w.head \in BOOLEAN /\ w.empty \in BOOLEAN
    BY <1>2 DEF WalkSound
  <2> QED BY <1>4, <1>5, <2>1
<1> QED BY <1>2, <1>3, <1>5, <1>6 DEF w, WalkSound

\* The list that is returned.
LEMMA FinalShape ==
  ASSUME ArrayShape
  PROVE  /\ Offsets \in Seq(Nodes)
         /\ Descending(Offsets)
         /\ Elements(Offsets) \subseteq AllNodes
         /\ AllNodes \subseteq Nodes
<1>1. len \in Nat /\ len # 0 /\ DOMAIN lists = 0..(len - 1)
  BY ReduceAssumption DEF ArrayShape
<1>2. /\ Final \in Chunk(Nat)
      /\ Descending(Offsets)
      /\ Elements(Offsets) \subseteq OffsetsIn(Chunked, len)
  <2> DEFINE r == Final
  <2>1. r = ReverseReduce(0, Chunked, len, 0)
    BY DEF Final
  <2> HIDE DEF r
  <2>2. Ordered(Chunked, len)
    BY <1>1, ChunkedShape
  <2>3. r \in Chunk(Nat) /\ Descending(r.first) /\ Elements(r.first) \subseteq OffsetsIn(Chunked, len)
    BY <1>1, <2>1, <2>2, ReduceResult
  <2> QED BY <2>3 DEF r, Offsets
<1>3. OffsetsIn(Chunked, len) \subseteq AllNodes
  <2> SUFFICES ASSUME NEW c \in 0..(len - 1), NEW a \in Elements(Chunked[c].first)
               PROVE  a \in AllNodes
    BY DEF OffsetsIn
  <2>1. a \in Elements(lists[c])
    BY ChunkedShape
  <2> QED BY <1>1, <2>1 DEF AllNodes
<1>4. AllNodes \subseteq Nodes
  <2> SUFFICES ASSUME NEW c \in 0..(len - 1), NEW a \in Elements(lists[c])
               PROVE  a \in Nodes
    BY <1>1 DEF AllNodes
  <2>1. lists[c] \in Seq(Nodes)
    BY DEF ArrayShape
  <2> QED BY <2>1, ListPlaces
<1>5. Offsets \in Seq(Nodes)
  <2>1. Offsets \in Seq(Nat)
    BY <1>2 DEF Offsets, Chunk
  <2>2. \A k \in DOMAIN Offsets : Offsets[k] \in Nodes
    BY <1>2, <1>3, <1>4 DEF Elements
  <2>3. Len(Offsets) \in Nat /\ Offsets \in [1..Len(Offsets) -> Nat]
    BY <2>1, LenProperties
  <2>4. Offsets \in [1..Len(Offsets) -> Nodes]
    BY <2>2, <2>3
  <2> QED BY <2>3, <2>4, SeqDef
<1> QED BY <1>2, <1>3, <1>4, <1>5

LEMMA ReduceInit == Init => ReduceInv
<1> SUFFICES ASSUME Init PROVE ReduceInv
  OBVIOUS
<1>1. /\ ArrayShape /\ Linked
      /\ \A c \in 0..(len - 1) : IsList(link, After(lists[c], 0), lists[c])
  BY InitShape
<1>2. /\ pc = "start" /\ i = 0 /\ current = NullNode /\ head = TRUE
      /\ result = [first |-> NullNode, last |-> NullNode, empty |-> TRUE]
  BY DEF Init
<1>3. len \in Nat /\ DOMAIN lists = 0..(len - 1)
  BY <1>1, ChunkedShape DEF ArrayShape
<1>4. TypeOK
  <2>1. NullNode \in Pointer /\ i \in 0..len
    BY <1>2, <1>3, Pointers
  <2> QED BY <1>1, <1>2, <1>3, <2>1 DEF TypeOK, ArrayShape, Linked
<1>5. Walked(link, i, current, head, result)
  <2>1. Walk(Chunked, 0) = WalkStart
    BY WalkStep
  <2>2. Len(<<>>) = 0 /\ After(<<>>, 0) = NullNode
    BY EmptySeq DEF After
  <2>3. IsList(link, NullNode, <<>>)
    BY <2>2 DEF IsList
  <2>4. /\ WalkStart.current = <<>> /\ WalkStart.first = <<>> /\ WalkStart.last = NullNode
        /\ WalkStart.head = TRUE /\ WalkStart.empty = TRUE
    BY DEF WalkStart
  <2> QED BY <1>2, <2>1, <2>2, <2>3, <2>4 DEF Walked
<1>6. Untouched(link, i)
  BY <1>1 DEF Untouched
<1> QED BY <1>1, <1>2, <1>4, <1>5, <1>6 DEF ReduceInv

LEMMA CopyKeeps ==
  ASSUME ReduceInv, Copy
  PROVE  ReduceInv'
<1>1. /\ pc = "start" /\ len = 1 /\ result' = array[0] /\ pc' = "done"
      /\ UNCHANGED <<lists, array, link, i, current, head>>
  BY DEF Copy
<1>2. /\ len' = len /\ Chunked' = Chunked /\ Final' = Final /\ ArrayShape'
  BY <1>1, SameArray DEF ReduceInv
<1>3. 0 \in 0..(len - 1) /\ i = 0
  BY <1>1 DEF ReduceInv
<1>4. IsList(link, After(lists[0], 0), lists[0])
  BY <1>1, <1>3 DEF ReduceInv, Untouched
<1>5. /\ Offsets = Chunked[0].first
      /\ Final.last = Chunked[0].last /\ Final.empty = Chunked[0].empty
  <2>1. Chunked[0] = AsChunk(0)
    BY <1>3 DEF Chunked, ReduceInv, ArrayShape
  <2>2. Final = [Chunked[0] EXCEPT !.current = 0, !.line_count = 0]
    BY <1>1 DEF Final, ReverseReduce
  <2> QED BY <2>1, <2>2 DEF AsChunk, Offsets
<1>6. /\ Offsets = IF array[0].first = NullNode THEN <<>> ELSE lists[0]
      /\ Final.last = array[0].last /\ Final.empty = array[0].empty
  BY <1>3, <1>5, ChunkedShape DEF ReduceInv
<1>7. IsList(link, array[0].first, Offsets)
  <2>1. CASE array[0].first = NullNode
    <3>1. Len(<<>>) = 0 /\ After(<<>>, 0) = NullNode
      BY EmptySeq DEF After
    <3> QED BY <1>6, <2>1, <3>1 DEF IsList
  <2>2. CASE array[0].first # NullNode
    <3>1. array[0].first = After(lists[0], 0)
      BY <1>3, <2>2 DEF ReduceInv, ArrayShape
    <3> QED BY <1>4, <1>6, <2>2, <3>1
  <2> QED BY <2>1, <2>2
<1>8. Finished(link, result)'
  BY <1>1, <1>2, <1>6, <1>7 DEF Finished, Offsets
<1>9. TypeOK'
  <2>1. array[0] \in [first : Pointer, last : Pointer, empty : BOOLEAN]
    BY <1>3 DEF ReduceInv, ArrayShape
  <2> QED BY <1>1, <1>2, <2>1 DEF ReduceInv, TypeOK
<1>10. Linked'
  BY <1>1 DEF ReduceInv, Linked
<1> QED BY <1>1, <1>2, <1>8, <1>9, <1>10 DEF ReduceInv

\* The parts of the invariant that only speak of pointers the step leaves.
LEMMA QuietKeeps ==
  ASSUME ReduceInv, Begin \/ Fail
  PROVE  ReduceInv'
<1>1. /\ UNCHANGED <<lists, array, link, i, current, head, result>>
      /\ pc = "start"
      /\ (pc' = "loop" /\ len # 1) \/ pc' = "failed"
  BY DEF Begin, Fail
<1>2. /\ len' = len /\ Chunked' = Chunked /\ ArrayShape'
  BY <1>1, SameArray DEF ReduceInv
<1>3. TypeOK'
  BY <1>1, <1>2 DEF ReduceInv, TypeOK
<1>4. Linked'
  BY <1>1 DEF ReduceInv, Linked
<1>5. Untouched(link, i)' /\ Walked(link, i, current, head, result)'
  BY <1>1, <1>2 DEF ReduceInv, Untouched, Walked
<1> QED BY <1>1, <1>2, <1>3, <1>4, <1>5 DEF ReduceInv

\* One iteration: it is enough that what the loop has is right again.
LEMMA IterateKeeps ==
  ASSUME ReduceInv, Iterate,
         link' \in [Nodes -> Pointer], \A n \in Nodes : link'[n] < n,
         Untouched(link', i + 1), Walked(link', i + 1, current', head', result'),
         current' \in Pointer, head' \in BOOLEAN,
         result' \in [first : Pointer, last : Pointer, empty : BOOLEAN]
  PROVE  ReduceInv'
<1>1. /\ pc = "loop" /\ pc' = pc /\ i < len /\ i' = i + 1 /\ UNCHANGED <<lists, array>>
  BY DEF Iterate
<1>2. /\ len' = len /\ Chunked' = Chunked /\ ArrayShape'
  BY <1>1, SameArray DEF ReduceInv
<1>3. len \in Nat /\ i \in Nat
  BY ChunkedShape DEF ReduceInv, TypeOK
<1>4. i' \in 0..len'
  BY <1>1, <1>2, <1>3
<1>5. TypeOK'
  BY <1>1, <1>2, <1>4 DEF ReduceInv, TypeOK
<1>6. Linked'
  BY DEF Linked
<1>7. Untouched(link, i)' /\ Walked(link, i, current, head, result)'
  BY <1>1, <1>2 DEF Untouched, Walked
<1> QED BY <1>1, <1>2, <1>5, <1>6, <1>7 DEF ReduceInv

\* What an iteration finds: the chunk is the next one for Walk.
LEMMA IterateFinds ==
  ASSUME ReduceInv, Iterate,
         NEW w, w = Walk(Chunked, i), NEW v, v = Walk(Chunked, i + 1)
  PROVE  /\ i \in 0..(len - 1) /\ i \in Nat /\ len \in Nat
         /\ v = WalkNext(w, Chunked[i])
         /\ w \in [current : Seq(Nodes), first : Seq(Nodes), last : Nat,
                   head : BOOLEAN, empty : BOOLEAN]
         /\ IsList(link, current, w.current)
         /\ head = w.head
         /\ result = [first |-> After(w.first, 0), last |-> w.last, empty |-> w.empty]
         /\ current # NullNode => ~w.empty
         /\ current = NullNode <=> w.current = <<>>
<1>1. pc = "loop" /\ i < len
  BY DEF Iterate
<1>2. len \in Nat /\ i \in 0..len /\ i \in Nat
  BY ChunkedShape DEF ReduceInv, TypeOK
<1>3. v = WalkNext(w, Chunked[i])
  BY <1>2, WalkStep
<1>4. w \in [current : Seq(Nodes), first : Seq(Nodes), last : Nat,
             head : BOOLEAN, empty : BOOLEAN]
  BY <1>2, WalkShape DEF ReduceInv
<1>5. /\ IsList(link, current, w.current)
      /\ head = w.head
      /\ result = [first |-> After(w.first, 0), last |-> w.last, empty |-> w.empty]
      /\ current # NullNode => ~w.empty
  BY <1>1 DEF ReduceInv, Walked
<1>6. current = NullNode <=> w.current = <<>>
  <2> DEFINE t == w.current
  <2>1. t \in Seq(Nodes) /\ current = After(t, 0)
    BY <1>4, <1>5 DEF IsList
  <2> HIDE DEF t
  <2>2. Len(t) \in Nat /\ (t = <<>> <=> Len(t) = 0) /\ \A k \in 1..Len(t) : t[k] \in Nodes
    BY <2>1, ListPlaces
  <2>3. CASE Len(t) = 0
    BY <2>1, <2>2, <2>3 DEF After, t
  <2>4. CASE Len(t) # 0
    <3>1. 1 \in 1..Len(t) /\ 0 + 1 = 1
      BY <2>2, <2>4
    <3>2. After(t, 0) = t[1] /\ t[1] \in Nodes
      BY <2>2, <2>4, <3>1 DEF After
    <3> QED BY <2>1, <2>2, <2>4, <3>2, NodesFinite DEF t
  <2> QED BY <2>3, <2>4
<1> QED BY <1>1, <1>2, <1>3, <1>4, <1>5, <1>6

LEMMA SkipKeeps ==
  ASSUME ReduceInv, Skip
  PROVE  ReduceInv'
<1> DEFINE w == Walk(Chunked, i)
           v == Walk(Chunked, i + 1)
<1>1. Iterate /\ array[i].empty /\ UNCHANGED <<link, current, head, result>>
  BY DEF Skip
<1>2. /\ i \in 0..(len - 1) /\ i \in Nat /\ len \in Nat
      /\ v = WalkNext(w, Chunked[i])
      /\ IsList(link, current, w.current)
      /\ head = w.head
      /\ result = [first |-> After(w.first, 0), last |-> w.last, empty |-> w.empty]
      /\ current # NullNode => ~w.empty
  BY <1>1, IterateFinds
<1> HIDE DEF w, v
<1>3. v = w
  <2>1. Chunked[i].empty
    BY <1>1, <1>2, ChunkedShape DEF ReduceInv
  <2> QED BY <1>2, <2>1 DEF WalkNext
<1>4. Walked(link', i + 1, current', head', result')
  BY <1>1, <1>2, <1>3 DEF Walked, v
<1>5. Untouched(link', i + 1)
  <2>1. Untouched(link, i)
    BY <1>1 DEF ReduceInv, Iterate
  <2>2. \A c \in 0..(len - 1) : c >= i + 1 => c >= i
    BY <1>2
  <2> QED BY <1>1, <2>1, <2>2 DEF Untouched
<1>6. /\ link' \in [Nodes -> Pointer] /\ (\A n \in Nodes : link'[n] < n)
      /\ current' \in Pointer /\ head' \in BOOLEAN
      /\ result' \in [first : Pointer, last : Pointer, empty : BOOLEAN]
  BY <1>1 DEF ReduceInv, TypeOK, Linked
<1> QED BY <1>1, <1>4, <1>5, <1>6, IterateKeeps

LEMMA TakeKeeps ==
  ASSUME ReduceInv, Take
  PROVE  ReduceInv'
<1> DEFINE w == Walk(Chunked, i)
           v == Walk(Chunked, i + 1)
           c == Chunked[i]
<1>1. /\ Iterate /\ ~array[i].empty /\ current = NullNode
      /\ current' = array[i].first
      /\ result' = [result EXCEPT !.last = IF head THEN array[i].last ELSE @,
                                  !.empty = FALSE]
      /\ head' = FALSE
      /\ link' = link
  BY DEF Take
<1>2. /\ i \in 0..(len - 1) /\ i \in Nat /\ len \in Nat
      /\ v = WalkNext(w, c)
      /\ head = w.head
      /\ result = [first |-> After(w.first, 0), last |-> w.last, empty |-> w.empty]
      /\ w.current = <<>>
  BY <1>1, IterateFinds
<1>3. /\ c.first = IF array[i].first = NullNode THEN <<>> ELSE lists[i]
      /\ c.last = array[i].last
      /\ ~c.empty
  BY <1>1, <1>2, ChunkedShape DEF ReduceInv
<1> HIDE DEF w, v, c
<1>4. v = [current |-> c.first, first |-> w.first,
           last |-> IF w.head THEN c.last ELSE w.last, head |-> FALSE, empty |-> FALSE]
  BY <1>2, <1>3 DEF WalkNext
<1>5. IsList(link, array[i].first, c.first)
  <2>1. CASE array[i].first = NullNode
    <3>1. Len(<<>>) = 0 /\ After(<<>>, 0) = NullNode
      BY EmptySeq DEF After
    <3> QED BY <1>3, <2>1, <3>1 DEF IsList
  <2>2. CASE array[i].first # NullNode
    <3>1. array[i].first = After(lists[i], 0)
      BY <1>2, <2>2 DEF ReduceInv, ArrayShape
    <3>2. Untouched(link, i)
      BY <1>1 DEF ReduceInv, Iterate
    <3>3. IsList(link, After(lists[i], 0), lists[i])
      BY <1>2, <3>2 DEF Untouched
    <3> QED BY <1>3, <2>2, <3>1, <3>3
  <2> QED BY <2>1, <2>2
<1>6. Walked(link', i + 1, current', head', result')
  <2>2. /\ v.current = c.first /\ v.head = FALSE /\ v.empty = FALSE /\ v.first = w.first
        /\ v.last = IF w.head THEN c.last ELSE w.last
    BY <1>4
  <2>3. result' = [first |-> After(w.first, 0),
                   last |-> IF w.head THEN array[i].last ELSE w.last, empty |-> FALSE]
    BY <1>1, <1>2
  <2>1. result' = [first |-> After(v.first, 0), last |-> v.last, empty |-> v.empty]
    BY <1>3, <2>2, <2>3
  <2> QED BY <1>1, <1>5, <2>1, <2>2 DEF Walked, v
<1>7. Untouched(link', i + 1)
  <2>1. Untouched(link, i)
    BY <1>1 DEF ReduceInv, Iterate
  <2>2. \A d \in 0..(len - 1) : d >= i + 1 => d >= i
    BY <1>2
  <2> QED BY <1>1, <2>1, <2>2 DEF Untouched
<1>8. /\ link' \in [Nodes -> Pointer] /\ (\A n \in Nodes : link'[n] < n)
      /\ current' \in Pointer /\ head' \in BOOLEAN
      /\ result' \in [first : Pointer, last : Pointer, empty : BOOLEAN]
  <2>1. array[i] \in [first : Pointer, last : Pointer, empty : BOOLEAN]
    BY <1>2 DEF ReduceInv, ArrayShape
  <2> QED BY <1>1, <2>1 DEF ReduceInv, TypeOK, Linked
<1> QED BY <1>1, <1>6, <1>7, <1>8, IterateKeeps

LEMMA PrependKeeps ==
  ASSUME ReduceInv, Prepend
  PROVE  ReduceInv'
<1> DEFINE w == Walk(Chunked, i)
           v == Walk(Chunked, i + 1)
           c == Chunked[i]
           s == lists[i]
           t == w.current
           l == Link(c, t)
<1>1. /\ Iterate /\ ~array[i].empty /\ current # NullNode
      /\ link' = [link EXCEPT ![array[i].last] = current]
      /\ current' = array[i].first
      /\ result' = [result EXCEPT !.first = array[i].first, !.empty = FALSE]
      /\ head' = head
  BY DEF Prepend, Swap
<1>2. /\ i \in 0..(len - 1) /\ i \in Nat /\ len \in Nat
      /\ v = WalkNext(w, c)
      /\ w \in [current : Seq(Nodes), first : Seq(Nodes), last : Nat,
                head : BOOLEAN, empty : BOOLEAN]
      /\ IsList(link, current, t)
      /\ head = w.head
      /\ result = [first |-> After(w.first, 0), last |-> w.last, empty |-> w.empty]
      /\ ~w.empty
      /\ t # <<>>
  BY <1>1, IterateFinds
<1>3. /\ c.first = IF array[i].first = NullNode THEN <<>> ELSE s
      /\ c.last = array[i].last
      /\ ~c.empty
  BY <1>1, <1>2, ChunkedShape DEF ReduceInv
<1>4. /\ s \in Seq(Nodes) /\ Descending(s) /\ s # <<>>
      /\ array[i] \in [first : Pointer, last : Pointer, empty : BOOLEAN]
      /\ array[i].last = Tail1(s)
      /\ array[i].first = NullNode \/ array[i].first = After(s, 0)
  BY <1>1, <1>2 DEF ReduceInv, ArrayShape
<1>5. \A a \in Elements(t) : \E d \in 0..(i - 1) : a \in Elements(lists[d])
  <2>1. i \in 0..len
    BY <1>2
  <2> QED BY <2>1, WalkShape DEF ReduceInv
<1>6. IsList(link, After(s, 0), s) /\ Untouched(link, i)
  BY <1>1, <1>2 DEF ReduceInv, Iterate, Untouched
<1>7. link \in [Nodes -> Pointer] /\ \A n \in Nodes : link[n] < n
  BY DEF ReduceInv, Linked
<1>8. \A a \in Elements(t), b \in Elements(s) : a < b
  <2> SUFFICES ASSUME NEW a \in Elements(t), NEW b \in Elements(s) PROVE a < b
    OBVIOUS
  <2>1. PICK d \in 0..(i - 1) : a \in Elements(lists[d])
    BY <1>5
  <2>2. d \in 0..(len - 1) /\ d < i
    BY <1>2, <2>1
  <2> QED BY <1>2, <2>1, <2>2 DEF ReduceInv, ArrayShape
<1> HIDE DEF c, s, v, w
<1>9. t \in Seq(Nodes)
  BY <1>2
<1> HIDE DEF t, l
<1>10. Tail1(s) \in Nodes /\ Tail1(s) \in Elements(s) /\ Tail1(s) = s[Len(s)]
  <2>1. Len(s) \in 1..Len(s)
    BY <1>4, ListPlaces
  <2> QED BY <1>4, <2>1, ListPlaces DEF Tail1
<1>11. current \in Elements(t)
  <2>1. Len(t) \in Nat /\ Len(t) # 0
    BY <1>2, <1>9, ListPlaces
  <2>2. 1 \in 1..Len(t)
    BY <2>1
  <2>3. current = t[1]
    BY <1>2, <2>1 DEF IsList, After
  <2> QED BY <1>9, <2>2, <2>3, ListPlaces
<1>12. Elements(s) \cap Elements(t) = {}
  <2> SUFFICES ASSUME NEW a \in Elements(s), a \in Elements(t) PROVE FALSE
    OBVIOUS
  <2>1. a < a
    BY <1>8
  <2>2. a \in Nat
    <3>1. PICK k \in 1..Len(s) : a = s[k]
      BY <1>4, ListPlaces
    <3> QED BY <1>4, <3>1, ListPlaces, NodesFinite
  <2> QED BY <2>1, <2>2
<1>13. IsList(link', array[i].first, l)
  <2>1. CASE array[i].first = NullNode
    <3>1. c.first = <<>>
      BY <1>3, <2>1
    <3>2. Tail1(<<>>) = NullNode
      BY DEF Tail1
    <3>3. c.last # NullNode
      BY <1>3, <1>4, <1>10, NodesFinite
    <3>4. l = <<>>
      BY <3>1, <3>2, <3>3 DEF Link, l
    <3>5. Len(<<>>) = 0 /\ After(<<>>, 0) = NullNode
      BY EmptySeq DEF After
    <3> QED BY <2>1, <3>4, <3>5 DEF IsList
  <2>2. CASE array[i].first # NullNode
    <3>1. c.first = s
      BY <1>3, <2>2
    <3>2. l = s \o t
      BY <1>3, <1>4, <3>1 DEF Link, l
    <3>3. IsList([link EXCEPT ![Tail1(s)] = current], After(s, 0), s \o t)
      BY <1>2, <1>4, <1>6, <1>7, <1>9, <1>12, ListLinked
    <3>4. link' = [link EXCEPT ![Tail1(s)] = current]
      BY <1>1, <1>4
    <3> QED BY <1>4, <2>2, <3>2, <3>3, <3>4
  <2> QED BY <2>1, <2>2
<1>14. v = [w EXCEPT !.current = l, !.first = l]
  BY <1>2, <1>3 DEF WalkNext, l, t
<1>15. Walked(link', i + 1, current', head', result')
  <2>1. /\ v.current = l /\ v.first = l /\ v.last = w.last
        /\ v.head = w.head /\ v.empty = w.empty
    BY <1>2, <1>14
  <2>2. array[i].first = After(l, 0)
    BY <1>13 DEF IsList
  <2>3. result' = [first |-> After(v.first, 0), last |-> v.last, empty |-> v.empty]
    BY <1>1, <1>2, <2>1, <2>2
  <2> QED BY <1>1, <1>2, <1>13, <2>1, <2>3 DEF Walked, v
<1>16. Untouched(link', i + 1)
  <2> SUFFICES ASSUME NEW d \in 0..(len - 1), d >= i + 1
               PROVE  IsList(link', After(lists[d], 0), lists[d])
    BY DEF Untouched
  <2>1. d >= i /\ i < d
    BY <1>2
  <2>2. IsList(link, After(lists[d], 0), lists[d]) /\ lists[d] \in Seq(Nodes)
    BY <1>6, <2>1 DEF Untouched, ReduceInv, ArrayShape
  <2>3. Tail1(s) \notin Elements(lists[d])
    <3> SUFFICES ASSUME Tail1(s) \in Elements(lists[d]) PROVE FALSE
      OBVIOUS
    <3>1. Tail1(s) < Tail1(s)
      BY <1>2, <1>10, <2>1 DEF ReduceInv, ArrayShape, s
    <3>2. Tail1(s) \in Nat
      BY <1>10, NodesFinite
    <3> QED BY <3>1, <3>2
  <2>4. IsList([link EXCEPT ![Tail1(s)] = current], After(lists[d], 0), lists[d])
    BY <1>7, <2>2, <2>3, ListKept
  <2> QED BY <1>1, <1>4, <2>4
<1>17. /\ link' \in [Nodes -> Pointer] /\ (\A n \in Nodes : link'[n] < n)
       /\ current' \in Pointer /\ head' \in BOOLEAN
       /\ result' \in [first : Pointer, last : Pointer, empty : BOOLEAN]
  <2>1. current \in Pointer
    BY DEF ReduceInv, TypeOK
  <2>2. link' = [link EXCEPT ![Tail1(s)] = current]
    BY <1>1, <1>4
  <2>3. link' \in [Nodes -> Pointer]
    BY <1>7, <1>10, <2>1, <2>2
  <2>4. current < Tail1(s)
    BY <1>8, <1>10, <1>11
  <2>5. \A n \in Nodes : link'[n] < n
    BY <1>7, <1>10, <2>2, <2>4
  <2>6. /\ result.first \in Pointer /\ result.last \in Pointer /\ head \in BOOLEAN
        /\ result = [first |-> result.first, last |-> result.last, empty |-> result.empty]
    BY DEF ReduceInv, TypeOK
  <2>7. result' = [first |-> array[i].first, last |-> result.last, empty |-> FALSE]
    BY <1>1, <2>6
  <2> QED BY <1>1, <1>4, <2>3, <2>5, <2>6, <2>7
<1> QED BY <1>1, <1>15, <1>16, <1>17, IterateKeeps

LEMMA FinishKeeps ==
  ASSUME ReduceInv, Finish
  PROVE  ReduceInv'
<1> DEFINE w == Walk(Chunked, len)
<1>1. /\ pc = "loop" /\ i = len /\ pc' = "done" /\ len # 1
      /\ UNCHANGED <<lists, array, link, i, current, head, result>>
  BY DEF Finish, ReduceInv
<1>2. /\ len' = len /\ Chunked' = Chunked /\ Final' = Final /\ ArrayShape'
  BY <1>1, SameArray DEF ReduceInv
<1>3. /\ IsList(link, current, w.current)
      /\ result = [first |-> After(w.first, 0), last |-> w.last, empty |-> w.empty]
  BY <1>1 DEF ReduceInv, Walked
<1>4. w.first = <<>> \/ w.first = w.current
  <2>1. len \in 0..len
    BY <1>1 DEF ReduceInv, TypeOK
  <2> QED BY <2>1, WalkShape DEF ReduceInv
<1>5. Offsets = w.first /\ Final.last = w.last /\ Final.empty = w.empty
  BY <1>1 DEF Final, Offsets, ReverseReduce
<1> HIDE DEF w
<1>6. IsList(link, result.first, w.first)
  <2>1. result.first = After(w.first, 0)
    BY <1>3
  <2>2. CASE w.first = <<>>
    <3>1. Len(<<>>) = 0
      BY EmptySeq
    <3> QED BY <2>1, <2>2, <3>1 DEF IsList
  <2>3. CASE w.first = w.current
    BY <1>3, <2>1, <2>3 DEF IsList
  <2> QED BY <1>4, <2>2, <2>3
<1>7. Finished(link, result)'
  BY <1>1, <1>2, <1>3, <1>5, <1>6 DEF Finished, Offsets
<1>8. TypeOK'
  BY <1>1, <1>2 DEF ReduceInv, TypeOK
<1>9. Linked'
  BY <1>1 DEF ReduceInv, Linked
<1> QED BY <1>1, <1>2, <1>7, <1>8, <1>9 DEF ReduceInv

LEMMA ReduceStep ==
  ASSUME ReduceInv, [Next]_vars
  PROVE  ReduceInv'
<1>1. CASE UNCHANGED vars
  <2>1. UNCHANGED <<lists, array, link, pc, i, current, head, result>>
    BY <1>1 DEF vars
  <2>2. /\ len' = len /\ Chunked' = Chunked /\ Final' = Final /\ ArrayShape'
    BY <2>1, SameArray DEF ReduceInv
  <2>3. TypeOK'
    BY <2>1, <2>2 DEF ReduceInv, TypeOK
  <2>4. Linked'
    BY <2>1 DEF ReduceInv, Linked
  <2>5. pc \in {"start", "loop"} =>
          Untouched(link, i)' /\ Walked(link, i, current, head, result)'
    BY <2>1, <2>2 DEF ReduceInv, Untouched, Walked
  <2>6. pc = "done" => Finished(link, result)'
    BY <2>1, <2>2 DEF ReduceInv, Finished, Offsets
  <2> QED BY <2>1, <2>2, <2>3, <2>4, <2>5, <2>6 DEF ReduceInv
<1> QED BY <1>1, CopyKeeps, QuietKeeps, SkipKeeps, TakeKeeps, PrependKeeps, FinishKeeps
        DEF Next

-----------------------------------------------------------------------------
(* What the reduction promises *)

LEMMA ReduceInvEnds == ReduceInv => ListsEnd
BY LinkedEnds DEF ReduceInv

\* The list in memory that is returned.
LEMMA ResultRead ==
  ASSUME ReduceInv, pc = "done"
  PROVE  /\ ListFrom(result.first) = Offsets
         /\ result.last = Final.last /\ result.empty = Final.empty
<1>1. Finished(link, result)
  BY DEF ReduceInv
<1>2. ListFrom(result.first) = Offsets
  BY <1>1, FinalShape, ListRead DEF Finished, ReduceInv
<1> QED BY <1>1, <1>2 DEF Finished

LEMMA ReduceInvAgrees == ReduceInv => ReduceAgrees
BY ResultRead DEF ReduceAgrees, Final, Offsets

LEMMA ReduceInvOrder == ReduceInv => ReverseOrder
<1> SUFFICES ASSUME ReduceInv, pc = "done", NothingLost,
                    len = 1 \/ Cardinality(Occupied) # 1
             PROVE  /\ Descending(Offsets)
                    /\ Elements(Offsets) = AllNodes
                    /\ result.last = Tail1(Offsets)
  BY ResultRead DEF ReverseOrder
<1>1. ArrayShape /\ len \in Nat /\ len # 0 /\ DOMAIN lists = 0..(len - 1)
  BY ReduceAssumption DEF ReduceInv, ArrayShape
<1>2. ASSUME NEW c \in 0..(len - 1)
      PROVE  Chunked[c].first = lists[c] /\ Proper(Chunked[c])
  <2>1. /\ Chunked[c].first = IF array[c].first = NullNode THEN <<>> ELSE lists[c]
        /\ Chunked[c].last = array[c].last
        /\ Chunked[c].empty = array[c].empty
    BY <1>1, ChunkedShape
  <2>2. /\ array[c].last = Tail1(lists[c])
        /\ array[c].empty <=> lists[c] = <<>>
    BY <1>1 DEF ArrayShape
  <2>3. lists[c] # <<>> => array[c].first # NullNode
    BY <1>1 DEF NothingLost, Occupied
  <2> QED BY <2>1, <2>2, <2>3 DEF Proper
<1>3. OffsetsIn(Chunked, len) = AllNodes
  BY <1>1, <1>2 DEF OffsetsIn, AllNodes
<1>4. Filled(Chunked, len) = Occupied
  BY <1>1, <1>2 DEF Filled, Occupied
<1> DEFINE r == Final
<1>5. r = ReverseReduce(0, Chunked, len, 0)
  BY DEF Final
<1>6. Offsets = r.first /\ result.last = r.last
  BY ResultRead DEF Offsets
<1> HIDE DEF r
<1>7. Ordered(Chunked, len)
  BY <1>1, ChunkedShape
<1>8. len > 1 => Cardinality(Filled(Chunked, len)) # 1
  BY <1>1, <1>4
<1>9. /\ Descending(r.first)
      /\ Proper(r) /\ Elements(r.first) = OffsetsIn(Chunked, len)
  BY <1>1, <1>2, <1>5, <1>7, <1>8, ReduceResult
<1> QED BY <1>3, <1>6, <1>9 DEF Proper

-----------------------------------------------------------------------------
(* The walks over the list *)

\* The nodes with whole offsets among the first k, and what node k makes of its
\* offset and of the one before it.
Whole(S, k) == {j \in 1..k : Offsets[j] \in S}

Added(S, k) ==
  Offsets[k] + (IF k > 1 /\ Offsets[k - 1] \notin S THEN Offsets[k - 1] ELSE 0)

\* The offsets made of the first k nodes, the one of the last node first.
Sums(S, k) ==
  [n \in 1..Cardinality(Whole(S, k)) |->
     Added(S, CHOOSE j \in Whole(S, k) :
                Cardinality({m \in Whole(S, k) : m >= j}) = n)]

\* The types of the variables of the walks.
UsesOK ==
  /\ use \in {"none", "memory", "nodes"}
  /\ step \in {"walk", "done", "failed"}
  /\ node \in Pointer /\ prev \in Pointer
  /\ \A k \in DOMAIN values : values[k] \in Nat
  /\ slot \in Int
  /\ freed \subseteq Nodes /\ atomic \subseteq Nodes
  /\ last \in BOOLEAN
  /\ out \in Seq(Nat)

\* A walk begins when the reduction has ended.
UnusedInv ==
  /\ use # "none" => pc = "done"
  /\ use = "none" => /\ step = "walk" /\ values = <<>> /\ freed = {}
                     /\ prev = NullNode /\ last = FALSE /\ out = <<>>

\* The first nodes are freed and their offsets are the last values.
StoredInv(k) ==
  /\ node = After(Offsets, k)
  /\ freed = {Offsets[j] : j \in 1..k}
  /\ values = [x \in (slot + 1)..LineCount |-> Offsets[LineCount + 1 - x]]

MemoryInv ==
  /\ (use = "memory" /\ step = "walk") =>
       \E k \in 0..Len(Offsets) : slot = LineCount - k /\ StoredInv(k)
  /\ (use = "memory" /\ step = "done" /\ Len(Offsets) = LineCount) =>
       values = [x \in 0..(LineCount + 1) |->
                   IF x = 0 THEN 0
                   ELSE IF x <= LineCount THEN Offsets[LineCount + 1 - x]
                   ELSE IF LineCount = 0 THEN 0 ELSE Offsets[1]]

\* The list made is that of the first nodes.
AddedInv(k) ==
  /\ node = After(Offsets, k)
  /\ prev = IF k > 0 /\ Offsets[k] \notin atomic THEN Offsets[k] ELSE NullNode
  /\ out = Sums(atomic, k)

NodesInv ==
  /\ (use = "nodes" /\ step = "walk") => \E k \in 0..Len(Offsets) : AddedInv(k)
  /\ (use = "nodes" /\ step = "done" /\ last) =>
       out = <<0>> \o Sums(atomic, Len(Offsets))

\* The inductive invariant of the reduction and the walk over its list.
ListsInv == ReduceInv /\ UsesOK /\ UnusedInv /\ MemoryInv /\ NodesInv

\* The list has no more nodes than lines were counted.
LEMMA OffsetsBound ==
  ASSUME ArrayShape
  PROVE  /\ LineCount \in Nat
         /\ Len(Offsets) \in 0..LineCount
         /\ \A k \in 1..Len(Offsets) : Offsets[k] \in Nodes /\ Offsets[k] \in Nat
         /\ \A j, k \in 1..Len(Offsets) : j < k => Offsets[j] > Offsets[k]
<1>1. /\ Offsets \in Seq(Nodes) /\ Descending(Offsets)
      /\ Elements(Offsets) \subseteq AllNodes /\ AllNodes \subseteq Nodes
  BY FinalShape
<1>2. Offsets \in Seq(Nat)
  BY <1>1, NodeLists
<1>3. Cardinality(Elements(Offsets)) = Len(Offsets)
  BY <1>1, <1>2, DescendingLen
<1>4. IsFiniteSet(AllNodes)
  BY <1>1, NodesFinite, FS_Subset
<1>5. Cardinality(AllNodes) \in Nat /\ Len(Offsets) <= Cardinality(AllNodes)
  BY <1>1, <1>3, <1>4, FS_CardinalityType, FS_Subset
<1>6. Len(Offsets) \in Nat
  BY <1>1, ListPlaces
<1>7. \A k \in 1..Len(Offsets) : Offsets[k] \in Nodes /\ Offsets[k] \in Nat
  BY <1>1, ListPlaces, NodesFinite
<1>8. \A j, k \in 1..Len(Offsets) : j < k => Offsets[j] > Offsets[k]
  BY <1>1, ListPlaces
<1> QED BY <1>5, <1>6, <1>7, <1>8 DEF LineCount

\* What follows the first k nodes.
LEMMA AfterNode ==
  ASSUME ArrayShape, NEW k \in 0..Len(Offsets)
  PROVE  /\ After(Offsets, k) \in Pointer
         /\ After(Offsets, k) = NullNode <=> k = Len(Offsets)
         /\ k # Len(Offsets) => /\ k + 1 \in 1..Len(Offsets)
                                /\ After(Offsets, k) = Offsets[k + 1]
<1>1. Len(Offsets) \in Nat /\ \A j \in 1..Len(Offsets) : Offsets[j] \in Nodes
  BY OffsetsBound
<1>2. CASE k = Len(Offsets)
  BY <1>2, Pointers DEF After
<1>3. CASE k # Len(Offsets)
  <2>1. k + 1 \in 1..Len(Offsets)
    BY <1>1, <1>3
  <2>2. After(Offsets, k) = Offsets[k + 1] /\ Offsets[k + 1] \in Nodes
    BY <1>1, <1>3, <2>1 DEF After
  <2> QED BY <1>3, <2>1, <2>2, Pointers
<1> QED BY <1>2, <1>3

\* The pointers of the list.
LEMMA ListNext ==
  ASSUME ReduceInv, pc = "done"
  PROVE  /\ result.first = After(Offsets, 0)
         /\ \A k \in 1..Len(Offsets) : link[Offsets[k]] = After(Offsets, k)
BY DEF ReduceInv, Finished, IsList

\* No node is atomic when there is none, and one more node changes the list made if
\* it is.
LEMMA SumsStart ==
  ASSUME NEW S
  PROVE  Sums(S, 0) = <<>>
<1>1. Whole(S, 0) = {}
  BY DEF Whole
<1>2. Cardinality(Whole(S, 0)) = 0
  BY <1>1, FS_EmptySet
<1> DEFINE f == Sums(S, 0)
<1>3. f \in [1..0 -> Nat] /\ 0 \in Nat
  BY <1>2 DEF Sums
<1> HIDE DEF f
<1>4. f \in Seq(Nat)
  BY <1>3, SeqDef
<1>5. Len(f) = 0
  <2>1. DOMAIN f = 1..0
    BY <1>3
  <2>2. DOMAIN f = 1..Len(f) /\ Len(f) \in Nat
    BY <1>4, LenProperties
  <2> QED BY <2>1, <2>2
<1> QED BY <1>4, <1>5, EmptySeq DEF f

LEMMA SumsSkip ==
  ASSUME NEW S, NEW k \in Nat, Offsets[k + 1] \notin S
  PROVE  Sums(S, k + 1) = Sums(S, k)
<1>1. 1..(k + 1) = (1..k) \cup {k + 1}
  OBVIOUS
<1>2. Whole(S, k + 1) = Whole(S, k)
  BY <1>1 DEF Whole
<1> DEFINE G(T) == [n \in 1..Cardinality(T) |->
                      Added(S, CHOOSE j \in T : Cardinality({m \in T : m >= j}) = n)]
<1>3. Sums(S, k) = G(Whole(S, k)) /\ Sums(S, k + 1) = G(Whole(S, k + 1))
  BY DEF Sums
<1> HIDE DEF G
<1> QED BY <1>2, <1>3

LEMMA SumsAdd ==
  ASSUME NEW S, NEW k \in Nat, Offsets[k + 1] \in S, Sums(S, k) \in Seq(Nat),
         Added(S, k + 1) \in Nat
  PROVE  /\ Sums(S, k + 1) = <<Added(S, k + 1)>> \o Sums(S, k)
         /\ Sums(S, k + 1) \in Seq(Nat)
<1> DEFINE W == Whole(S, k)
           V == Whole(S, k + 1)
           a == Added(S, k + 1)
           up(T, j) == {m \in T : m >= j}
           at(T, n) == CHOOSE j \in T : Cardinality(up(T, j)) = n
<1>1. V = W \cup {k + 1} /\ W \subseteq 1..k
  <2>1. 1..(k + 1) = (1..k) \cup {k + 1}
    OBVIOUS
  <2> QED BY <2>1 DEF Whole
<1>2. /\ Sums(S, k) = [n \in 1..Cardinality(W) |-> Added(S, at(W, n))]
      /\ Sums(S, k + 1) = [n \in 1..Cardinality(V) |-> Added(S, at(V, n))]
  BY DEF Sums
<1> HIDE DEF W, V
<1>3. IsFiniteSet(W) /\ Cardinality(W) \in Nat /\ \A T \in SUBSET W : IsFiniteSet(T)
  <2>1. IsFiniteSet(1..k)
    BY FS_Interval
  <2> QED BY <1>1, <2>1, FS_Subset, FS_CardinalityType
<1>4. Cardinality(V) = Cardinality(W) + 1
  <2>1. k + 1 \notin W
    BY <1>1
  <2> QED BY <1>1, <1>3, <2>1, FS_AddElement
<1>5. Cardinality(up(V, k + 1)) = 1
  <2>1. (\A m \in W : ~(m >= k + 1)) /\ k + 1 >= k + 1
    BY <1>1
  <2>2. up(V, k + 1) = {k + 1}
    BY <1>1, <2>1, Zenon
  <2> QED BY <2>2, FS_Singleton
<1>6. ASSUME NEW j \in W
      PROVE  /\ Cardinality(up(W, j)) \in Nat \ {0}
             /\ Cardinality(up(V, j)) = Cardinality(up(W, j)) + 1
  <2>1. up(V, j) = up(W, j) \cup {k + 1} /\ k + 1 \notin up(W, j)
    BY <1>1
  <2>2. IsFiniteSet(up(W, j)) /\ j \in up(W, j)
    BY <1>1, <1>3
  <2>3. Cardinality(up(W, j)) \in Nat
    BY <2>2, FS_CardinalityType
  <2>4. Cardinality(up(W, j)) # 0
    BY <2>2, FS_EmptySet
  <2>5. Cardinality(up(W, j) \cup {k + 1}) = Cardinality(up(W, j)) + 1
    BY <2>1, <2>2, FS_AddElement
  <2> HIDE DEF up
  <2> QED BY <2>1, <2>3, <2>4, <2>5
<1>7. at(V, 1) = k + 1
  <2>1. \A j \in V : Cardinality(up(V, j)) = 1 <=> j = k + 1
    <3> SUFFICES ASSUME NEW j \in V PROVE Cardinality(up(V, j)) = 1 <=> j = k + 1
      OBVIOUS
    <3>1. CASE j = k + 1
      BY <1>5, <3>1
    <3>2. CASE j # k + 1
      <4>1. j \in W
        BY <1>1, <3>2
      <4> HIDE DEF up
      <4>2. Cardinality(up(V, j)) # 1
        BY <1>6, <4>1
      <4> QED BY <3>2, <4>2
    <3> QED BY <3>1, <3>2
  <2>2. k + 1 \in V
    BY <1>1
  <2> HIDE DEF up
  <2> QED BY <2>1, <2>2
<1>8. ASSUME NEW n \in Nat, n > 1
      PROVE  at(V, n) = at(W, n - 1)
  <2>1. ASSUME NEW j
        PROVE  (j \in V /\ Cardinality(up(V, j)) = n)
                 <=> (j \in W /\ Cardinality(up(W, j)) = n - 1)
    <3>1. CASE j \in W
      <4> HIDE DEF up
      <4>1. /\ Cardinality(up(W, j)) \in Nat
            /\ Cardinality(up(V, j)) = Cardinality(up(W, j)) + 1
        BY <1>6, <3>1
      <4>2. Cardinality(up(V, j)) = n <=> Cardinality(up(W, j)) = n - 1
        BY <1>8, <4>1
      <4> QED BY <1>1, <3>1, <4>2
    <3>2. CASE j = k + 1
      <4>1. Cardinality(up(V, j)) = 1 /\ j \notin W
        <5>1. j \notin W
          BY <1>1, <3>2
        <5> HIDE DEF up
        <5> QED BY <1>5, <3>2, <5>1
      <4> HIDE DEF up
      <4> QED BY <1>8, <4>1
    <3>3. CASE j \notin V
      BY <1>1, <3>3
    <3> HIDE DEF up
    <3> QED BY <1>1, <3>1, <3>2, <3>3
  <2> HIDE DEF up
  <2> QED BY <2>1, Zenon
<1> HIDE DEF up, at
<1>9. /\ Len(Sums(S, k)) = Cardinality(W)
      /\ \A n \in 1..Cardinality(W) : Sums(S, k)[n] = Added(S, at(W, n))
  <2>1. DOMAIN Sums(S, k) = 1..Cardinality(W)
    BY <1>2
  <2>2. DOMAIN Sums(S, k) = 1..Len(Sums(S, k)) /\ Len(Sums(S, k)) \in Nat
    BY LenProperties
  <2>3. Len(Sums(S, k)) = Cardinality(W)
    BY <1>3, <2>1, <2>2
  <2> QED BY <1>2, <2>3
<1> DEFINE f == Sums(S, k)
           g == Sums(S, k + 1)
           h == <<a>> \o f
<1>10. a \in Nat /\ f \in Seq(Nat) /\ <<a>> \in Seq(Nat) /\ Len(<<a>>) = 1 /\ <<a>>[1] = a
  OBVIOUS
<1>11. /\ h \in Seq(Nat) /\ Len(h) = 1 + Cardinality(W)
       /\ \A n \in 1..(1 + Cardinality(W)) : h[n] = IF n <= 1 THEN <<a>>[n] ELSE f[n - 1]
  <2> HIDE DEF f, a
  <2>1. /\ Len(<<a>> \o f) = Len(<<a>>) + Len(f)
        /\ \A n \in 1..(Len(<<a>>) + Len(f)) :
             (<<a>> \o f)[n] = IF n <= Len(<<a>>) THEN <<a>>[n] ELSE f[n - Len(<<a>>)]
        /\ <<a>> \o f \in Seq(Nat)
    BY <1>10, ConcatProperties
  <2>2. Len(f) = Cardinality(W)
    BY <1>9 DEF f
  <2> QED BY <1>10, <2>1, <2>2
<1>12. ASSUME NEW n \in 1..(1 + Cardinality(W))
       PROVE  h[n] = Added(S, at(V, n))
  <2>1. CASE n = 1
    <3> HIDE DEF f, h
    <3> QED BY <1>3, <1>7, <1>10, <1>11, <2>1
  <2>2. CASE n # 1
    <3>1. n \in Nat /\ n > 1 /\ n - 1 \in 1..Cardinality(W) /\ ~(n <= 1)
      BY <1>3, <2>2
    <3>2. h[n] = f[n - 1]
      <4> HIDE DEF f, h
      <4> QED BY <1>11, <3>1
    <3>3. f[n - 1] = Added(S, at(W, n - 1))
      BY <1>9, <3>1
    <3>4. at(V, n) = at(W, n - 1)
      BY <1>8, <3>1
    <3> HIDE DEF f, h
    <3> QED BY <3>2, <3>3, <3>4
  <2> QED BY <2>1, <2>2
<1>13. h = [n \in 1..(1 + Cardinality(W)) |-> Added(S, at(V, n))]
  <2> HIDE DEF h
  <2>1. h = [n \in 1..Len(h) |-> h[n]]
    BY <1>11, LenProperties
  <2> QED BY <1>11, <1>12, <2>1
<1>14. g = [n \in 1..(1 + Cardinality(W)) |-> Added(S, at(V, n))]
  <2>1. 1 + Cardinality(W) = Cardinality(V)
    BY <1>3, <1>4
  <2> QED BY <1>2, <2>1, Zenon
<1> HIDE DEF g, h, f
<1>15. g = h
  BY <1>13, <1>14
<1> QED BY <1>11, <1>15 DEF g, h, f

\* Steps of the walks leave the reduction.
LEMMA WalkLeaves ==
  ASSUME ReduceInv, UNCHANGED vars
  PROVE  /\ ReduceInv' /\ Offsets' = Offsets /\ LineCount' = LineCount
         /\ link' = link /\ pc' = pc /\ result' = result
<1>1. UNCHANGED <<lists, array, link, pc, result>>
  BY DEF vars
<1>2. Final' = Final /\ AllNodes' = AllNodes
  BY <1>1, SameArray
<1> QED BY <1>1, <1>2, ReduceStep DEF Offsets, LineCount

LEMMA SumsNext ==
  ASSUME Offsets' = Offsets
  PROVE  \A k : Sums(atomic, k)' = Sums(atomic', k)
BY DEF Sums, Whole, Added

LEMMA ListsInitial == ListsInit => ListsInv
<1> SUFFICES ASSUME Init, InitUses PROVE ListsInv
  BY DEF ListsInit
<1>1. ReduceInv
  BY ReduceInit
<1>2. UsesOK
  <2>1. <<>> \in Seq(Nat)
    BY EmptySeq
  <2>2. \A k \in DOMAIN values : values[k] \in Nat
    <3>1. DOMAIN values = {}
      BY EmptySeq DEF InitUses
    <3> QED BY <3>1
  <2>3. node \in Pointer /\ prev \in Pointer
    BY Pointers DEF InitUses
  <2>4. out \in Seq(Nat)
    BY <2>1 DEF InitUses
  <2>5. slot \in Int /\ freed \subseteq Nodes /\ atomic \subseteq Nodes
    BY DEF InitUses
  <2>6. use = "none" /\ step = "walk" /\ last = FALSE
    BY DEF InitUses
  <2> QED BY <2>2, <2>3, <2>4, <2>5, <2>6 DEF UsesOK
<1>3. UnusedInv /\ MemoryInv /\ NodesInv
  BY DEF InitUses, UnusedInv, MemoryInv, NodesInv
<1> QED BY <1>1, <1>2, <1>3 DEF ListsInv

\* A step of the reduction: nothing has been made of the list.
LEMMA ReduceStepKeeps ==
  ASSUME ListsInv, Next, UNCHANGED uses
  PROVE  ListsInv'
<1>1. UNCHANGED <<use, step, node, values, slot, freed, atomic, prev, last, out>>
  BY DEF uses
<1>2. ReduceInv'
  BY ReduceStep DEF ListsInv
<1>3. pc # "done"
  BY DEF Next, Copy, Begin, Fail, Skip, Take, Prepend, Finish, Iterate
<1>4. use = "none"
  BY <1>3 DEF ListsInv, UnusedInv
<1>5. UsesOK'
  BY <1>1 DEF ListsInv, UsesOK
<1>6. UnusedInv' /\ MemoryInv' /\ NodesInv'
  BY <1>1, <1>4 DEF ListsInv, UnusedInv, MemoryInv, NodesInv
<1> QED BY <1>2, <1>5, <1>6 DEF ListsInv

LEMMA StartMemoryKeeps ==
  ASSUME ListsInv, StartMemory
  PROVE  ListsInv'
<1>1. /\ pc = "done" /\ use = "none" /\ use' = "memory" /\ node' = result.first
      /\ slot' = LineCount
      /\ UNCHANGED vars
      /\ UNCHANGED <<step, values, freed, atomic, prev, last, out>>
  BY DEF StartMemory, Reduced
<1>2. /\ ReduceInv' /\ Offsets' = Offsets /\ LineCount' = LineCount /\ pc' = pc
  BY <1>1, WalkLeaves DEF ListsInv
<1>3. /\ LineCount \in Nat /\ Len(Offsets) \in Nat /\ 0 \in 0..Len(Offsets)
  BY OffsetsBound DEF ListsInv, ReduceInv
<1>4. node' = After(Offsets, 0) /\ node' \in Pointer
  BY <1>1, <1>3, ListNext, AfterNode DEF ListsInv, ReduceInv
<1>5. UsesOK'
  BY <1>1, <1>3, <1>4 DEF ListsInv, UsesOK
<1>6. values' = [x \in (slot' + 1)..LineCount |-> Offsets[LineCount + 1 - x]]
  <2> DEFINE f == [x \in (LineCount + 1)..LineCount |-> Offsets[LineCount + 1 - x]]
  <2>1. (LineCount + 1)..LineCount = {} /\ 1..0 = {}
    BY <1>3
  <2>2. f \in [1..0 -> Nat] /\ 0 \in Nat
    BY <2>1
  <2> HIDE DEF f
  <2>3. f \in Seq(Nat)
    BY <2>2, SeqDef
  <2>4. DOMAIN f = {} /\ DOMAIN f = 1..Len(f) /\ Len(f) \in Nat
    BY <2>1, <2>2, <2>3, LenProperties
  <2>5. Len(f) = 0
    BY <2>4
  <2>6. f = <<>>
    BY <2>3, <2>5, EmptySeq
  <2> QED BY <1>1, <2>6 DEF f, ListsInv, UnusedInv
<1>7. freed' = {Offsets[j] : j \in 1..0}
  BY <1>1 DEF ListsInv, UnusedInv
<1>8. StoredInv(0)'
  BY <1>2, <1>4, <1>6, <1>7 DEF StoredInv
<1>9. MemoryInv'
  <2>1. slot' = LineCount' - 0
    BY <1>1, <1>2, <1>3
  <2>2. step' # "done"
    BY <1>1 DEF ListsInv, UnusedInv
  <2> QED BY <1>2, <1>3, <1>8, <2>1, <2>2 DEF MemoryInv
<1>10. UnusedInv' /\ NodesInv'
  BY <1>1, <1>2 DEF UnusedInv, NodesInv
<1> QED BY <1>2, <1>5, <1>9, <1>10 DEF ListsInv

\* Where a walk that builds an index in memory is.
LEMMA MemoryPlace ==
  ASSUME ListsInv, use = "memory", step = "walk"
  PROVE  \E k \in 0..Len(Offsets) :
           /\ slot = LineCount - k /\ StoredInv(k)
           /\ LineCount \in Nat /\ Len(Offsets) \in 0..LineCount /\ Len(Offsets) \in Nat
           /\ pc = "done"
           /\ node = NullNode <=> k = Len(Offsets)
           /\ k # Len(Offsets) =>
                /\ k + 1 \in 1..Len(Offsets)
                /\ node = Offsets[k + 1]
                /\ node \in Nodes /\ node \in Nat
                /\ link[node] = After(Offsets, k + 1)
<1>1. PICK k \in 0..Len(Offsets) : slot = LineCount - k /\ StoredInv(k)
  BY DEF ListsInv, MemoryInv
<1>2. /\ LineCount \in Nat /\ Len(Offsets) \in 0..LineCount
      /\ \A j \in 1..Len(Offsets) : Offsets[j] \in Nodes /\ Offsets[j] \in Nat
  BY OffsetsBound DEF ListsInv, ReduceInv
<1>3. pc = "done"
  BY DEF ListsInv, UnusedInv
<1>4. node = After(Offsets, k)
  BY <1>1 DEF StoredInv
<1>5. /\ node = NullNode <=> k = Len(Offsets)
      /\ k # Len(Offsets) => k + 1 \in 1..Len(Offsets) /\ node = Offsets[k + 1]
  BY <1>4, AfterNode DEF ListsInv, ReduceInv
<1>6. \A j \in 1..Len(Offsets) : link[Offsets[j]] = After(Offsets, j)
  BY <1>3, ListNext DEF ListsInv
<1> QED BY <1>1, <1>2, <1>3, <1>5, <1>6

LEMMA StoreValueKeeps ==
  ASSUME ListsInv, StoreValue
  PROVE  ListsInv'
<1>1. /\ use = "memory" /\ step = "walk" /\ node # NullNode
      /\ values' = Put(values, slot, node)
      /\ slot' = slot - 1
      /\ freed' = freed \cup {node}
      /\ node' = link[node]
      /\ UNCHANGED vars
      /\ UNCHANGED <<use, step, atomic, prev, last, out>>
  BY DEF StoreValue
<1>2. /\ ReduceInv' /\ Offsets' = Offsets /\ LineCount' = LineCount /\ pc' = pc
  BY <1>1, WalkLeaves DEF ListsInv
<1>3. PICK k \in 0..Len(Offsets) :
        /\ slot = LineCount - k /\ StoredInv(k)
        /\ LineCount \in Nat /\ Len(Offsets) \in 0..LineCount /\ Len(Offsets) \in Nat
        /\ pc = "done"
        /\ node = NullNode <=> k = Len(Offsets)
        /\ k # Len(Offsets) =>
             /\ k + 1 \in 1..Len(Offsets)
             /\ node = Offsets[k + 1]
             /\ node \in Nodes /\ node \in Nat
             /\ link[node] = After(Offsets, k + 1)
  BY <1>1, MemoryPlace
<1>4. /\ k + 1 \in 1..Len(Offsets) /\ node = Offsets[k + 1] /\ node \in Nodes /\ node \in Nat
      /\ node' = After(Offsets, k + 1)
  BY <1>1, <1>3
<1>5. slot' = LineCount - (k + 1) /\ slot' \in Int /\ k + 1 \in 0..Len(Offsets)
  BY <1>1, <1>3, <1>4
<1>6. freed' = {Offsets[j] : j \in 1..(k + 1)}
  <2>1. 1..(k + 1) = (1..k) \cup {k + 1}
    BY <1>3
  <2>2. freed = {Offsets[j] : j \in 1..k}
    BY <1>3 DEF StoredInv
  <2> QED BY <1>1, <1>4, <2>1, <2>2
<1>7. values' = [x \in (slot' + 1)..LineCount |-> Offsets[LineCount + 1 - x]]
  <2>1. values = [x \in (slot + 1)..LineCount |-> Offsets[LineCount + 1 - x]]
    BY <1>3 DEF StoredInv
  <2>2. (slot' + 1)..LineCount = ((slot + 1)..LineCount) \cup {slot} /\ slot \in Int
    BY <1>1, <1>3, <1>4
  <2>3. DOMAIN values = (slot + 1)..LineCount
    BY <2>1
  <2>4. values' = [x \in (slot' + 1)..LineCount |-> IF x = slot THEN node ELSE values[x]]
    BY <1>1, <2>2, <2>3 DEF Put
  <2>5. ASSUME NEW x \in (slot' + 1)..LineCount
        PROVE  (IF x = slot THEN node ELSE values[x]) = Offsets[LineCount + 1 - x]
    <3>1. CASE x = slot
      <4>1. LineCount + 1 - x = k + 1
        BY <1>3, <3>1
      <4> QED BY <1>4, <3>1, <4>1
    <3>2. CASE x # slot
      BY <2>1, <2>2, <2>5, <3>2
    <3> QED BY <3>1, <3>2
  <2> QED BY <2>4, <2>5
<1>8. StoredInv(k + 1)'
  BY <1>2, <1>4, <1>6, <1>7 DEF StoredInv
<1>9. MemoryInv'
  BY <1>1, <1>2, <1>5, <1>8 DEF MemoryInv
<1>10. UsesOK'
  <2>1. \A x \in DOMAIN values' : values'[x] \in Nat
    BY <1>1, <1>4 DEF Put, ListsInv, UsesOK
  <2>2. node' \in Pointer
    BY <1>4, <1>5, AfterNode DEF ListsInv, ReduceInv
  <2>3. freed' \subseteq Nodes
    BY <1>1, <1>4 DEF ListsInv, UsesOK
  <2> QED BY <1>1, <1>5, <2>1, <2>2, <2>3 DEF ListsInv, UsesOK
<1>11. UnusedInv' /\ NodesInv'
  BY <1>1, <1>2, <1>3 DEF UnusedInv, NodesInv
<1> QED BY <1>2, <1>9, <1>10, <1>11 DEF ListsInv

LEMMA EndMemoryKeeps ==
  ASSUME ListsInv, EndMemory
  PROVE  ListsInv'
<1> DEFINE zeroed == Put(values, 0, 0)
<1>1. /\ use = "memory" /\ step = "walk" /\ node = NullNode
      /\ values' = IF LineCount \in DOMAIN zeroed
                   THEN Put(zeroed, LineCount + 1, zeroed[LineCount]) ELSE zeroed
      /\ step' = "done"
      /\ UNCHANGED vars
      /\ UNCHANGED <<use, node, slot, freed, atomic, prev, last, out>>
  BY DEF EndMemory
<1>2. /\ ReduceInv' /\ Offsets' = Offsets /\ LineCount' = LineCount /\ pc' = pc
  BY <1>1, WalkLeaves DEF ListsInv
<1>3. PICK k \in 0..Len(Offsets) :
        /\ slot = LineCount - k /\ StoredInv(k)
        /\ LineCount \in Nat /\ Len(Offsets) \in 0..LineCount /\ Len(Offsets) \in Nat
        /\ pc = "done"
        /\ node = NullNode <=> k = Len(Offsets)
  BY <1>1, MemoryPlace
<1>4. zeroed = [x \in DOMAIN values \cup {0} |-> IF x = 0 THEN 0 ELSE values[x]]
  BY DEF Put
<1>5. UsesOK'
  <2> HIDE DEF zeroed
  <2>1. \A x \in DOMAIN zeroed : zeroed[x] \in Nat
    BY <1>4 DEF ListsInv, UsesOK
  <2>2. \A x \in DOMAIN values' : values'[x] \in Nat
    <3>1. CASE LineCount \in DOMAIN zeroed
      BY <1>1, <2>1, <3>1 DEF Put
    <3>2. CASE LineCount \notin DOMAIN zeroed
      BY <1>1, <2>1, <3>2
    <3> QED BY <3>1, <3>2
  <2> QED BY <1>1, <2>2 DEF ListsInv, UsesOK
<1>6. ASSUME Len(Offsets) = LineCount
      PROVE  values' = [x \in 0..(LineCount + 1) |->
                          IF x = 0 THEN 0
                          ELSE IF x <= LineCount THEN Offsets[LineCount + 1 - x]
                          ELSE IF LineCount = 0 THEN 0 ELSE Offsets[1]]
  <2>1. values = [x \in 1..LineCount |-> Offsets[LineCount + 1 - x]]
    <3>1. slot + 1 = 1
      BY <1>1, <1>3, <1>6
    <3> QED BY <1>3, <3>1 DEF StoredInv
  <2>2. (1..LineCount) \cup {0} = 0..LineCount
    BY <1>3
  <2>3. zeroed = [x \in 0..LineCount |-> IF x = 0 THEN 0 ELSE Offsets[LineCount + 1 - x]]
    <3>1. DOMAIN values = 1..LineCount
      BY <2>1
    <3>2. zeroed = [x \in 0..LineCount |-> IF x = 0 THEN 0 ELSE values[x]]
      BY <1>4, <2>2, <3>1
    <3>3. \A x \in 0..LineCount : x # 0 => values[x] = Offsets[LineCount + 1 - x]
      BY <1>3, <2>1
    <3> HIDE DEF zeroed
    <3> QED BY <3>2, <3>3
  <2> HIDE DEF zeroed
  <2>4. LineCount \in DOMAIN zeroed /\ DOMAIN zeroed = 0..LineCount
    BY <1>3, <2>3
  <2>5. zeroed[LineCount] = IF LineCount = 0 THEN 0 ELSE Offsets[1]
    <3>1. LineCount + 1 - LineCount = 1 /\ LineCount \in 0..LineCount
      BY <1>3
    <3>2. zeroed[LineCount] = IF LineCount = 0 THEN 0 ELSE Offsets[LineCount + 1 - LineCount]
      BY <2>3, <3>1
    <3> QED BY <3>1, <3>2
  <2>6. (0..LineCount) \cup {LineCount + 1} = 0..(LineCount + 1)
    BY <1>3
  <2>7. values' = [x \in 0..(LineCount + 1) |->
                     IF x = LineCount + 1 THEN zeroed[LineCount] ELSE zeroed[x]]
    BY <1>1, <2>4, <2>6 DEF Put
  <2>8. ASSUME NEW x \in 0..(LineCount + 1)
        PROVE  (IF x = LineCount + 1 THEN zeroed[LineCount] ELSE zeroed[x])
                 = IF x = 0 THEN 0
                   ELSE IF x <= LineCount THEN Offsets[LineCount + 1 - x]
                   ELSE IF LineCount = 0 THEN 0 ELSE Offsets[1]
    <3>1. CASE x = LineCount + 1
      <4>1. x # 0 /\ ~(x <= LineCount)
        BY <1>3, <3>1
      <4> QED BY <2>5, <3>1, <4>1
    <3>2. CASE x # LineCount + 1
      <4>1. x \in 0..LineCount /\ x <= LineCount
        BY <1>3, <3>2
      <4> QED BY <2>3, <3>2, <4>1
    <3> QED BY <3>1, <3>2
  <2> QED BY <2>7, <2>8
<1>7. MemoryInv'
  <2>1. use' = "memory" /\ step' = "done" /\ step' # "walk"
    BY <1>1
  <2> HIDE DEF zeroed
  <2> QED BY <1>2, <1>6, <2>1 DEF MemoryInv
<1>8. UnusedInv' /\ NodesInv'
  BY <1>1, <1>2, <1>3 DEF UnusedInv, NodesInv
<1> QED BY <1>2, <1>5, <1>7, <1>8 DEF ListsInv

LEMMA StartNodesKeeps ==
  ASSUME ListsInv, StartNodes
  PROVE  ListsInv'
<1>1. /\ pc = "done" /\ use = "none" /\ use' = "nodes" /\ node' = result.first
      /\ atomic' \in SUBSET AllNodes
      /\ UNCHANGED vars
      /\ UNCHANGED <<step, values, slot, freed, prev, last, out>>
  BY DEF StartNodes, Reduced
<1>2. /\ ReduceInv' /\ Offsets' = Offsets /\ LineCount' = LineCount /\ pc' = pc
  BY <1>1, WalkLeaves DEF ListsInv
<1>3. Len(Offsets) \in Nat /\ 0 \in 0..Len(Offsets)
  BY OffsetsBound DEF ListsInv, ReduceInv
<1>4. node' = After(Offsets, 0) /\ node' \in Pointer
  BY <1>1, <1>3, ListNext, AfterNode DEF ListsInv, ReduceInv
<1>5. UsesOK'
  <2>1. atomic' \subseteq Nodes
    BY <1>1, FinalShape DEF ListsInv, ReduceInv
  <2> QED BY <1>1, <1>4, <2>1 DEF ListsInv, UsesOK
<1>6. AddedInv(0)'
  <2>1. prev' = NullNode /\ out' = <<>> /\ ~(0 > 0)
    BY <1>1 DEF ListsInv, UnusedInv
  <2>2. Sums(atomic, 0)' = <<>>
    BY <1>2, SumsNext, SumsStart
  <2> QED BY <1>2, <1>4, <2>1, <2>2 DEF AddedInv
<1>7. NodesInv'
  <2>1. step' # "done"
    BY <1>1 DEF ListsInv, UnusedInv
  <2> QED BY <1>2, <1>3, <1>6, <2>1 DEF NodesInv
<1>8. UnusedInv' /\ MemoryInv'
  BY <1>1, <1>2 DEF UnusedInv, MemoryInv
<1> QED BY <1>2, <1>5, <1>7, <1>8 DEF ListsInv

\* Where a walk that makes a list is.
LEMMA NodesPlace ==
  ASSUME ListsInv, use = "nodes", step = "walk"
  PROVE  \E k \in 0..Len(Offsets) :
           /\ AddedInv(k)
           /\ Len(Offsets) \in Nat
           /\ \A j \in 1..Len(Offsets) : Offsets[j] \in Nodes /\ Offsets[j] \in Nat
           /\ pc = "done"
           /\ node = NullNode <=> k = Len(Offsets)
           /\ k # Len(Offsets) =>
                /\ k + 1 \in 1..Len(Offsets)
                /\ node = Offsets[k + 1]
                /\ node \in Nodes /\ node \in Nat
                /\ link[node] = After(Offsets, k + 1)
<1>1. PICK k \in 0..Len(Offsets) : AddedInv(k)
  BY DEF ListsInv, NodesInv
<1>2. /\ Len(Offsets) \in Nat
      /\ \A j \in 1..Len(Offsets) : Offsets[j] \in Nodes /\ Offsets[j] \in Nat
  BY OffsetsBound DEF ListsInv, ReduceInv
<1>3. pc = "done"
  BY DEF ListsInv, UnusedInv
<1>4. node = After(Offsets, k)
  BY <1>1 DEF AddedInv
<1>5. /\ node = NullNode <=> k = Len(Offsets)
      /\ k # Len(Offsets) => k + 1 \in 1..Len(Offsets) /\ node = Offsets[k + 1]
  BY <1>4, AfterNode DEF ListsInv, ReduceInv
<1>6. \A j \in 1..Len(Offsets) : link[Offsets[j]] = After(Offsets, j)
  BY <1>3, ListNext DEF ListsInv
<1> QED BY <1>1, <1>2, <1>3, <1>5, <1>6

LEMMA KeepBytesKeeps ==
  ASSUME ListsInv, KeepBytes
  PROVE  ListsInv'
<1>1. /\ use = "nodes" /\ step = "walk" /\ node # NullNode /\ node \notin atomic
      /\ prev' = node /\ node' = link[node]
      /\ UNCHANGED vars
      /\ UNCHANGED <<use, step, values, slot, freed, atomic, last, out>>
  BY DEF KeepBytes, Walking
<1>2. /\ ReduceInv' /\ Offsets' = Offsets /\ LineCount' = LineCount /\ pc' = pc
  BY <1>1, WalkLeaves DEF ListsInv
<1>3. PICK k \in 0..Len(Offsets) :
        /\ AddedInv(k)
        /\ Len(Offsets) \in Nat
        /\ pc = "done"
        /\ node = NullNode <=> k = Len(Offsets)
        /\ k # Len(Offsets) =>
             /\ k + 1 \in 1..Len(Offsets)
             /\ node = Offsets[k + 1]
             /\ node \in Nodes /\ node \in Nat
             /\ link[node] = After(Offsets, k + 1)
  BY <1>1, NodesPlace
<1>4. /\ k + 1 \in 1..Len(Offsets) /\ node = Offsets[k + 1] /\ node \in Nodes
      /\ node' = After(Offsets, k + 1) /\ k \in Nat /\ k + 1 \in 0..Len(Offsets) /\ k + 1 > 0
  BY <1>1, <1>3
<1>5. out' = Sums(atomic, k + 1)
  BY <1>1, <1>3, <1>4, SumsSkip DEF AddedInv
<1>6. AddedInv(k + 1)'
  <2>1. Sums(atomic, k + 1)' = Sums(atomic, k + 1)
    BY <1>1, <1>2, SumsNext
  <2>2. prev' = IF k + 1 > 0 /\ Offsets[k + 1] \notin atomic THEN Offsets[k + 1] ELSE NullNode
    BY <1>1, <1>4
  <2> QED BY <1>1, <1>2, <1>4, <1>5, <2>1, <2>2 DEF AddedInv
<1>7. NodesInv'
  BY <1>1, <1>2, <1>4, <1>6 DEF NodesInv
<1>8. UsesOK'
  <2>1. node' \in Pointer /\ prev' \in Pointer
    BY <1>1, <1>4, AfterNode, Pointers DEF ListsInv, ReduceInv
  <2> QED BY <1>1, <2>1 DEF ListsInv, UsesOK
<1>9. UnusedInv' /\ MemoryInv'
  BY <1>1, <1>2, <1>3 DEF UnusedInv, MemoryInv
<1> QED BY <1>2, <1>7, <1>8, <1>9 DEF ListsInv

LEMMA PrependNodeKeeps ==
  ASSUME ListsInv, PrependNode
  PROVE  ListsInv'
<1>1. /\ use = "nodes" /\ step = "walk" /\ node # NullNode /\ node \in atomic
      /\ out' = <<IF prev = NullNode THEN node ELSE prev + node>> \o out
      /\ last' = TRUE /\ prev' = NullNode /\ node' = link[node]
      /\ UNCHANGED vars
      /\ UNCHANGED <<use, step, values, slot, freed, atomic>>
  BY DEF PrependNode, Walking
<1>2. /\ ReduceInv' /\ Offsets' = Offsets /\ LineCount' = LineCount /\ pc' = pc
  BY <1>1, WalkLeaves DEF ListsInv
<1>3. PICK k \in 0..Len(Offsets) :
        /\ AddedInv(k)
        /\ Len(Offsets) \in Nat
        /\ \A j \in 1..Len(Offsets) : Offsets[j] \in Nodes /\ Offsets[j] \in Nat
        /\ pc = "done"
        /\ node = NullNode <=> k = Len(Offsets)
        /\ k # Len(Offsets) =>
             /\ k + 1 \in 1..Len(Offsets)
             /\ node = Offsets[k + 1]
             /\ node \in Nodes /\ node \in Nat
             /\ link[node] = After(Offsets, k + 1)
  BY <1>1, NodesPlace
<1>4. /\ k + 1 \in 1..Len(Offsets) /\ node = Offsets[k + 1] /\ node \in Nat
      /\ node' = After(Offsets, k + 1) /\ k \in Nat /\ k + 1 \in 0..Len(Offsets)
  BY <1>1, <1>3
<1>5. /\ Added(atomic, k + 1) = (IF prev = NullNode THEN node ELSE prev + node)
      /\ Added(atomic, k + 1) \in Nat
  <2>1. (k + 1 > 1 <=> k > 0) /\ (k + 1) - 1 = k
    BY <1>4
  <2>2. Added(atomic, k + 1) =
          node + (IF k > 0 /\ Offsets[k] \notin atomic THEN Offsets[k] ELSE 0)
    BY <1>4, <2>1 DEF Added
  <2>3. prev = IF k > 0 /\ Offsets[k] \notin atomic THEN Offsets[k] ELSE NullNode
    BY <1>3 DEF AddedInv
  <2>4. CASE k > 0 /\ Offsets[k] \notin atomic
    <3>1. k \in 1..Len(Offsets)
      BY <1>3, <2>4
    <3>2. prev = Offsets[k] /\ prev \in Nodes /\ prev \in Nat /\ prev # NullNode
      BY <1>3, <2>3, <2>4, <3>1, Pointers
    <3>3. prev + node \in Nat /\ prev + node = node + prev
      <4>1. prev \in Nat /\ node \in Nat
        BY <1>4, <3>2
      <4> QED BY <4>1
    <3> QED BY <2>2, <2>4, <3>2, <3>3
  <2>5. CASE ~(k > 0 /\ Offsets[k] \notin atomic)
    <3>1. node + 0 = node
      BY <1>4
    <3> QED BY <1>4, <2>2, <2>3, <2>5, <3>1
  <2> QED BY <2>4, <2>5
<1>6. out' = Sums(atomic, k + 1) /\ out' \in Seq(Nat)
  <2>1. out = Sums(atomic, k) /\ out \in Seq(Nat)
    BY <1>3 DEF AddedInv, ListsInv, UsesOK
  <2>2. /\ Sums(atomic, k + 1) = <<Added(atomic, k + 1)>> \o Sums(atomic, k)
        /\ Sums(atomic, k + 1) \in Seq(Nat)
    BY <1>1, <1>4, <1>5, <2>1, SumsAdd
  <2> QED BY <1>1, <1>5, <2>1, <2>2
<1>7. AddedInv(k + 1)'
  <2>1. Sums(atomic, k + 1)' = Sums(atomic, k + 1)
    BY <1>1, <1>2, SumsNext
  <2>2. prev' = IF k + 1 > 0 /\ Offsets[k + 1] \notin atomic THEN Offsets[k + 1] ELSE NullNode
    BY <1>1, <1>4
  <2> QED BY <1>1, <1>2, <1>4, <1>6, <2>1, <2>2 DEF AddedInv
<1>8. NodesInv'
  BY <1>1, <1>2, <1>4, <1>7 DEF NodesInv
<1>9. UsesOK'
  <2>1. node' \in Pointer /\ prev' \in Pointer
    BY <1>1, <1>4, AfterNode, Pointers DEF ListsInv, ReduceInv
  <2> QED BY <1>1, <1>6, <2>1 DEF ListsInv, UsesOK
<1>10. UnusedInv' /\ MemoryInv'
  BY <1>1, <1>2, <1>3 DEF UnusedInv, MemoryInv
<1> QED BY <1>2, <1>8, <1>9, <1>10 DEF ListsInv

LEMMA EndNodesKeeps ==
  ASSUME ListsInv, EndNodes
  PROVE  ListsInv'
<1>1. /\ use = "nodes" /\ step = "walk" /\ node = NullNode
      /\ out' \in {<<0>> \o rest : rest \in IF last THEN {out} ELSE Garbage}
      /\ step' = "done"
      /\ UNCHANGED vars
      /\ UNCHANGED <<use, node, values, slot, freed, atomic, prev, last>>
  BY DEF EndNodes
<1>2. /\ ReduceInv' /\ Offsets' = Offsets /\ LineCount' = LineCount /\ pc' = pc
  BY <1>1, WalkLeaves DEF ListsInv
<1>3. PICK k \in 0..Len(Offsets) :
        AddedInv(k) /\ pc = "done" /\ (node = NullNode <=> k = Len(Offsets))
  BY <1>1, NodesPlace
<1>4. out = Sums(atomic, Len(Offsets))
  BY <1>1, <1>3 DEF AddedInv
<1>5. Sums(atomic, Len(Offsets))' = Sums(atomic, Len(Offsets))
  BY <1>1, <1>2, SumsNext
<1>6. last => out' = <<0>> \o out
  BY <1>1
<1>7. NodesInv'
  <2>1. step' # "walk"
    BY <1>1
  <2> QED BY <1>1, <1>4, <1>5, <1>6, <2>1 DEF NodesInv
<1>8. out' \in Seq(Nat)
  <2>1. \A rest \in Garbage : rest \in Seq(Nat)
    <3>1. <<>> \in Seq(Nat) /\ <<1>> \in Seq(Nat)
      BY EmptySeq
    <3> QED BY <3>1 DEF Garbage
  <2>2. PICK rest : rest \in Seq(Nat) /\ out' = <<0>> \o rest
    BY <1>1, <2>1 DEF ListsInv, UsesOK
  <2>3. <<0>> \in Seq(Nat)
    OBVIOUS
  <2> QED BY <2>2, <2>3, ConcatProperties
<1>9. UsesOK'
  BY <1>1, <1>8 DEF ListsInv, UsesOK
<1>10. UnusedInv' /\ MemoryInv'
  BY <1>1, <1>2, <1>3 DEF UnusedInv, MemoryInv
<1> QED BY <1>2, <1>7, <1>9, <1>10 DEF ListsInv

\* A failed allocation ends the walk where it is.
LEMMA UseFailsKeeps ==
  ASSUME ListsInv, UseFails
  PROVE  ListsInv'
<1>1. /\ use = "nodes" \/ (pc = "done" /\ use = "none")
      /\ step = "walk" /\ step' = "failed"
      /\ use' = IF use = "none" THEN "memory" ELSE use
      /\ UNCHANGED vars
      /\ UNCHANGED <<node, values, slot, freed, atomic, prev, last, out>>
  BY DEF UseFails, Reduced
<1>2. /\ ReduceInv' /\ pc' = pc
  BY <1>1, WalkLeaves DEF ListsInv
<1>3. use' \in {"memory", "nodes"} /\ step' \notin {"walk", "done"}
  BY <1>1
<1>4. UsesOK'
  BY <1>1, <1>3 DEF ListsInv, UsesOK
<1>5. UnusedInv'
  BY <1>1, <1>2, <1>3 DEF ListsInv, UnusedInv
<1>6. MemoryInv' /\ NodesInv'
  BY <1>3 DEF MemoryInv, NodesInv
<1> QED BY <1>2, <1>4, <1>5, <1>6 DEF ListsInv

LEMMA ListsStep ==
  ASSUME ListsInv, [ListsNext]_allVars
  PROVE  ListsInv'
<1>1. CASE UNCHANGED allVars
  <2>1. /\ UNCHANGED vars
        /\ UNCHANGED <<use, step, node, values, slot, freed, atomic, prev, last, out>>
    BY <1>1 DEF allVars, uses
  <2>2. /\ ReduceInv' /\ Offsets' = Offsets /\ LineCount' = LineCount /\ pc' = pc
    BY <2>1, WalkLeaves DEF ListsInv
  <2>3. \A k : Sums(atomic, k)' = Sums(atomic, k)
    BY <2>1, <2>2, SumsNext
  <2>4. UsesOK' /\ UnusedInv'
    BY <2>1, <2>2 DEF ListsInv, UsesOK, UnusedInv
  <2>5. MemoryInv'
    <3>1. \A k : StoredInv(k) => StoredInv(k)'
      BY <2>1, <2>2 DEF StoredInv
    <3> QED BY <2>1, <2>2, <3>1 DEF ListsInv, MemoryInv
  <2>6. NodesInv'
    <3>1. \A k : AddedInv(k) => AddedInv(k)'
      BY <2>1, <2>2, <2>3 DEF AddedInv
    <3> QED BY <2>1, <2>2, <2>3, <3>1 DEF ListsInv, NodesInv
  <2> QED BY <2>2, <2>4, <2>5, <2>6 DEF ListsInv
<1>2. CASE Next /\ UNCHANGED uses
  BY <1>2, ReduceStepKeeps
<1>3. CASE Use
  BY <1>3, StartMemoryKeeps, StoreValueKeeps, EndMemoryKeeps, StartNodesKeeps,
     KeepBytesKeeps, PrependNodeKeeps, EndNodesKeeps, UseFailsKeeps DEF Use
<1> QED BY <1>1, <1>2, <1>3 DEF ListsNext

LEMMA InvAlways == ListsSpec => []ListsInv
BY ListsInitial, ListsStep, PTL DEF ListsSpec

-----------------------------------------------------------------------------
(* What the walks promise *)

LEMMA ListsInvTypes == ListsInv => ListsTypeOK
BY DEF ListsInv, ReduceInv, UsesOK, ListsTypeOK

LEMMA ListsInvSafe == ListsInv => MemorySafe
<1> SUFFICES ASSUME ListsInv, use = "memory", step = "walk", node # NullNode
             PROVE  node \notin freed /\ slot \in 1..LineCount
  BY DEF MemorySafe
<1>1. PICK k \in 0..Len(Offsets) :
        /\ slot = LineCount - k /\ StoredInv(k)
        /\ LineCount \in Nat /\ Len(Offsets) \in 0..LineCount /\ Len(Offsets) \in Nat
        /\ node = NullNode <=> k = Len(Offsets)
        /\ k # Len(Offsets) => k + 1 \in 1..Len(Offsets) /\ node = Offsets[k + 1]
  BY MemoryPlace
<1>2. slot \in 1..LineCount
  BY <1>1
<1>3. /\ \A j \in 1..Len(Offsets) : Offsets[j] \in Nat
      /\ \A j, m \in 1..Len(Offsets) : j < m => Offsets[j] > Offsets[m]
  BY OffsetsBound DEF ListsInv, ReduceInv
<1>4. ASSUME NEW j \in 1..k
      PROVE  Offsets[j] # node
  <2>1. j \in 1..Len(Offsets) /\ k + 1 \in 1..Len(Offsets) /\ j < k + 1
    BY <1>1
  <2>2. Offsets[j] > Offsets[k + 1] /\ Offsets[j] \in Nat /\ Offsets[k + 1] \in Nat
    BY <1>3, <2>1
  <2>3. node = Offsets[k + 1]
    BY <1>1
  <2> QED BY <2>2, <2>3
<1>5. freed = {Offsets[j] : j \in 1..k}
  BY <1>1 DEF StoredInv
<1> QED BY <1>2, <1>4, <1>5

\* The entries of the lookup file, from its end.
LEMMA ReversedEntries ==
  ASSUME ReduceInv, pc = "done", NEW n \in 1..(Len(Offsets) + 1)
  PROVE  /\ Len(FileEntries) = Len(Offsets) + 1
         /\ Reverse(FileEntries)[n]
              = IF n = 1 THEN 0 ELSE Offsets[Len(Offsets) + 2 - n]
<1> DEFINE s == Offsets
           e == s \o <<0>>
<1>1. FileEntries = e
  BY ResultRead DEF FileEntries
<1>2. s \in Seq(Nat) /\ Len(s) \in Nat
  <2>1. s \in Seq(Nodes)
    BY FinalShape DEF ReduceInv
  <2> QED BY <2>1, NodeLists, ListPlaces
<1> HIDE DEF s
<1>3. /\ Len(e) = Len(s) + 1 /\ e \in Seq(Nat)
      /\ \A j \in 1..(Len(s) + 1) : e[j] = IF j <= Len(s) THEN s[j] ELSE 0
  <2>1. <<0>> \in Seq(Nat) /\ Len(<<0>>) = 1 /\ <<0>>[1] = 0
    OBVIOUS
  <2>2. /\ Len(s \o <<0>>) = Len(s) + Len(<<0>>) /\ s \o <<0>> \in Seq(Nat)
        /\ \A j \in 1..(Len(s) + Len(<<0>>)) :
             (s \o <<0>>)[j] = IF j <= Len(s) THEN s[j] ELSE <<0>>[j - Len(s)]
    BY <1>2, <2>1, ConcatProperties
  <2>3. ASSUME NEW j \in 1..(Len(s) + 1), ~(j <= Len(s))
        PROVE  j - Len(s) = 1
    BY <1>2, <2>3
  <2> QED BY <2>1, <2>2, <2>3
<1>4. Reverse(e)[n] = e[Len(s) + 2 - n]
  <2>1. Reverse(e) = [j \in 1..Len(e) |-> e[(Len(e) - j) + 1]]
    BY DEF Reverse
  <2>2. n \in 1..Len(e) /\ (Len(e) - n) + 1 = Len(s) + 2 - n
    BY <1>2, <1>3 DEF s
  <2> HIDE DEF e
  <2> QED BY <2>1, <2>2
<1>5. CASE n = 1
  <2>1. /\ Len(s) + 2 - n = Len(s) + 1 /\ Len(s) + 1 \in 1..(Len(s) + 1)
        /\ ~(Len(s) + 1 <= Len(s))
    BY <1>2, <1>5
  <2> HIDE DEF e
  <2> QED BY <1>1, <1>3, <1>4, <1>5, <2>1 DEF s
<1>6. CASE n # 1
  <2>1. Len(s) + 2 - n \in 1..(Len(s) + 1) /\ Len(s) + 2 - n <= Len(s)
    BY <1>2, <1>6 DEF s
  <2> HIDE DEF e
  <2> QED BY <1>1, <1>3, <1>4, <1>6, <2>1 DEF s
<1> QED BY <1>5, <1>6

LEMMA ListsInvAgrees == ListsInv => MemoryAgrees
<1> SUFFICES ASSUME ListsInv, use = "memory", step = "done",
                    Len(FileEntries) = LineCount + 1
             PROVE  values = [k \in 0..(LineCount + 1) |->
                      Reverse(FileEntries)[IF k <= LineCount THEN k + 1 ELSE LineCount + 1]]
  BY DEF MemoryAgrees
<1>1. pc = "done" /\ ReduceInv
  BY DEF ListsInv, UnusedInv
<1>2. LineCount \in Nat /\ Len(Offsets) \in Nat
  BY <1>1, OffsetsBound DEF ReduceInv
<1>3. Len(Offsets) = LineCount
  <2>1. 1 \in 1..(Len(Offsets) + 1)
    BY <1>2
  <2>2. Len(FileEntries) = Len(Offsets) + 1
    BY <1>1, <2>1, ReversedEntries
  <2> QED BY <1>2, <2>2
<1>4. values = [x \in 0..(LineCount + 1) |->
                  IF x = 0 THEN 0
                  ELSE IF x <= LineCount THEN Offsets[LineCount + 1 - x]
                  ELSE IF LineCount = 0 THEN 0 ELSE Offsets[1]]
  BY <1>3 DEF ListsInv, MemoryInv
<1>5. ASSUME NEW n \in 1..(LineCount + 1)
      PROVE  Reverse(FileEntries)[n] = IF n = 1 THEN 0 ELSE Offsets[LineCount + 2 - n]
  BY <1>1, <1>3, ReversedEntries
<1>6. ASSUME NEW x \in 0..(LineCount + 1)
      PROVE  (IF x = 0 THEN 0
              ELSE IF x <= LineCount THEN Offsets[LineCount + 1 - x]
              ELSE IF LineCount = 0 THEN 0 ELSE Offsets[1])
               = Reverse(FileEntries)[IF x <= LineCount THEN x + 1 ELSE LineCount + 1]
  <2>1. CASE x <= LineCount
    <3>1. x + 1 \in 1..(LineCount + 1) /\ (x + 1 = 1 <=> x = 0)
          /\ LineCount + 2 - (x + 1) = LineCount + 1 - x
      BY <1>2, <2>1
    <3> QED BY <1>5, <2>1, <3>1
  <2>2. CASE ~(x <= LineCount)
    <3>1. /\ LineCount + 1 \in 1..(LineCount + 1) /\ (LineCount + 1 = 1 <=> LineCount = 0)
          /\ LineCount + 2 - (LineCount + 1) = 1 /\ x # 0
      BY <1>2, <2>2
    <3> QED BY <1>5, <2>2, <3>1
  <2> QED BY <2>1, <2>2
<1> QED BY <1>4, <1>6

LEMMA ListsInvAdded == ListsInv => NodesAdded
<1> DEFINE whole(list) == {k \in DOMAIN list : list[k] \in atomic}
           made(list, W) ==
             <<0>> \o [n \in 1..Cardinality(W) |->
               LET k == CHOOSE k \in W : Cardinality({j \in W : j >= k}) = n
               IN  list[k] + (IF k > 1 /\ list[k - 1] \notin atomic THEN list[k - 1] ELSE 0)]
<1>1. SUFFICES ASSUME ListsInv, use = "nodes", step = "done", last
               PROVE  out = made(ListFrom(result.first), whole(ListFrom(result.first)))
  BY Zenon DEF NodesAdded
<1>2. pc = "done" /\ ReduceInv
  BY <1>1 DEF ListsInv, UnusedInv
<1>3. ListFrom(result.first) = Offsets
  BY <1>2, ResultRead
<1>4. DOMAIN Offsets = 1..Len(Offsets)
  <2>1. Offsets \in Seq(Nodes)
    BY <1>2, FinalShape DEF ReduceInv
  <2> QED BY <2>1, LenProperties
<1>5. whole(Offsets) = Whole(atomic, Len(Offsets))
  BY <1>4 DEF Whole
<1>6. <<0>> \o Sums(atomic, Len(Offsets)) = made(Offsets, Whole(atomic, Len(Offsets)))
  BY Zenon DEF Sums, Added
<1>7. out = <<0>> \o Sums(atomic, Len(Offsets))
  BY <1>1 DEF ListsInv, NodesInv
<1> HIDE DEF whole, made
<1> QED BY <1>3, <1>5, <1>6, <1>7

\* The list made when all offsets are atomic.
LEMMA AtomicSums ==
  ASSUME ArrayShape, NEW S, \A k \in 1..Len(Offsets) : Offsets[k] \in S
  PROVE  /\ Sums(S, Len(Offsets)) \in Seq(Nat)
         /\ Len(Sums(S, Len(Offsets))) = Len(Offsets)
         /\ \A n \in 1..Len(Offsets) :
              Sums(S, Len(Offsets))[n] = Offsets[Len(Offsets) + 1 - n]
<1> DEFINE L == Len(Offsets)
           W == Whole(S, L)
           up(j) == {m \in W : m >= j}
           at(n) == CHOOSE j \in W : Cardinality(up(j)) = n
           f == Sums(S, L)
<1>1. L \in Nat /\ \A k \in 1..L : Offsets[k] \in Nat
  BY OffsetsBound
<1>2. W = 1..L
  BY DEF Whole
<1>3. Cardinality(W) = L
  <2>1. Cardinality(1..L) = L
    <3> HIDE DEF L
    <3> QED BY <1>1, FS_Interval
  <2> HIDE DEF W, L
  <2> QED BY <1>2, <2>1
<1>4. f = [n \in 1..Cardinality(W) |-> Added(S, at(n))]
  BY DEF Sums
<1>5. \A k \in 1..L : Added(S, k) = Offsets[k]
  <2> SUFFICES ASSUME NEW k \in 1..L PROVE Added(S, k) = Offsets[k]
    OBVIOUS
  <2>1. ~(k > 1 /\ Offsets[k - 1] \notin S)
    <3>1. k > 1 => k - 1 \in 1..L
      <4> HIDE DEF L
      <4> QED BY <1>1
    <3> QED BY <3>1
  <2>2. Added(S, k) = Offsets[k] + 0
    BY <2>1 DEF Added
  <2>3. Offsets[k] \in Nat
    BY <1>1
  <2> QED BY <2>2, <2>3
<1> HIDE DEF L, W, f
<1>6. ASSUME NEW j \in 1..L PROVE Cardinality(up(j)) = L + 1 - j
  <2>1. up(j) = j..L
    BY <1>1, <1>2
  <2>2. j \in Int /\ L \in Int /\ j <= L /\ L - j + 1 = L + 1 - j
    BY <1>1
  <2> HIDE DEF up
  <2>3. Cardinality(j..L) = L - j + 1
    BY <2>2, FS_Interval
  <2> QED BY <2>1, <2>2, <2>3
<1> HIDE DEF up
<1>7. ASSUME NEW n \in 1..L PROVE at(n) = L + 1 - n /\ L + 1 - n \in 1..L
  <2>1. L + 1 - n \in 1..L
    BY <1>1
  <2>2. \A j \in 1..L : L + 1 - j = n <=> j = L + 1 - n
    BY <1>1
  <2>3. \A j \in W : Cardinality(up(j)) = n <=> j = L + 1 - n
    BY <1>2, <1>6, <2>2
  <2>4. L + 1 - n \in W
    BY <1>2, <2>1
  <2> DEFINE m == L + 1 - n
  <2> HIDE DEF m
  <2>5. at(n) = m
    <3>1. m \in W /\ \A j \in W : Cardinality(up(j)) = n <=> j = m
      BY <2>3, <2>4 DEF m
    <3> QED BY <3>1
  <2> QED BY <2>1, <2>5 DEF m
<1> HIDE DEF at
<1>8. f = [n \in 1..L |-> Offsets[L + 1 - n]]
  <2>1. f = [n \in 1..L |-> Added(S, at(n))]
    BY <1>3, <1>4
  <2>2. \A n \in 1..L : Added(S, at(n)) = Offsets[L + 1 - n]
    BY <1>5, <1>7
  <2> QED BY <2>1, <2>2
<1>9. f \in [1..L -> Nat]
  <2>1. \A n \in 1..L : Offsets[L + 1 - n] \in Nat
    BY <1>1, <1>7
  <2> QED BY <1>8, <2>1
<1>10. f \in Seq(Nat)
  BY <1>1, <1>9, SeqDef
<1>11. Len(f) = L
  <2>1. DOMAIN f = 1..L
    BY <1>8
  <2>2. DOMAIN f = 1..Len(f) /\ Len(f) \in Nat
    BY <1>10, LenProperties
  <2> QED BY <1>1, <2>1, <2>2
<1>12. \A n \in 1..L : f[n] = Offsets[L + 1 - n]
  BY <1>8
<1> QED BY <1>10, <1>11, <1>12 DEF f, L

\* A walk that was given only atomic offsets makes the lines of the lookup file.
AtomicAgrees ==
  (use = "nodes" /\ step = "done" /\ last
     /\ Elements(ListFrom(result.first)) \subseteq atomic) =>
    out = Reverse(FileEntries)

LEMMA ListsInvAtomic == ListsInv => AtomicAgrees
<1> SUFFICES ASSUME ListsInv, use = "nodes", step = "done", last,
                    Elements(ListFrom(result.first)) \subseteq atomic
             PROVE  out = Reverse(FileEntries)
  BY DEF AtomicAgrees
<1> DEFINE L == Len(Offsets)
           f == Sums(atomic, L)
           r == Reverse(FileEntries)
           h == <<0>> \o f
<1>1. pc = "done" /\ ReduceInv
  BY DEF ListsInv, UnusedInv
<1>2. L \in Nat /\ ArrayShape /\ Offsets \in Seq(Nodes)
  BY <1>1, OffsetsBound, FinalShape DEF ReduceInv
<1>3. \A k \in 1..L : Offsets[k] \in atomic
  BY <1>1, <1>2, ResultRead, ListPlaces
<1>4. f \in Seq(Nat) /\ Len(f) = L /\ \A n \in 1..L : f[n] = Offsets[L + 1 - n]
  BY <1>2, <1>3, AtomicSums
<1>5. out = h
  BY DEF ListsInv, NodesInv
<1>6. /\ Len(FileEntries) = L + 1
      /\ \A n \in 1..(L + 1) : r[n] = IF n = 1 THEN 0 ELSE Offsets[L + 2 - n]
  <2>1. 1 \in 1..(L + 1)
    <3> HIDE DEF L
    <3> QED BY <1>2
  <2> QED BY <1>1, <2>1, ReversedEntries
<1>7. r = [n \in 1..(L + 1) |-> r[n]]
  BY <1>6 DEF Reverse
<1> HIDE DEF r, f, L
<1>8. /\ h \in Seq(Nat) /\ Len(h) = L + 1
      /\ \A n \in 1..(L + 1) : h[n] = IF n <= 1 THEN 0 ELSE f[n - 1]
  <2>1. <<0>> \in Seq(Nat) /\ Len(<<0>>) = 1 /\ <<0>>[1] = 0
    OBVIOUS
  <2>2. /\ Len(<<0>> \o f) = Len(<<0>>) + Len(f) /\ <<0>> \o f \in Seq(Nat)
        /\ \A n \in 1..(Len(<<0>>) + Len(f)) :
             (<<0>> \o f)[n] = IF n <= Len(<<0>>) THEN <<0>>[n] ELSE f[n - Len(<<0>>)]
    BY <1>4, <2>1, ConcatProperties
  <2>3. Len(<<0>>) + Len(f) = L + 1
    BY <1>2, <1>4, <2>1
  <2>4. \A n \in 1..(L + 1) : n <= 1 => n = 1
    BY <1>2
  <2> QED BY <2>1, <2>2, <2>3, <2>4
<1>9. ASSUME NEW n \in 1..(L + 1) PROVE h[n] = r[n]
  <2> HIDE DEF h
  <2>1. CASE n = 1
    BY <1>6, <1>8, <2>1
  <2>2. CASE n # 1
    <3>1. n - 1 \in 1..L /\ ~(n <= 1) /\ L + 1 - (n - 1) = L + 2 - n
      BY <1>2, <2>2
    <3>2. h[n] = f[n - 1]
      BY <1>8, <3>1
    <3>3. f[n - 1] = Offsets[L + 2 - n]
      BY <1>4, <3>1
    <3> QED BY <1>6, <2>2, <3>2, <3>3
  <2> QED BY <2>1, <2>2
<1> HIDE DEF h
<1>10. h = [n \in 1..(L + 1) |-> h[n]]
  BY <1>8, LenProperties
<1> QED BY <1>5, <1>7, <1>9, <1>10 DEF r

-----------------------------------------------------------------------------

\* The variables of the reduction and of the walks keep their types: a pointer is a
\* node of the heap or NULL, whatever the lengths of the lists.
THEOREM ListsTypes == ListsSpec => []ListsTypeOK
BY InvAlways, ListsInvTypes, PTL

\* f_chunk_array_reverse_reduce and what follows it never link the nodes in a
\* circle, at no moment: every loop that follows next pointers ends.
THEOREM ListsNeverCircle == ListsSpec => []ListsEnd
<1>1. ListsInv => ListsEnd
  BY ReduceInvEnds DEF ListsInv
<1> QED BY <1>1, InvAlways, PTL

\* The loop of f_chunk_array_reverse_reduce leaves on the heap the list, the last
\* node and the mark of emptiness that the reduction has on sequences, for arrays
\* of any length, with chunks that lost their first node or with none that did:
\* what is proved of ReverseReduce holds of the pointers.
THEOREM HeapAgreesWithSequences == ListsSpec => []ReduceAgrees
<1>1. ListsInv => ReduceAgrees
  BY ReduceInvAgrees DEF ListsInv
<1> QED BY <1>1, InvAlways, PTL

\* When the chunks with nodes are none or at least two, or the array has one chunk,
\* and no chunk came without its first node, the list on the heap has all nodes in
\* descending order and its last node is that of the result, as chunk.h shows.
THEOREM HeapIsReversed == ListsSpec => []ReverseOrder
<1>1. ListsInv => ReverseOrder
  BY ReduceInvOrder DEF ListsInv
<1> QED BY <1>1, InvAlways, PTL

\* f_lookup_mem_from_chunk never reads a node it has freed and never assigns
\* outside the values of the lines, though it counts down from the line count and
\* the reduction may have lost nodes.
THEOREM MemoryIsSafe == ListsSpec => []MemorySafe
BY InvAlways, ListsInvSafe, PTL

\* When no node was lost, f_lookup_mem_from_chunk makes the index that a lookup
\* file of f_lookup_file_from_chunk has, in ascending order.
THEOREM MemoryAgreesWithFile == ListsSpec => []MemoryAgrees
BY InvAlways, ListsInvAgrees, PTL

\* f_node_from_reversed_bytes_node makes one entry of each atomic offset and adds
\* to it the offset directly before it in the list when that is not atomic, and no
\* other, for every list and every choice of the atomic ones, when there is one.
THEOREM BytesAdded == ListsSpec => []NodesAdded
BY InvAlways, ListsInvAdded, PTL

\* When all offsets are atomic, f_node_from_reversed_bytes_node makes the same list
\* of the starts of lines as the entries of the lookup file give, in ascending
\* order: what the added offsets come to when there is nothing to add.
THEOREM AtomicBytesAgree == ListsSpec => []AtomicAgrees
BY InvAlways, ListsInvAtomic, PTL
=============================================================================
