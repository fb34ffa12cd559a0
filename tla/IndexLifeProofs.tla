-------------------------- MODULE IndexLifeProofs --------------------------
(***************************************************************************)
(* Proofs about the lookup files of indexes, for every set of processes,   *)
(* of names and of files, and whichever processes crash.                   *)
(***************************************************************************)
EXTENDS IndexLife, IndexerLemmas

-----------------------------------------------------------------------------
(* The inductive invariant *)

Makings == [name : Names, inode : Inodes, file : conf.files, pos : Nat]

Indexes == [name : Names, inode : Inodes, file : conf.files, len : Nat]

\* What a process holds open.
Held(p) == live[p] \cup (IF making[p] = None THEN {} ELSE {making[p]})

Shapes ==
  /\ conf \in Settings
  /\ drawn \in [Processes -> Nat]
  /\ making \in [Processes -> {None} \cup Makings]
  /\ live \in [Processes -> SUBSET Indexes]
  /\ dir \in [DOMAIN dir -> Inodes]
  /\ DOMAIN dir \subseteq Names
  /\ data \in [Inodes -> Seq(Nat)]

\* An index has the length of its file, and is being written up to there.
Lengths(p) ==
  /\ making[p] # None => making[p].pos <= LookupLen(making[p].file)
  /\ \A x \in live[p] : x.len = LookupLen(x.file)

\* A process holds files under names it has drawn, each under another.
Drawn(p) ==
  /\ Held(p) # {} => p \in DOMAIN conf.draws /\ drawn[p] <= Len(conf.draws[p])
  /\ \A x \in Held(p) : \E j \in 1..drawn[p] : conf.draws[p][j] = x.name
  /\ \A x, y \in live[p] : x.name = y.name => x = y
  /\ making[p] # None => \A x \in live[p] : x.name # making[p].name

\* No inode has two names, and each file held has its name still.
Linked ==
  /\ \A n, m \in DOMAIN dir : dir[n] = dir[m] => n = m
  /\ Seeded => \A p \in Processes : \A x \in Held(p) :
       x.name \in DOMAIN dir /\ dir[x.name] = x.inode

\* The entries written so far are those of the file.
Written(entries, file, pos) ==
  /\ Len(entries) = pos
  /\ \A k \in 1..pos : entries[k] = EntriesOf(file)[k]

Contents ==
  Seeded => \A p \in Processes :
    /\ making[p] # None => Written(data[making[p].inode], making[p].file, making[p].pos)
    /\ \A x \in live[p] : Written(data[x.inode], x.file, x.len)

Inv ==
  /\ Shapes
  /\ \A p \in Processes : Lengths(p) /\ Drawn(p)
  /\ NothingLeft
  /\ Linked
  /\ Contents

-----------------------------------------------------------------------------
(* The elements of a finite set in their order *)

Above(S, s) == {t \in S : t > s}

Below(S, s) == {t \in S : t < s}

\* An element has as many others below and above it as the set has others.
LEMMA RankSplit ==
  ASSUME NEW S \in SUBSET Nat, IsFiniteSet(S), NEW s \in S
  PROVE  /\ IsFiniteSet(Below(S, s)) /\ IsFiniteSet(Above(S, s))
         /\ Cardinality(S) \in Nat
         /\ Cardinality(Below(S, s)) \in 0..(Cardinality(S) - 1)
         /\ Cardinality(Above(S, s)) = Cardinality(S) - 1 - Cardinality(Below(S, s))
<1> DEFINE B == Below(S, s)
           A == Above(S, s)
<1>1. B \in SUBSET S /\ A \in SUBSET S
  BY DEF Below, Above
<1>2. IsFiniteSet(B) /\ IsFiniteSet(A)
  BY <1>1, FS_Subset
<1>3. Cardinality(B) \in Nat /\ Cardinality(A) \in Nat /\ Cardinality(S) \in Nat
  BY <1>2, FS_CardinalityType
<1>4. B \cap A = {} /\ s \notin B \cup A /\ S = (B \cup A) \cup {s}
  <2>1. \A t \in S : t \in Nat
    OBVIOUS
  <2>2. \A t \in S : ~(t < s /\ t > s) /\ (t < s \/ t > s \/ t = s)
    BY <2>1
  <2>3. ~(s < s) /\ ~(s > s)
    BY <2>1
  <2> QED BY <2>2, <2>3, Zenon DEF Below, Above
<1> HIDE DEF A, B
<1>5. /\ IsFiniteSet(B \cup A)
      /\ Cardinality(B \cup A) = Cardinality(B) + Cardinality(A) - Cardinality(B \cap A)
  BY <1>2, FS_Union
<1>6. Cardinality(B \cup A) = Cardinality(B) + Cardinality(A)
  BY <1>3, <1>4, <1>5, FS_EmptySet
<1>7. Cardinality(S) = Cardinality(B) + Cardinality(A) + 1
  BY <1>4, <1>5, <1>6, FS_AddElement
<1>8. /\ Cardinality(B) \in 0..(Cardinality(S) - 1)
      /\ Cardinality(A) = Cardinality(S) - 1 - Cardinality(B)
  BY <1>3, <1>7
<1> QED BY <1>2, <1>3, <1>8 DEF A, B

\* The larger of two elements has more below it.
LEMMA BelowMonotone ==
  ASSUME NEW S \in SUBSET Nat, IsFiniteSet(S), NEW s \in S, NEW t \in S, s < t
  PROVE  Cardinality(Below(S, s)) < Cardinality(Below(S, t))
<1>1. IsFiniteSet(Below(S, s)) /\ IsFiniteSet(Below(S, t))
  BY RankSplit
<1>2. s \notin Below(S, s) /\ Below(S, s) \cup {s} \in SUBSET Below(S, t)
  <2>1. \A r \in S : r \in Nat
    OBVIOUS
  <2>2. ~(s < s) /\ \A r \in S : r < s => r < t
    BY <2>1
  <2> QED BY <2>2, Zenon DEF Below
<1>3. /\ IsFiniteSet(Below(S, s) \cup {s})
      /\ Cardinality(Below(S, s) \cup {s}) = Cardinality(Below(S, s)) + 1
  BY <1>1, <1>2, FS_AddElement
<1>4. Cardinality(Below(S, s) \cup {s}) <= Cardinality(Below(S, t))
  BY <1>1, <1>2, FS_Subset
<1>5. Cardinality(Below(S, s)) \in Nat /\ Cardinality(Below(S, t)) \in Nat
  BY <1>1, FS_CardinalityType
<1> QED BY <1>3, <1>4, <1>5

\* Every number less than the size is the number below exactly one element.
LEMMA BelowOnto ==
  ASSUME NEW S \in SUBSET Nat, IsFiniteSet(S)
  PROVE  /\ \A k \in 0..(Cardinality(S) - 1) :
              \E s \in S : Cardinality(Below(S, s)) = k
         /\ \A s, t \in S : Cardinality(Below(S, s)) = Cardinality(Below(S, t)) => s = t
<1> DEFINE n == Cardinality(S)
           T == 0..(n - 1)
           f == [s \in S |-> Cardinality(Below(S, s))]
<1>1. n \in Nat
  BY FS_CardinalityType
<1>2. IsFiniteSet(T) /\ Cardinality(T) = n
  <2> HIDE DEF n
  <2>1. n - 1 \in Int
    BY <1>1
  <2> QED BY <1>1, <2>1, FS_Interval
<1>3. \A s \in S : Cardinality(Below(S, s)) \in T
  BY RankSplit
<1>4. \A s, t \in S : Cardinality(Below(S, s)) = Cardinality(Below(S, t)) => s = t
  <2>1. ASSUME NEW s \in S, NEW t \in S, s < t
        PROVE  Cardinality(Below(S, s)) # Cardinality(Below(S, t))
    <3>1. Cardinality(Below(S, s)) < Cardinality(Below(S, t))
      BY <2>1, BelowMonotone
    <3>2. Cardinality(Below(S, s)) \in 0..(n - 1) /\ Cardinality(Below(S, t)) \in 0..(n - 1)
      BY <1>3
    <3> QED BY <3>1, <3>2
  <2>2. \A s, t \in S : s < t \/ t < s \/ s = t
    OBVIOUS
  <2> QED BY <2>1, <2>2
<1>5. f \in [S -> T] /\ \A s \in S : f[s] = Cardinality(Below(S, s))
  BY <1>3
<1> HIDE DEF n, T, f
<1>6. f \in Injection(S, T)
  BY <1>4, <1>5 DEF Injection, IsInjective
<1>7. f \in Surjection(S, T)
  BY <1>2, <1>6, FS_Injection DEF n
<1>8. \A k \in T : \E s \in S : f[s] = k
  BY <1>7 DEF Surjection
<1> QED BY <1>4, <1>5, <1>8 DEF T, n

-----------------------------------------------------------------------------
(* The index of a file *)

LEMMA FileFacts ==
  ASSUME conf \in Settings, NEW f \in conf.files
  PROVE  /\ f.size \in Nat
         /\ Starts(f) \in SUBSET (0..f.size) /\ Starts(f) \in SUBSET Nat
         /\ IsFiniteSet(Starts(f))
         /\ LookupLen(f) \in Nat \ {0} /\ LookupLen(f) <= MaxLines
         /\ Cardinality(f.newlines) \in Nat
         /\ Cardinality(Starts(f)) = LookupLen(f)
<1>1. /\ f.size \in Nat
      /\ f.newlines \in SUBSET (0..(f.size - 1))
      /\ Cardinality(f.newlines) < MaxLines
  BY SettingsAssumption
<1>2. IsFiniteSet(0..(f.size - 1))
  BY <1>1, FS_Interval
<1>3. IsFiniteSet(f.newlines)
  BY <1>1, <1>2, FS_Subset
<1>4. Cardinality(f.newlines) \in Nat
  BY <1>3, FS_CardinalityType
<1>5. MaxLines \in Nat
  BY LookupAssumption
<1>6. f.newlines \in SUBSET Nat
  BY <1>1
<1>7. /\ IsFiniteSet(LinesAfter(f.newlines))
      /\ Cardinality(LinesAfter(f.newlines)) = Cardinality(f.newlines)
  BY <1>3, <1>6, LinesAfterCount
<1>8. 0 \notin LinesAfter(f.newlines) /\ Starts(f) = LinesAfter(f.newlines) \cup {0}
  BY <1>6 DEF LinesAfter, Starts
<1>9. /\ IsFiniteSet(Starts(f))
      /\ Cardinality(Starts(f)) = LookupLen(f)
  BY <1>7, <1>8, FS_AddElement DEF LookupLen
<1>10. Starts(f) \in SUBSET (0..f.size)
  BY <1>1 DEF Starts
<1>11. Starts(f) \in SUBSET Nat
  BY <1>6 DEF Starts
<1>12. LookupLen(f) \in Nat \ {0} /\ LookupLen(f) <= MaxLines
  BY <1>1, <1>4, <1>5 DEF LookupLen
<1> QED BY <1>1, <1>4, <1>9, <1>10, <1>11, <1>12

\* Line k begins where k lines begin before.
LEMMA LineStarts ==
  ASSUME conf \in Settings, NEW f \in conf.files, NEW k \in 0..(LookupLen(f) - 1)
  PROVE  /\ LineStart(f, k) \in Starts(f)
         /\ Cardinality(Below(Starts(f), LineStart(f, k))) = k
<1>1. \E s \in Starts(f) : Cardinality(Below(Starts(f), s)) = k
  BY FileFacts, BelowOnto
<1>2. \E s \in Starts(f) : Cardinality({t \in Starts(f) : t < s}) = k
  BY <1>1 DEF Below
<1> QED BY <1>2 DEF LineStart, Below

\* Entry k of the lookup file is the line with k - 1 lines after it.
LEMMA Entries ==
  ASSUME conf \in Settings, NEW f \in conf.files, NEW k \in 1..LookupLen(f)
  PROVE  EntriesOf(f)[k] = LineStart(f, LookupLen(f) - k)
<1> DEFINE S == Starts(f)
           n == LookupLen(f)
           l == LineStart(f, n - k)
<1>1. /\ n \in Nat /\ Cardinality(S) = n /\ k \in 1..n
      /\ S \in SUBSET Nat /\ IsFiniteSet(S)
  BY FileFacts
<1>2. n - k \in 0..(n - 1)
  <2> HIDE DEF n
  <2> QED BY <1>1
<1>3. l \in S /\ Cardinality(Below(S, l)) = n - k
  BY <1>2, LineStarts
<1>4. EntriesOf(f)[k] = CHOOSE s \in S : Cardinality(Above(S, s)) = k - 1
  BY <1>1 DEF EntriesOf, Above
<1> HIDE DEF S, n, l
<1>5. Cardinality(Above(S, l)) = k - 1
  <2>1. Cardinality(Above(S, l)) = Cardinality(S) - 1 - Cardinality(Below(S, l))
    BY <1>1, <1>3, RankSplit
  <2>2. n - 1 - (n - k) = k - 1
    BY <1>1
  <2> QED BY <1>1, <1>3, <2>1, <2>2
<1>6. ASSUME NEW s \in S, Cardinality(Above(S, s)) = k - 1
      PROVE  s = l
  <2>1. /\ Cardinality(Below(S, s)) \in 0..(n - 1)
        /\ Cardinality(Above(S, s)) = n - 1 - Cardinality(Below(S, s))
    BY <1>1, RankSplit
  <2>2. Cardinality(Below(S, s)) = n - k
    BY <1>1, <1>6, <2>1
  <2>3. \A a, b \in S : Cardinality(Below(S, a)) = Cardinality(Below(S, b)) => a = b
    BY <1>1, BelowOnto
  <2> QED BY <1>3, <2>2, <2>3
<1>7. (CHOOSE s \in S : Cardinality(Above(S, s)) = k - 1) = l
  BY <1>3, <1>5, <1>6
<1> QED BY <1>4, <1>7 DEF S, n, l

\* Lines begin in the order of their numbers, and within the file.
LEMMA LineOrder ==
  ASSUME conf \in Settings, NEW f \in conf.files,
         NEW j \in 0..(LookupLen(f) - 1), NEW k \in 0..(LookupLen(f) - 1), j <= k
  PROVE  LineStart(f, j) <= LineStart(f, k)
<1> DEFINE S == Starts(f)
           a == LineStart(f, j)
           b == LineStart(f, k)
<1>1. S \in SUBSET Nat /\ IsFiniteSet(S)
  BY FileFacts
<1>2. /\ a \in S /\ Cardinality(Below(S, a)) = j
      /\ b \in S /\ Cardinality(Below(S, b)) = k
  BY LineStarts
<1> HIDE DEF S, a, b
<1>3. a \in Nat /\ b \in Nat
  BY <1>1, <1>2
<1>4. ~(b < a)
  <2> SUFFICES ASSUME b < a PROVE FALSE
    OBVIOUS
  <2>1. k < j
    BY <1>1, <1>2, BelowMonotone
  <2> QED BY <2>1, FileFacts
<1>5. a <= b
  BY <1>3, <1>4
<1> QED BY <1>5 DEF a, b

\* The entries are the starts of lines.
LEMMA EntryTypes ==
  ASSUME conf \in Settings, NEW f \in conf.files
  PROVE  /\ \A k \in 1..LookupLen(f) : EntriesOf(f)[k] \in Nat
         /\ \A k \in 0..(LookupLen(f) - 1) : LineStart(f, k) \in 0..f.size
<1>1. LookupLen(f) \in Nat /\ Starts(f) \in SUBSET (0..f.size) /\ f.size \in Nat
  BY FileFacts
<1>2. \A k \in 0..(LookupLen(f) - 1) : LineStart(f, k) \in 0..f.size
  BY <1>1, LineStarts
<1>3. ASSUME NEW k \in 1..LookupLen(f) PROVE EntriesOf(f)[k] \in Nat
  <2>1. EntriesOf(f)[k] = LineStart(f, LookupLen(f) - k)
    BY Entries
  <2>2. LookupLen(f) - k \in 0..(LookupLen(f) - 1)
    BY <1>1
  <2> QED BY <1>2, <2>1, <2>2
<1> QED BY <1>2, <1>3

-----------------------------------------------------------------------------
(* What a lookup gives *)

\* An offset in the lookup file is that of one of its entries.
LEMMA EntryAt ==
  ASSUME NEW entries \in Seq(Nat), NEW k \in Nat, k < Len(entries)
  PROVE  EntriesAt(entries, k * EntrySize) = {entries[k + 1]}
<1>1. EntrySize \in Nat \ {0} /\ k * EntrySize \in Nat
  BY LookupAssumption, ProductMonotone
<1>2. (k * EntrySize) \div EntrySize = k
  BY <1>1, DivisionUnique
<1> QED BY <1>2 DEF EntriesAt

\* A number of entries that the lookup file has is a positive off_t, in bytes.
LEMMA SignedBytes ==
  ASSUME NEW c \in Nat, c <= MaxLines
  PROVE  Signed((c * EntrySize) % SizeMod) = c * EntrySize
<1> DEFINE b == c * EntrySize
           h == SizeMod \div 2
<1>1. /\ MaxLines \in Nat /\ EntrySize \in Nat /\ SizeMod \in Nat
      /\ MaxLines * EntrySize < h
  BY LookupAssumption
<1>2. b \in Nat /\ b <= MaxLines * EntrySize /\ MaxLines * EntrySize \in Nat
  BY <1>1, ProductMonotone
<1>3. h \in Nat /\ h <= SizeMod
  <2>1. h \in Nat /\ SizeMod = 2 * h + (SizeMod % 2) /\ SizeMod % 2 \in 0..1
    BY <1>1, Division
  <2> HIDE DEF h
  <2> QED BY <1>1, <2>1
<1> HIDE DEF b, h
<1>4. b < h /\ b < SizeMod /\ SizeMod \in Nat \ {0}
  BY <1>1, <1>2, <1>3
<1>5. b % SizeMod = b
  BY <1>2, <1>4
<1>6. ~(b >= h)
  BY <1>2, <1>3, <1>4
<1>7. Signed(b) = b
  BY <1>6 DEF Signed, h
<1> QED BY <1>5, <1>7 DEF b

\* On the entries of a file a lookup gives the lines asked for that end in a newline.
LEMMA LookupGives ==
  ASSUME conf \in Settings, NEW f \in conf.files,
         NEW entries \in Seq(Nat), Written(entries, f, LookupLen(f)),
         NEW start \in SizeT, NEW count \in SizeT, start + count < SizeMod
  PROVE  Results(entries, LookupLen(f), f.size, start, count)
           = {LinesOf(f, start, count)}
<1> DEFINE n == LookupLen(f)
           newlines == Cardinality(f.newlines)
<1>1. /\ n \in Nat \ {0} /\ n <= MaxLines /\ f.size \in Nat
      /\ newlines \in Nat /\ newlines = n - 1
  BY FileFacts DEF LookupLen
<1>2. /\ SizeMod \in Nat /\ EntrySize \in Nat \ {0} /\ MaxLines \in Nat
      /\ start \in Nat /\ count \in Nat
  BY LookupAssumption DEF SizeT
<1>3. ASSUME NEW k \in 0..(n - 1)
      PROVE  EntriesAt(entries, (n - 1 - k) * EntrySize) = {LineStart(f, k)}
  <2>1. /\ n - 1 - k \in Nat /\ n - 1 - k < n /\ n - 1 - k + 1 = n - k
        /\ n - k \in 1..n /\ n - (n - k) = k
    <3> HIDE DEF n
    <3> QED BY <1>1
  <2>2. Len(entries) = n /\ \A j \in 1..n : entries[j] = EntriesOf(f)[j]
    BY DEF Written
  <2>3. EntriesAt(entries, (n - 1 - k) * EntrySize) = {entries[n - k]}
    BY <2>1, <2>2, EntryAt
  <2>4. EntriesOf(f)[n - k] = LineStart(f, n - (n - k))
    BY <2>1, Entries
  <2> QED BY <2>1, <2>2, <2>3, <2>4
<1>4. CASE start > n - 1
  <2>1. LinesOf(f, start, count) = Null
    BY <1>1, <1>4 DEF LinesOf
  <2>2. Results(entries, n, f.size, start, count) = {Null}
    BY <1>4 DEF Results
  <2> QED BY <2>1, <2>2
<1>5. CASE ~(start > n - 1)
  <2> DEFINE cut == CutCount(n, start, count)
             last == IF start + count <= newlines THEN start + count ELSE newlines
  <2>1. start \in 0..(n - 1) /\ last \in 0..(n - 1) /\ start <= last
    <3> HIDE DEF n, newlines
    <3> QED BY <1>1, <1>2, <1>5
  <2>2. cut = last - start
    <3>1. (start + count) % SizeMod = start + count
      <4>1. start + count \in Nat /\ SizeMod \in Nat \ {0}
        BY <1>2
      <4> QED BY <4>1
    <3> HIDE DEF n, newlines
    <3> QED BY <1>1, <1>2, <3>1 DEF CutCount
  <2>3. cut \in Nat /\ cut <= MaxLines
    <3> HIDE DEF n, newlines, last, cut
    <3> QED BY <1>1, <1>2, <2>1, <2>2
  <2>4. StartOffset(n, start) = (n - 1 - start) * EntrySize
    <3>1. (n - 1) * EntrySize - start * EntrySize = (n - 1 - start) * EntrySize
      <4> HIDE DEF n
      <4> QED BY <1>1, <1>2, Z3
    <3> QED BY <3>1 DEF StartOffset
  <2>5. EndOffset(n, start, cut) = (n - 1 - last) * EntrySize
    <3>1. Signed((cut * EntrySize) % SizeMod) = cut * EntrySize
      BY <2>3, SignedBytes
    <3>2. (n - 1 - start) * EntrySize - cut * EntrySize = (n - 1 - last) * EntrySize
      <4>1. n - 1 - last = n - 1 - start - cut
        <5> HIDE DEF n, last, cut
        <5> QED BY <1>1, <1>2, <2>1, <2>2
      <4>2. (n - 1 - start) * EntrySize - cut * EntrySize = (n - 1 - start - cut) * EntrySize
        <5> HIDE DEF n, last, cut
        <5> QED BY <1>1, <1>2, <2>1, <2>3, Z3
      <4> QED BY <4>1, <4>2
    <3>3. n - 1 - last \in Nat
      <4> HIDE DEF n, last
      <4> QED BY <1>1, <2>1
    <3>4. (n - 1 - last) * EntrySize \in Nat
      BY <1>2, <3>3, ProductMonotone
    <3> DEFINE e == (n - 1 - last) * EntrySize
    <3>5. EndOffset(n, start, cut) = IF e <= 0 THEN 0 ELSE e
      BY <2>4, <3>1, <3>2 DEF EndOffset
    <3> HIDE DEF e
    <3>6. e \in Nat
      BY <3>4 DEF e
    <3>7. EndOffset(n, start, cut) = e
      BY <3>5, <3>6
    <3> QED BY <3>7 DEF e
  <2> DEFINE from == LineStart(f, start)
             to == LineStart(f, last)
  <2>6. /\ EntriesAt(entries, StartOffset(n, start)) = {from}
        /\ EntriesAt(entries, EndOffset(n, start, cut)) = {to}
    BY <1>3, <2>1, <2>4, <2>5
  <2>7. Results(entries, n, f.size, start, count) = {Between(f.size, from, to)}
    <3>1. Results(entries, n, f.size, start, count) =
            {Between(f.size, a, b) : a \in {from}, b \in {to}}
      BY <1>5, <2>6 DEF Results
    <3> HIDE DEF from, to
    <3> QED BY <3>1
  <2>8. from \in 0..f.size /\ to \in 0..f.size /\ from <= to
    BY <2>1, EntryTypes, LineOrder
  <2>9. Between(f.size, from, to) = Text(from, to)
    <3> HIDE DEF from, to
    <3>1. ~(from > to) /\ to <= f.size
      BY <1>1, <2>8
    <3> QED BY <3>1 DEF Between
  <2>10. LinesOf(f, start, count) = Text(from, to)
    <3>1. ~(start > newlines)
      BY <1>1, <1>5
    <3> QED BY <3>1 DEF LinesOf
  <2> QED BY <2>7, <2>9, <2>10
<1> QED BY <1>4, <1>5

-----------------------------------------------------------------------------
(* The steps of a process, one by one *)

LEMMA MakingRecords ==
  \A m \in {None} \cup Makings :
    m # None => /\ m \in Makings
                /\ m.name \in Names /\ m.inode \in Inodes
                /\ m.file \in conf.files /\ m.pos \in Nat
  BY DEF Makings

LEMMA NotNone ==
  ASSUME NEW m \in Makings
  PROVE  m # None
<1>1. DOMAIN m = {"name", "inode", "file", "pos"}
  BY DEF Makings
<1>2. DOMAIN None = {"name"}
  BY DEF None
<1>3. "inode" \notin {"name"}
  OBVIOUS
<1> QED BY <1>1, <1>2, <1>3

\* What is held is held under a name, and in an inode.
LEMMA HeldTypes ==
  ASSUME Shapes, NEW p \in Processes
  PROVE  /\ live[p] \subseteq Indexes
         /\ making[p] # None => making[p] \in Makings /\ making[p] \in Held(p)
         /\ \A x \in Held(p) : x \in live[p] \/ (making[p] # None /\ x = making[p])
         /\ \A x \in Held(p) : x.name \in Names /\ x.inode \in Inodes
<1>1. making[p] \in {None} \cup Makings /\ live[p] \subseteq Indexes
  BY DEF Shapes
<1>2. \A x \in Makings : x.name \in Names /\ x.inode \in Inodes
  BY DEF Makings
<1>3. \A x \in Indexes : x.name \in Names /\ x.inode \in Inodes
  BY DEF Indexes
<1> QED BY <1>1, <1>2, <1>3 DEF Held

\* A write gives a file of entries.
LEMMA WriteAtType ==
  ASSUME NEW entries \in Seq(Nat), NEW pos \in Nat, NEW entry \in Nat
  PROVE  /\ WriteAt(entries, pos, entry) \in Seq(Nat)
         /\ Len(entries) = pos =>
              /\ Len(WriteAt(entries, pos, entry)) = pos + 1
              /\ \A k \in 1..pos : WriteAt(entries, pos, entry)[k] = entries[k]
              /\ WriteAt(entries, pos, entry)[pos + 1] = entry
<1> DEFINE n == IF pos < Len(entries) THEN Len(entries) ELSE pos + 1
           w == [k \in 1..n |-> IF k = pos + 1 THEN entry
                                ELSE IF k <= Len(entries) THEN entries[k] ELSE 0]
<1>1. Len(entries) \in Nat /\ \A k \in 1..Len(entries) : entries[k] \in Nat
  BY LenProperties
<1>2. n \in Nat
  BY <1>1
<1>3. WriteAt(entries, pos, entry) = w
  BY DEF WriteAt
<1>4. w \in [1..n -> Nat]
  <2> HIDE DEF n
  <2>1. \A k \in 1..n : k <= Len(entries) => k \in 1..Len(entries)
    BY <1>1, <1>2
  <2> QED BY <1>1, <2>1
<1>5. w \in Seq(Nat) /\ Len(w) = n
  <2> HIDE DEF n, w
  <2> QED BY <1>2, <1>4, SeqDef, LenProperties
<1>6. ASSUME Len(entries) = pos
      PROVE  /\ n = pos + 1
             /\ \A k \in 1..pos : w[k] = entries[k]
             /\ w[pos + 1] = entry
  <2>1. n = pos + 1
    BY <1>6
  <2>2. \A k \in 1..pos : k \in 1..n /\ k # pos + 1 /\ k <= Len(entries)
    BY <1>6, <2>1
  <2>3. pos + 1 \in 1..n
    BY <2>1
  <2> HIDE DEF n
  <2> QED BY <2>1, <2>2, <2>3
<1> HIDE DEF n, w
<1> QED BY <1>3, <1>5, <1>6

\* What OpenLookup does: the file of a name drawn for the first time is empty, and
\* if it is new its inode is not in use.
Opened(p, m) ==
  /\ p \in DOMAIN conf.draws /\ drawn[p] < Len(conf.draws[p])
  /\ m \in Makings /\ m.pos = 0
  /\ m.name = conf.draws[p][drawn[p] + 1]
  /\ making[p] = None /\ making' = [making EXCEPT ![p] = m]
  /\ conf' = conf /\ live' = live /\ drawn' = [drawn EXCEPT ![p] = @ + 1]
  /\ IF m.name \in DOMAIN dir THEN m.inode = dir[m.name] ELSE m.inode \notin InUse
  /\ dir' = [n \in DOMAIN dir \cup {m.name} |-> IF n = m.name THEN m.inode ELSE dir[n]]
  /\ data' = [data EXCEPT ![m.inode] = <<>>]

LEMMA OpenLookupOpens ==
  ASSUME Shapes, NEW p \in Processes, OpenLookup(p)
  PROVE  \E m : Opened(p, m)
<1> DEFINE name  == DrawnName(p)
           inode == IF name \in DOMAIN dir THEN dir[name] ELSE Min(Inodes \ InUse)
<1>1. PICK file \in conf.files :
        making' = [making EXCEPT
                ![p] = [name |-> name, inode |-> inode, file |-> file, pos |-> 0]]
  BY DEF OpenLookup
<1> DEFINE m == [name |-> name, inode |-> inode, file |-> file, pos |-> 0]
<1>2. name \in Names
  <2>1. conf.draws[p] \in Seq(Names) /\ drawn[p] \in Nat /\ drawn[p] < Len(conf.draws[p])
    BY SettingsAssumption DEF Shapes, OpenLookup
  <2>2. drawn[p] + 1 \in 1..Len(conf.draws[p])
    BY <2>1, LenProperties
  <2> QED BY <2>1, <2>2, ElementOfSeq DEF DrawnName
<1>3. /\ inode \in Inodes
      /\ name \in DOMAIN dir => inode = dir[name]
      /\ name \notin DOMAIN dir => inode \notin InUse
  <2>1. CASE name \in DOMAIN dir
    BY <2>1 DEF Shapes
  <2>2. CASE name \notin DOMAIN dir
    <3>1. Inodes \ InUse # {}
      BY <2>2 DEF OpenLookup
    <3>2. Inodes \ InUse \in SUBSET Nat
      BY DEF Inodes
    <3>3. \E x \in Inodes \ InUse : \A y \in Inodes \ InUse : x <= y
      BY <3>1, <3>2, LeastNat
    <3>4. Min(Inodes \ InUse) \in Inodes \ InUse
      BY <3>3 DEF Min
    <3> QED BY <2>2, <3>4
  <2> QED BY <2>1, <2>2
<1>4. /\ m.name = name /\ m.inode = inode /\ m.file = file /\ m.pos = 0
  OBVIOUS
<1>5. m \in Makings
  BY <1>2, <1>3 DEF Makings
<1>6. /\ p \in DOMAIN conf.draws /\ drawn[p] < Len(conf.draws[p]) /\ making[p] = None
      /\ conf' = conf /\ live' = live /\ drawn' = [drawn EXCEPT ![p] = @ + 1]
      /\ name = conf.draws[p][drawn[p] + 1]
      /\ dir' = [n \in DOMAIN dir \cup {name} |-> IF n = name THEN inode ELSE dir[n]]
      /\ data' = [data EXCEPT ![inode] = <<>>]
  BY DEF OpenLookup, DrawnName
<1>7. making' = [making EXCEPT ![p] = m]
  BY <1>1
<1> HIDE DEF m, name, inode
<1> QED BY <1>3, <1>4, <1>5, <1>6, <1>7 DEF Opened

\* What AppendEntry does.
Appended(p, m, new) ==
  /\ making[p] = m /\ m \in Makings /\ m.pos < LookupLen(m.file)
  /\ new \in Makings /\ making' = [making EXCEPT ![p] = new]
  /\ new.name = m.name /\ new.inode = m.inode /\ new.file = m.file /\ new.pos = m.pos + 1
  /\ conf' = conf /\ drawn' = drawn /\ live' = live /\ dir' = dir
  /\ data' = [data EXCEPT ![m.inode] =
       WriteAt(data[m.inode], m.pos, EntriesOf(m.file)[m.pos + 1])]

LEMMA AppendEntryAppends ==
  ASSUME Shapes, NEW p \in Processes, AppendEntry(p)
  PROVE  \E m, new : Appended(p, m, new)
<1> DEFINE m == making[p]
           new == [m EXCEPT !.pos = @ + 1]
<1>1. m \in Makings
  BY MakingRecords DEF Shapes, AppendEntry
<1>2. /\ new \in Makings /\ new.name = m.name /\ new.inode = m.inode
      /\ new.file = m.file /\ new.pos = m.pos + 1
  <2> HIDE DEF m
  <2> QED BY <1>1 DEF Makings
<1>3. making' = [making EXCEPT ![p] = new]
  BY DEF AppendEntry
<1>4. /\ m.pos < LookupLen(m.file)
      /\ conf' = conf /\ drawn' = drawn /\ live' = live /\ dir' = dir
      /\ data' = [data EXCEPT ![m.inode] =
           WriteAt(data[m.inode], m.pos, EntriesOf(m.file)[m.pos + 1])]
  BY DEF AppendEntry
<1>5. making[p] = m
  OBVIOUS
<1> HIDE DEF m, new
<1>6. Appended(p, m, new)
  BY <1>1, <1>2, <1>3, <1>4, <1>5 DEF Appended
<1> QED BY <1>6

\* What InitIndex does.
Initialised(p, m, x) ==
  /\ making[p] = m /\ m \in Makings /\ m.pos = LookupLen(m.file)
  /\ x \in Indexes /\ x.name = m.name /\ x.inode = m.inode /\ x.file = m.file
  /\ x.len = m.pos
  /\ live' = [live EXCEPT ![p] = live[p] \cup {x}]
  /\ making' = [making EXCEPT ![p] = None]
  /\ conf' = conf /\ drawn' = drawn /\ dir' = dir /\ data' = data

LEMMA InitIndexInitialises ==
  ASSUME Shapes, NEW p \in Processes, InitIndex(p)
  PROVE  \E m, x : Initialised(p, m, x)
<1> DEFINE m == making[p]
           x == IndexOf(m)
<1>1. m \in Makings /\ m.pos = LookupLen(m.file) /\ m.pos \in Nat
  BY MakingRecords DEF Shapes, InitIndex
<1>2. /\ x \in Indexes /\ x.name = m.name /\ x.inode = m.inode /\ x.file = m.file
      /\ x.len = m.pos
  <2> HIDE DEF m
  <2> QED BY <1>1 DEF Makings, Indexes, IndexOf
<1>3. /\ live' = [live EXCEPT ![p] = live[p] \cup {x}]
      /\ making' = [making EXCEPT ![p] = None]
      /\ conf' = conf /\ drawn' = drawn /\ dir' = dir /\ data' = data
  BY DEF InitIndex
<1>4. making[p] = m
  OBVIOUS
<1> HIDE DEF m, x
<1>5. Initialised(p, m, x)
  BY <1>1, <1>2, <1>3, <1>4 DEF Initialised
<1> QED BY <1>5

-----------------------------------------------------------------------------
(* Every step keeps the invariant *)

\* A step of one process changes what it holds, and leaves the others alone.
LEMMA OpenedHeld ==
  ASSUME Shapes, NEW p \in Processes, NEW m, Opened(p, m)
  PROVE  /\ Held(p) = live[p] /\ Held(p)' = live[p] \cup {m}
         /\ making'[p] = m /\ m # None
         /\ \A q \in Processes \ {p} : Held(q)' = Held(q) /\ making'[q] = making[q]
<1>1. /\ making \in [Processes -> {None} \cup Makings] /\ m \in Makings
      /\ making[p] = None /\ making' = [making EXCEPT ![p] = m] /\ live' = live
  BY DEF Opened, Shapes
<1>2. m # None
  BY <1>1, NotNone
<1> QED BY <1>1, <1>2 DEF Held

LEMMA AppendedHeld ==
  ASSUME Shapes, NEW p \in Processes, NEW m, NEW new, Appended(p, m, new)
  PROVE  /\ Held(p) = live[p] \cup {m} /\ Held(p)' = live[p] \cup {new}
         /\ making'[p] = new /\ m # None /\ new # None
         /\ \A q \in Processes \ {p} : Held(q)' = Held(q) /\ making'[q] = making[q]
<1>1. /\ making \in [Processes -> {None} \cup Makings] /\ m \in Makings /\ new \in Makings
      /\ making[p] = m /\ making' = [making EXCEPT ![p] = new] /\ live' = live
  BY DEF Appended, Shapes
<1>2. m # None /\ new # None
  BY <1>1, NotNone
<1> QED BY <1>1, <1>2 DEF Held

LEMMA InitialisedHeld ==
  ASSUME Shapes, NEW p \in Processes, NEW m, NEW x, Initialised(p, m, x)
  PROVE  /\ Held(p) = live[p] \cup {m} /\ Held(p)' = live[p] \cup {x}
         /\ making'[p] = None /\ m # None /\ live'[p] = live[p] \cup {x}
         /\ \A q \in Processes \ {p} :
              Held(q)' = Held(q) /\ making'[q] = making[q] /\ live'[q] = live[q]
<1>1. /\ making \in [Processes -> {None} \cup Makings] /\ m \in Makings
      /\ live \in [Processes -> SUBSET Indexes]
      /\ making[p] = m /\ making' = [making EXCEPT ![p] = None]
      /\ live' = [live EXCEPT ![p] = live[p] \cup {x}]
  BY DEF Initialised, Shapes
<1>2. m # None
  BY <1>1, NotNone
<1>3. live'[p] = live[p] \cup {x} /\ making'[p] = None
  BY <1>1
<1>4. \A q \in Processes \ {p} : making'[q] = making[q] /\ live'[q] = live[q]
  BY <1>1
<1> QED BY <1>1, <1>2, <1>3, <1>4 DEF Held

\* What a process lets go when it frees an index, fails or crashes.
LetGo(p) == MakeFails(p) \/ Crash(p) \/ \E x \in live[p] : Free(p, x)

LEMMA LetGoHeld ==
  ASSUME Shapes, NEW p \in Processes, LetGo(p)
  PROVE  /\ conf' = conf /\ data' = data
         /\ live'[p] \subseteq live[p] /\ making'[p] \in {making[p], None}
         /\ Held(p)' \subseteq Held(p)
         /\ drawn'[p] = drawn[p] \/ Held(p)' = {}
         /\ drawn' \in [Processes -> Nat]
         /\ \A q \in Processes \ {p} :
              /\ Held(q)' = Held(q) /\ making'[q] = making[q]
              /\ live'[q] = live[q] /\ drawn'[q] = drawn[q]
<1>1. /\ making \in [Processes -> {None} \cup Makings]
      /\ live \in [Processes -> SUBSET Indexes]
      /\ drawn \in [Processes -> Nat]
  BY DEF Shapes
<1>2. CASE MakeFails(p)
  <2>1. conf' = conf /\ data' = data /\ drawn' = drawn /\ live' = live
        /\ making' = [making EXCEPT ![p] = None]
    BY <1>2 DEF MakeFails
  <2>2. making'[p] = None /\ \A q \in Processes \ {p} : making'[q] = making[q]
    BY <1>1, <2>1
  <2> QED BY <1>1, <2>1, <2>2 DEF Held
<1>3. CASE Crash(p)
  <2>1. conf' = conf /\ data' = data /\ drawn' = [drawn EXCEPT ![p] = 0]
        /\ live' = [live EXCEPT ![p] = {}] /\ making' = [making EXCEPT ![p] = None]
    BY <1>3 DEF Crash
  <2>2. /\ making'[p] = None /\ live'[p] = {} /\ drawn' \in [Processes -> Nat]
        /\ \A q \in Processes \ {p} :
             making'[q] = making[q] /\ live'[q] = live[q] /\ drawn'[q] = drawn[q]
    BY <1>1, <2>1
  <2> QED BY <2>1, <2>2 DEF Held
<1>4. ASSUME NEW x \in live[p], Free(p, x)
      PROVE  /\ conf' = conf /\ data' = data /\ drawn' = drawn /\ making' = making
             /\ live' = [live EXCEPT ![p] = live[p] \ {x}]
  BY <1>4 DEF Free, Removed
<1>5. CASE \E x \in live[p] : Free(p, x)
  <2>1. PICK x \in live[p] : Free(p, x)
    BY <1>5
  <2>2. conf' = conf /\ data' = data /\ drawn' = drawn /\ making' = making
    BY <1>4, <2>1
  <2>3. live'[p] = live[p] \ {x} /\ \A q \in Processes \ {p} : live'[q] = live[q]
    BY <1>1, <1>4, <2>1
  <2> QED BY <1>1, <2>2, <2>3 DEF Held
<1> QED BY <1>2, <1>3, <1>5 DEF LetGo

LEMMA StepCases ==
  ASSUME Shapes, NEW p \in Processes, Step(p)
  PROVE  \/ \E m : Opened(p, m)
         \/ \E m, new : Appended(p, m, new)
         \/ \E m, x : Initialised(p, m, x)
         \/ LetGo(p)
  BY OpenLookupOpens, AppendEntryAppends, InitIndexInitialises DEF Step, LetGo

LEMMA StepShapes ==
  ASSUME Shapes, NEW p \in Processes, Step(p), Lengths(p)
  PROVE  Shapes'
<1>1. /\ conf \in Settings /\ drawn \in [Processes -> Nat]
      /\ making \in [Processes -> {None} \cup Makings]
      /\ live \in [Processes -> SUBSET Indexes]
      /\ dir \in [DOMAIN dir -> Inodes] /\ DOMAIN dir \subseteq Names
      /\ data \in [Inodes -> Seq(Nat)]
  BY DEF Shapes
<1>2. conf' = conf
  BY DEF Step, OpenLookup, AppendEntry, InitIndex, MakeFails, Crash, Free, Removed
<1>3. Makings' = Makings /\ Indexes' = Indexes
  BY <1>2 DEF Makings, Indexes
<1>4. ASSUME NEW m, Opened(p, m) PROVE Shapes'
  <2>1. m \in Makings /\ m.name \in Names /\ m.inode \in Inodes
    BY <1>4 DEF Opened, Makings
  <2>2. making' \in [Processes -> {None} \cup Makings] /\ live' = live
        /\ drawn' \in [Processes -> Nat]
    BY <1>1, <1>4, <2>1 DEF Opened
  <2>3. /\ DOMAIN dir' = DOMAIN dir \cup {m.name}
        /\ \A n \in DOMAIN dir' : dir'[n] \in Inodes
        /\ dir' = [n \in DOMAIN dir' |-> dir'[n]]
    BY <1>1, <1>4, <2>1 DEF Opened
  <2>4. dir' \in [DOMAIN dir' -> Inodes] /\ DOMAIN dir' \subseteq Names
    BY <1>1, <2>1, <2>3
  <2>5. data' \in [Inodes -> Seq(Nat)]
    <3>1. <<>> \in Seq(Nat)
      BY EmptySeq
    <3> QED BY <1>1, <1>4, <2>1, <3>1 DEF Opened
  <2> QED BY <1>1, <1>2, <1>3, <2>2, <2>4, <2>5 DEF Shapes
<1>5. ASSUME NEW m, NEW new, Appended(p, m, new) PROVE Shapes'
  <2>1. m \in Makings /\ new \in Makings /\ m.inode \in Inodes /\ m.file \in conf.files
        /\ m.pos \in Nat /\ m.pos < LookupLen(m.file)
    BY <1>5 DEF Appended, Makings
  <2>2. making' \in [Processes -> {None} \cup Makings] /\ live' = live
        /\ drawn' = drawn /\ dir' = dir
    BY <1>1, <1>5, <2>1 DEF Appended
  <2>3. EntriesOf(m.file)[m.pos + 1] \in Nat
    <3>1. m.pos + 1 \in 1..LookupLen(m.file)
      BY <1>1, <2>1, FileFacts
    <3> QED BY <1>1, <2>1, <3>1, EntryTypes
  <2>4. WriteAt(data[m.inode], m.pos, EntriesOf(m.file)[m.pos + 1]) \in Seq(Nat)
    BY <1>1, <2>1, <2>3, WriteAtType
  <2>5. data' \in [Inodes -> Seq(Nat)]
    BY <1>1, <1>5, <2>1, <2>4 DEF Appended
  <2> QED BY <1>1, <1>2, <1>3, <2>2, <2>5 DEF Shapes
<1>6. ASSUME NEW m, NEW x, Initialised(p, m, x) PROVE Shapes'
  <2>1. x \in Indexes
    BY <1>6 DEF Initialised
  <2>2. making' \in [Processes -> {None} \cup Makings]
    BY <1>1, <1>6 DEF Initialised
  <2>3. live' \in [Processes -> SUBSET Indexes]
    BY <1>1, <1>6, <2>1 DEF Initialised
  <2>4. drawn' = drawn /\ dir' = dir /\ data' = data
    BY <1>6 DEF Initialised
  <2> QED BY <1>1, <1>2, <1>3, <2>2, <2>3, <2>4 DEF Shapes
<1>7. ASSUME LetGo(p) PROVE Shapes'
  <2>1. data' = data /\ drawn' \in [Processes -> Nat]
    BY <1>7, LetGoHeld
  <2>2. CASE MakeFails(p)
    <3>1. making' \in [Processes -> {None} \cup Makings] /\ live' = live /\ dir' = dir
      BY <1>1, <2>2 DEF MakeFails
    <3> QED BY <1>1, <1>2, <1>3, <2>1, <3>1 DEF Shapes
  <2>3. CASE Crash(p)
    <3>1. making' \in [Processes -> {None} \cup Makings] /\ dir' = dir
          /\ live' \in [Processes -> SUBSET Indexes]
      BY <1>1, <2>3 DEF Crash
    <3> QED BY <1>1, <1>2, <1>3, <2>1, <3>1 DEF Shapes
  <2>4. ASSUME NEW x \in live[p], Free(p, x) PROVE Shapes'
    <3>1. live' \in [Processes -> SUBSET Indexes] /\ making' = making
      BY <1>1, <2>4 DEF Free, Removed
    <3>2. dir' \in [DOMAIN dir' -> Inodes] /\ DOMAIN dir' \subseteq Names
      BY <1>1, <2>4 DEF Free, Removed
    <3> QED BY <1>1, <1>2, <1>3, <2>1, <3>1, <3>2 DEF Shapes
  <2> QED BY <1>7, <2>2, <2>3, <2>4 DEF LetGo
<1> QED BY <1>4, <1>5, <1>6, <1>7, StepCases

LEMMA StepLengths ==
  ASSUME Shapes, NEW p \in Processes, Step(p), \A q \in Processes : Lengths(q)
  PROVE  \A q \in Processes : Lengths(q)'
<1>1. ASSUME NEW q \in Processes, making'[q] = making[q] \/ making'[q] = None,
             live'[q] \subseteq live[q]
      PROVE  Lengths(q)'
  BY <1>1 DEF Lengths, LookupLen
<1>2. ASSUME NEW m, Opened(p, m) PROVE \A q \in Processes : Lengths(q)'
  <2>1. live' = live /\ making'[p] = m /\ \A q \in Processes \ {p} : making'[q] = making[q]
    BY <1>2, OpenedHeld DEF Opened
  <2>2. m.pos <= LookupLen(m.file)
    <3>1. conf \in Settings /\ m.file \in conf.files /\ m.pos = 0
      BY <1>2 DEF Opened, Makings, Shapes
    <3>2. LookupLen(m.file) \in Nat
      BY <3>1, FileFacts
    <3> QED BY <3>1, <3>2
  <2>3. Lengths(p)'
    BY <2>1, <2>2 DEF Lengths, LookupLen
  <2> QED BY <1>1, <2>1, <2>3
<1>3. ASSUME NEW m, NEW new, Appended(p, m, new) PROVE \A q \in Processes : Lengths(q)'
  <2>1. live' = live /\ making'[p] = new /\ \A q \in Processes \ {p} : making'[q] = making[q]
    <3>1. live' = live
      BY <1>3 DEF Appended
    <3> QED BY <1>3, <3>1, AppendedHeld
  <2>2. new.pos <= LookupLen(new.file)
    <3>1. conf \in Settings /\ m.file \in conf.files /\ new.file = m.file
          /\ m.pos \in Nat /\ new.pos = m.pos + 1 /\ m.pos < LookupLen(m.file)
      BY <1>3 DEF Appended, Makings, Shapes
    <3>2. LookupLen(m.file) \in Nat
      BY <3>1, FileFacts
    <3> QED BY <3>1, <3>2
  <2>3. Lengths(p)'
    BY <2>1, <2>2 DEF Lengths, LookupLen
  <2> QED BY <1>1, <2>1, <2>3
<1>4. ASSUME NEW m, NEW x, Initialised(p, m, x) PROVE \A q \in Processes : Lengths(q)'
  <2>1. /\ live'[p] = live[p] \cup {x} /\ making'[p] = None
        /\ \A q \in Processes \ {p} : making'[q] = making[q] /\ live'[q] = live[q]
    BY <1>4, InitialisedHeld
  <2>2. x.len = LookupLen(x.file)
    BY <1>4 DEF Initialised, LookupLen
  <2>3. Lengths(p)'
    BY <2>1, <2>2 DEF Lengths, LookupLen
  <2> QED BY <1>1, <2>1, <2>3
<1>5. ASSUME LetGo(p) PROVE \A q \in Processes : Lengths(q)'
  BY <1>1, <1>5, LetGoHeld
<1> QED BY <1>2, <1>3, <1>4, <1>5, StepCases

\* The names a process draws are different.
LEMMA Draws ==
  ASSUME Shapes, NEW p \in DOMAIN conf.draws
  PROVE  /\ p \in Processes /\ drawn[p] \in Nat /\ Len(conf.draws[p]) \in Nat
         /\ \A j, k \in 1..Len(conf.draws[p]) :
              conf.draws[p][j] = conf.draws[p][k] => j = k
<1>1. /\ p \in Processes /\ conf.draws[p] \in Seq(Names)
      /\ \A j, k \in DOMAIN conf.draws[p] :
           conf.draws[p][j] = conf.draws[p][k] => j = k
  BY SettingsAssumption DEF Shapes
<1>2. drawn[p] \in Nat
  BY <1>1 DEF Shapes
<1> QED BY <1>1, <1>2, LenProperties

\* A process draws no name of a file it holds.
LEMMA NewName ==
  ASSUME Shapes, NEW p \in Processes, Drawn(p), NEW m, Opened(p, m), NEW x \in Held(p)
  PROVE  x.name # m.name
<1>1. p \in DOMAIN conf.draws /\ drawn[p] < Len(conf.draws[p])
      /\ m.name = conf.draws[p][drawn[p] + 1]
  BY DEF Opened
<1>2. PICK j \in 1..drawn[p] : conf.draws[p][j] = x.name
  BY DEF Drawn
<1>3. drawn[p] \in Nat /\ Len(conf.draws[p]) \in Nat
      /\ \A a, b \in 1..Len(conf.draws[p]) :
           conf.draws[p][a] = conf.draws[p][b] => a = b
  BY <1>1, Draws
<1>4. j \in 1..Len(conf.draws[p]) /\ drawn[p] + 1 \in 1..Len(conf.draws[p])
      /\ j # drawn[p] + 1
  BY <1>1, <1>3
<1> QED BY <1>1, <1>2, <1>3, <1>4

LEMMA StepDrawn ==
  ASSUME Shapes, NEW p \in Processes, Step(p), \A q \in Processes : Drawn(q)
  PROVE  \A q \in Processes : Drawn(q)'
<1>1. conf' = conf
  BY DEF Step, OpenLookup, AppendEntry, InitIndex, MakeFails, Crash, Free, Removed
<1>2. ASSUME NEW q \in Processes, Held(q)' = Held(q), making'[q] = making[q],
             live'[q] = live[q], drawn'[q] = drawn[q]
      PROVE  Drawn(q)'
  BY <1>1, <1>2 DEF Drawn
<1>3. ASSUME NEW m, Opened(p, m) PROVE \A q \in Processes : Drawn(q)'
  <2>1. /\ Held(p) = live[p] /\ Held(p)' = live[p] \cup {m} /\ making'[p] = m
        /\ \A q \in Processes \ {p} : Held(q)' = Held(q) /\ making'[q] = making[q]
    BY <1>3, OpenedHeld
  <2>2. /\ live' = live /\ drawn'[p] = drawn[p] + 1
        /\ \A q \in Processes \ {p} : drawn'[q] = drawn[q]
        /\ p \in DOMAIN conf.draws /\ drawn[p] < Len(conf.draws[p])
        /\ m.name = conf.draws[p][drawn[p] + 1]
    BY <1>3 DEF Opened, Shapes
  <2>3. drawn[p] \in Nat /\ Len(conf.draws[p]) \in Nat
    BY <2>2, Draws
  <2>4. drawn'[p] <= Len(conf.draws[p]) /\ drawn[p] + 1 \in 1..drawn'[p]
        /\ 1..drawn[p] \subseteq 1..drawn'[p]
    BY <2>2, <2>3
  <2>5. \A x \in Held(p)' : \E j \in 1..drawn'[p] : conf.draws[p][j] = x.name
    BY <2>1, <2>2, <2>4 DEF Drawn
  <2>6. \A x \in live[p] : x.name # m.name
    BY <1>3, <2>1, NewName
  <2>7. Drawn(p)'
    BY <1>1, <2>1, <2>2, <2>4, <2>5, <2>6 DEF Drawn
  <2> QED BY <1>2, <2>1, <2>2, <2>7
<1>4. ASSUME NEW m, NEW new, Appended(p, m, new) PROVE \A q \in Processes : Drawn(q)'
  <2>1. /\ Held(p) = live[p] \cup {m} /\ Held(p)' = live[p] \cup {new}
        /\ making'[p] = new /\ m # None
        /\ \A q \in Processes \ {p} : Held(q)' = Held(q) /\ making'[q] = making[q]
    BY <1>4, AppendedHeld
  <2>2. live' = live /\ drawn' = drawn /\ new.name = m.name /\ making[p] = m
    BY <1>4 DEF Appended
  <2>3. Drawn(p)'
    BY <1>1, <2>1, <2>2 DEF Drawn
  <2> QED BY <1>2, <2>1, <2>2, <2>3
<1>5. ASSUME NEW m, NEW x, Initialised(p, m, x) PROVE \A q \in Processes : Drawn(q)'
  <2>1. /\ Held(p) = live[p] \cup {m} /\ Held(p)' = live[p] \cup {x}
        /\ making'[p] = None /\ m # None /\ live'[p] = live[p] \cup {x}
        /\ \A q \in Processes \ {p} :
             Held(q)' = Held(q) /\ making'[q] = making[q] /\ live'[q] = live[q]
    BY <1>5, InitialisedHeld
  <2>2. drawn' = drawn /\ x.name = m.name /\ making[p] = m
    BY <1>5 DEF Initialised
  <2>3. Drawn(p)'
    BY <1>1, <2>1, <2>2 DEF Drawn
  <2> QED BY <1>2, <2>1, <2>2, <2>3
<1>6. ASSUME LetGo(p) PROVE \A q \in Processes : Drawn(q)'
  <2>1. /\ live'[p] \subseteq live[p] /\ making'[p] \in {making[p], None}
        /\ Held(p)' \subseteq Held(p)
        /\ drawn'[p] = drawn[p] \/ Held(p)' = {}
        /\ \A q \in Processes \ {p} :
             /\ Held(q)' = Held(q) /\ making'[q] = making[q]
             /\ live'[q] = live[q] /\ drawn'[q] = drawn[q]
    BY <1>6, LetGoHeld
  <2>2. Drawn(p)'
    BY <1>1, <2>1 DEF Drawn
  <2> QED BY <1>2, <2>1, <2>2
<1> QED BY <1>3, <1>4, <1>5, <1>6, StepCases

-----------------------------------------------------------------------------
(* Names and inodes *)

\* Processes that draw different names hold files under different names.
LEMMA NamesApart ==
  ASSUME Shapes, Seeded, NEW p \in Processes, NEW q \in Processes, Drawn(p), Drawn(q),
         NEW x \in Held(p), NEW y \in Held(q), x.name = y.name
  PROVE  p = q
<1>1. PICK j \in 1..drawn[p] : conf.draws[p][j] = x.name
  BY DEF Drawn
<1>2. PICK k \in 1..drawn[q] : conf.draws[q][k] = y.name
  BY DEF Drawn
<1>3. /\ p \in DOMAIN conf.draws /\ drawn[p] <= Len(conf.draws[p])
      /\ q \in DOMAIN conf.draws /\ drawn[q] <= Len(conf.draws[q])
  BY DEF Drawn
<1>4. /\ conf.draws[p] \in Seq(Names) /\ conf.draws[q] \in Seq(Names)
      /\ drawn[p] \in Nat /\ drawn[q] \in Nat
  BY <1>3, SettingsAssumption DEF Shapes
<1>5. j \in DOMAIN conf.draws[p] /\ k \in DOMAIN conf.draws[q]
  BY <1>3, <1>4, LenProperties
<1> QED BY <1>1, <1>2, <1>3, <1>5 DEF Seeded

\* Nobody else holds an index under the name of one that exists.
LEMMA IndexAlone ==
  ASSUME Shapes, Seeded, NEW p \in Processes, NEW q \in Processes, Drawn(p), Drawn(q),
         NEW x \in live[p], NEW y \in Held(q), x.name = y.name
  PROVE  p = q /\ x = y
<1>1. x \in Held(p)
  BY DEF Held
<1>2. p = q
  BY <1>1, NamesApart
<1>3. y \in live[q] \/ (making[q] # None /\ y = making[q])
  BY HeldTypes
<1> QED BY <1>2, <1>3 DEF Drawn

\* Each of the files held is the one of its name, so another name is another file.
LEMMA InodesApart ==
  ASSUME Linked, Seeded, NEW p \in Processes, NEW q \in Processes,
         NEW x \in Held(p), NEW y \in Held(q), x.inode = y.inode
  PROVE  x.name = y.name
  BY DEF Linked

\* No process holds the file of a name that another is about to open.
LEMMA FileAlone ==
  ASSUME Shapes, Seeded, Linked, NEW p \in Processes, NEW q \in Processes,
         Drawn(p), Drawn(q), NEW m, Opened(p, m), NEW y \in Held(q)
  PROVE  y.name # m.name /\ y.inode # m.inode
<1>1. y.name # m.name
  <2>1. CASE q = p
    BY <2>1, NewName
  <2>2. CASE q # p
    <3>1. PICK k \in 1..drawn[q] : conf.draws[q][k] = y.name
      BY DEF Drawn
    <3>2. /\ p \in DOMAIN conf.draws /\ drawn[p] < Len(conf.draws[p])
          /\ q \in DOMAIN conf.draws /\ drawn[q] <= Len(conf.draws[q])
          /\ m.name = conf.draws[p][drawn[p] + 1]
      BY DEF Drawn, Opened
    <3>3. /\ conf.draws[p] \in Seq(Names) /\ conf.draws[q] \in Seq(Names)
          /\ drawn[p] \in Nat /\ drawn[q] \in Nat
      BY <3>2, SettingsAssumption DEF Shapes
    <3>4. drawn[p] + 1 \in DOMAIN conf.draws[p] /\ k \in DOMAIN conf.draws[q]
      BY <3>2, <3>3, LenProperties
    <3> QED BY <2>2, <3>1, <3>2, <3>4 DEF Seeded
  <2> QED BY <2>1, <2>2
<1>2. y.name \in DOMAIN dir /\ dir[y.name] = y.inode
  BY DEF Linked
<1>3. CASE m.name \in DOMAIN dir
  BY <1>1, <1>2, <1>3 DEF Opened, Linked
<1>4. CASE m.name \notin DOMAIN dir
  BY <1>2, <1>4 DEF Opened, InUse
<1> QED BY <1>1, <1>3, <1>4

\* The names of what the processes hold.
LEMMA HeldNames ==
  {x.name : x \in Open} = UNION {{x.name : x \in Held(p)} : p \in Processes}
  BY DEF Open, Held

\* The process that holds a file, when lookup_dir has no others.
LeftNone == \A n \in DOMAIN dir : \E q \in Processes : \E x \in Held(q) : x.name = n

LEMMA LeftNoneIs == NothingLeft <=> (conf.faults = {} => LeftNone)
  BY HeldNames DEF NothingLeft, LeftNone

LEMMA StepLeft ==
  ASSUME Shapes, NEW p \in Processes, Step(p), \A q \in Processes : Drawn(q),
         conf.faults = {}, LeftNone
  PROVE  LeftNone'
<1>1. ASSUME NEW m, Opened(p, m) PROVE LeftNone'
  <2>1. /\ Held(p) = live[p] /\ Held(p)' = live[p] \cup {m}
        /\ \A q \in Processes \ {p} : Held(q)' = Held(q)
    BY <1>1, OpenedHeld
  <2>2. DOMAIN dir' = DOMAIN dir \cup {m.name}
    BY <1>1 DEF Opened
  <2>3. \A q \in Processes : Held(q) \subseteq Held(q)'
    BY <2>1
  <2>4. m \in Held(p)'
    BY <2>1
  <2> QED BY <2>2, <2>3, <2>4 DEF LeftNone
<1>2. ASSUME NEW m, NEW new, Appended(p, m, new) PROVE LeftNone'
  <2>1. /\ Held(p) = live[p] \cup {m} /\ Held(p)' = live[p] \cup {new}
        /\ \A q \in Processes \ {p} : Held(q)' = Held(q)
    BY <1>2, AppendedHeld
  <2>2. dir' = dir /\ new.name = m.name
    BY <1>2 DEF Appended
  <2>3. \A q \in Processes : \A x \in Held(q) : \E y \in Held(q)' : y.name = x.name
    BY <2>1, <2>2
  <2> QED BY <2>2, <2>3 DEF LeftNone
<1>3. ASSUME NEW m, NEW new, Initialised(p, m, new) PROVE LeftNone'
  <2>1. /\ Held(p) = live[p] \cup {m} /\ Held(p)' = live[p] \cup {new}
        /\ \A q \in Processes \ {p} : Held(q)' = Held(q)
    BY <1>3, InitialisedHeld
  <2>2. dir' = dir /\ new.name = m.name
    BY <1>3 DEF Initialised
  <2>3. \A q \in Processes : \A x \in Held(q) : \E y \in Held(q)' : y.name = x.name
    BY <2>1, <2>2
  <2> QED BY <2>2, <2>3 DEF LeftNone
<1>4. ASSUME NEW x \in live[p], Free(p, x) PROVE LeftNone'
  <2>1. /\ making' = making /\ live' = [live EXCEPT ![p] = live[p] \ {x}]
        /\ DOMAIN dir' = DOMAIN dir \ {x.name}
    BY <1>4 DEF Free, Removed
  <2>2. /\ live'[p] = live[p] \ {x}
        /\ \A q \in Processes \ {p} : live'[q] = live[q]
    BY <2>1 DEF Shapes
  <2>3. \A q \in Processes : \A y \in Held(q) : y # x => y \in Held(q)'
    BY <2>1, <2>2 DEF Held
  <2>4. ASSUME NEW n \in DOMAIN dir'
        PROVE  \E q \in Processes : \E y \in Held(q)' : y.name = n
    <3>1. PICK q \in Processes : \E y \in Held(q) : y.name = n
      BY <2>1, <2>4 DEF LeftNone
    <3>2. PICK y \in Held(q) : y.name = n
      BY <3>1
    <3>3. y # x
      BY <2>1, <2>4, <3>2
    <3> QED BY <2>3, <3>2, <3>3
  <2> QED BY <2>4 DEF LeftNone
<1>5. ~MakeFails(p) /\ ~Crash(p)
  BY DEF MakeFails, Crash
<1> QED BY <1>1, <1>2, <1>3, <1>4, <1>5, StepCases DEF LetGo

LEMMA StepLinked ==
  ASSUME Shapes, NEW p \in Processes, Step(p), \A q \in Processes : Drawn(q), Linked
  PROVE  Linked'
<1>1. conf' = conf /\ (Seeded' <=> Seeded)
  <2>1. conf' = conf
    BY DEF Step, OpenLookup, AppendEntry, InitIndex, MakeFails, Crash, Free, Removed
  <2> QED BY <2>1 DEF Seeded
<1>2. ASSUME NEW m, Opened(p, m) PROVE Linked'
  <2>1. /\ Held(p) = live[p] /\ Held(p)' = live[p] \cup {m}
        /\ \A q \in Processes \ {p} : Held(q)' = Held(q)
    BY <1>2, OpenedHeld
  <2>2. /\ DOMAIN dir' = DOMAIN dir \cup {m.name}
        /\ dir'[m.name] = m.inode
        /\ \A n \in DOMAIN dir : n # m.name => dir'[n] = dir[n]
    BY <1>2 DEF Opened
  <2>3. \A n \in DOMAIN dir : n # m.name => dir[n] # m.inode
    <3>1. CASE m.name \in DOMAIN dir
      BY <1>2, <3>1 DEF Opened, Linked
    <3>2. CASE m.name \notin DOMAIN dir
      BY <1>2, <3>2 DEF Opened, InUse
    <3> QED BY <3>1, <3>2
  <2>4. \A a, b \in DOMAIN dir' : dir'[a] = dir'[b] => a = b
    BY <2>2, <2>3 DEF Linked
  <2>5. ASSUME Seeded, NEW q \in Processes, NEW x \in Held(q)'
        PROVE  x.name \in DOMAIN dir' /\ dir'[x.name] = x.inode
    <3>1. CASE x \in Held(q)
      <4>1. x.name # m.name
        BY <1>2, <2>5, <3>1, FileAlone
      <4>2. x.name \in DOMAIN dir /\ dir[x.name] = x.inode
        BY <2>5, <3>1 DEF Linked
      <4> QED BY <2>2, <4>1, <4>2
    <3>2. CASE x \notin Held(q)
      <4>1. x = m
        BY <2>1, <3>2
      <4> QED BY <2>2, <4>1
    <3> QED BY <3>1, <3>2
  <2> QED BY <1>1, <2>4, <2>5 DEF Linked
<1>3. ASSUME NEW m, NEW new, Appended(p, m, new) \/ Initialised(p, m, new) PROVE Linked'
  <2>1. /\ Held(p) = live[p] \cup {m} /\ Held(p)' = live[p] \cup {new}
        /\ \A q \in Processes \ {p} : Held(q)' = Held(q)
    BY <1>3, AppendedHeld, InitialisedHeld
  <2>2. dir' = dir /\ new.name = m.name /\ new.inode = m.inode
    BY <1>3 DEF Appended, Initialised
  <2>3. \A q \in Processes : \A x \in Held(q)' :
          \E y \in Held(q) : y.name = x.name /\ y.inode = x.inode
    BY <2>1, <2>2
  <2> QED BY <1>1, <2>2, <2>3 DEF Linked
<1>4. ASSUME NEW x \in live[p], Free(p, x) PROVE Linked'
  <2>1. /\ making' = making /\ live' = [live EXCEPT ![p] = live[p] \ {x}]
        /\ DOMAIN dir' = DOMAIN dir \ {x.name}
        /\ \A n \in DOMAIN dir' : dir'[n] = dir[n]
    BY <1>4 DEF Free, Removed
  <2>2. /\ live'[p] = live[p] \ {x}
        /\ \A q \in Processes \ {p} : live'[q] = live[q]
    BY <2>1 DEF Shapes
  <2>3. \A q \in Processes : Held(q)' \subseteq Held(q)
    BY <2>1, <2>2 DEF Held
  <2>4. ASSUME Seeded, NEW q \in Processes, NEW y \in Held(q)'
        PROVE  y.name # x.name
    <3>1. SUFFICES ASSUME y.name = x.name PROVE FALSE
      OBVIOUS
    <3>2. q = p /\ y = x
      BY <2>3, <2>4, <3>1, IndexAlone
    <3>3. making[p] = None \/ x # making[p]
      BY DEF Drawn
    <3> QED BY <2>1, <2>2, <2>4, <3>2, <3>3 DEF Held
  <2>5. \A a, b \in DOMAIN dir' : dir'[a] = dir'[b] => a = b
    BY <2>1 DEF Linked
  <2> QED BY <1>1, <2>1, <2>3, <2>4, <2>5 DEF Linked
<1>5. ASSUME MakeFails(p) \/ Crash(p) PROVE Linked'
  <2>1. dir' = dir /\ \A q \in Processes : Held(q)' \subseteq Held(q)
    BY <1>5, LetGoHeld DEF LetGo, MakeFails, Crash
  <2> QED BY <1>1, <2>1 DEF Linked
<1> QED BY <1>2, <1>3, <1>4, <1>5, StepCases DEF LetGo

\* An entry is written at the end of those written before.
LEMMA WriteNext ==
  ASSUME conf \in Settings, NEW f \in conf.files, NEW entries \in Seq(Nat), NEW pos \in Nat,
         pos < LookupLen(f), Written(entries, f, pos)
  PROVE  Written(WriteAt(entries, pos, EntriesOf(f)[pos + 1]), f, pos + 1)
<1> DEFINE e == EntriesOf(f)[pos + 1]
           w == WriteAt(entries, pos, e)
<1>1. LookupLen(f) \in Nat
  BY FileFacts
<1>2. pos + 1 \in 1..LookupLen(f)
  BY <1>1
<1>3. e \in Nat
  BY <1>2, EntryTypes
<1>4. Len(entries) = pos /\ \A k \in 1..pos : entries[k] = EntriesOf(f)[k]
  BY DEF Written
<1> HIDE DEF e, w
<1>5. /\ Len(w) = pos + 1 /\ w[pos + 1] = e
      /\ \A k \in 1..pos : w[k] = entries[k]
  <2>1. Len(entries) = pos =>
          /\ Len(WriteAt(entries, pos, e)) = pos + 1
          /\ \A k \in 1..pos : WriteAt(entries, pos, e)[k] = entries[k]
          /\ WriteAt(entries, pos, e)[pos + 1] = e
    BY <1>3, WriteAtType
  <2> QED BY <1>4, <2>1 DEF w
<1>6. \A k \in 1..(pos + 1) : k \in 1..pos \/ k = pos + 1
  OBVIOUS
<1>7. \A k \in 1..(pos + 1) : w[k] = EntriesOf(f)[k]
  BY <1>4, <1>5, <1>6 DEF e
<1> QED BY <1>5, <1>7 DEF Written, w, e

\* What a process holds has been written as far as it should be.
Sound(q) ==
  /\ making[q] # None => Written(data[making[q].inode], making[q].file, making[q].pos)
  /\ \A x \in live[q] : Written(data[x.inode], x.file, x.len)

\* What a step leaves in place stays written.
LEMMA StaysSound ==
  ASSUME NEW q \in Processes, Sound(q), live'[q] \subseteq live[q],
         making'[q] \in {making[q], None},
         \A x \in Held(q)' : data'[x.inode] = data[x.inode]
  PROVE  Sound(q)'
<1>1. making'[q] # None => making'[q] \in Held(q)'
  BY DEF Held
<1>2. \A x \in live'[q] : x \in Held(q)'
  BY DEF Held
<1>3. \A entries, f, pos : Written(entries, f, pos)' <=> Written(entries, f, pos)
  BY DEF Written, EntriesOf, Starts
<1> QED BY <1>1, <1>2, <1>3 DEF Sound

LEMMA ContentsSound == Contents <=> (Seeded => \A q \in Processes : Sound(q))
  BY DEF Contents, Sound

LEMMA StepSound ==
  ASSUME Shapes, NEW p \in Processes, Step(p), \A q \in Processes : Drawn(q), Linked,
         \A q \in Processes : Lengths(q), Seeded, \A q \in Processes : Sound(q)
  PROVE  \A q \in Processes : Sound(q)'
<1>1. data \in [Inodes -> Seq(Nat)] /\ conf \in Settings
  BY DEF Shapes
<1>2. \A entries, f, pos : Written(entries, f, pos)' <=> Written(entries, f, pos)
  BY DEF Written, EntriesOf, Starts
<1>3. ASSUME NEW m, Opened(p, m) PROVE \A q \in Processes : Sound(q)'
  <2>1. /\ Held(p) = live[p] /\ Held(p)' = live[p] \cup {m} /\ making'[p] = m
        /\ \A q \in Processes \ {p} : Held(q)' = Held(q) /\ making'[q] = making[q]
    BY <1>3, OpenedHeld
  <2>2. live' = live
    BY <1>3 DEF Opened
  <2>3. /\ data'[m.inode] = <<>>
        /\ \A n \in Inodes : n # m.inode => data'[n] = data[n]
    <3>1. m.inode \in Inodes /\ data' = [data EXCEPT ![m.inode] = <<>>]
      BY <1>3 DEF Opened, Makings
    <3> QED BY <1>1, <3>1
  <2>4. ASSUME NEW q \in Processes, NEW x \in Held(q) PROVE data'[x.inode] = data[x.inode]
    <3>1. x.inode # m.inode
      BY <1>3, <2>4, FileAlone
    <3>2. x.inode \in Inodes
      BY <2>4, HeldTypes
    <3> QED BY <2>3, <3>1, <3>2
  <2>5. \A q \in Processes \ {p} : Sound(q)'
    BY <2>1, <2>2, <2>4, StaysSound
  <2>6. Sound(p)'
    <3>1. \A x \in live[p] : Written(data'[x.inode], x.file, x.len)
      BY <2>1, <2>4 DEF Sound
    <3>2. Written(data'[m.inode], m.file, m.pos)
      <4>1. m.pos = 0 /\ Len(<<>>) = 0
        BY <1>3 DEF Opened
      <4> QED BY <2>3, <4>1 DEF Written
    <3> QED BY <1>2, <2>1, <2>2, <3>1, <3>2 DEF Sound
  <2> QED BY <2>5, <2>6
<1>4. ASSUME NEW m, NEW new, Appended(p, m, new) PROVE \A q \in Processes : Sound(q)'
  <2>1. /\ Held(p) = live[p] \cup {m} /\ making'[p] = new /\ m # None
        /\ \A q \in Processes \ {p} : Held(q)' = Held(q) /\ making'[q] = making[q]
    BY <1>4, AppendedHeld
  <2>2. /\ live' = live /\ making[p] = m
        /\ m.inode \in Inodes /\ m.file \in conf.files /\ m.pos \in Nat
        /\ m.pos < LookupLen(m.file)
        /\ new.inode = m.inode /\ new.file = m.file /\ new.pos = m.pos + 1
    BY <1>4 DEF Appended, Makings
  <2>3. /\ data'[m.inode] =
             WriteAt(data[m.inode], m.pos, EntriesOf(m.file)[m.pos + 1])
        /\ \A n \in Inodes : n # m.inode => data'[n] = data[n]
    <3>1. data' = [data EXCEPT ![m.inode] =
             WriteAt(data[m.inode], m.pos, EntriesOf(m.file)[m.pos + 1])]
      BY <1>4 DEF Appended
    <3> QED BY <1>1, <2>2, <3>1
  <2>4. m \in Held(p)
    BY <2>1
  <2>5. ASSUME NEW q \in Processes, NEW x \in live[q] PROVE data'[x.inode] = data[x.inode]
    <3>1. x \in Held(q)
      BY DEF Held
    <3>2. x.inode # m.inode
      <4>1. SUFFICES ASSUME x.inode = m.inode PROVE FALSE
        OBVIOUS
      <4>2. x.name = m.name
        BY <2>4, <3>1, <4>1, InodesApart
      <4>3. q = p /\ x = m
        BY <2>4, <4>2, IndexAlone
      <4> QED BY <2>1, <2>2, <4>3 DEF Drawn
    <3>3. x.inode \in Inodes
      BY <3>1, HeldTypes
    <3> QED BY <2>3, <3>2, <3>3
  <2>6. ASSUME NEW q \in Processes \ {p}, making[q] # None
        PROVE  data'[making[q].inode] = data[making[q].inode]
    <3>1. making[q] \in Held(q) /\ making[q].inode \in Inodes
      BY <2>6, HeldTypes
    <3>2. making[q].inode # m.inode
      BY <2>4, <3>1, InodesApart, NamesApart
    <3> QED BY <2>3, <3>1, <3>2
  <2>7. \A q \in Processes \ {p} : Sound(q)'
    BY <1>2, <2>1, <2>2, <2>5, <2>6 DEF Sound
  <2>8. Written(data'[new.inode], new.file, new.pos)
    <3>1. Written(data[m.inode], m.file, m.pos)
      BY <2>1, <2>2 DEF Sound
    <3>2. data[m.inode] \in Seq(Nat)
      BY <1>1, <2>2
    <3>3. Written(WriteAt(data[m.inode], m.pos, EntriesOf(m.file)[m.pos + 1]),
                  m.file, m.pos + 1)
      BY <1>1, <2>2, <3>1, <3>2, WriteNext
    <3> QED BY <2>2, <2>3, <3>3
  <2>9. Sound(p)'
    BY <1>2, <2>1, <2>2, <2>5, <2>8 DEF Sound
  <2> QED BY <2>7, <2>9
<1>5. ASSUME NEW m, NEW new, Initialised(p, m, new) PROVE \A q \in Processes : Sound(q)'
  <2>1. /\ making'[p] = None /\ m # None /\ live'[p] = live[p] \cup {new}
        /\ \A q \in Processes \ {p} : making'[q] = making[q] /\ live'[q] = live[q]
    BY <1>5, InitialisedHeld
  <2>2. /\ data' = data /\ making[p] = m
        /\ new.inode = m.inode /\ new.file = m.file /\ new.len = m.pos
    BY <1>5 DEF Initialised
  <2>3. Written(data[new.inode], new.file, new.len)
    BY <2>1, <2>2 DEF Sound
  <2> QED BY <1>2, <2>1, <2>2, <2>3 DEF Sound
<1>6. ASSUME LetGo(p) PROVE \A q \in Processes : Sound(q)'
  <2>1. /\ data' = data
        /\ \A q \in Processes :
             live'[q] \subseteq live[q] /\ making'[q] \in {making[q], None}
    BY <1>6, LetGoHeld
  <2> QED BY <2>1, StaysSound
<1> QED BY <1>3, <1>4, <1>5, <1>6, StepCases

LEMMA InitInv == Init => Inv
<1> SUFFICES ASSUME Init PROVE Inv
  OBVIOUS
<1>1. DOMAIN dir = {} /\ \A p \in Processes : making[p] = None /\ live[p] = {} /\ drawn[p] = 0
  BY DEF Init
<1>2. Shapes
  <2>1. dir \in [DOMAIN dir -> Inodes]
    BY <1>1 DEF Init
  <2>2. data \in [Inodes -> Seq(Nat)]
    BY EmptySeq DEF Init
  <2>3. making \in [Processes -> {None} \cup Makings]
    BY DEF Init
  <2> QED BY <1>1, <2>1, <2>2, <2>3 DEF Init, Shapes
<1>3. \A p \in Processes : Held(p) = {}
  BY <1>1 DEF Held
<1>4. \A p \in Processes : Lengths(p) /\ Drawn(p)
  BY <1>1, <1>3 DEF Lengths, Drawn
<1>5. NothingLeft
  BY <1>1 DEF NothingLeft
<1>6. Linked
  BY <1>1, <1>3 DEF Linked
<1>7. Contents
  BY <1>1 DEF Contents
<1> QED BY <1>2, <1>4, <1>5, <1>6, <1>7 DEF Inv

LEMMA NextInv == Inv /\ [Next]_vars => Inv'
<1> SUFFICES ASSUME Inv, [Next]_vars PROVE Inv'
  OBVIOUS
<1>1. ASSUME NEW p \in Processes, Step(p) PROVE Inv'
  <2>1. Shapes /\ (\A q \in Processes : Lengths(q) /\ Drawn(q)) /\ Linked
    BY DEF Inv
  <2>2. Shapes'
    BY <1>1, <2>1, StepShapes
  <2>3. \A q \in Processes : Lengths(q)' /\ Drawn(q)'
    BY <1>1, <2>1, StepLengths, StepDrawn
  <2>4. Linked'
    BY <1>1, <2>1, StepLinked
  <2>5. conf' = conf
    BY <1>1 DEF Step, OpenLookup, AppendEntry, InitIndex, MakeFails, Crash, Free, Removed
  <2>6. NothingLeft'
    <3>1. conf.faults = {} => LeftNone
      BY LeftNoneIs DEF Inv
    <3>2. conf.faults = {} => LeftNone'
      BY <1>1, <2>1, <3>1, StepLeft
    <3>3. NothingLeft' <=> (conf'.faults = {} => LeftNone')
      <4>1. {x.name : x \in Open'} = UNION {{x.name : x \in Held(q)'} : q \in Processes}
        BY DEF Open, Held
      <4> QED BY <4>1 DEF NothingLeft, LeftNone
    <3> QED BY <2>5, <3>2, <3>3
  <2>7. Contents'
    <3>1. Seeded => \A q \in Processes : Sound(q)
      BY ContentsSound DEF Inv
    <3>2. Seeded' <=> Seeded
      BY <2>5 DEF Seeded
    <3>3. Seeded => \A q \in Processes : Sound(q)'
      BY <1>1, <2>1, <3>1, StepSound
    <3>4. Contents' <=> (Seeded' => \A q \in Processes : Sound(q)')
      BY DEF Contents, Sound
    <3> QED BY <3>2, <3>3, <3>4
  <2> QED BY <2>2, <2>3, <2>4, <2>6, <2>7 DEF Inv
<1>2. CASE UNCHANGED vars
  <2>1. conf' = conf /\ drawn' = drawn /\ making' = making /\ live' = live
        /\ dir' = dir /\ data' = data
    BY <1>2 DEF vars
  <2>2. Shapes'
    BY <2>1 DEF Inv, Shapes, Makings, Indexes
  <2>3. \A p \in Processes : Held(p)' = Held(p)
    BY <2>1 DEF Held
  <2>4. \A p \in Processes : Lengths(p)' /\ Drawn(p)'
    BY <2>1, <2>3 DEF Inv, Lengths, Drawn, LookupLen
  <2>5. NothingLeft'
    BY <2>1 DEF Inv, NothingLeft, Open
  <2>6. Linked'
    BY <2>1, <2>3 DEF Inv, Linked, Seeded
  <2>7. Contents'
    BY <2>1 DEF Inv, Contents, Seeded
  <2> QED BY <2>2, <2>4, <2>5, <2>6, <2>7 DEF Inv
<1> QED BY <1>1, <1>2 DEF Next

-----------------------------------------------------------------------------
(* The theorems *)

\* In every reachable state the variables have their types.
THEOREM IndexTypes == Spec => []TypeOK
<1>1. Inv => TypeOK
  <2> SUFFICES ASSUME Inv PROVE TypeOK
    OBVIOUS
  <2>1. Shapes /\ \A p \in Processes : Lengths(p)
    BY DEF Inv
  <2>2. ASSUME NEW p \in Processes, making[p] # None
        PROVE  making[p].inode \in Inodes /\ making[p].pos \in 0..LookupLen(making[p].file)
    <3>1. making[p] \in Makings
      BY <2>1, <2>2, HeldTypes
    <3>2. making[p].inode \in Inodes /\ making[p].file \in conf.files /\ making[p].pos \in Nat
      BY <3>1 DEF Makings
    <3>3. LookupLen(making[p].file) \in Nat
      BY <2>1, <3>2, FileFacts DEF Shapes
    <3>4. making[p].pos <= LookupLen(making[p].file)
      BY <2>1, <2>2 DEF Lengths
    <3> QED BY <3>2, <3>3, <3>4
  <2>3. \A p \in Processes : \A x \in live[p] : x.inode \in Inodes
    BY <2>1 DEF Shapes, Indexes
  <2> QED BY <2>1, <2>2, <2>3 DEF TypeOK, Shapes
<1> QED BY <1>1, InitInv, NextInv, PTL DEF Spec

\* However many indexes are made and freed, and whatever earlier runs have left in
\* lookup_dir, each index has a lookup file of its own under its name.
THEOREM IndexFilesApart == Spec => []FilesApart
<1>1. Inv => FilesApart
  <2> SUFFICES ASSUME Inv, Seeded PROVE FilesApart
    BY DEF FilesApart
  <2>1. Shapes /\ Linked /\ \A p \in Processes : Drawn(p)
    BY DEF Inv
  <2>2. Open = UNION {Held(p) : p \in Processes}
    BY DEF Open, Held
  <2>3. \A x \in Open : x.name \in DOMAIN dir /\ dir[x.name] = x.inode
    BY <2>1, <2>2 DEF Linked
  <2>4. ASSUME NEW p \in Processes, NEW q \in Processes, NEW x \in live[p],
               NEW y \in live[q], x.inode = y.inode
        PROVE  p = q /\ x = y
    <3>1. x \in Held(p) /\ y \in Held(q)
      BY DEF Held
    <3>2. x.name = y.name
      BY <2>1, <2>4, <3>1, InodesApart
    <3> QED BY <2>1, <3>1, <3>2, IndexAlone
  <2> QED BY <2>3, <2>4 DEF FilesApart
<1> QED BY <1>1, InitInv, NextInv, PTL DEF Spec

\* Unless a process crashed or an indexing failed lookup_dir has only the lookup
\* files of indexes that exist or are being made.
THEOREM IndexNothingLeft == Spec => []NothingLeft
<1>1. Inv => NothingLeft
  BY DEF Inv
<1> QED BY <1>1, InitInv, NextInv, PTL DEF Spec

\* In every index that exists every lookup gives the lines it is asked for and
\* nothing else, from the file as it is on disk after all that was written by others.
THEOREM IndexLookupExact == Spec => []LookupExact
<1>1. Inv => LookupExact
  <2> SUFFICES ASSUME Inv, Seeded, NEW p \in Processes, NEW x \in live[p],
                      NEW c \in conf.calls, c[1] + c[2] < SizeMod
               PROVE  Results(data[x.inode], x.len, x.file.size, c[1], c[2])
                        = {LinesOf(x.file, c[1], c[2])}
    BY DEF LookupExact
  <2>1. conf \in Settings /\ x \in Indexes /\ data \in [Inodes -> Seq(Nat)]
    BY DEF Inv, Shapes
  <2>2. x.file \in conf.files /\ data[x.inode] \in Seq(Nat)
    BY <2>1 DEF Indexes
  <2>3. x.len = LookupLen(x.file)
    BY DEF Inv, Lengths
  <2>4. Written(data[x.inode], x.file, x.len)
    BY DEF Inv, Contents
  <2>5. c[1] \in SizeT /\ c[2] \in SizeT
    BY <2>1, SettingsAssumption
  <2>6. Results(data[x.inode], LookupLen(x.file), x.file.size, c[1], c[2])
          = {LinesOf(x.file, c[1], c[2])}
    <3>1. PICK f \in conf.files : f = x.file
      BY <2>2
    <3>2. PICK entries \in Seq(Nat) : entries = data[x.inode]
      BY <2>2
    <3>3. PICK start \in SizeT : start = c[1]
      BY <2>5
    <3>4. PICK count \in SizeT : count = c[2]
      BY <2>5
    <3>5. Written(entries, f, LookupLen(f)) /\ start + count < SizeMod
      BY <2>3, <2>4, <3>1, <3>2, <3>3, <3>4
    <3>6. Results(entries, LookupLen(f), f.size, start, count) = {LinesOf(f, start, count)}
      <4>1. conf \in Settings /\ Written(entries, f, LookupLen(f)) /\ start + count < SizeMod
        BY <2>1, <3>5
      <4>2. \A g \in conf.files : \A e \in Seq(Nat) : Written(e, g, LookupLen(g)) =>
              \A s, t \in SizeT : s + t < SizeMod =>
                Results(e, LookupLen(g), g.size, s, t) = {LinesOf(g, s, t)}
        BY <4>1, LookupGives
      <4>3. f \in conf.files /\ entries \in Seq(Nat) /\ start \in SizeT /\ count \in SizeT
        BY <3>1, <3>2, <3>3, <3>4
      <4>4. \A s, t \in SizeT : s + t < SizeMod =>
              Results(entries, LookupLen(f), f.size, s, t) = {LinesOf(f, s, t)}
        BY <4>1, <4>2, <4>3
      <4> QED BY <4>1, <4>3, <4>4
    <3> QED BY <3>1, <3>2, <3>3, <3>4, <3>6
  <2> QED BY <2>3, <2>6
<1> QED BY <1>1, InitInv, NextInv, PTL DEF Spec
=============================================================================
