--------------------------- MODULE LineIndexProofs ---------------------------
(***************************************************************************)
(* What LineIndex promises of an index, for every job: the order of its    *)
(* entries, its count of lines, and that it has an entry for each line.    *)
(***************************************************************************)
EXTENDS LineIndex, IndexerLemmas

\* The types of the variables.
TypeInv ==
  /\ IsJob(job)
  /\ status \in {"running", "ok", "null", "killed"}
  /\ left \in 0..Passes(job)
  /\ index.entries \in Seq(Nat)
  /\ index.len \in Nat
  /\ status = "ok" => left = 0
  /\ status \in {"running", "ok"} => IsFiniteSet(ReadFrom(left))

\* The entries are those of the passes done, after all lines to come.
OrderInv ==
  /\ Descending(index.entries)
  /\ \A e \in Elements(index.entries) :
       \/ e = 0 /\ left = 0
       \/ e \in LinesAfter(ReadFrom(left))

AllWhole == \A q \in 0..(Passes(job) - 1) : Whole(job, q)

Given == status \in {"running", "ok"} /\ ~Short(job)

\* The first line, once every pass is done.
FirstLine == IF left = 0 THEN {0} ELSE {}

CountInv ==
  Given => index.len = Cardinality(ReadFrom(left)) + (IF left = 0 THEN 1 ELSE 0)

LinesInv ==
  (Given /\ AllWhole) =>
    /\ Elements(index.entries) = LinesAfter(ReadFrom(left)) \cup FirstLine
    /\ Len(index.entries) = index.len

Inv == TypeInv /\ OrderInv /\ CountInv /\ LinesInv

-----------------------------------------------------------------------------
(* The passes done *)

\* The newlines read from pass q - 1 on are those of that pass and those from q
\* on, which come later in the file.
LEMMA ReadFromStep ==
  ASSUME IsJob(job), NEW q \in 1..Passes(job)
  PROVE  /\ ReadFrom(q - 1) = Read(job, q - 1) \cup ReadFrom(q)
         /\ \A b \in Read(job, q - 1), c \in ReadFrom(q) : b < c
         /\ Read(job, q - 1) \in SUBSET Nat /\ IsFiniteSet(Read(job, q - 1))
<1>1. Passes(job) \in Nat /\ q - 1 \in 0..(Passes(job) - 1)
  BY DEF IsJob
<1>2. (q - 1)..(Passes(job) - 1) = {q - 1} \cup (q..(Passes(job) - 1))
  BY <1>1
<1>3. ReadFrom(q - 1) = Read(job, q - 1) \cup ReadFrom(q)
  BY <1>1, <1>2 DEF ReadFrom
<1>4. ASSUME NEW b \in Read(job, q - 1), NEW c \in ReadFrom(q)
      PROVE  b < c
  <2>1. PICK r \in q..(Passes(job) - 1) : c \in Read(job, r)
    BY <1>4 DEF ReadFrom
  <2>2. r \in 0..(Passes(job) - 1) /\ q - 1 < r
    BY <1>1, <2>1
  <2> QED BY <1>1, <1>4, <2>1, <2>2 DEF IsJob
<1> QED BY <1>1, <1>3, <1>4 DEF IsJob

\* The newlines of each pass are natural numbers.
LEMMA ReadFromNat ==
  ASSUME IsJob(job), NEW q \in 0..Passes(job)
  PROVE  ReadFrom(q) \in SUBSET Nat
<1> SUFFICES ASSUME NEW b \in ReadFrom(q) PROVE b \in Nat
  OBVIOUS
<1>1. PICK r \in q..(Passes(job) - 1) : b \in Read(job, r)
  BY DEF ReadFrom
<1>2. r \in 0..(Passes(job) - 1)
  BY <1>1 DEF IsJob
<1> QED BY <1>1, <1>2 DEF IsJob

\* When all passes are done, or none has been.
LEMMA ReadFromEnd ==
  ASSUME IsJob(job)
  PROVE  ReadFrom(Passes(job)) = {}
<1>1. Passes(job)..(Passes(job) - 1) = {}
  BY DEF IsJob
<1> QED BY <1>1 DEF ReadFrom

-----------------------------------------------------------------------------
(* The invariant *)

LEMMA InitInv == Init => Inv
<1> SUFFICES ASSUME Init PROVE Inv
  OBVIOUS
<1> USE DEF Init
<1>1. Passes(job) \in Nat \ {0} /\ left = Passes(job) /\ left # 0
  BY DEF IsJob
<1>2. index.entries = <<>> /\ index.len = 0
  BY DEF NoIndex
<1>3. ReadFrom(left) = {}
  BY <1>1, ReadFromEnd
<1>4. Elements(<<>>) = {} /\ Descending(<<>>) /\ LinesAfter({}) = {}
  BY DEF Elements, Descending, LinesAfter
<1>5. TypeInv
  BY <1>1, <1>2, <1>3, FS_EmptySet DEF TypeInv
<1>6. OrderInv
  BY <1>2, <1>4 DEF OrderInv
<1>7. CountInv
  BY <1>1, <1>2, <1>3, FS_EmptySet DEF CountInv
<1>8. LinesInv
  BY <1>1, <1>2, <1>3, <1>4 DEF LinesInv, FirstLine
<1> QED BY <1>5, <1>6, <1>7, <1>8 DEF Inv

\* The step that adds a pass.
LEMMA PassInv == Inv /\ IndexPass => Inv'
<1> SUFFICES ASSUME Inv, IndexPass PROVE Inv'
  OBVIOUS
<1> USE DEF Inv
<1> DEFINE done == ReadFrom(left)
           read == Read(job, left - 1)
           last == IF left = 1 THEN {0} ELSE {}
<1>1. /\ left \in 1..Passes(job) /\ left' = left - 1 /\ left' \in 0..Passes(job)
      /\ job' = job /\ status = "running" /\ status' = "running" /\ IsJob(job)
      /\ left \in Nat \ {0} /\ Passes(job) \in Nat
  BY DEF TypeInv, IndexPass, IsJob
<1>2. /\ ReadFrom(left') = read \cup done
      /\ \A b \in read, c \in done : b < c
      /\ read \in SUBSET Nat /\ IsFiniteSet(read)
      /\ done \in SUBSET Nat
  BY <1>1, ReadFromStep, ReadFromNat
<1>3. ReadFrom(left)' = ReadFrom(left')
  BY <1>1 DEF ReadFrom
<1>4. PICK found \in SUBSET read : \E kept \in SUBSET found :
         /\ Finds(left - 1, found)
         /\ Keeps(left - 1, found, kept)
         /\ index'.len = index.len + Cardinality(found) + (IF left = 1 THEN 1 ELSE 0)
         /\ Elements(Added) = LinesAfter(kept) \cup last
  BY DEF IndexPass
<1>4a. PICK kept \in SUBSET found :
         /\ Keeps(left - 1, found, kept)
         /\ index'.len = index.len + Cardinality(found) + (IF left = 1 THEN 1 ELSE 0)
         /\ Elements(Added) = LinesAfter(kept) \cup last
  BY <1>4
<1>5. /\ index'.entries \in Seq(Nat) /\ index'.len \in Nat
      /\ index'.entries = index.entries \o Added
      /\ Descending(Added)
  BY DEF IndexPass
<1>6. index.entries \in Seq(Nat) /\ index.len \in Nat
  BY DEF TypeInv
<1>7. Added \in Seq(Nat)
  <2>1. /\ Len(index.entries) \in Nat /\ Len(index'.entries) \in Nat
        /\ index'.entries \in [1..Len(index'.entries) -> Nat]
    BY <1>5, <1>6, LenProperties
  <2>2. \A k \in (Len(index.entries) + 1)..Len(index'.entries) : index'.entries[k] \in Nat
    BY <2>1
  <2> QED BY <2>1, <2>2, SubSeqProperties DEF Added
<1> HIDE DEF read, done
<1>8. /\ Elements(index'.entries) = Elements(index.entries) \cup LinesAfter(kept) \cup last
      /\ Len(index'.entries) = Len(index.entries) + Len(Added)
  BY <1>4a, <1>5, <1>6, <1>7, ElementsConcat, ConcatProperties
<1>9. IsFiniteSet(done)
  BY <1>1 DEF TypeInv, done
<1>10. /\ IsFiniteSet(read \cup done)
       /\ Cardinality(read \cup done) = Cardinality(read) + Cardinality(done)
  <2>1. read \cap done = {}
    BY <1>2
  <2>2. Cardinality(read \cap done) = 0
    BY <2>1, FS_EmptySet
  <2>3. Cardinality(read) \in Nat /\ Cardinality(done) \in Nat
    BY <1>2, <1>9, FS_CardinalityType
  <2>4. /\ IsFiniteSet(read \cup done)
        /\ Cardinality(read \cup done)
             = Cardinality(read) + Cardinality(done) - Cardinality(read \cap done)
    BY <1>2, <1>9, FS_Union
  <2> QED BY <2>2, <2>3, <2>4
<1>11. TypeInv'
  BY <1>1, <1>2, <1>3, <1>5, <1>10 DEF TypeInv
<1>12. OrderInv'
  <2>1. \A e \in Elements(index.entries) : e \in LinesAfter(done)
    BY <1>1 DEF OrderInv, done
  <2>2. ASSUME NEW a \in Elements(index.entries), NEW b \in Elements(Added)
        PROVE  a > b
    <3>1. PICK x \in done : a = x + 1
      BY <2>1 DEF LinesAfter
    <3>2. CASE b \in LinesAfter(kept)
      <4>1. PICK y \in kept : b = y + 1
        BY <3>2 DEF LinesAfter
      <4>2. y \in read /\ y \in Nat /\ x \in Nat /\ y < x
        BY <1>2, <4>1
      <4> QED BY <3>1, <4>1, <4>2
    <3>3. CASE b = 0
      BY <1>2, <3>1, <3>3
    <3> QED BY <1>4a, <2>2, <3>2, <3>3
  <2>3. Descending(index'.entries)
    BY <1>5, <1>6, <1>7, <2>2, DescendingConcat DEF OrderInv
  <2>4. ASSUME NEW e \in Elements(index'.entries)
        PROVE  (e = 0 /\ left' = 0) \/ e \in LinesAfter(read \cup done)
    <3>1. CASE e \in Elements(index.entries)
      BY <2>1, <3>1 DEF LinesAfter
    <3>2. CASE e \in LinesAfter(kept)
      BY <3>2 DEF LinesAfter
    <3>3. CASE e \in last
      BY <1>1, <3>3
    <3> QED BY <1>8, <2>4, <3>1, <3>2, <3>3
  <2> QED BY <1>2, <1>3, <2>3, <2>4 DEF OrderInv
<1>13. CountInv'
  <2> SUFFICES ASSUME Given'
               PROVE  index'.len = Cardinality(ReadFrom(left)') + (IF left' = 0 THEN 1 ELSE 0)
    BY DEF CountInv
  <2>1. ~Short(job) /\ Given
    BY <1>1 DEF Given
  <2>2. found = read
    BY <1>4, <1>4a, <2>1 DEF Finds, read
  <2>3. Cardinality(read) \in Nat /\ Cardinality(done) \in Nat
    BY <1>2, <1>9, FS_CardinalityType
  <2>4. index.len = Cardinality(done)
    BY <1>1, <2>1, <2>3 DEF CountInv, done
  <2>5. Cardinality(ReadFrom(left)') = Cardinality(read) + Cardinality(done)
    BY <1>2, <1>3, <1>10
  <2> QED BY <1>1, <1>4, <1>4a, <2>2, <2>3, <2>4, <2>5
<1>14. LinesInv'
  <2> SUFFICES ASSUME Given', AllWhole'
               PROVE  /\ Elements(index'.entries) = LinesAfter(ReadFrom(left)') \cup FirstLine'
                      /\ Len(index'.entries) = index'.len
    BY DEF LinesInv
  <2>1. ~Short(job) /\ Given /\ Whole(job, left - 1) /\ AllWhole
    BY <1>1 DEF Given, AllWhole
  <2>2. kept = found /\ found = read
    BY <1>4, <1>4a, <2>1 DEF Finds, Keeps, read
  <2>3. Elements(index.entries) = LinesAfter(done) /\ Len(index.entries) = index.len
    BY <1>1, <2>1 DEF LinesInv, FirstLine, done
  <2>4. FirstLine' = last
    BY <1>1 DEF FirstLine
  <2>5. LinesAfter(read \cup done) = LinesAfter(read) \cup LinesAfter(done)
    BY DEF LinesAfter
  <2>6. Elements(index'.entries) = LinesAfter(ReadFrom(left)') \cup FirstLine'
    <3>1. ReadFrom(left)' = read \cup done
      BY <1>2, <1>3
    <3>2. LinesAfter(ReadFrom(left)') = LinesAfter(read) \cup LinesAfter(done)
      BY <2>5, <3>1
    <3>3. Elements(index'.entries) = LinesAfter(done) \cup LinesAfter(read) \cup last
      BY <1>8, <2>2, <2>3
    <3> HIDE DEF last
    <3> QED BY <2>4, <3>2, <3>3
  <2>7. Len(Added) = Cardinality(LinesAfter(read) \cup last)
    BY <1>4a, <1>5, <1>7, <2>2, DescendingLen
  <2>8. /\ IsFiniteSet(LinesAfter(read))
        /\ Cardinality(LinesAfter(read)) = Cardinality(read)
        /\ Cardinality(read) \in Nat
    BY <1>2, LinesAfterCount, FS_CardinalityType
  <2>9. 0 \notin LinesAfter(read)
    BY <1>2 DEF LinesAfter
  <2>10. Cardinality(LinesAfter(read) \cup last)
           = Cardinality(read) + (IF left = 1 THEN 1 ELSE 0)
    <3>1. CASE left = 1
      BY <2>8, <2>9, <3>1, FS_AddElement
    <3>2. CASE left # 1
      <4>1. LinesAfter(read) \cup last = LinesAfter(read)
        BY <3>2
      <4> QED BY <2>8, <3>2, <4>1
    <3> QED BY <3>1, <3>2
  <2>11. Len(index.entries) \in Nat
    BY <1>6, LenProperties
  <2> QED BY <1>4a, <1>6, <1>8, <2>2, <2>3, <2>6, <2>7, <2>8, <2>10, <2>11
<1> QED BY <1>11, <1>12, <1>13, <1>14

LEMMA StepInv == Inv /\ [Next]_vars => Inv'
<1> SUFFICES ASSUME Inv, [Next]_vars PROVE Inv'
  OBVIOUS
<1> USE DEF Inv
<1>1. CASE IndexPass
  BY <1>1, PassInv
<1>2. CASE Return
  <2>1. /\ status = "running" /\ status' = "ok" /\ left' = 0 /\ left = 0
        /\ job' = job /\ index' = index /\ ReadFrom(left)' = ReadFrom(left)
    BY <1>2 DEF Return, ReadFrom
  <2>2. Given' <=> Given
    BY <2>1 DEF Given
  <2> QED BY <2>1, <2>2
      DEF TypeInv, OrderInv, CountInv, LinesInv, FirstLine, AllWhole
<1>3. CASE Fail
  <2>1. /\ status' \in {"null", "killed"} /\ left' = 0 /\ job' = job
        /\ index'.entries = <<>> /\ index'.len = 0
    BY <1>3 DEF Fail, NoIndex
  <2>2. ~Given'
    BY <2>1 DEF Given
  <2>3. Elements(<<>>) = {} /\ Descending(<<>>)
    BY DEF Elements, Descending
  <2>4. 0 \in 0..Passes(job)
    BY DEF TypeInv, IsJob
  <2>5. TypeInv'
    BY <2>1, <2>4 DEF TypeInv
  <2> QED BY <2>1, <2>2, <2>3, <2>5 DEF OrderInv, CountInv, LinesInv
<1>4. CASE UNCHANGED vars
  <2>1. ReadFrom(left)' = ReadFrom(left)
    BY <1>4 DEF vars, ReadFrom
  <2> QED BY <1>4, <2>1
      DEF vars, TypeInv, OrderInv, CountInv, LinesInv, FirstLine, AllWhole, Given
<1> QED BY <1>1, <1>2, <1>3, <1>4 DEF Next

LEMMA SpecInv == Spec => []Inv
<1> QED BY InitInv, StepInv, PTL DEF Spec

-----------------------------------------------------------------------------

\* For every job: the entries of an index are starts of lines that some thread
\* read, from the last line to the first, each once, at every moment.
THEOREM LineIndexOrder == Spec => []PromisedOrder
<1>1. Inv => PromisedOrder
  <2> SUFFICES ASSUME Inv PROVE PromisedOrder
    OBVIOUS
  <2>1. left \in 0..Passes(job) /\ Passes(job) \in Nat
    BY DEF Inv, TypeInv, IsJob
  <2>2. ReadFrom(left) \subseteq ReadFrom(0)
    BY <2>1 DEF ReadFrom
  <2>3. LinesAfter(ReadFrom(left)) \subseteq LinesAfter(ReadFrom(0))
    BY <2>2 DEF LinesAfter
  <2> QED BY <2>3 DEF Inv, OrderInv, PromisedOrder
<1> QED BY <1>1, SpecInv, PTL

\* For every job: an index that is returned counts one line more than newlines
\* were read, unless a read was short.
THEOREM LineIndexCount == Spec => []PromisedCount
<1>1. Inv => PromisedCount
  BY DEF Inv, TypeInv, CountInv, Given, PromisedCount
<1> QED BY <1>1, SpecInv, PTL

\* For every job: when no reduction loses a line, the index that is returned has
\* an entry for every line that was read and as many entries as lines.
THEOREM LineIndexLines == Spec => []PromisedLines
<1>1. Inv => PromisedLines
  <2> SUFFICES ASSUME Inv, status = "ok", ~Short(job), AllWhole
               PROVE  /\ Elements(index.entries) = LinesAfter(ReadFrom(0)) \cup {0}
                      /\ Len(index.entries) = index.len
    BY DEF PromisedLines, AllWhole
  <2>1. left = 0 /\ Given
    BY DEF Inv, TypeInv, Given
  <2> QED BY <2>1 DEF Inv, LinesInv, FirstLine
<1> QED BY <1>1, SpecInv, PTL
=============================================================================
