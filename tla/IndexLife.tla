------------------------------ MODULE IndexLife ------------------------------
(***************************************************************************)
(* Processes that make indexes, look lines up in them and free them, and   *)
(* the directory lookup_dir in which the indexes keep their lookup files.  *)
(*                                                                         *)
(* The name of a lookup file is drawn with rand(), whose sequence begins   *)
(* anew in every process that does not call srand: a process that crashed  *)
(* draws the same names when it runs again, over the files it has left,    *)
(* and two processes draw the same names at the same time.  The library    *)
(* opens the file of a name whether it exists or not, keeps it open for as *)
(* long as the index lives, and removes the name when the index is freed.  *)
(*                                                                         *)
(* A file is its inode: the processes that hold it open go on using it     *)
(* when its name is gone.                                                  *)
(***************************************************************************)
EXTENDS IndexLookup, FiniteSets, FiniteSetsExt

CONSTANTS
  Settings,   \* the processes, the names they draw, the files, the calls, the faults
  Processes,  \* all processes
  Names,      \* all names of lookup files
  MaxInodes   \* largest number of lookup files that exist at a time

\* What can happen in a setting, its faults:
\* "crash"  a process ends without freeing its indexes, and runs again
\* "fail"   f_index_text_file returns NULL after it has opened the lookup file
FaultKinds == {"crash", "fail"}

ASSUME SettingsAssumption ==
  /\ MaxInodes \in Nat \ {0}
  /\ \A s \in Settings :
       /\ DOMAIN s.draws \subseteq Processes
       /\ \A p \in DOMAIN s.draws :
            /\ s.draws[p] \in Seq(Names)
            /\ \A j, k \in DOMAIN s.draws[p] : s.draws[p][j] = s.draws[p][k] => j = k
       /\ \A f \in s.files :
            /\ f.size \in Nat
            /\ f.newlines \in SUBSET (0..(f.size - 1))
            /\ Cardinality(f.newlines) < MaxLines
       /\ s.calls \subseteq SizeT \X SizeT
       /\ s.faults \subseteq FaultKinds

VARIABLES
  conf,    \* the setting
  drawn,   \* the number of names each process has drawn since it began
  making,  \* the index each process is making, if any
  live,    \* the indexes of each process
  dir,     \* the names in lookup_dir and the inode of each
  data     \* the entries in each inode

vars == <<conf, drawn, making, live, dir, data>>

Inodes == 1..MaxInodes

-----------------------------------------------------------------------------
(* The index of a file, as f_index_text_file builds it when it is exact *)

Starts(file) == {b + 1 : b \in file.newlines} \cup {0}

\* The starts of the lines, the last line first.
EntriesOf(file) ==
  LET starts == Starts(file)
  IN  [k \in 1..Cardinality(starts) |->
         CHOOSE s \in starts : Cardinality({t \in starts : t > s}) = k - 1]

\* flookup->len
LookupLen(file) == Cardinality(file.newlines) + 1

-----------------------------------------------------------------------------

None == [name |-> "none"]

Init ==
  /\ conf \in Settings
  /\ drawn = [p \in Processes |-> 0]
  /\ making = [p \in Processes |-> None]
  /\ live = [p \in Processes |-> {}]
  /\ dir = <<>>
  /\ data = [n \in Inodes |-> <<>>]

Open == {making[p] : p \in {q \in Processes : making[q] # None}} \cup UNION {live[p] : p \in Processes}

InUse == {dir[name] : name \in DOMAIN dir} \cup {x.inode : x \in Open}

\* The name that is drawn is always the first of the sequence.
SameName(p) == conf.draws[p][1]

DrawnName(p) == conf.draws[p][drawn[p] + 1]

\* f_lookup_file_init: the name is drawn and its file opened for writing, created
\* when it is not there and emptied when it is.
OpenLookup(p) ==
  /\ p \in DOMAIN conf.draws
  /\ making[p] = None
  /\ drawn[p] < Len(conf.draws[p])
  /\ drawn' = [drawn EXCEPT ![p] = @ + 1]
  /\ LET name  == DrawnName(p)
         inode == IF name \in DOMAIN dir THEN dir[name] ELSE Min(Inodes \ InUse)
     IN  /\ name \in DOMAIN dir \/ Inodes \ InUse # {}
         /\ dir' = [n \in DOMAIN dir \cup {name} |-> IF n = name THEN inode ELSE dir[n]]
         /\ data' = [data EXCEPT ![inode] = <<>>]
         /\ \E file \in conf.files :
              making' = [making EXCEPT
                ![p] = [name |-> name, inode |-> inode, file |-> file, pos |-> 0]]
  /\ UNCHANGED <<conf, live>>

\* A write of an entry to a position of a file, which others may have cut short:
\* what lies before the position is then filled with zeros.
WriteAt(entries, pos, entry) ==
  [k \in 1..(IF pos < Len(entries) THEN Len(entries) ELSE pos + 1) |->
     IF k = pos + 1 THEN entry ELSE IF k <= Len(entries) THEN entries[k] ELSE 0]

\* The position of the process counted in bytes.
AppendBytes(p) ==
  /\ making[p] # None
  /\ making[p].pos < LookupLen(making[p].file)
  /\ data' = [data EXCEPT ![making[p].inode] =
       WriteAt(@, making[p].pos, EntriesOf(making[p].file)[making[p].pos + 1])]
  /\ making' = [making EXCEPT ![p].pos = @ + EntrySize]
  /\ UNCHANGED <<conf, drawn, live, dir>>

\* f_lookup_file_append, at the position of this process in the file.
AppendEntry(p) ==
  /\ making[p] # None
  /\ making[p].pos < LookupLen(making[p].file)
  /\ data' = [data EXCEPT ![making[p].inode] =
       WriteAt(@, making[p].pos, EntriesOf(making[p].file)[making[p].pos + 1])]
  /\ making' = [making EXCEPT ![p].pos = @ + 1]
  /\ UNCHANGED <<conf, drawn, live, dir>>

IndexOf(m) ==
  [name |-> m.name, inode |-> m.inode, file |-> m.file, len |-> LookupLen(m.file)]

\* f_index_init; the lookup file stays open.
InitIndex(p) ==
  /\ making[p] # None
  /\ making[p].pos = LookupLen(making[p].file)
  /\ live' = [live EXCEPT ![p] = @ \cup {IndexOf(making[p])}]
  /\ making' = [making EXCEPT ![p] = None]
  /\ UNCHANGED <<conf, drawn, dir, data>>

\* f_index_text_file returns NULL: the lookup file is not removed.
MakeFails(p) ==
  /\ "fail" \in conf.faults
  /\ making[p] # None
  /\ making' = [making EXCEPT ![p] = None]
  /\ UNCHANGED <<conf, drawn, live, dir, data>>

\* f_index_free that closes the file and leaves it in the directory.
FreeWithoutRemove(p, x) ==
  /\ x \in live[p]
  /\ live' = [live EXCEPT ![p] = @ \ {x}]
  /\ UNCHANGED <<conf, drawn, making, dir, data>>

\* f_lookup_file_free: the directory without the name, if it was still there.
Removed(name) == [n \in DOMAIN dir \ {name} |-> dir[n]]

\* f_index_free: the file is closed and its name removed.
Free(p, x) ==
  /\ x \in live[p]
  /\ live' = [live EXCEPT ![p] = @ \ {x}]
  /\ dir' = Removed(x.name)
  /\ UNCHANGED <<conf, drawn, making, data>>

\* A process ends, and its next run draws its names from the first on.
Crash(p) ==
  /\ "crash" \in conf.faults
  /\ drawn[p] > 0
  /\ drawn' = [drawn EXCEPT ![p] = 0]
  /\ making' = [making EXCEPT ![p] = None]
  /\ live' = [live EXCEPT ![p] = {}]
  /\ UNCHANGED <<conf, dir, data>>

Step(p) ==
  \/ OpenLookup(p) \/ AppendEntry(p) \/ InitIndex(p) \/ MakeFails(p) \/ Crash(p)
  \/ \E x \in live[p] : Free(p, x)

Next == \E p \in Processes : Step(p)

Spec == Init /\ [][Next]_vars

-----------------------------------------------------------------------------
(* Correctness *)

\* The types of the variables.
TypeOK ==
  /\ conf \in Settings
  /\ drawn \in [Processes -> Nat]
  /\ \A p \in Processes : making[p] # None =>
       /\ making[p].inode \in Inodes
       /\ making[p].pos \in 0..LookupLen(making[p].file)
  /\ \A p \in Processes : \A x \in live[p] : x.inode \in Inodes
  /\ DOMAIN dir \subseteq Names
  /\ \A name \in DOMAIN dir : dir[name] \in Inodes
  /\ data \in [Inodes -> Seq(Nat)]

\* No two processes draw the same name, as processes that call srand with
\* different seeds.
Seeded ==
  \A p, q \in DOMAIN conf.draws : p # q =>
    \A j \in DOMAIN conf.draws[p], k \in DOMAIN conf.draws[q] :
      conf.draws[p][j] # conf.draws[q][k]

\* The first byte of line k, and the end of the text of the last line.
LineStart(file, k) ==
  CHOOSE s \in Starts(file) : Cardinality({t \in Starts(file) : t < s}) = k

LinesOf(file, start, count) ==
  LET newlines == Cardinality(file.newlines)
  IN  IF start > newlines THEN Null
      ELSE Text(LineStart(file, start),
                LineStart(file, IF start + count <= newlines
                                THEN start + count ELSE newlines))

\* In every index that exists, a lookup with any arguments whose sum is a size_t
\* gives the lines start, .., start + count - 1 that end in a newline, all of them
\* and nothing else, and NULL when start is past the end: whatever indexes are
\* made and freed besides, and whatever earlier runs have left in lookup_dir.
LookupExact ==
  Seeded =>
    \A p \in Processes : \A x \in live[p] : \A c \in conf.calls :
      c[1] + c[2] < SizeMod =>
        Results(data[x.inode], x.len, x.file.size, c[1], c[2])
          = {LinesOf(x.file, c[1], c[2])}

\* Each index has a lookup file of its own, under its name: freeing one index
\* takes nothing from another.
FilesApart ==
  Seeded =>
    /\ \A x \in Open : x.name \in DOMAIN dir /\ dir[x.name] = x.inode
    /\ \A p, q \in Processes : \A x \in live[p], y \in live[q] :
         x.inode = y.inode => p = q /\ x = y

\* lookup_dir has files of indexes that exist or are being made, and no others
\* unless a process crashed or an indexing failed; also when two processes, whose
\* rand() gives the same names, remove each other's files.
NothingLeft ==
  conf.faults = {} => DOMAIN dir \subseteq {x.name : x \in Open}
=============================================================================
