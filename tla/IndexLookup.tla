---------------------------- MODULE IndexLookup ----------------------------
(***************************************************************************)
(* f_index_lookup.  The lookup file holds the starts of the lines in       *)
(* descending order, so line k is found at its entry len - 1 - k, and all  *)
(* positions in it are computed in size_t and off_t from the arguments.    *)
(*                                                                         *)
(* The lookup file is the sequence of the entries in it, and a text is     *)
(* given by where in the target file it begins and ends.                   *)
(***************************************************************************)
EXTENDS Integers, Sequences

CONSTANTS
  MaxLines,   \* largest flookup->len
  EntrySize,  \* sizeof(size_t)
  SizeMod     \* 2^w for a size_t of w bits; off_t is as wide

\* Every position in the lookup file is an off_t, and a power of 2 that is a
\* multiple of 8 is even.
ASSUME LookupAssumption ==
  /\ MaxLines \in Nat \ {0}
  /\ EntrySize \in Nat \ {0}
  /\ SizeMod \in Nat
  /\ SizeMod % 2 = 0
  /\ MaxLines * EntrySize < SizeMod \div 2

SizeT == 0..(SizeMod - 1)

Null == [status |-> "null"]
Error == [status |-> "error"]
Text(from, to) == [status |-> "text", from |-> from, to |-> to]

\* A size_t seen as an off_t.
Signed(x) == IF x >= SizeMod \div 2 THEN x - SizeMod ELSE x

\* The sizes a pread of an entry at a position of the lookup file can give: past
\* the end it gives no bytes, and the result is what malloc left in place.
EntriesAt(entries, offset) ==
  IF offset \div EntrySize < Len(entries)
  THEN {entries[offset \div EntrySize + 1]} ELSE SizeT

\* count cut to the lines from start on, unless start + count wraps around.
CutCount(len, start, count) ==
  IF (start + count) % SizeMod > len - 1 THEN len - 1 - start ELSE count

StartOffset(len, start) == (len - 1) * EntrySize - start * EntrySize

\* The end of the lines before the last one asked for.
EndOffsetByOne(len, start, count) ==
  StartOffset(len, start) - Signed((count * EntrySize) % SizeMod) + EntrySize

EndOffset(len, start, count) ==
  LET d == StartOffset(len, start) - Signed((count * EntrySize) % SizeMod)
  IN  IF d <= 0 THEN 0 ELSE d

\* The bytes between two entries; pread gives no more than the file has.
Between(size, from, to) ==
  IF from > to THEN Error
  ELSE Text(from, IF to <= size THEN to ELSE IF from <= size THEN size ELSE from)

\* What a call on an index of len lines of a file of size bytes can give when
\* nothing fails.
Results(entries, len, size, start, count) ==
  IF start > len - 1 THEN {Null}
  ELSE {Between(size, from, to) :
          from \in EntriesAt(entries, StartOffset(len, start)),
          to \in EntriesAt(entries, EndOffset(len, start, CutCount(len, start, count)))}
=============================================================================
