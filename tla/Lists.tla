------------------------------- MODULE Lists --------------------------------
(***************************************************************************)
(* Lists of offsets as the indexer builds them: from the last line of a    *)
(* file to the first.                                                      *)
(***************************************************************************)
EXTENDS Integers, Sequences

Descending(list) == \A j, k \in DOMAIN list : j < k => list[j] > list[k]

Elements(list) == {list[k] : k \in DOMAIN list}

\* The lines that begin after the newlines of a set.
LinesAfter(newlines) == {b + 1 : b \in newlines}
=============================================================================
