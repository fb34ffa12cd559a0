----------------------------- MODULE MCIndexLife -----------------------------
(* Every call on the index of every file of a few bytes; and a few files and   *)
(* calls while processes make and free indexes, crash and run again.  size_t   *)
(* has 6 bits and an entry of the lookup file takes 4 bytes.                   *)
EXTENDS IndexLife

File(size, newlines) == [size |-> size, newlines |-> newlines]

AllFiles == UNION {{File(n, s) : s \in SUBSET (0..(n - 1))} : n \in 0..4}

TwoFiles == {File(3, {0, 1}), File(4, {2})}

SomeCalls == {<<0, 1>>, <<1, 1>>, <<1, 9>>, <<2, 1>>, <<3, 1>>}

\* Each process with the names it draws.
Setting(draws, files, calls, faults) ==
  [draws |-> draws, files |-> files, calls |-> calls, faults |-> faults]

MCSettings ==
  { Setting([p \in {1} |-> <<"a">>], AllFiles, SizeT \X SizeT, {}),
    Setting([p \in {1} |-> <<"a", "b">>], TwoFiles, SomeCalls, {}),
    Setting([p \in {1} |-> <<"a", "b", "c">>], TwoFiles, SomeCalls, FaultKinds),
    Setting([p \in {1, 2} |-> <<"a", "b">>], TwoFiles, SomeCalls, {}),
    Setting([p \in {1, 2} |-> IF p = 1 THEN <<"a", "b">> ELSE <<"c">>], TwoFiles,
            SomeCalls, FaultKinds) }
=============================================================================
