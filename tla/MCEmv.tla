--------------------------------- MODULE MCEmv ---------------------------------
(* Two applications and a directory of up to three records, one more than  *)
(* the program reads in this instance; file lists that reach the last      *)
(* record number a byte can have, some that hold nothing, one with two     *)
(* bytes too many, and a PDOL that is cut.                                 *)
EXTENDS Emv

CONSTANTS a1, a2

BothKnown == <<a2, a1>>
DirRecords == {<< >>, <<a1>>, <<a1, a2>>, BadRecord}
SmallDirectories == UNION {[1 .. k -> DirRecords] : k \in 0 .. 3}
e(s, f, l) == [sfi |-> s, first |-> f, last |-> l]
L(entries, spare, cut) == [entries |-> entries, spare |-> spare, cut |-> cut]
SmallLists ==
  {L(<< >>, 0, FALSE), L(<<e(1, 1, 2)>>, 0, FALSE), L(<<e(1, 2, 1), e(2, 2, 3)>>, 0, FALSE),
   L(<<e(2, 1, 1), e(1, 0, 3)>>, 0, FALSE), L(<<e(1, 1, 1)>>, 2, FALSE), L(<< >>, 0, TRUE)}
SmallMemory == {e(3, 2, 2), e(0, 1, 0)}
=============================================================================
