---------------------------- MODULE MCTicketCard ----------------------------
(* Small instances of TicketCard. *)
EXTENDS TicketCard

CONSTANTS s1, s2, r1, r2

\* Every seat with a reader of its own, and both seats on one reader.
OwnReader == [s \in {s1, s2} |-> IF s = s1 THEN r1 ELSE r2]
OneReader == [s \in {s1} |-> r1]
SharedReader == [s \in {s1, s2} |-> r1]

\* A blank card, one whose last byte only is set, one that has been written.
MixedBlocks ==
  {[balance |-> 0, rest |-> FALSE, last |-> l] : l \in BOOLEAN}
    \union {[balance |-> 3, rest |-> FALSE, last |-> FALSE]}
=============================================================================
