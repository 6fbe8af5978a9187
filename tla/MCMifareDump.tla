----------------------------- MODULE MCMifareDump -----------------------------
(* A card of two sectors and two keys.  The file may name both letters for *)
(* a sector, or one and leave the other out, or leave out one it uses.     *)
EXTENDS MifareDump

CONSTANTS k1, k2

OneUse(k) == [i \in Blocks |-> k]
MixedUse == [i \in Blocks |-> IF i = 1 THEN "b" ELSE "a"]
Pair(a, b) == [k \in Letters |-> IF k = "a" THEN a ELSE b]

TwoBits == {[C1 |-> c, C2 |-> ~c, C3 |-> TRUE] : c \in BOOLEAN}

FileLines ==
  {[sector |-> s, key |-> Pair(a, b), use |-> u] :
     s \in 0 .. 1, a \in {k1, NoKey}, b \in {k1}, u \in {MixedUse, OneUse("b")}}
  \union {[sector |-> 2, key |-> Pair(k1, k2), use |-> OneUse("a")], Malformed}
=============================================================================
