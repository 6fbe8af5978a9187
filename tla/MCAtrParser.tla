------------------------------ MODULE MCAtrParser ------------------------------
(* Every ATR of up to five bytes over an alphabet that has both TS bytes, a *)
(* wrong one, and TD bytes that announce each kind of byte; the ATRs of    *)
(* MIFARE cards, cut or with another name; chains of sections about as     *)
(* long as the parser knows; one byte more than an ATR may have.           *)
EXTENDS AtrParser

PcscRid == <<160, 0, 0, 3, 6>>
Short == UNION {[1 .. n -> {0, 1, 59, 63, 128, 209}] : n \in 0 .. 5}
Card(k, name) == <<59, 128 + k, 128, 1, 128, 79, 12>> \o PcscRid \o <<3>> \o name
Named11 == {Card(11, n) : n \in {<<0, 1>>, <<0, 2>>, <<0, 3>>, <<1, 0>>, <<255, 136>>}}
Mifare == {SubSeq(c \o <<0, 0, 0, 0, 106>>, 1, n) : c \in {Card(15, <<0, 1>>)}, n \in 14 .. 20}
Cut == {SubSeq(Card(k, <<0, 1>>), 1, 4 + k) \o t : k \in 0 .. 10, t \in {<< >>, <<7>>}}
Tlv == {<<59, 132, 128, 1, 128>> \o t : t \in {<<49, 5, 129>>, <<49, 5, 130>>, <<50, 5, 129>>}}
Chain(n) == <<59, 128>> \o [i \in 1 .. n |-> IF i = n THEN 0 ELSE 128]
Chains == {Chain(n) : n \in 1 .. 10}
Long == {<<59, 15>> \o [i \in 1 .. n |-> 0] : n \in {15, 16, 17, 31, 32}}
SomeAtrs == Short \union Named11 \union Mifare \union Cut \union Tlv \union Chains \union Long
=============================================================================
