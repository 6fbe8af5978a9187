-------------------------------- MODULE BerTlv --------------------------------
(* BerTlv (libxpcsc/src/bertlv.cpp): the constructor takes bytes apart into *)
(* a list of elements, each a tag, a length and a value; a constructed      *)
(* value is taken apart in turn, by the constructor of the element.  The    *)
(* constructors under way are a stack of frames, and a turn of a loop is    *)
(* one step.  Positions are those of the code and start at 0.               *)
EXTENDS Integers, SequencesExt

CONSTANTS
  BYTE,          \* how many values a byte has: 256
  POS,           \* how many values the position has, a uint16_t: 65536
  MAX_TAG,       \* 3
  MAX_LENGTH,    \* 4
  MAX_CHILDREN,  \* bound: the elements followed of one constructor
  Encodings      \* what there is to parse: [bytes, elements], the elements
                 \* being what the bytes encode

ASSUME WidthAssumption == BYTE = 256 /\ POS \in Nat \ {0}
ASSUME LimitAssumption == /\ MAX_TAG \in Nat \ {0} /\ MAX_LENGTH \in Nat
                          /\ MAX_CHILDREN \in Nat

Byte == 0 .. BYTE - 1
Bit(b, i) == (b \div 2^i) % 2 = 1

VARIABLES
  stack,    \* the constructors under way, the innermost last
  outcome,  \* of the outermost one: "none", "parsing", "done" or "throws"
  wrapped   \* history: has a position gone past its largest value

tlvVars == <<stack, outcome, wrapped>>

Frame(t, d) == [tag |-> t, data |-> d, p |-> 0, children |-> << >>]
Node(t, d, c) == [tag |-> t, data |-> d, children |-> c]

TlvTypeOK ==
  /\ outcome \in {"none", "parsing", "done", "throws"}
  /\ wrapped \in BOOLEAN
  /\ (stack = << >>) = (outcome = "none")
  /\ \A j \in 1 .. Len(stack) : LET f == stack[j] IN
       /\ f.tag \in Seq(Byte) /\ Len(f.tag) \in (IF j = 1 THEN {0} ELSE 1 .. MAX_TAG)
       /\ f.data \in Seq(Byte)
       /\ f.p \in 0 .. POS - 1
       /\ Len(f.children) <= MAX_CHILDREN

TlvInit == stack = << >> /\ outcome = "none" /\ wrapped = FALSE

-----------------------------------------------------------------------------
(* Slips a change of bertlv.cpp could make, for the properties to catch.   *)
LongTag(d, p, n) == d[p + 1] % 32 = 31 /\ n = 2           \* of TagEnds
FourBytes(d, p) == {n \in 1 .. 4 : p + n <= Len(d) /\ (      \* of TagLengths
  IF n = 1 THEN d[p + 1] % 32 # 31
  ELSE /\ d[p + 1] % 32 = 31
       /\ \A i \in 2 .. n - 1 : Bit(d[p + i], 7)
       /\ ~Bit(d[p + n], 7))}
Padded(d, h) ==                                           \* of ValueAt
  [i \in 1 .. h.length |-> IF h.value + i <= Len(d) THEN d[h.value + i] ELSE 0]
SamePlace(v, l) == 0                                      \* of After

-----------------------------------------------------------------------------
(* The element at position p of d.                                         *)

(* A tag of n bytes: more follow a first one that ends in ones, and one    *)
(* that has its highest bit set.                                           *)
TagEnds(d, p, n) ==
  IF n = 1 THEN d[p + 1] % 32 # 31
  ELSE /\ d[p + 1] % 32 = 31
       /\ \A i \in 2 .. n - 1 : Bit(d[p + i], 7)
       /\ ~Bit(d[p + n], 7)

TagLengths(d, p) == {n \in 1 .. MAX_TAG : p + n <= Len(d) /\ TagEnds(d, p, n)}

(* The length: one byte, or a byte that counts those of the number. *)
CountOf(b) == b % 128
LengthBytes(d, q) == IF Bit(d[q + 1], 7) THEN SubSeq(d, q + 2, q + 1 + CountOf(d[q + 1]))
                     ELSE <<d[q + 1]>>
Number(s) ==
  LET read[i \in 0 .. Len(s)] == IF i = 0 THEN 0 ELSE read[i - 1] * BYTE + s[i]
  IN  read[Len(s)]
LengthEnd(d, q) == IF Bit(d[q + 1], 7) THEN q + 1 + CountOf(d[q + 1]) ELSE q + 1

(* Otherwise a byte is fetched past the end, or the tag or the length is   *)
(* too long: out_of_range.                                                 *)
HasHeader(d, p) ==
  \E n \in TagLengths(d, p) : LET q == p + n IN
    /\ q < Len(d)
    /\ Bit(d[q + 1], 7) => CountOf(d[q + 1]) <= MAX_LENGTH
    /\ LengthEnd(d, q) <= Len(d)

Header(d, p) ==
  LET n == CHOOSE n \in TagLengths(d, p) : TRUE IN
  [tag |-> SubSeq(d, p + 1, p + n),
   value |-> LengthEnd(d, p + n),
   length |-> Number(LengthBytes(d, p + n))]

(* substr: what there is of the value. *)
ValueAt(d, h) ==
  SubSeq(d, h.value + 1, IF h.value + h.length < Len(d) THEN h.value + h.length ELSE Len(d))

After(v, l) == v + l

(* An empty tag is that of the outermost object, which is taken apart.     *)
Raw(t) == t # << >> /\ ~Bit(t[1], 5)

-----------------------------------------------------------------------------
Parse(d) ==
  /\ stack' = <<Frame(<< >>, d)>>
  /\ outcome' = "parsing"
  /\ wrapped' = FALSE

Top == Last(stack)
AtEnd == Top.p >= Len(Top.data)

(* A turn of the loop: a primitive element is a child at once, a           *)
(* constructed one after its own constructor.                              *)
Element ==
  /\ outcome = "parsing" /\ ~AtEnd
  /\ Len(Top.children) < MAX_CHILDREN
  /\ HasHeader(Top.data, Top.p)
  /\ LET h == Header(Top.data, Top.p)
         v == ValueAt(Top.data, h)
         moved == [Top EXCEPT !.p = After(h.value, h.length) % POS]
     IN  /\ stack' = IF Raw(h.tag)
                     THEN Append(Front(stack),
                                 [moved EXCEPT !.children = Append(@, Node(h.tag, v, << >>))])
                     ELSE Front(stack) \o <<moved, Frame(h.tag, v)>>
         /\ wrapped' = (wrapped \/ After(h.value, h.length) >= POS)
  /\ UNCHANGED outcome

NoHeader ==
  /\ outcome = "parsing" /\ ~AtEnd
  /\ ~HasHeader(Top.data, Top.p)
  /\ outcome' = "throws"
  /\ UNCHANGED <<stack, wrapped>>

(* The end of a constructor: the element is a child of the one around it.  *)
Close ==
  /\ outcome = "parsing" /\ AtEnd
  /\ IF Len(stack) = 1 THEN outcome' = "done" /\ UNCHANGED stack
     ELSE LET outer == stack[Len(stack) - 1] IN
          /\ stack' = Append(Front(Front(stack)),
               [outer EXCEPT !.children = Append(@, Node(Top.tag, << >>, Top.children))])
          /\ UNCHANGED outcome
  /\ UNCHANGED wrapped

TlvStep == Element \/ NoHeader \/ Close

(* What parse returns, once it is done. *)
Children == stack[1].children

(* find_by_tag: the first of the children with the tag, if there is one.   *)
find_by_tag(c, t) ==
  LET j == SelectInSeq(c, LAMBDA e : e.tag = t) IN IF j = 0 THEN << >> ELSE <<c[j]>>
-----------------------------------------------------------------------------
(* BER-TLV itself, which the parser knows nothing of but its own loop: what *)
(* bytes encode some elements.                                             *)
TagForm(t) ==
  /\ t \in Seq(Byte) /\ Len(t) \in 1 .. MAX_TAG
  /\ (t[1] % 32 = 31) = (Len(t) > 1)
  /\ \A i \in 2 .. Len(t) : Bit(t[i], 7) = (i < Len(t))

(* The short form, and the long one. *)
LengthForm(l, n) ==
  IF Bit(l[1], 7)
  THEN CountOf(l[1]) = Len(l) - 1 /\ Len(l) - 1 \in 1 .. MAX_LENGTH /\ Number(Tail(l)) = n
  ELSE l = <<n>>

(* x begins with the element n, whose value is encoded as v. *)
Begins(x, n, v) ==
  \E rest \in Encodings :
    /\ x.elements = <<n>> \o rest.elements
    /\ \E i \in Len(n.tag) + 1 .. Len(x.bytes) :
         LET l == SubSeq(x.bytes, Len(n.tag) + 1, i) IN
         /\ LengthForm(l, Len(v))
         /\ x.bytes = (n.tag \o l) \o (v \o rest.bytes)

Elements == UNION {Range(x.elements) : x \in Encodings}

(* Nothing encodes nothing; otherwise there is a first element, primitive  *)
(* or constructed, and the rest.                                           *)
ASSUME EncodingAssumption ==
  \A x \in Encodings :
    /\ x.bytes \in Seq(Byte) /\ Len(x.bytes) < POS
    /\ x.elements \in Seq(Elements)
    /\ x.elements = << >> => x.bytes = << >>
    /\ x.elements # << >> => LET n == x.elements[1] IN
         /\ TagForm(n.tag)
         /\ IF Bit(n.tag[1], 5)
            THEN \E inside \in Encodings :
                   n = Node(n.tag, << >>, inside.elements) /\ Begins(x, n, inside.bytes)
            ELSE n = Node(n.tag, n.data, << >>) /\ n.data \in Seq(Byte) /\ Begins(x, n, n.data)
=============================================================================
