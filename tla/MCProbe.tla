------------------------------- MODULE MCProbe -------------------------------
(* A card of up to two applications, the name of one the beginning of the  *)
(* other's, and answers of a few bytes: encodings of nested elements with  *)
(* tags of one to three bytes and lengths in four forms, the same cut      *)
(* short, and bytes that encode nothing.                                   *)
EXTENDS Probe

Digits(s) == [bar |-> TRUE, aid |-> s]
SampleLists ==
  {<<Digits(<<10, 0>>), [bar |-> FALSE, aid |-> <<10, 0>>], Digits(<<10, 0, 0, 1>>), Digits(<<10, 0, 0, 0>>),
     Digits(<<13, 2>>)>>,
   <<Digits(<<10, 0, 0>>)>>, <<Digits(<<10, 17>>)>>}

Forms == {"short", "one", "two", "four"}
LengthIn(form, n) ==
  CASE form = "short" -> <<n>>
    [] form = "one" -> <<129, n>>
    [] form = "two" -> <<130, 0, n>>
    [] form = "four" -> <<132, 0, 0, 0, n>>

Tags == {<<80>>, <<159, 56>>, <<223, 129, 1>>}
Written(n, v, f) == [bytes |-> n.tag \o LengthIn(f, Len(v)) \o v, elements |-> <<n>>, cut |-> FALSE]
Primitives == {Written(Node(t, v, << >>), v, f) : t \in Tags, v \in {<< >>, <<79, 2>>}, f \in Forms}
Longer == {a \in Primitives : a.elements[1].data # << >>}
Both(a, b) == [bytes |-> a.bytes \o b.bytes, elements |-> a.elements \o b.elements, cut |-> FALSE]
Around(t, a, f) == Written(Node(t, << >>, a.elements), a.bytes, f)

Some == {Written(Node(<<80>>, <<7>>, << >>), <<7>>, "short"),
         Written(Node(<<159, 56>>, << >>, << >>), << >>, "one")}
Fcis == {Around(<<111>>, a, f) : a \in Primitives, f \in {"short", "two"}}
  \union {Around(<<111>>, Both(a, b), "one") : a \in Some, b \in Primitives}
Whole == Fcis
  \union {Around(<<111>>, Both(b, Around(<<165>>, a, "one")), "short") : a \in Some, b \in Some}
  \union {Both(Around(<<111>>, a, "short"), Around(<<111>>, b, "short")) : a, b \in Some}
  \union {Both(b, Around(<<111>>, a, "short")) : a, b \in Some}
  \union {Around(<<191, 12>>, a, "short") : a \in Primitives}

Cut(a) == {[a EXCEPT !.bytes = SubSeq(@, 1, n), !.cut = TRUE] : n \in 0 .. Len(a.bytes) - 1}

(* Among them a length of 65531 after a header of five bytes. *)
JunkBytes ==
  UNION {[1 .. n -> {31, 80, 111, 129, 133, 2}] : n \in 0 .. 3}
  \union {<<80, 131, 0, 255, 251>>, <<111, 131, 1, 0, 0>>, <<127, 129, 129, 1, 0>>, <<111, 2, 80, 131, 0, 255, 250>>}

Answers ==
  Whole \union UNION {Cut(w) : w \in Whole \ Fcis}
    \union UNION {Cut(Around(<<111>>, Both(b, a), "short")) : a \in Longer, b \in Some}
    \union {[bytes |-> b, elements |-> Junk, cut |-> FALSE] : b \in JunkBytes}

(* What is encoded in them, with what follows the first element of two, or *)
(* is inside of one.                                                       *)
Parts == Whole \union Primitives \union {Around(<<165>>, a, "one") : a \in Some}
  \union {Both(a, b) : a \in Some, b \in Primitives}
  \union {Both(b, Around(<<165>>, a, "one")) : a, b \in Some}
  \union {Around(<<111>>, Both(b, a), "short") : a \in Longer, b \in Some}
  \union {Around(<<111>>, z, "short") : z \in Some} \union Some
SampleEncodings == {[bytes |-> << >>, elements |-> << >>]}
  \union {[bytes |-> x.bytes, elements |-> x.elements] : x \in Parts}

SampleCards ==
  {[a \in {<<160, 1>>} |-> x] : x \in Answers}
  \union {[a \in {<<160, 0>>, <<160, 1>>} |-> IF a = <<160, 0>> THEN x ELSE y] :
            x \in {Around(<<111>>, z, "two") : z \in Longer}, y \in {Around(<<111>>, z, "short") : z \in Some}}
=============================================================================
