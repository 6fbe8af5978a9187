------------------------------ MODULE ProbeProofs ------------------------------
(* Proofs about BerTlv and the probe of example-08.  What the constructor   *)
(* of BerTlv keeps of an answer is the encoding of which its frames have    *)
(* the beginning; what SELECT asks for are the bytes that the AID, read in  *)
(* pairs of digits, stands for.                                             *)
EXTENDS Probe, SequenceLemmas

(* The beginning of a sequence. *)
LEMMA Beginning ==
  ASSUME NEW F, NEW s \in Seq(F), NEW n \in 0 .. Len(s)
  PROVE  /\ SubSeq(s, 1, n) \in Seq(F) /\ Len(SubSeq(s, 1, n)) = n
         /\ \A j \in 1 .. n : SubSeq(s, 1, n)[j] = s[j]
<1>1. n \in Nat /\ 1 \in 1 .. Len(s) + 1 /\ n \in 1 - 1 .. Len(s) /\ n - 1 + 1 = n
  OBVIOUS
<1>2. /\ SubSeq(s, 1, n) \in Seq(F) 
      /\ Len(SubSeq(s, 1, n)) = IF 1 <= n THEN n - 1 + 1 ELSE 0
      /\ \A j \in 1 .. n - 1 + 1 : SubSeq(s, 1, n)[j] = s[1 + j - 1]
  BY <1>1, SubSeqProperties
<1>3. \A j \in 1 .. n : 1 + j - 1 = j
  OBVIOUS
<1> QED
  BY <1>1, <1>2, <1>3

-----------------------------------------------------------------------------
(* A byte is a number. *)
LEMMA Bytewise == BYTE \in Nat /\ Byte \subseteq Nat
<1>1. BYTE \in Nat
  BY WidthAssumption
<1> QED
  BY <1>1 DEF Byte

(* The length of an element: a number, whatever its bytes.                  *)
LEMMA NumberIsNat ==
  ASSUME NEW s \in Seq(Byte)
  PROVE  Number(s) \in Nat
<1> DEFINE Next2(g, i) == IF i = 0 THEN 0 ELSE g[i - 1] * BYTE + s[i]
           Eq(g, m) == g = [i \in 0 .. m |-> IF i = 0 THEN 0 ELSE g[i - 1] * BYTE + s[i]]
           S == {m \in Nat : \E g : Eq(g, m)}
<1>0. ASSUME NEW g, NEW m \in Nat, Eq(g, m), NEW i \in 0 .. m PROVE g[i] = Next2(g, i)
  <2> DEFINE gg == [j \in 0 .. m |-> IF j = 0 THEN 0 ELSE g[j - 1] * BYTE + s[j]]
  <2>1. gg[i] = Next2(g, i)
    OBVIOUS
  <2>2. gg = g
    BY <1>0, Zenon
  <2> QED
    BY <2>1, <2>2, Zenon
<1>1. 0 \in S
  <2> DEFINE g == [i \in 0 .. 0 |-> 0]
  <2>1. Eq(g, 0)
    OBVIOUS
  <2> QED
    BY <2>1
<1>2. ASSUME NEW m \in Nat, m \in S PROVE m + 1 \in S
  <2>1. PICK g : Eq(g, m)
    BY <1>2
  <2> DEFINE h == [i \in 0 .. m + 1 |-> Next2(g, i)]
  <2>2. ASSUME NEW i \in 0 .. m PROVE h[i] = g[i]
    BY <1>0, <2>1
  <2>3. Eq(h, m + 1)
    <3>1. \A i \in 0 .. m + 1 : Next2(h, i) = Next2(g, i)
      <4> HIDE DEF h
      <4> QED
        BY <2>2
    <3> QED
      BY <3>1
  <2>4. \E g1 : Eq(g1, m + 1)
    <3> HIDE DEF Eq, h
    <3> QED
      BY <2>3, Zenon
  <2> HIDE DEF Eq, h
  <2> QED
    BY <2>4
<1>3. \E g : Eq(g, Len(s))
  <2>1. \A i \in Nat : i \in S
    <3> HIDE DEF S
    <3> QED
      BY <1>1, <1>2, ByInduction
  <2> QED
    BY <2>1
<1> DEFINE read == CHOOSE g : Eq(g, Len(s))
<1>4. Eq(read, Len(s))
  BY <1>3, Zenon
<1>5. \A i \in 0 .. Len(s) : read[i] = Next2(read, i)
  <2> HIDE DEF read
  <2> QED
    BY <1>0, <1>4
<1>6. Number(s) = read[Len(s)]
  BY Zenon DEF Number
<1> DEFINE R == {i \in Nat : i <= Len(s) => read[i] \in Nat}
<1>7. \A i \in Nat : i \in R
  <2> HIDE DEF read
  <2>1. 0 \in R
    BY <1>5
  <2>2. ASSUME NEW i \in Nat, i \in R PROVE i + 1 \in R
    <3> SUFFICES ASSUME i + 1 <= Len(s) PROVE read[i + 1] \in Nat
      OBVIOUS
    <3>1. read[i + 1] = read[i] * BYTE + s[i + 1]
      BY <1>5
    <3>2. s[i + 1] \in Byte
      BY ElementOfSeq
    <3>3. s[i + 1] \in Nat /\ BYTE \in Nat
      BY <3>2, Bytewise
    <3>4. read[i] \in Nat
      BY <2>2
    <3> HIDE DEF Eq, R
    <3> QED
      BY <3>1, <3>3, <3>4
  <2> HIDE DEF R
  <2> QED
    BY <2>1, <2>2, ByInduction
<1> QED
  <2> HIDE DEF read
  <2> QED
    BY <1>6, <1>7

-----------------------------------------------------------------------------
(* parse_apdu.  From(t) is what is left to read, from each place on.        *)
FromAt(t, g, i) ==
  IF i > Len(t) THEN << >>
  ELSE IF Between(t[i]) THEN g[i + 1]
  ELSE IF i = Len(t) \/ t[i] >= SPACE \/ t[i + 1] >= SPACE THEN <<Throws>>
  ELSE <<16 * t[i] + t[i + 1]>> \o g[i + 2]

(* The recursion of parse_apdu has its equation.                            *)
LEMMA ParseEquation ==
  ASSUME NEW t \in Seq(Characters)
  PROVE  \E f : /\ parse_apdu(t) = f[1]
                /\ \A i \in 1 .. Len(t) + 2 : f[i] = FromAt(t, f, i)
<1> DEFINE n == Len(t) + 2
           Eq(g, m) == g = [i \in n - m .. n |->
                               IF i > Len(t) THEN << >>
                               ELSE IF Between(t[i]) THEN g[i + 1]
                               ELSE IF i = Len(t) \/ t[i] >= SPACE \/ t[i + 1] >= SPACE
                               THEN <<Throws>>
                               ELSE <<16 * t[i] + t[i + 1]>> \o g[i + 2]]
           S == {m \in Nat : \E g : Eq(g, m)}
<1>0. ASSUME NEW g, NEW m \in Nat, Eq(g, m), NEW i \in n - m .. n PROVE g[i] = FromAt(t, g, i)
  <2> DEFINE gg == [j \in n - m .. n |-> FromAt(t, g, j)]
  <2>1. gg[i] = FromAt(t, g, i)
    OBVIOUS
  <2>2. gg = g
    BY <1>0, Zenon DEF FromAt
  <2> QED
    BY <2>1, <2>2, Zenon
<1>1. 0 \in S
  <2> DEFINE g == [i \in n - 0 .. n |-> << >>]
  <2>1. \A i \in n - 0 .. n : i > Len(t)
    OBVIOUS
  <2>2. Eq(g, 0)
    BY <2>1
  <2>3. \E g1 : Eq(g1, 0)
    <3> HIDE DEF Eq, g
    <3> QED
      BY <2>2, Zenon
  <2> HIDE DEF Eq, g
  <2> QED
    BY <2>3
<1>2. ASSUME NEW m \in Nat, m \in S PROVE m + 1 \in S
  <2>1. PICK g : Eq(g, m)
    BY <1>2
  <2> DEFINE h == [i \in n - (m + 1) .. n |-> FromAt(t, g, i)]
  <2>2. ASSUME NEW i \in n - m .. n PROVE h[i] = g[i]
    <3>1. h[i] = FromAt(t, g, i)
      OBVIOUS
    <3>2. g[i] = FromAt(t, g, i)
      <4> HIDE DEF Eq
      <4> QED
        BY <1>0, <2>1
    <3> QED
      BY <3>1, <3>2, Zenon
  <2>3. \A i \in n - (m + 1) .. n : FromAt(t, h, i) = FromAt(t, g, i)
    <3> SUFFICES ASSUME NEW i \in n - (m + 1) .. n PROVE FromAt(t, h, i) = FromAt(t, g, i)
      OBVIOUS
    <3>0. CASE i > Len(t)
      <4> HIDE DEF h
      <4> QED
        BY <3>0 DEF FromAt
    <3> SUFFICES ASSUME i <= Len(t) PROVE FromAt(t, h, i) = FromAt(t, g, i)
      BY <3>0
    <3>1. i + 1 \in n - m .. n /\ i + 2 \in n - m .. n
      OBVIOUS
    <3>2. h[i + 1] = g[i + 1] /\ h[i + 2] = g[i + 2]
      <4> HIDE DEF h
      <4> QED
        BY <2>2, <3>1
    <3> HIDE DEF h
    <3> QED
      BY <3>2 DEF FromAt
  <2>4. Eq(h, m + 1)
    <3>1. h = [i \in n - (m + 1) .. n |-> FromAt(t, h, i)]
      BY <2>3
    <3> QED
      BY <3>1, Zenon DEF FromAt
  <2>5. \E g1 : Eq(g1, m + 1)
    <3> HIDE DEF Eq, h
    <3> QED
      BY <2>4, Zenon
  <2> HIDE DEF Eq, h
  <2> QED
    BY <2>5
<1>3. \E g : Eq(g, Len(t) + 1)
  <2>1. \A i \in Nat : i \in S
    <3> HIDE DEF S
    <3> QED
      BY <1>1, <1>2, ByInduction
  <2>2. Len(t) + 1 \in Nat
    OBVIOUS
  <2> HIDE DEF Eq
  <2> QED
    BY <2>1, <2>2
<1>4. n - (Len(t) + 1) = 1
  OBVIOUS
<1> DEFINE Ff == CHOOSE g : g = [i \in 1 .. n |->
                               IF i > Len(t) THEN << >>
                               ELSE IF Between(t[i]) THEN g[i + 1]
                               ELSE IF i = Len(t) \/ t[i] >= SPACE \/ t[i + 1] >= SPACE
                               THEN <<Throws>>
                               ELSE <<16 * t[i] + t[i + 1]>> \o g[i + 2]]
<1>5. Eq(Ff, Len(t) + 1)
  BY <1>3, <1>4, Zenon
<1>6. parse_apdu(t) = Ff[1]
  BY Zenon DEF parse_apdu
<1>7. \A i \in 1 .. n : Ff[i] = FromAt(t, Ff, i)
  <2>1. Len(t) + 1 \in Nat
    OBVIOUS
  <2>2. \A i \in n - (Len(t) + 1) .. n : Ff[i] = FromAt(t, Ff, i)
    <3> HIDE DEF Ff, Eq, n
    <3> QED
      BY <1>0, <1>5, <2>1
  <2> HIDE DEF Ff, Eq
  <2> QED
    BY <1>4, <2>2
<1> QED
  <2> HIDE DEF Ff
  <2> QED
    BY <1>6, <1>7

(* What r, read from t at place i on, has of its pairs: no more than there  *)
(* are; if it has as many, each is that of two digits; if it has less, one  *)
(* of the pairs of places begins with something else.                       *)
PairsFrom(t, r, i) ==
  /\ r \in Seq(Int)
  /\ Throws \notin Range(r) =>
       /\ 2 * Len(r) <= Len(t) + 1 - i
       /\ 2 * Len(r) = Len(t) + 1 - i =>
            \A j \in 1 .. Len(r) : /\ t[i + 2 * j - 2] < SPACE /\ t[i + 2 * j - 1] < SPACE
                                  /\ r[j] = 16 * t[i + 2 * j - 2] + t[i + 2 * j - 1]
       /\ \A c \in Nat : 2 * c = Len(t) + 1 - i /\ Len(r) # c =>
            \E j \in 1 .. c : t[i + 2 * j - 2] >= SPACE

LEMMA PairsNext ==
  ASSUME NEW t \in Seq(Characters), NEW f, NEW i \in 1 .. Len(t), f[i] = FromAt(t, f, i),
         PairsFrom(t, f[i + 1], i + 1), i < Len(t) => PairsFrom(t, f[i + 2], i + 2)
  PROVE  PairsFrom(t, f[i], i)
<1>1. \A n \in 1 .. Len(t) : t[n] \in Int
  <2>1. \A n \in 1 .. Len(t) : t[n] \in Characters
    BY ElementOfSeq
  <2> QED
    BY <2>1 DEF Characters
<1>2. CASE Between(t[i])
  <2>1. f[i] = f[i + 1]
    BY <1>2 DEF FromAt
  <2>2. t[i] >= SPACE
    BY <1>2 DEF Between, SPACE
  <2> SUFFICES ASSUME Throws \notin Range(f[i])
               PROVE  /\ f[i] \in Seq(Int)
                      /\ 2 * Len(f[i]) < Len(t) + 1 - i
                      /\ \A c \in Nat : 2 * c = Len(t) + 1 - i =>
                           \E j \in 1 .. c : t[i + 2 * j - 2] >= SPACE
    BY <2>1 DEF PairsFrom
  <2>3. f[i] \in Seq(Int) /\ 2 * Len(f[i]) <= Len(t) + 1 - (i + 1)
    BY <2>1 DEF PairsFrom
  <2>4. 2 * Len(f[i]) < Len(t) + 1 - i
    BY <2>3
  <2>5. ASSUME NEW c \in Nat, 2 * c = Len(t) + 1 - i
        PROVE \E j \in 1 .. c : t[i + 2 * j - 2] >= SPACE
    <3>1. 1 \in 1 .. c /\ i + 2 * 1 - 2 = i
      BY <2>5
    <3> QED
      BY <2>2, <3>1
  <2> QED
    BY <2>3, <2>4, <2>5
<1>3. CASE ~Between(t[i]) /\ (i = Len(t) \/ t[i] >= SPACE \/ t[i + 1] >= SPACE)
  <2>1. f[i] = <<Throws>>
    BY <1>3 DEF FromAt
  <2>2. Throws \in Range(f[i]) /\ f[i] \in Seq(Int)
    BY <2>1 DEF Range, Throws
  <2> QED
    BY <2>2 DEF PairsFrom
<1>4. CASE ~Between(t[i]) /\ ~(i = Len(t) \/ t[i] >= SPACE \/ t[i + 1] >= SPACE)
  <2> DEFINE x == 16 * t[i] + t[i + 1]
             r == f[i + 2]
  <2>1. f[i] = <<x>> \o r
    BY <1>4 DEF FromAt
  <2>2. i < Len(t) /\ t[i] < SPACE /\ t[i + 1] < SPACE /\ x \in Int
    BY <1>1, <1>4 DEF SPACE
  <2>3. r \in Seq(Int)
    BY <1>4 DEF PairsFrom
  <2> HIDE DEF x, r
  <2>4. /\ f[i] \in Seq(Int) /\ Len(f[i]) = 1 + Len(r) /\ f[i][1] = x
        /\ \A j \in 1 .. Len(r) : f[i][j + 1] = r[j]
    BY <2>1, <2>2, <2>3, OneBefore
  <2> SUFFICES ASSUME Throws \notin Range(f[i])
               PROVE  /\ 2 * Len(f[i]) <= Len(t) + 1 - i
                      /\ 2 * Len(f[i]) = Len(t) + 1 - i =>
                           \A j \in 1 .. Len(f[i]) :
                             /\ t[i + 2 * j - 2] < SPACE /\ t[i + 2 * j - 1] < SPACE
                             /\ f[i][j] = 16 * t[i + 2 * j - 2] + t[i + 2 * j - 1]
                      /\ \A c \in Nat : 2 * c = Len(t) + 1 - i /\ Len(f[i]) # c =>
                           \E j \in 1 .. c : t[i + 2 * j - 2] >= SPACE
    BY <2>4 DEF PairsFrom
  <2>5. Throws \notin Range(r)
    <3> SUFFICES ASSUME NEW j \in 1 .. Len(r), r[j] = Throws PROVE FALSE
      BY <2>3 DEF Range
    <3>0. Len(r) \in Nat
      BY <2>3
    <3>3. f[i][j + 1] = r[j] /\ Len(f[i]) = 1 + Len(r)
      BY <2>4
    <3>4. \A n \in Nat : j \in 1 .. n => j + 1 \in 1 .. 1 + n
      OBVIOUS
    <3>1. j + 1 \in 1 .. Len(f[i]) /\ f[i][j + 1] = Throws
      BY <3>0, <3>3, <3>4
    <3>2. DOMAIN f[i] = 1 .. Len(f[i])
      BY <2>4
    <3> QED
      BY <3>1, <3>2 DEF Range
  <2>6. /\ 2 * Len(r) <= Len(t) + 1 - (i + 2)
        /\ 2 * Len(r) = Len(t) + 1 - (i + 2) =>
             \A j \in 1 .. Len(r) : /\ t[i + 2 + 2 * j - 2] < SPACE /\ t[i + 2 + 2 * j - 1] < SPACE
                                   /\ r[j] = 16 * t[i + 2 + 2 * j - 2] + t[i + 2 + 2 * j - 1]
        /\ \A c \in Nat : 2 * c = Len(t) + 1 - (i + 2) /\ Len(r) # c =>
             \E j \in 1 .. c : t[i + 2 + 2 * j - 2] >= SPACE
    BY <2>2, <2>5 DEF PairsFrom, r
  <2>7. 2 * Len(f[i]) <= Len(t) + 1 - i
    BY <2>3, <2>4, <2>6
  <2>8. ASSUME 2 * Len(f[i]) = Len(t) + 1 - i, NEW j \in 1 .. Len(f[i])
        PROVE  /\ t[i + 2 * j - 2] < SPACE /\ t[i + 2 * j - 1] < SPACE
               /\ f[i][j] = 16 * t[i + 2 * j - 2] + t[i + 2 * j - 1]
    <3>1. CASE j = 1
      <4>1. i + 2 * j - 2 = i /\ i + 2 * j - 1 = i + 1
        BY <3>1
      <4> QED
        BY <2>2, <2>4, <3>1, <4>1 DEF x
    <3>2. CASE j # 1
      <4>0. Len(r) \in Nat /\ j \in 1 .. 1 + Len(r)
        BY <2>3, <2>4
      <4>1. /\ j - 1 \in 1 .. Len(r) /\ j - 1 + 1 = j
            /\ i + 2 + 2 * (j - 1) - 2 = i + 2 * j - 2
            /\ i + 2 + 2 * (j - 1) - 1 = i + 2 * j - 1
        BY <4>0, <3>2
      <4>2. 2 * Len(r) = Len(t) + 1 - (i + 2)
        BY <2>3, <2>4, <2>8, SMTT(30)
      <4>3. f[i][j] = r[j - 1]
        BY <2>4, <4>1
      <4> QED
        BY <2>6, <4>1, <4>2, <4>3
    <3> QED
      BY <3>1, <3>2
  <2>9. ASSUME NEW c \in Nat, 2 * c = Len(t) + 1 - i, Len(f[i]) # c
        PROVE  \E j \in 1 .. c : t[i + 2 * j - 2] >= SPACE
    <3>1. c - 1 \in Nat /\ 2 * (c - 1) = Len(t) + 1 - (i + 2) /\ Len(r) # c - 1
      BY <2>2, <2>3, <2>4, <2>9
    <3>2. PICK j \in 1 .. c - 1 : t[i + 2 + 2 * j - 2] >= SPACE
      BY <2>6, <3>1
    <3>3. j + 1 \in 1 .. c /\ i + 2 * (j + 1) - 2 = i + 2 + 2 * j - 2
      OBVIOUS
    <3> QED
      BY <3>2, <3>3
  <2> QED
    BY <2>7, <2>8, <2>9
<1> QED
  BY <1>2, <1>3, <1>4

LEMMA PairsRead ==
  ASSUME NEW t \in Seq(Characters), NEW f, \A i \in 1 .. Len(t) + 2 : f[i] = FromAt(t, f, i)
  PROVE  \A i \in 1 .. Len(t) + 1 : PairsFrom(t, f[i], i)
<1> DEFINE S == {m \in Nat : \A i \in 1 .. Len(t) + 1 :
                             i + m >= Len(t) + 1 => PairsFrom(t, f[i], i)}
<1>1. 0 \in S
  <2> SUFFICES ASSUME NEW i \in 1 .. Len(t) + 1, i + 0 >= Len(t) + 1 PROVE PairsFrom(t, f[i], i)
    OBVIOUS
  <2>1. f[i] = << >>
    <3>1. f[i] = FromAt(t, f, i) /\ i > Len(t)
      OBVIOUS
    <3> QED
      BY <3>1 DEF FromAt
  <2>2. i = Len(t) + 1 /\ << >> \in Seq(Int) /\ Len(<< >>) = 0
    OBVIOUS
  <2> QED
    BY <2>1, <2>2 DEF PairsFrom
<1>2. ASSUME NEW m \in Nat, m \in S PROVE m + 1 \in S
  <2> SUFFICES ASSUME NEW i \in 1 .. Len(t) + 1, i + (m + 1) >= Len(t) + 1, i + m < Len(t) + 1
               PROVE  PairsFrom(t, f[i], i)
    BY <1>2
  <2>1. i \in 1 .. Len(t) /\ i + 1 \in 1 .. Len(t) + 1 /\ i + 1 + m >= Len(t) + 1
    OBVIOUS
  <2>2. PairsFrom(t, f[i + 1], i + 1)
    BY <1>2, <2>1
  <2>3. ASSUME i < Len(t) PROVE PairsFrom(t, f[i + 2], i + 2)
    <3>1. i + 2 \in 1 .. Len(t) + 1 /\ i + 2 + m >= Len(t) + 1
      BY <2>3
    <3> QED
      BY <1>2, <3>1
  <2>4. f[i] = FromAt(t, f, i)
    OBVIOUS
  <2> QED
    BY <2>1, <2>2, <2>3, <2>4, PairsNext
<1> QED
  <2>1. \A m \in Nat : m \in S
    <3> HIDE DEF S
    <3> QED
      BY <1>1, <1>2, ByInduction
  <2> SUFFICES ASSUME NEW i \in 1 .. Len(t) + 1 PROVE PairsFrom(t, f[i], i)
    OBVIOUS
  <2>2. Len(t) \in S
    BY <2>1
  <2> QED
    BY <2>2

LEMMA SizeIsByte == ASSUME NEW aid \in Seq(Characters) PROVE SizeOf(aid) \in 0 .. 255
<1>1. BYTE = 256
  BY WidthAssumption
<1>2. Len(aid) \div 2 \in Nat
  OBVIOUS
<1>3. \A x \in Nat : x % 256 \in 0 .. 255
  OBVIOUS
<1> QED
  BY <1>1, <1>2, <1>3, Zenon DEF SizeOf

(* The command select_app_apdu writes: its text, place by place.            *)
LEMMA TextOf ==
  ASSUME NEW aid \in Seq(Characters), NEW t, t = SelectText(aid)
  PROVE  /\ t \in Seq(Characters) /\ Len(t) = 17 + Len(aid)
         /\ t[1] = 0 /\ t[2] = 0 /\ t[3] = SPACE /\ t[4] = SPACE /\ t[5] = 10 /\ t[6] = 4
         /\ t[7] = SPACE /\ t[8] = SPACE /\ t[9] = 0 /\ t[10] = 4 /\ t[11] = SPACE
         /\ t[12] = 0 /\ t[13] = 0 /\ t[14] = SPACE
         /\ t[15] = SizeOf(aid) \div 16 /\ t[16] = SizeOf(aid) % 16 /\ t[17] = SPACE
         /\ \A j \in 1 .. Len(aid) : t[17 + j] = aid[j]
<1> DEFINE u == <<0, 0, SPACE, SPACE, 10, 4, SPACE, SPACE, 0, 4, SPACE, 0, 0, SPACE>>
           v == <<SizeOf(aid) \div 16, SizeOf(aid) % 16, SPACE>>
<1>1. SizeOf(aid) \in 0 .. 255
  BY SizeIsByte
<1>2. u \in Seq(Characters) /\ Len(u) = 14
  <2>1. 0 \in Characters /\ 4 \in Characters /\ 10 \in Characters /\ SPACE \in Characters
    BY DEF Characters, SPACE
  <2> QED
    BY <2>1
<1>3. v \in Seq(Characters) /\ Len(v) = 3
  <2>1. \A x \in 0 .. 255 : x \div 16 \in 0 .. 15 /\ x % 16 \in 0 .. 15
    OBVIOUS
  <2>2. 0 .. 15 \subseteq Characters /\ SPACE \in Characters
    BY DEF Characters, SPACE
  <2>3. SizeOf(aid) \div 16 \in Characters /\ SizeOf(aid) % 16 \in Characters
    BY <1>1, <2>1, <2>2
  <2> QED
    BY <2>2, <2>3
<1>4. /\ u[1] = 0 /\ u[2] = 0 /\ u[3] = SPACE /\ u[4] = SPACE /\ u[5] = 10 /\ u[6] = 4
      /\ u[7] = SPACE /\ u[8] = SPACE /\ u[9] = 0 /\ u[10] = 4 /\ u[11] = SPACE
      /\ u[12] = 0 /\ u[13] = 0 /\ u[14] = SPACE
  OBVIOUS
<1>5. v[1] = SizeOf(aid) \div 16 /\ v[2] = SizeOf(aid) % 16 /\ v[3] = SPACE
  OBVIOUS
<1>6. t = (u \o v) \o aid
  BY DEF SelectText
<1> HIDE DEF u, v
<1>7. /\ u \o v \in Seq(Characters) /\ Len(u \o v) = 17
      /\ \A i \in 1 .. 14 : (u \o v)[i] = u[i]
      /\ \A i \in 1 .. 3 : (u \o v)[14 + i] = v[i]
  <2>1. 14 + 3 = 17
    OBVIOUS
  <2>2. /\ u \o v \in Seq(Characters) /\ Len(u \o v) = Len(u) + Len(v)
        /\ \A i \in 1 .. Len(u) : (u \o v)[i] = u[i]
        /\ \A i \in 1 .. Len(v) : (u \o v)[Len(u) + i] = v[i]
    <3>1. u \in Seq(Characters) /\ v \in Seq(Characters)
      BY <1>2, <1>3
    <3> QED
      BY ONLY <3>1
  <2> QED
    BY <1>2, <1>3, <2>1, <2>2
<1>8. /\ t \in Seq(Characters) /\ Len(t) = 17 + Len(aid)
      /\ \A i \in 1 .. 17 : t[i] = (u \o v)[i]
      /\ \A j \in 1 .. Len(aid) : t[17 + j] = aid[j]
  <2> DEFINE w == u \o v
  <2>1. w \in Seq(Characters) /\ Len(w) = 17
    BY <1>7
  <2> HIDE DEF w
  <2>2. /\ w \o aid \in Seq(Characters) /\ Len(w \o aid) = Len(w) + Len(aid)
        /\ \A i \in 1 .. Len(w) : (w \o aid)[i] = w[i]
        /\ \A i \in 1 .. Len(aid) : (w \o aid)[Len(w) + i] = aid[i]
    <3>1. w \in Seq(Characters) /\ aid \in Seq(Characters)
      BY <2>1
    <3> QED
      BY ONLY <3>1
  <2>3. t = w \o aid
    BY <1>6 DEF w
  <2> QED
    BY <2>1, <2>2, <2>3 DEF w
<1>9. \A i \in 1 .. 14 : t[i] = u[i]
  <2>1. \A i \in 1 .. 14 : i \in 1 .. 17
    OBVIOUS
  <2> QED
    BY <1>7, <1>8, <2>1
<1>10. t[15] = v[1] /\ t[16] = v[2] /\ t[17] = v[3]
  <2>1. 1 \in 1 .. 3 /\ 2 \in 1 .. 3 /\ 3 \in 1 .. 3 /\ 14 + 1 = 15 /\ 14 + 2 = 16 /\ 14 + 3 = 17
    OBVIOUS
  <2>2. (u \o v)[15] = v[1] /\ (u \o v)[16] = v[2] /\ (u \o v)[17] = v[3]
    BY <1>7, <2>1
  <2>3. 15 \in 1 .. 17 /\ 16 \in 1 .. 17 /\ 17 \in 1 .. 17
    OBVIOUS
  <2> QED
    BY <1>8, <2>2, <2>3
<1>11. /\ t[1] = 0 /\ t[2] = 0 /\ t[3] = SPACE /\ t[4] = SPACE /\ t[5] = 10 /\ t[6] = 4
       /\ t[7] = SPACE /\ t[8] = SPACE /\ t[9] = 0 /\ t[10] = 4 /\ t[11] = SPACE
       /\ t[12] = 0 /\ t[13] = 0 /\ t[14] = SPACE
  BY <1>4, <1>9
<1>12. t[15] = SizeOf(aid) \div 16 /\ t[16] = SizeOf(aid) % 16 /\ t[17] = SPACE
  BY <1>5, <1>10
<1> QED
  BY <1>8, <1>11, <1>12

(* What parse_apdu makes of it: five bytes, and what it reads of the AID.   *)
LEMMA CommandOf ==
  ASSUME NEW aid \in Seq(Characters)
  PROVE  \E r : /\ PairsFrom(SelectText(aid), r, 18)
                /\ select_app_apdu(aid) =
                     <<0>> \o (<<164>> \o (<<4>> \o (<<0>> \o (<<SizeOf(aid)>> \o r))))
<1> DEFINE t == SelectText(aid)
<1>1. /\ t \in Seq(Characters) /\ Len(t) = 17 + Len(aid)
      /\ t[1] = 0 /\ t[2] = 0 /\ t[3] = SPACE /\ t[4] = SPACE /\ t[5] = 10 /\ t[6] = 4
      /\ t[7] = SPACE /\ t[8] = SPACE /\ t[9] = 0 /\ t[10] = 4 /\ t[11] = SPACE
      /\ t[12] = 0 /\ t[13] = 0 /\ t[14] = SPACE
      /\ t[15] = SizeOf(aid) \div 16 /\ t[16] = SizeOf(aid) % 16 /\ t[17] = SPACE
  BY TextOf
<1> HIDE DEF t
<1>2. PICK f : /\ parse_apdu(t) = f[1]
               /\ \A i \in 1 .. Len(t) + 2 : f[i] = FromAt(t, f, i)
  BY <1>1, ParseEquation
<1>3. PairsFrom(t, f[18], 18)
  <2>1. 18 \in 1 .. Len(t) + 1
    BY <1>1
  <2> QED
    BY <1>1, <1>2, <2>1, PairsRead
<1>14. ASSUME NEW i \in 1 .. 17
       PROVE i \in 1 .. Len(t) + 2 /\ ~(i > Len(t)) /\ (i < 17 => i # Len(t))
  BY <1>1
<1>4. ASSUME NEW i \in 1 .. 17, t[i] = SPACE PROVE f[i] = f[i + 1]
  <2>1. f[i] = FromAt(t, f, i)
    BY <1>2, <1>14
  <2> QED
    BY <1>14, <1>4, <2>1 DEF FromAt, Between
<1>5. ASSUME NEW i \in 1 .. 16, t[i] \in 0 .. 15, t[i + 1] \in 0 .. 15
      PROVE  f[i] = <<16 * t[i] + t[i + 1]>> \o f[i + 2]
  <2>1. i \in 1 .. 17 /\ i < 17
    OBVIOUS
  <2>2. f[i] = FromAt(t, f, i)
    BY <1>2, <1>14, <2>1
  <2>3. \A x \in 0 .. 15 : ~Between(x) /\ ~(x >= SPACE)
    BY DEF Between, SPACE
  <2> QED
    BY <1>5, <1>14, <2>1, <2>2, <2>3 DEF FromAt
<1>7. f[15] = <<SizeOf(aid)>> \o f[18]
  <2>0. SizeOf(aid) \in 0 .. 255
    BY SizeIsByte
  <2>1. \A x \in 0 .. 255 : x \div 16 \in 0 .. 15 /\ x % 16 \in 0 .. 15
        /\ 16 * (x \div 16) + (x % 16) = x
    OBVIOUS
  <2>2. t[15] \in 0 .. 15 /\ t[16] \in 0 .. 15 /\ 16 * t[15] + t[16] = SizeOf(aid)
    BY <1>1, <2>0, <2>1, ZenonT(30)
  <2>3. 15 \in 1 .. 16 /\ 15 + 1 = 16 /\ 15 + 2 = 17 /\ 17 \in 1 .. 17 /\ 17 + 1 = 18
    OBVIOUS
  <2>4. f[15] = <<16 * t[15] + t[16]>> \o f[17]
    BY <1>5, <2>2, <2>3
  <2>5. f[17] = f[18]
    BY <1>1, <1>4, <2>3
  <2> QED
    BY <2>2, <2>4, <2>5
<1>8. f[12] = <<0>> \o f[15]
  <2>1. 12 \in 1 .. 16 /\ t[12] \in 0 .. 15 /\ t[12 + 1] \in 0 .. 15 /\ 14 \in 1 .. 17
    BY <1>1
  <2>2. f[12] = <<16 * t[12] + t[12 + 1]>> \o f[12 + 2] /\ f[14] = f[14 + 1]
    BY <1>1, <1>4, <1>5, <2>1
  <2>3. 16 * t[12] + t[12 + 1] = 0
    BY <1>1
  <2> QED
    BY <2>2, <2>3
<1>9. f[9] = <<4>> \o f[12]
  <2>1. 9 \in 1 .. 16 /\ t[9] \in 0 .. 15 /\ t[9 + 1] \in 0 .. 15 /\ 11 \in 1 .. 17
    BY <1>1
  <2>2. f[9] = <<16 * t[9] + t[9 + 1]>> \o f[9 + 2] /\ f[11] = f[11 + 1]
    BY <1>1, <1>4, <1>5, <2>1
  <2>3. 16 * t[9] + t[9 + 1] = 4
    BY <1>1
  <2> QED
    BY <2>2, <2>3
<1>10. f[5] = <<164>> \o f[9]
  <2>1. 5 \in 1 .. 16 /\ t[5] \in 0 .. 15 /\ t[5 + 1] \in 0 .. 15 /\ 7 \in 1 .. 17 /\ 8 \in 1 .. 17
    BY <1>1
  <2>2. f[5] = <<16 * t[5] + t[5 + 1]>> \o f[5 + 2] /\ f[7] = f[7 + 1] /\ f[8] = f[8 + 1]
    BY <1>1, <1>4, <1>5, <2>1
  <2>3. 16 * t[5] + t[5 + 1] = 164
    BY <1>1
  <2> QED
    BY <2>2, <2>3
<1>11. f[1] = <<0>> \o f[5]
  <2>1. 1 \in 1 .. 16 /\ t[1] \in 0 .. 15 /\ t[1 + 1] \in 0 .. 15 /\ 3 \in 1 .. 17 /\ 4 \in 1 .. 17
    BY <1>1
  <2>2. f[1] = <<16 * t[1] + t[1 + 1]>> \o f[1 + 2] /\ f[3] = f[3 + 1] /\ f[4] = f[4 + 1]
    BY <1>1, <1>4, <1>5, <2>1
  <2>3. 16 * t[1] + t[1 + 1] = 0
    BY <1>1
  <2> QED
    BY <2>2, <2>3
<1>12. select_app_apdu(aid) = f[1]
  BY <1>2 DEF select_app_apdu, t
<1>13. select_app_apdu(aid) = <<0>> \o (<<164>> \o (<<4>> \o (<<0>> \o (<<SizeOf(aid)>> \o f[18]))))
  BY <1>7, <1>8, <1>9, <1>10, <1>11, <1>12, ZenonT(30)
<1> QED
  BY <1>3, <1>13 DEF t

(* A beginning, element by element.                                         *)
LEMMA PrefixIs ==
  ASSUME NEW S, NEW u \in Seq(S), NEW v \in Seq(S)
  PROVE  /\ IsPrefix(u, v) => Len(u) <= Len(v) /\ \A j \in 1 .. Len(u) : u[j] = v[j]
         /\ Len(u) <= Len(v) /\ (\A j \in 1 .. Len(u) : u[j] = v[j]) => IsPrefix(u, v)
<1>1. SubSeq(u, 1, Len(u)) = u
  OBVIOUS
<1>2. ASSUME Len(u) <= Len(v)
      PROVE  (u = SubSeq(v, 1, Len(u))) <=> \A j \in 1 .. Len(u) : u[j] = v[j]
  <2> DEFINE w == SubSeq(v, 1, Len(u))
  <2>1. w \in Seq(S) /\ Len(w) = Len(u) /\ \A j \in 1 .. Len(u) : w[j] = v[j]
    BY <1>2
  <2> HIDE DEF w
  <2>2. (\A j \in 1 .. Len(u) : u[j] = v[j]) => u = w
    BY <2>1, SeqEqual
  <2>3. u = w => \A j \in 1 .. Len(u) : u[j] = v[j]
    BY <2>1
  <2> QED
    BY <2>2, <2>3 DEF w
<1> QED
  BY <1>1, <1>2 DEF IsPrefix

(* c is the command for the bytes r, of which it says that there are s.     *)
Led(c, s, r) ==
  /\ c \in Seq(Int) /\ Len(c) = 5 + Len(r)
  /\ c[1] = 0 /\ c[2] = 164 /\ c[3] = 4 /\ c[4] = 0 /\ c[5] = s
  /\ \A j \in 1 .. Len(r) : c[5 + j] = r[j]

LEMMA WrittenLed ==
  ASSUME NEW s \in Int, NEW r \in Seq(Int)
  PROVE  Led(<<0>> \o (<<164>> \o (<<4>> \o (<<0>> \o (<<s>> \o r)))), s, r)
<1> DEFINE c1 == <<s>> \o r
           c2 == <<0>> \o c1
           c3 == <<4>> \o c2
           c4 == <<164>> \o c3
           c5 == <<0>> \o c4
<1>1. c1 \in Seq(Int) /\ Len(c1) = 1 + Len(r) /\ c1[1] = s
      /\ \A j \in 1 .. Len(r) : c1[j + 1] = r[j]
  BY OneBefore
<1> HIDE DEF c1
<1>2. c2 \in Seq(Int) /\ Len(c2) = 1 + Len(c1) /\ c2[1] = 0
      /\ \A j \in 1 .. Len(c1) : c2[j + 1] = c1[j]
  BY <1>1, OneBefore
<1> HIDE DEF c2
<1>3. c3 \in Seq(Int) /\ Len(c3) = 1 + Len(c2) /\ c3[1] = 4
      /\ \A j \in 1 .. Len(c2) : c3[j + 1] = c2[j]
  BY <1>2, OneBefore
<1> HIDE DEF c3
<1>4. c4 \in Seq(Int) /\ Len(c4) = 1 + Len(c3) /\ c4[1] = 164
      /\ \A j \in 1 .. Len(c3) : c4[j + 1] = c3[j]
  BY <1>3, OneBefore
<1> HIDE DEF c4
<1>5. c5 \in Seq(Int) /\ Len(c5) = 1 + Len(c4) /\ c5[1] = 0
      /\ \A j \in 1 .. Len(c4) : c5[j + 1] = c4[j]
  BY <1>4, OneBefore
<1> HIDE DEF c5
<1>6. /\ Len(r) \in Nat /\ Len(c1) = 1 + Len(r) /\ Len(c2) = 2 + Len(r) /\ Len(c3) = 3 + Len(r)
      /\ Len(c4) = 4 + Len(r) /\ Len(c5) = 5 + Len(r)
  <2>1. Len(r) \in Nat /\ Len(c1) = 1 + Len(r)
    BY <1>1
  <2>2. Len(c2) = 2 + Len(r)
    BY <1>2, <2>1
  <2>3. Len(c3) = 3 + Len(r)
    BY <1>3, <2>1, <2>2
  <2>4. Len(c4) = 4 + Len(r)
    BY <1>4, <2>1, <2>3
  <2> QED
    BY <1>5, <2>1, <2>2, <2>3, <2>4
<1>7. c5[2] = 164
  <2>1. 1 \in 1 .. Len(c4) /\ 1 + 1 = 2
    BY <1>6
  <2> QED
    BY <1>4, <1>5, <2>1
<1>8. c5[3] = 4
  <2>1. 1 \in 1 .. Len(c3) /\ 2 \in 1 .. Len(c4) /\ 1 + 1 = 2 /\ 2 + 1 = 3
    BY <1>6
  <2> QED
    BY <1>3, <1>4, <1>5, <2>1
<1>9. c5[4] = 0
  <2>1. 1 \in 1 .. Len(c2) /\ 2 \in 1 .. Len(c3) /\ 3 \in 1 .. Len(c4) /\ 1 + 1 = 2 /\ 2 + 1 = 3
        /\ 3 + 1 = 4
    BY <1>6
  <2> QED
    BY <1>2, <1>3, <1>4, <1>5, <2>1
<1>10. \A j \in 1 .. 1 + Len(r) : c5[4 + j] = c1[j]
  <2> SUFFICES ASSUME NEW j \in 1 .. 1 + Len(r) PROVE c5[4 + j] = c1[j]
    OBVIOUS
  <2>1. /\ j \in 1 .. Len(c1) /\ j + 1 \in 1 .. Len(c2) /\ j + 2 \in 1 .. Len(c3)
           /\ j + 3 \in 1 .. Len(c4)
        /\ j + 1 + 1 = j + 2 /\ j + 2 + 1 = j + 3 /\ j + 3 + 1 = 4 + j
    BY <1>6
  <2>2. c2[j + 1] = c1[j] /\ c3[j + 2] = c2[j + 1]
    BY <1>2, <1>3, <2>1
  <2>3. c4[j + 3] = c3[j + 2]
    BY <1>4, <2>1
  <2>4. c5[4 + j] = c4[j + 3]
    BY <1>5, <2>1
  <2> QED
    BY <2>2, <2>3, <2>4
<1>11. c5[5] = s /\ \A j \in 1 .. Len(r) : c5[5 + j] = r[j]
  <2>1. c5[5] = s
    <3>1. 1 \in 1 .. 1 + Len(r) /\ 4 + 1 = 5
      OBVIOUS
    <3> QED
      BY <1>1, <1>10, <3>1
  <2> SUFFICES ASSUME NEW j \in 1 .. Len(r) PROVE c5[5 + j] = r[j]
    BY <2>1
  <2>2. j + 1 \in 1 .. 1 + Len(r) /\ 4 + (j + 1) = 5 + j
    OBVIOUS
  <2> QED
    BY <1>1, <1>10, <2>2
<1> QED
  <2>1. Led(c5, s, r)
    BY <1>5, <1>6, <1>7, <1>8, <1>9, <1>11 DEF Led
  <2> QED
    BY <2>1 DEF c1, c2, c3, c4, c5

LEMMA MeantLed ==
  ASSUME NEW n \in Int, NEW q \in Seq(Int)
  PROVE  Led(<<0, 164, 4, 0, n>> \o q, n, q)
<1> DEFINE h == <<0, 164, 4, 0, n>>
<1>1. h \in Seq(Int) /\ Len(h) = 5 /\ h[1] = 0 /\ h[2] = 164 /\ h[3] = 4 /\ h[4] = 0 /\ h[5] = n
  OBVIOUS
<1> HIDE DEF h
<1>2. /\ h \o q \in Seq(Int) /\ Len(h \o q) = Len(h) + Len(q)
      /\ \A i \in 1 .. Len(h) : (h \o q)[i] = h[i]
      /\ \A i \in 1 .. Len(q) : (h \o q)[Len(h) + i] = q[i]
  <2>1. h \in Seq(Int)
    BY <1>1
  <2> QED
    BY ONLY <2>1, q \in Seq(Int)
<1>3. 1 \in 1 .. 5 /\ 2 \in 1 .. 5 /\ 3 \in 1 .. 5 /\ 4 \in 1 .. 5 /\ 5 \in 1 .. 5
  OBVIOUS
<1>4. Led(h \o q, n, q)
  BY <1>1, <1>2, <1>3, SMTT(30) DEF Led
<1> QED
  BY <1>4 DEF h

LEMMA LedEqual ==
  ASSUME NEW c, NEW e, NEW s, NEW n, NEW r \in Seq(Int), NEW q \in Seq(Int),
         Led(c, s, r), Led(e, n, q)
  PROVE  (c = e => s = n /\ r = q) /\ (s = n /\ r = q => c = e)
<1>1. ASSUME c = e PROVE s = n /\ r = q
  <2>1. Len(r) = Len(q) /\ s = n
    BY <1>1 DEF Led
  <2>2. \A j \in 1 .. Len(r) : r[j] = q[j]
    BY <1>1, <2>1 DEF Led
  <2> QED
    BY <2>1, <2>2, SeqEqual
<1>2. ASSUME s = n, r = q PROVE c = e
  <2>1. c \in Seq(Int) /\ e \in Seq(Int) /\ Len(c) = Len(e)
    BY <1>2 DEF Led
  <2>2. ASSUME NEW i \in 1 .. Len(c) PROVE c[i] = e[i]
    <3>1. CASE i \in 1 .. 5
      <4>1. i = 1 \/ i = 2 \/ i = 3 \/ i = 4 \/ i = 5
        BY <3>1
      <4> QED
        BY <1>2, <4>1 DEF Led
    <3>2. CASE i \notin 1 .. 5
      <4>1. Len(c) = 5 + Len(r) /\ Len(r) \in Nat
        BY DEF Led
      <4>2. i - 5 \in 1 .. Len(r) /\ 5 + (i - 5) = i
        BY <3>2, <4>1
      <4>3. c[5 + (i - 5)] = r[i - 5] /\ e[5 + (i - 5)] = r[i - 5]
        BY <1>2, <4>2 DEF Led
      <4> QED
        BY <4>2, <4>3
    <3> QED
      BY <3>1, <3>2
  <2> QED
    BY <2>1, <2>2, SeqEqual
<1> QED
  BY <1>1, <1>2

(* The command asks for the applications that the AID is the beginning of.  *)
LEMMA NamedBy ==
  ASSUME NEW aid \in Seq(Characters), Len(aid) < 2 * BYTE, CanSelect(aid),
         NEW a \in Seq(Byte), Len(a) < BYTE
  PROVE  (\E n \in 0 .. Len(a) : select_app_apdu(aid) = <<0, 164, 4, 0, n>> \o SubSeq(a, 1, n))
           <=> IsPrefix(Bytes(aid), a)
<1> DEFINE m == Len(aid) \div 2
           t == SelectText(aid)
           c == select_app_apdu(aid)
           b == Bytes(aid)
<1>1. BYTE = 256
  BY WidthAssumption
<1>2. m \in 0 .. 255 /\ Len(aid) = 2 * m
  <2>1. Len(aid) % 2 = 0 /\ Len(aid) \in Nat
    BY DEF CanSelect
  <2>2. \A x \in Nat : x < 512 /\ x % 2 = 0 => x \div 2 \in 0 .. 255 /\ x = 2 * (x \div 2)
    OBVIOUS
  <2>3. Len(aid) < 512
    BY <1>1
  <2> QED
    BY <2>1, <2>2, <2>3
<1>3. SizeOf(aid) = m
  <2>1. \A x \in 0 .. 255 : x % 256 = x
    OBVIOUS
  <2> QED
    BY <1>1, <1>2, <2>1, Zenon DEF SizeOf
<1>4. PICK r : /\ PairsFrom(t, r, 18)
               /\ c = <<0>> \o (<<164>> \o (<<4>> \o (<<0>> \o (<<SizeOf(aid)>> \o r))))
  BY CommandOf
<1>5. r \in Seq(Int) /\ Led(c, m, r)
  <2>1. r \in Seq(Int) /\ m \in Int
    BY <1>2, <1>4 DEF PairsFrom
  <2> HIDE DEF m, c
  <2> QED
    BY <1>3, <1>4, <2>1, WrittenLed
<1>6. Len(t) = 17 + Len(aid) /\ \A j \in 1 .. Len(aid) : t[17 + j] = aid[j]
  BY TextOf
<1>7. Throws \notin Range(r)
  <2> SUFFICES ASSUME NEW j \in 1 .. Len(r), r[j] = Throws PROVE FALSE
    BY <1>5 DEF Range
  <2> HIDE DEF c, m
  <2>1. Len(c) = 5 + Len(r) /\ Len(r) \in Nat /\ c \in Seq(Int) /\ c[5 + j] = r[j]
    <3>1. Led(c, m, r) /\ r \in Seq(Int)
      BY <1>5 DEF c, m
    <3>2. Len(c) = 5 + Len(r) /\ c \in Seq(Int) /\ \A i \in 1 .. Len(r) : c[5 + i] = r[i]
      BY ONLY <3>1 DEF Led
    <3>3. c[5 + j] = r[j]
      BY <3>2
    <3> QED
      BY <3>1, <3>2, <3>3
  <2>2. 5 + j \in DOMAIN c
    BY <2>1, SMTT(30)
  <2>3. Throws \in Range(c)
    BY <2>1, <2>2 DEF Range
  <2> QED
    BY <2>3 DEF CanSelect, c
<1>8. b \in Seq(Int) /\ Len(b) = m /\ \A j \in 1 .. m : b[j] = 16 * aid[2 * j - 1] + aid[2 * j]
  <2>1. \A i \in 1 .. Len(aid) : aid[i] \in Int
    <3>1. \A i \in 1 .. Len(aid) : aid[i] \in Characters
      BY ElementOfSeq
    <3> QED
      BY <3>1, SMTT(30) DEF Characters
  <2>2. \A j \in 1 .. m : 2 * j - 1 \in 1 .. Len(aid) /\ 2 * j \in 1 .. Len(aid)
    BY <1>2
  <2>3. ASSUME NEW j \in 1 .. m PROVE 16 * aid[2 * j - 1] + aid[2 * j] \in Int
    <3>1. aid[2 * j - 1] \in Int /\ aid[2 * j] \in Int
      BY <2>1, <2>2
    <3> QED
      BY <3>1
  <2>4. m \in Nat /\ b = [j \in 1 .. m |-> 16 * aid[2 * j - 1] + aid[2 * j]]
    BY <1>2 DEF Bytes
  <2> HIDE DEF m, b
  <2> QED
    BY <2>3, <2>4
<1>9. \A j \in 1 .. m : /\ t[18 + 2 * j - 2] = aid[2 * j - 1] /\ t[18 + 2 * j - 1] = aid[2 * j]
                       /\ aid[2 * j - 1] \in 0 .. 17 /\ aid[2 * j] \in 0 .. 17
  <2> SUFFICES ASSUME NEW j \in 1 .. m
               PROVE  /\ t[18 + 2 * j - 2] = aid[2 * j - 1] /\ t[18 + 2 * j - 1] = aid[2 * j]
                      /\ aid[2 * j - 1] \in 0 .. 17 /\ aid[2 * j] \in 0 .. 17
    OBVIOUS
  <2>1. /\ 2 * j - 1 \in 1 .. Len(aid) /\ 2 * j \in 1 .. Len(aid)
        /\ 18 + 2 * j - 2 = 17 + (2 * j - 1) /\ 18 + 2 * j - 1 = 17 + 2 * j
    BY <1>2
  <2>2. aid[2 * j - 1] \in Characters /\ aid[2 * j] \in Characters
    BY <2>1, ElementOfSeq
  <2> HIDE DEF m, t
  <2> QED
    BY <1>6, <2>1, <2>2 DEF Characters
<1> HIDE DEF m, t, c, b
<1>10. Len(r) = m => \A j \in 1 .. m : r[j] = b[j]
  <2> SUFFICES ASSUME Len(r) = m, NEW j \in 1 .. m PROVE r[j] = b[j]
    OBVIOUS
  <2>1. 2 * Len(r) = Len(t) + 1 - 18 /\ j \in 1 .. Len(r)
    BY <1>2, <1>6
  <2>2. r[j] = 16 * t[18 + 2 * j - 2] + t[18 + 2 * j - 1]
    BY <1>4, <1>7, <2>1 DEF PairsFrom
  <2> QED
    BY <1>8, <1>9, <2>2
<1>11. ASSUME Len(r) # m PROVE \E j \in 1 .. m : b[j] >= 256
  <2>1. m \in Nat /\ 2 * m = Len(t) + 1 - 18
    BY <1>2, <1>6
  <2>2. PICK j \in 1 .. m : t[18 + 2 * j - 2] >= SPACE
    BY <1>4, <1>7, <1>11, <2>1 DEF PairsFrom
  <2>3. aid[2 * j - 1] >= 16 /\ aid[2 * j - 1] \in 0 .. 17 /\ aid[2 * j] \in 0 .. 17
    <3>1. t[18 + 2 * j - 2] = aid[2 * j - 1] /\ aid[2 * j - 1] \in 0 .. 17 /\ aid[2 * j] \in 0 .. 17
      BY <1>9
    <3>2. SPACE = 16
      BY DEF SPACE
    <3> QED
      BY <2>2, <3>1, <3>2
  <2>4. b[j] = 16 * aid[2 * j - 1] + aid[2 * j]
    BY <1>8
  <2>5. \A x, y \in 0 .. 17 : x >= 16 => 16 * x + y >= 256
    OBVIOUS
  <2>6. b[j] >= 256
    BY <2>3, <2>4, <2>5
  <2> QED
    BY <2>6
<1>12. a \in Seq(Int)
  <2>1. Byte \subseteq Int
    BY Bytewise
  <2> QED
    BY <2>1, SeqMonotonic
<1>13. IsPrefix(b, a) <=> m <= Len(a) /\ \A j \in 1 .. m : b[j] = a[j]
  <2>1. b \in Seq(Int) /\ Len(b) = m
    BY <1>8
  <2>2. b \in Seq(Int)
    BY <2>1
  <2>3. /\ IsPrefix(b, a) => Len(b) <= Len(a) /\ \A j \in 1 .. Len(b) : b[j] = a[j]
        /\ Len(b) <= Len(a) /\ (\A j \in 1 .. Len(b) : b[j] = a[j]) => IsPrefix(b, a)
    BY ONLY <1>12, <2>2, PrefixIs
  <2> QED
    BY <2>1, <2>3
<1>14. ASSUME NEW n \in 0 .. Len(a)
       PROVE  c = <<0, 164, 4, 0, n>> \o SubSeq(a, 1, n) <=> m = n /\ r = SubSeq(a, 1, n)
  <2>1. SubSeq(a, 1, n) \in Seq(Int) /\ n \in Int
    BY <1>12
  <2>2. Led(<<0, 164, 4, 0, n>> \o SubSeq(a, 1, n), n, SubSeq(a, 1, n))
    BY <2>1, MeantLed
  <2> DEFINE q == SubSeq(a, 1, n)
             e == <<0, 164, 4, 0, n>> \o q
  <2> HIDE DEF q
  <2>4. q \in Seq(Int) /\ Led(e, n, q)
    BY <2>1, <2>2 DEF q
  <2> HIDE DEF e
  <2>3. (c = e => m = n /\ r = q) /\ (m = n /\ r = q => c = e)
    BY ONLY <1>5, <2>4, LedEqual
  <2> QED
    BY <2>3 DEF e, q
<1>15. ASSUME NEW n \in 0 .. Len(a), m = n, r = SubSeq(a, 1, n) PROVE IsPrefix(b, a)
  <2>1. Len(r) = m /\ \A j \in 1 .. m : r[j] = a[j]
    <3>1. n \in 0 .. Len(a) /\ m = n /\ r = SubSeq(a, 1, n)
      BY <1>15
    <3>2. Len(SubSeq(a, 1, n)) = n /\ \A j \in 1 .. n : SubSeq(a, 1, n)[j] = a[j]
      BY <1>12, Beginning
    <3> QED
      BY <3>1, <3>2
  <2>2. \A j \in 1 .. m : b[j] = a[j]
    BY <1>10, <2>1
  <2>3. m <= Len(a)
    BY <1>15
  <2> QED
    BY <1>13, <2>2, <2>3
<1>16. ASSUME IsPrefix(b, a) PROVE m \in 0 .. Len(a) /\ r = SubSeq(a, 1, m)
  <2>1. m \in 0 .. Len(a) /\ \A j \in 1 .. m : b[j] = a[j] /\ a[j] < 256
    <3>1. m \in 0 .. Len(a) /\ \A j \in 1 .. m : b[j] = a[j] /\ j \in 1 .. Len(a)
      BY <1>2, <1>13, <1>16
    <3>2. \A j \in 1 .. Len(a) : a[j] \in Byte
      BY ElementOfSeq
    <3>3. \A x \in Byte : x < 256
      BY <1>1 DEF Byte
    <3> QED
      BY <3>1, <3>2, <3>3
  <2>2. Len(r) = m
    <3>1. \A j \in 1 .. m : ~(b[j] >= 256)
      <4>1. \A j \in 1 .. m : b[j] \in Int
        BY <1>8
      <4> QED
        BY <2>1, <4>1
    <3> QED
      BY <1>11, <3>1
  <2>3. \A j \in 1 .. m : r[j] = a[j]
    BY <1>10, <2>1, <2>2
  <2> DEFINE q == SubSeq(a, 1, m)
  <2>4. q \in Seq(Int) /\ Len(q) = m /\ \A j \in 1 .. m : q[j] = a[j]
    BY <1>12, <2>1
  <2> HIDE DEF q
  <2>5. r = q
    BY <1>5, <2>2, <2>3, <2>4, SeqEqual
  <2> QED
    BY <2>1, <2>5 DEF q
<1> QED
  BY <1>14, <1>15, <1>16 DEF b, c

-----------------------------------------------------------------------------
(* Sequences, and what becomes of the top of the stack.                     *)
LEMMA AtTop ==
  ASSUME NEW F, NEW s \in Seq(F), s # << >>
  PROVE  Last(s) = s[Len(s)] /\ Last(s) \in F /\ Front(s) = SubSeq(s, 1, Len(s) - 1)
         /\ Len(s) \in Nat \ {0} /\ Len(s) \in 1 .. Len(s)
BY DEF Last, Front

LEMMA AnotherTop ==
  ASSUME NEW F, NEW s \in Seq(F), s # << >>, NEW f \in F
  PROVE  /\ Append(Front(s), f) \in Seq(F) /\ Len(Append(Front(s), f)) = Len(s)
         /\ \A j \in 1 .. Len(s) - 1 : Append(Front(s), f)[j] = s[j]
         /\ Append(Front(s), f)[Len(s)] = f
<1> DEFINE u == SubSeq(s, 1, Len(s) - 1)
<1>1. u \in Seq(F) /\ Len(u) = Len(s) - 1 /\ \A j \in 1 .. Len(s) - 1 : u[j] = s[j]
  <2>1. Len(s) - 1 \in 0 .. Len(s)
    OBVIOUS
  <2> QED
    BY <2>1, Beginning
<1> HIDE DEF u
<1>2. /\ Append(u, f) \in Seq(F) /\ Len(Append(u, f)) = Len(s)
      /\ \A j \in 1 .. Len(s) - 1 : Append(u, f)[j] = s[j]
      /\ Append(u, f)[Len(s)] = f
  BY <1>1
<1> QED
  BY <1>2 DEF Front, u

LEMMA TopOver ==
  ASSUME NEW F, NEW s \in Seq(F), s # << >>, NEW f \in F, NEW g \in F
  PROVE  /\ Front(s) \o <<f, g>> \in Seq(F) /\ Len(Front(s) \o <<f, g>>) = Len(s) + 1
         /\ \A j \in 1 .. Len(s) - 1 : (Front(s) \o <<f, g>>)[j] = s[j]
         /\ (Front(s) \o <<f, g>>)[Len(s)] = f /\ (Front(s) \o <<f, g>>)[Len(s) + 1] = g
<1> DEFINE u == SubSeq(s, 1, Len(s) - 1)
           v == <<f, g>>
<1>1. u \in Seq(F) /\ Len(u) = Len(s) - 1 /\ \A j \in 1 .. Len(s) - 1 : u[j] = s[j]
  <2>1. Len(s) - 1 \in 0 .. Len(s)
    OBVIOUS
  <2> QED
    BY <2>1, Beginning
<1>2. v \in Seq(F) /\ Len(v) = 2 /\ v[1] = f /\ v[2] = g
  OBVIOUS
<1> HIDE DEF u, v
<1>3. /\ u \o v \in Seq(F) /\ Len(u \o v) = Len(u) + Len(v)
      /\ \A j \in 1 .. Len(u) : (u \o v)[j] = u[j]
      /\ \A j \in 1 .. Len(v) : (u \o v)[Len(u) + j] = v[j]
  <2>1. u \in Seq(F) /\ v \in Seq(F)
    BY <1>1, <1>2
  <2> QED
    BY ONLY <2>1
<1>4. 1 \in 1 .. 2 /\ 2 \in 1 .. 2 /\ Len(s) - 1 + 1 = Len(s) /\ Len(s) - 1 + 2 = Len(s) + 1
  OBVIOUS
<1>5. /\ u \o v \in Seq(F) /\ Len(u \o v) = Len(s) + 1
      /\ \A j \in 1 .. Len(s) - 1 : (u \o v)[j] = s[j]
      /\ (u \o v)[Len(s)] = f /\ (u \o v)[Len(s) + 1] = g
  BY <1>1, <1>2, <1>3, <1>4
<1> QED
  BY <1>5 DEF Front, u, v

LEMMA TopOff ==
  ASSUME NEW F, NEW s \in Seq(F), Len(s) > 1, NEW f \in F
  PROVE  /\ Append(Front(Front(s)), f) \in Seq(F) /\ Len(Append(Front(Front(s)), f)) = Len(s) - 1
         /\ \A j \in 1 .. Len(s) - 2 : Append(Front(Front(s)), f)[j] = s[j]
         /\ Append(Front(Front(s)), f)[Len(s) - 1] = f
<1> DEFINE u == SubSeq(s, 1, Len(s) - 1)
           w == SubSeq(u, 1, Len(u) - 1)
<1>1. u \in Seq(F) /\ Len(u) = Len(s) - 1 /\ \A j \in 1 .. Len(s) - 1 : u[j] = s[j]
  <2>1. Len(s) - 1 \in 0 .. Len(s)
    OBVIOUS
  <2> QED
    BY <2>1, Beginning
<1>2. Front(s) = u
  BY DEF Front
<1> HIDE DEF u
<1>3. w \in Seq(F) /\ Len(w) = Len(s) - 2 /\ \A j \in 1 .. Len(s) - 2 : w[j] = s[j]
  <2>1. Len(u) - 1 \in 0 .. Len(u)
    BY <1>1
  <2>2. w \in Seq(F) /\ Len(w) = Len(u) - 1 /\ \A j \in 1 .. Len(u) - 1 : w[j] = u[j]
    BY <1>1, <2>1, Beginning
  <2> HIDE DEF w
  <2> QED
    BY <1>1, <2>2
<1>4. Front(Front(s)) = w
  BY <1>2 DEF Front
<1> HIDE DEF w
<1>5. /\ Append(w, f) \in Seq(F) /\ Len(Append(w, f)) = Len(s) - 1
      /\ \A j \in 1 .. Len(s) - 2 : Append(w, f)[j] = s[j]
      /\ Append(w, f)[Len(s) - 1] = f
  BY <1>3
<1> QED
  BY <1>4, <1>5

-----------------------------------------------------------------------------
(* The header of an element.                                                *)

(* A tag has one end. *)
LEMMA OneEnd ==
  ASSUME NEW d, NEW p, NEW n \in TagLengths(d, p)
  PROVE  /\ TagLengths(d, p) = {n}
         /\ Header(d, p) = [tag |-> SubSeq(d, p + 1, p + n), value |-> LengthEnd(d, p + n),
                            length |-> Number(LengthBytes(d, p + n))]
<1>1. ASSUME NEW i \in TagLengths(d, p), NEW j \in TagLengths(d, p), i < j PROVE FALSE
  <2>1. i \in Nat /\ j \in Nat /\ 1 <= i /\ TagEnds(d, p, i) /\ TagEnds(d, p, j)
    BY LimitAssumption DEF TagLengths
  <2>2. d[p + 1] % 32 = 31 /\ \A e \in 2 .. j - 1 : Bit(d[p + e], 7)
    BY <1>1, <2>1 DEF TagEnds
  <2>3. i # 1 /\ ~Bit(d[p + i], 7)
    BY <2>1, <2>2 DEF TagEnds
  <2>4. i \in 2 .. j - 1
    BY <1>1, <2>1, <2>3
  <2> QED
    BY <2>2, <2>3, <2>4
<1>2. TagLengths(d, p) = {n}
  <2>1. \A i \in TagLengths(d, p) : i \in Int
    BY LimitAssumption DEF TagLengths
  <2>2. \A i \in TagLengths(d, p) : ~(i < n) /\ ~(n < i)
    BY <1>1
  <2> QED
    BY <2>1, <2>2
<1>3. (CHOOSE i \in TagLengths(d, p) : TRUE) = n
  BY <1>2
<1> QED
  BY <1>2, <1>3 DEF Header

LEMMA HeaderTypes ==
  ASSUME NEW d \in Seq(Byte), NEW p \in Nat, HasHeader(d, p), NEW h, h = Header(d, p)
  PROVE  /\ h.tag \in Seq(Byte) /\ Len(h.tag) \in 1 .. MAX_TAG
         /\ h.value \in Nat /\ h.value <= Len(d) /\ h.length \in Nat
         /\ ValueAt(d, h) \in Seq(Byte)
<1>1. PICK n \in TagLengths(d, p) : /\ p + n < Len(d)
                                    /\ LengthEnd(d, p + n) <= Len(d)
  BY DEF HasHeader
<1> DEFINE q == p + n
<1>2. n \in 1 .. MAX_TAG /\ n \in Nat /\ q \in Nat /\ MAX_TAG \in Nat
  BY LimitAssumption DEF TagLengths
<1>3. /\ h.tag = SubSeq(d, p + 1, q) /\ h.value = LengthEnd(d, q)
      /\ h.length = Number(LengthBytes(d, q))
  BY OneEnd
<1>4. q + 1 \in 1 .. Len(d) /\ d[q + 1] \in Byte
  BY <1>1, <1>2, ElementOfSeq
<1>5. CountOf(d[q + 1]) \in Nat
  <2>1. \A x \in Nat : x % 128 \in Nat
    OBVIOUS
  <2> QED
    BY <1>4, <2>1, Bytewise DEF CountOf
<1>6. LengthEnd(d, q) \in Nat /\ LengthEnd(d, q) <= Len(d)
  BY <1>1, <1>2, <1>5 DEF LengthEnd
<1>7. LengthBytes(d, q) \in Seq(Byte)
  <2>1. CASE Bit(d[q + 1], 7)
    <3>1. q + 1 + CountOf(d[q + 1]) <= Len(d)
      BY <1>1, <2>1 DEF LengthEnd
    <3>2. \A i \in q + 2 .. q + 1 + CountOf(d[q + 1]) : d[i] \in Byte
      BY <1>2, <1>5, <3>1
    <3>3. SubSeq(d, q + 2, q + 1 + CountOf(d[q + 1])) \in Seq(Byte)
      <4>1. q + 2 \in Int /\ q + 1 + CountOf(d[q + 1]) \in Int
        BY <1>2, <1>5
      <4> HIDE DEF q
      <4> QED
        BY <3>2, <4>1, SubSeqProperties
    <3> QED
      BY <2>1, <3>3 DEF LengthBytes
  <2>2. CASE ~Bit(d[q + 1], 7)
    BY <1>4, <2>2 DEF LengthBytes
  <2> QED
    BY <2>1, <2>2
<1>8. Number(LengthBytes(d, q)) \in Nat
  BY <1>7, NumberIsNat
<1>9. SubSeq(d, p + 1, q) \in Seq(Byte) /\ Len(SubSeq(d, p + 1, q)) = n
  <2>1. \A i \in p + 1 .. q : d[i] \in Byte
    BY <1>1, <1>2
  <2>2. p + 1 \in Int /\ q \in Int /\ p + 1 <= q /\ q - (p + 1) + 1 = n
    BY <1>2
  <2> HIDE DEF q
  <2> QED
    BY <2>1, <2>2, SubSeqProperties
<1> HIDE DEF q
<1>10. ValueAt(d, h) \in Seq(Byte)
  <2> DEFINE e == IF h.value + h.length < Len(d) THEN h.value + h.length ELSE Len(d)
  <2>1. h.value \in Nat /\ e \in Nat /\ e <= Len(d)
    BY <1>3, <1>6, <1>8
  <2> HIDE DEF e
  <2>2. \A i \in h.value + 1 .. e : d[i] \in Byte
    BY <2>1
  <2>3. SubSeq(d, h.value + 1, e) \in Seq(Byte)
    <3>1. h.value + 1 \in Int /\ e \in Int
      BY <2>1
    <3> QED
      BY <2>2, <3>1, SubSeqProperties
  <2> QED
    BY <2>3 DEF ValueAt, e
<1> QED
  BY <1>2, <1>3, <1>6, <1>8, <1>9, <1>10

-----------------------------------------------------------------------------
(* Types.  N are the elements built so far: elements have tags that are     *)
(* bytes, and elements inside.  A constructor that is not the innermost     *)
(* waits for one more child.                                                *)
Branches(N) == \A n \in N : n.tag \in Seq(Byte) /\ n.children \in Seq(N)
Frames(N) == [tag : Seq(Byte), data : Seq(Byte), p : 0 .. POS - 1, children : Seq(N)]
Bounded(f, j, n) ==
  /\ Len(f.tag) \in (IF j = 1 THEN {0} ELSE 1 .. MAX_TAG)
  /\ Len(f.children) <= MAX_CHILDREN
  /\ j < n => Len(f.children) < MAX_CHILDREN
Stacked(N) ==
  /\ stack \in Seq(Frames(N))
  /\ \A j \in 1 .. Len(stack) : Bounded(stack[j], j, Len(stack))

TlvInv ==
  /\ outcome \in {"none", "parsing", "done", "throws"}
  /\ (stack = << >>) = (outcome = "none")
  /\ \E N : Branches(N) /\ Stacked(N)

LEMMA FrameIn ==
  ASSUME NEW N, NEW M, N \subseteq M, NEW f \in Frames(N)
  PROVE  f \in Frames(M)
<1>1. \A c \in Seq(N) : c \in Seq(M)
  BY SeqMonotonic
<1> QED
  BY <1>1 DEF Frames

(* A frame that is given one more child takes the place of the top, or of   *)
(* the two at the top; the child is then one of the elements that are built. *)
WithChild(f, q, c) ==
  [tag |-> f.tag, data |-> f.data, p |-> q, children |-> Append(f.children, c)]

LEMMA GivenChild ==
  ASSUME NEW N, NEW f \in Frames(N), NEW q, NEW c,
         NEW m, m = [tag |-> f.tag, data |-> f.data, p |-> q, children |-> f.children]
  PROVE  [m EXCEPT !.children = Append(@, c)] = WithChild(f, q, c)
<1> DEFINE t == f.tag
           d == f.data
           s == f.children
<1>1. m = [tag |-> t, data |-> d, p |-> q, children |-> s]
  OBVIOUS
<1> HIDE DEF t, d, s
<1>2. [m EXCEPT !.children = Append(@, c)] =
        [tag |-> t, data |-> d, p |-> q, children |-> Append(s, c)]
  BY <1>1, SMTT(30)
<1> QED
  BY <1>2 DEF WithChild, t, d, s

Grown(N, c) == N \union {c}

LEMMA ChildTyped ==
  ASSUME NEW N, Branches(N), NEW f \in Frames(N), NEW q \in 0 .. POS - 1,
         NEW c, c.tag \in Seq(Byte), c.children \in Seq(N), NEW M, M = Grown(N, c)
  PROVE  /\ Branches(M) /\ WithChild(f, q, c) \in Frames(M)
         /\ Len(WithChild(f, q, c).children) = Len(f.children) + 1
         /\ WithChild(f, q, c).tag = f.tag
<1>1. N \subseteq M /\ c \in M /\ M = N \union {c}
  BY DEF Grown
<1>2. \A s \in Seq(N) : s \in Seq(M)
  BY <1>1, SeqMonotonic
<1>3. Branches(M)
  <2> SUFFICES ASSUME NEW n \in M PROVE n.tag \in Seq(Byte) /\ n.children \in Seq(M)
    BY DEF Branches
  <2>1. CASE n \in N
    BY <1>2, <2>1 DEF Branches
  <2>2. CASE n = c
    BY <1>2, <2>2
  <2> QED
    BY <1>1, <2>1, <2>2
<1>4. f.children \in Seq(M) /\ f.tag \in Seq(Byte) /\ f.data \in Seq(Byte)
  BY <1>2 DEF Frames
<1>5. Append(f.children, c) \in Seq(M) /\ Len(Append(f.children, c)) = Len(f.children) + 1
  BY <1>1, <1>4, AppendProperties
<1> QED
  BY <1>3, <1>4, <1>5 DEF Frames, WithChild

LEMMA TlvElement == TlvInv /\ Element => TlvInv'
<1> SUFFICES ASSUME TlvInv, Element PROVE TlvInv'
  OBVIOUS
<1>1. PICK N : Branches(N) /\ Stacked(N)
  BY DEF TlvInv
<1>2. stack # << >> /\ stack \in Seq(Frames(N))
  BY <1>1 DEF TlvInv, Stacked, Element
<1> DEFINE n == Len(stack)
           h == Header(Top.data, Top.p)
           v == ValueAt(Top.data, h)
           q == After(h.value, h.length) % POS
           moved == [Top EXCEPT !.p = q]
<1>3. n \in Nat \ {0} /\ n \in 1 .. n /\ Top = stack[n] /\ Top \in Frames(N)
  BY <1>2, AtTop DEF Top
<1>4. /\ HasHeader(Top.data, Top.p) /\ Len(Top.children) < MAX_CHILDREN
      /\ outcome' = outcome /\ outcome = "parsing"
      /\ stack' = IF Raw(h.tag)
                  THEN Append(Front(stack),
                              [moved EXCEPT !.children = Append(@, Node(h.tag, v, << >>))])
                  ELSE Front(stack) \o <<moved, Frame(h.tag, v)>>
  BY DEF Element
<1>5. /\ Top.data \in Seq(Byte) /\ Top.p \in Nat /\ Top.tag \in Seq(Byte)
      /\ Top.children \in Seq(N)
      /\ Top = [tag |-> Top.tag, data |-> Top.data, p |-> Top.p, children |-> Top.children]
  BY <1>3 DEF Frames
<1>6. /\ h.tag \in Seq(Byte) /\ Len(h.tag) \in 1 .. MAX_TAG
      /\ h.value \in Nat /\ h.length \in Nat
      /\ v \in Seq(Byte)
  BY <1>4, <1>5, HeaderTypes
<1>7. q \in 0 .. POS - 1
  <2>1. \A x \in Nat, y \in Nat \ {0} : x % y \in 0 .. y - 1
    OBVIOUS
  <2>2. After(h.value, h.length) \in Nat /\ POS \in Nat \ {0}
    BY <1>6, WidthAssumption DEF After
  <2> QED
    BY <2>1, <2>2
<1> HIDE DEF h, v, q
<1>8. moved = [tag |-> Top.tag, data |-> Top.data, p |-> q, children |-> Top.children]
  BY <1>5
<1> HIDE DEF moved
<1>9. \A j \in 1 .. n : Bounded(stack[j], j, n)
  BY <1>1, <1>2 DEF Stacked
<1> HIDE DEF n
<1>10. outcome' = "parsing" /\ MAX_CHILDREN \in Nat /\ n \in Nat /\ n + 1 - 1 = n
  BY <1>3, <1>4, LimitAssumption
<1>11. CASE Raw(h.tag)
  <2> DEFINE c == Node(h.tag, v, << >>)
             g == WithChild(Top, q, c)
  <2>0. PICK M : M = Grown(N, c)
    OBVIOUS
  <2>1. stack' = Append(Front(stack), g)
    <3>1. [moved EXCEPT !.children = Append(@, c)] = g
      <4> HIDE DEF c
      <4> QED
        BY <1>3, <1>8, GivenChild
    <3>2. stack' = Append(Front(stack), [moved EXCEPT !.children = Append(@, c)])
      BY <1>4, <1>11
    <3> HIDE DEF g
    <3> QED
      BY <3>1, <3>2
  <2>2. /\ Branches(M) /\ g \in Frames(M) /\ Len(g.children) = Len(Top.children) + 1
        /\ g.tag = Top.tag
    <3>1. << >> \in Seq(N)
      OBVIOUS
    <3>2. c.tag \in Seq(Byte) /\ c.children \in Seq(N)
      BY <1>6, <3>1 DEF Node
    <3> HIDE DEF c
    <3> QED
      BY <1>1, <1>3, <1>7, <2>0, <3>2, ChildTyped
  <2>3. stack \in Seq(Frames(M))
    <3>1. Frames(N) \subseteq Frames(M)
      <4>1. N \subseteq M
        BY <2>0 DEF Grown
      <4> QED
        BY <4>1, FrameIn
    <3> QED
      BY <1>2, <3>1, SeqMonotonic
  <2> HIDE DEF g
  <2>4. /\ stack' \in Seq(Frames(M)) /\ Len(stack') = n
        /\ \A j \in 1 .. n - 1 : stack'[j] = stack[j]
        /\ stack'[n] = g
    BY <1>2, <2>1, <2>2, <2>3, AnotherTop DEF n
  <2>5. \A j \in 1 .. n : Bounded(stack'[j], j, n)
    <3> SUFFICES ASSUME NEW j \in 1 .. n PROVE Bounded(stack'[j], j, n)
      OBVIOUS
    <3>1. CASE j < n
      <4>1. stack'[j] = stack[j]
        BY <1>3, <2>4, <3>1
      <4> QED
        BY <1>9, <4>1
    <3>2. CASE j = n
      <4>1. Len(Top.children) \in Nat /\ Len(g.children) <= MAX_CHILDREN
        BY <1>4, <1>5, <1>10, <2>2
      <4>2. Bounded(Top, n, n)
        BY <1>3, <1>9
      <4>3. Bounded(g, n, n)
        BY <1>10, <2>2, <4>1, <4>2 DEF Bounded
      <4> QED
        BY <2>4, <3>2, <4>3
    <3> QED
      BY <1>3, <3>1, <3>2
  <2>6. Stacked(M)'
    BY <2>4, <2>5 DEF Stacked
  <2>7. stack' # << >>
    BY <1>3, <2>4
  <2> QED
    BY <1>10, <2>2, <2>6, <2>7 DEF TlvInv, Branches
<1>12. CASE ~Raw(h.tag)
  <2> DEFINE g == Frame(h.tag, v)
  <2>1. stack' = Front(stack) \o <<moved, g>>
    BY <1>4, <1>12
  <2>2. moved \in Frames(N) /\ moved.tag = Top.tag /\ moved.children = Top.children
    BY <1>5, <1>7, <1>8 DEF Frames
  <2>3. g \in Frames(N) /\ g.tag = h.tag /\ Len(g.children) = 0
    <3>1. 0 \in 0 .. POS - 1 /\ << >> \in Seq(N)
      BY WidthAssumption
    <3> QED
      BY <1>6, <3>1 DEF Frame, Frames
  <2> HIDE DEF g
  <2>4. /\ stack' \in Seq(Frames(N)) /\ Len(stack') = n + 1
        /\ \A j \in 1 .. n - 1 : stack'[j] = stack[j]
        /\ stack'[n] = moved /\ stack'[n + 1] = g
    BY <1>2, <2>1, <2>2, <2>3, TopOver DEF n
  <2>5. \A j \in 1 .. n + 1 : Bounded(stack'[j], j, n + 1)
    <3> SUFFICES ASSUME NEW j \in 1 .. n + 1 PROVE Bounded(stack'[j], j, n + 1)
      OBVIOUS
    <3>1. CASE j < n
      <4>1. stack'[j] = stack[j] /\ j \in 1 .. n
        BY <1>3, <2>4, <3>1
      <4>2. Bounded(stack[j], j, n)
        BY <1>9, <4>1
      <4>3. Bounded(stack[j], j, n + 1)
        BY <3>1, <4>2 DEF Bounded
      <4> QED
        BY <4>1, <4>3
    <3>2. CASE j = n
      <4>1. Bounded(Top, n, n)
        BY <1>3, <1>9
      <4>2. Bounded(moved, n, n + 1)
        BY <1>4, <2>2, <4>1 DEF Bounded
      <4> QED
        BY <2>4, <3>2, <4>2
    <3>3. CASE j = n + 1
      <4>1. n + 1 # 1 /\ ~(n + 1 < n + 1) /\ Len(g.children) <= MAX_CHILDREN
        BY <1>3, <1>10, <2>3
      <4>2. Bounded(g, n + 1, n + 1)
        BY <1>6, <2>3, <4>1 DEF Bounded
      <4> QED
        BY <2>4, <3>3, <4>2
    <3> QED
      BY <1>3, <3>1, <3>2, <3>3
  <2>6. Stacked(N)'
    BY <2>4, <2>5 DEF Stacked
  <2>7. stack' # << >>
    BY <1>3, <2>4
  <2> QED
    BY <1>1, <1>10, <2>6, <2>7 DEF TlvInv, Branches
<1> QED
  BY <1>11, <1>12

LEMMA TlvNoHeader == TlvInv /\ NoHeader => TlvInv'
<1> SUFFICES ASSUME TlvInv, NoHeader PROVE TlvInv'
  OBVIOUS
<1>1. PICK N : Branches(N) /\ Stacked(N)
  BY DEF TlvInv
<1>2. stack' = stack /\ outcome' = "throws" /\ stack # << >>
  BY DEF NoHeader, TlvInv
<1>3. Stacked(N)'
  BY <1>1, <1>2 DEF Stacked
<1> QED
  BY <1>1, <1>2, <1>3 DEF TlvInv, Branches

LEMMA TlvClose == TlvInv /\ Close => TlvInv'
<1> SUFFICES ASSUME TlvInv, Close PROVE TlvInv'
  OBVIOUS
<1>1. PICK N : Branches(N) /\ Stacked(N)
  BY DEF TlvInv
<1>2. stack # << >> /\ stack \in Seq(Frames(N))
  BY <1>1 DEF TlvInv, Stacked, Close
<1> DEFINE n == Len(stack)
           outer == stack[n - 1]
<1>3. n \in Nat \ {0} /\ n \in 1 .. n /\ Top = stack[n] /\ Top \in Frames(N)
  BY <1>2, AtTop DEF Top
<1>4. CASE n = 1
  <2>1. stack' = stack /\ outcome' = "done"
    BY <1>4 DEF Close
  <2>2. Stacked(N)'
    BY <1>1, <2>1 DEF Stacked
  <2> QED
    BY <1>1, <1>2, <2>1, <2>2 DEF TlvInv, Branches
<1>5. CASE n # 1
  <2> DEFINE c == Node(Top.tag, << >>, Top.children)
             g == WithChild(outer, outer.p, c)
  <2>0. PICK M : M = Grown(N, c)
    OBVIOUS
  <2>1. n - 1 \in 1 .. n /\ n - 1 < n /\ n > 1 /\ outer \in Frames(N)
    <3>1. n - 1 \in 1 .. n /\ n - 1 < n /\ n > 1
      <4> HIDE DEF n
      <4> QED
        BY <1>3, <1>5
    <3> QED
      BY <1>2, <3>1, ElementOfSeq
  <2>2. /\ outer = [tag |-> outer.tag, data |-> outer.data, p |-> outer.p,
                      children |-> outer.children]
        /\ outer.children \in Seq(N) /\ outer.p \in 0 .. POS - 1
        /\ Top.tag \in Seq(Byte) /\ Top.children \in Seq(N)
    <3> HIDE DEF outer
    <3> QED
      BY <1>3, <2>1 DEF Frames
  <2>3. stack' = Append(Front(Front(stack)), g) /\ outcome' = outcome /\ outcome = "parsing"
    <3>1. /\ stack' = Append(Front(Front(stack)), [outer EXCEPT !.children = Append(@, c)])
          /\ outcome' = outcome /\ outcome = "parsing"
      BY <1>5 DEF Close
    <3>2. [outer EXCEPT !.children = Append(@, c)] = g
      <4> HIDE DEF outer, c
      <4> QED
        BY <2>1, <2>2, GivenChild
    <3> HIDE DEF g, outer, c
    <3> QED
      BY <3>1, <3>2
  <2>4. /\ Branches(M) /\ g \in Frames(M) /\ Len(g.children) = Len(outer.children) + 1
        /\ g.tag = outer.tag
    <3>1. c.tag \in Seq(Byte) /\ c.children \in Seq(N)
      BY <2>2 DEF Node
    <3> HIDE DEF c, outer
    <3> QED
      BY <1>1, <2>0, <2>1, <2>2, <3>1, ChildTyped
  <2>5. stack \in Seq(Frames(M))
    <3>1. Frames(N) \subseteq Frames(M)
      <4>1. N \subseteq M
        BY <2>0 DEF Grown
      <4> QED
        BY <4>1, FrameIn
    <3> QED
      BY <1>2, <3>1, SeqMonotonic
  <2>6. \A j \in 1 .. n : Bounded(stack[j], j, n)
    BY <1>1 DEF Stacked
  <2> HIDE DEF g
  <2>7. /\ stack' \in Seq(Frames(M)) /\ Len(stack') = n - 1
        /\ \A j \in 1 .. n - 2 : stack'[j] = stack[j]
        /\ stack'[n - 1] = g
    BY <2>1, <2>3, <2>4, <2>5, TopOff
  <2> HIDE DEF outer
  <2>8. Bounded(outer, n - 1, n) /\ Len(outer.children) \in Nat
    BY <2>1, <2>2, <2>6 DEF outer
  <2> HIDE DEF n
  <2>9. \A j \in 1 .. n - 1 : Bounded(stack'[j], j, n - 1)
    <3> SUFFICES ASSUME NEW j \in 1 .. n - 1 PROVE Bounded(stack'[j], j, n - 1)
      OBVIOUS
    <3>1. CASE j < n - 1
      <4>1. stack'[j] = stack[j] /\ j \in 1 .. n /\ j < n
        BY <1>3, <2>7, <3>1
      <4>2. Bounded(stack[j], j, n)
        BY <2>6, <4>1
      <4>3. Bounded(stack[j], j, n - 1)
        BY <4>1, <4>2 DEF Bounded
      <4> QED
        BY <4>1, <4>3
    <3>2. CASE j = n - 1
      <4>1. Len(g.children) <= MAX_CHILDREN /\ ~(n - 1 < n - 1)
        BY <1>3, <2>1, <2>4, <2>8, LimitAssumption DEF Bounded
      <4>2. Bounded(g, n - 1, n - 1)
        BY <2>4, <2>8, <4>1 DEF Bounded
      <4> QED
        BY <2>7, <3>2, <4>2
    <3> QED
      BY <1>3, <3>1, <3>2
  <2>10. Stacked(M)'
    BY <2>7, <2>9 DEF Stacked
  <2>11. stack' # << >>
    BY <1>3, <2>1, <2>7
  <2> QED
    BY <2>3, <2>4, <2>10, <2>11 DEF TlvInv, Branches
<1> QED
  BY <1>4, <1>5

LEMMA TlvParse ==
  ASSUME NEW d \in Seq(Byte), Parse(d)
  PROVE  TlvInv'
<1>1. stack' = <<Frame(<< >>, d)>> /\ outcome' = "parsing"
  BY DEF Parse
<1> DEFINE g == Frame(<< >>, d)
<1>2. g \in Frames({}) /\ Len(g.tag) = 0 /\ Len(g.children) = 0
  <2>1. 0 \in 0 .. POS - 1 /\ << >> \in Seq({}) /\ << >> \in Seq(Byte)
    BY WidthAssumption
  <2> QED
    BY <2>1 DEF Frame, Frames
<1>3. Branches({})
  BY DEF Branches
<1> HIDE DEF g
<1>4. stack' \in Seq(Frames({})) /\ Len(stack') = 1 /\ stack'[1] = g
  BY <1>1, <1>2 DEF g
<1>5. Stacked({})'
  BY <1>2, <1>4, LimitAssumption DEF Stacked, Bounded
<1> QED
  BY <1>1, <1>3, <1>4, <1>5 DEF TlvInv, Branches

LEMMA TlvSame == TlvInv /\ UNCHANGED tlvVars => TlvInv'
<1> SUFFICES ASSUME TlvInv, UNCHANGED tlvVars PROVE TlvInv'
  OBVIOUS
<1>1. PICK N : Branches(N) /\ Stacked(N)
  BY DEF TlvInv
<1>2. stack' = stack /\ outcome' = outcome
  BY DEF tlvVars
<1>3. Stacked(N)'
  BY <1>1, <1>2 DEF Stacked
<1> QED
  BY <1>1, <1>2, <1>3 DEF TlvInv, Branches

(* What the constructor promises of types.                                  *)
LEMMA TlvTyped == TlvInv /\ wrapped \in BOOLEAN => TlvTypeOK
<1> SUFFICES ASSUME TlvInv, wrapped \in BOOLEAN PROVE TlvTypeOK
  OBVIOUS
<1>1. PICK N : Branches(N) /\ Stacked(N)
  BY DEF TlvInv
<1>2. ASSUME NEW j \in 1 .. Len(stack)
      PROVE  LET f == stack[j] IN
             /\ f.tag \in Seq(Byte) /\ Len(f.tag) \in (IF j = 1 THEN {0} ELSE 1 .. MAX_TAG)
             /\ f.data \in Seq(Byte)
             /\ f.p \in 0 .. POS - 1
             /\ Len(f.children) <= MAX_CHILDREN
  <2>1. stack[j] \in Frames(N)
    BY <1>1 DEF Stacked
  <2> QED
    BY <1>1, <2>1 DEF Stacked, Bounded, Frames
<1> QED
  BY <1>2 DEF TlvInv, TlvTypeOK

-----------------------------------------------------------------------------
WithTag(c, t) == {j \in 1 .. Len(c) : c[j].tag = t}

LEMMA FirstWith ==
  ASSUME NEW N, NEW c \in Seq(N), NEW t
  PROVE  /\ WithTag(c, t) = {} => find_by_tag(c, t) = << >>
         /\ WithTag(c, t) # {} =>
              /\ find_by_tag(c, t) = <<c[Min(WithTag(c, t))]>>
              /\ Min(WithTag(c, t)) \in WithTag(c, t)
              /\ \A j \in WithTag(c, t) : Min(WithTag(c, t)) <= j
<1>1. WithTag(c, t) \in SUBSET Nat /\ \A j \in WithTag(c, t) : j # 0
  BY DEF WithTag
<1>2. SelectInSeq(c, LAMBDA e : e.tag = t) = IF WithTag(c, t) # {} THEN Min(WithTag(c, t)) ELSE 0
  BY DEF SelectInSeq, WithTag
<1>3. WithTag(c, t) # {} => Min(WithTag(c, t)) \in WithTag(c, t)
      /\ \A j \in WithTag(c, t) : Min(WithTag(c, t)) <= j
  BY <1>1, MinIs
<1> QED
  BY <1>1, <1>2, <1>3 DEF find_by_tag

-----------------------------------------------------------------------------
(* Types of the probe.                                                      *)
LEMMA ListIs ==
  ASSUME NEW l \in Lists
  PROVE  /\ Len(l) \in Nat
         /\ \A j \in 1 .. Len(l) : l[j].aid \in Seq(Characters) /\ Len(l[j].aid) < 2 * BYTE
<1> DEFINE E == [bar : BOOLEAN, aid : {s \in Seq(Characters) : Len(s) < 2 * BYTE}]
<1>1. l \in Seq(E)
  BY ListAssumption
<1>2. \A e \in E : e.aid \in Seq(Characters) /\ Len(e.aid) < 2 * BYTE
  OBVIOUS
<1> HIDE DEF E
<1>3. Len(l) \in Nat /\ \A j \in 1 .. Len(l) : l[j] \in E
  BY <1>1
<1> QED
  BY <1>2, <1>3

LEMMA ShownTyped ==
  ASSUME NEW N, Branches(N), NEW c \in Seq(N)
  PROVE  Shown(c).tags \in Seq(Seq(Byte)) /\ Shown(c).what \in {"nothing", "no FCI", "FCI"}
<1>1. CASE Fci(c) = << >>
  BY <1>1 DEF Shown, NoFci
<1>2. CASE Fci(c) # << >>
  <2> DEFINE W == WithTag(c, TAG_EMV_FCI)
             s == c[Min(W)].children
  <2>1. W # {} /\ Fci(c) = <<c[Min(W)]>> /\ Min(W) \in W
    BY <1>2, FirstWith DEF Fci
  <2>2. s \in Seq(N)
    <3>1. Min(W) \in 1 .. Len(c)
      BY <2>1 DEF WithTag
    <3>2. c[Min(W)] \in N
      BY <3>1, ElementOfSeq
    <3> QED
      BY <3>2 DEF Branches
  <2>3. Shown(c) = [tags |-> TagsIn(s), what |-> "FCI"]
    <3>1. Fci(c)[1] = c[Min(W)]
      BY <2>1
    <3> HIDE DEF W
    <3> QED
      BY <1>2, <3>1 DEF Shown
  <2> HIDE DEF s
  <2>4. TagsIn(s) \in Seq(Seq(Byte))
    <3>1. \A j \in 1 .. Len(s) : s[j].tag \in Seq(Byte)
      <4>1. \A j \in 1 .. Len(s) : s[j] \in N
        BY <2>2, ElementOfSeq
      <4> QED
        BY <4>1 DEF Branches
    <3>2. Len(s) \in Nat
      BY <2>2
    <3> QED
      BY <3>1, <3>2 DEF TagsIn
  <2> QED
    BY <2>3, <2>4
<1> QED
  BY <1>1, <1>2

(* What the probe keeps besides the parser: where it is in its list.        *)
Places ==
  /\ selected \in DOMAIN card \union {<< >>}
  /\ pc \in {"next", "parse", "end", "failed"}
  /\ k \in 1 .. Len(KNOWN_APPLICATIONS) + 1
  /\ pc = "parse" => k <= Len(KNOWN_APPLICATIONS)
  /\ found \subseteq 1 .. k
Printed ==
  /\ printed.tags \in Seq(Seq(Byte))
  /\ printed.what \in {"nothing", "no FCI", "FCI"}
TypeInv ==
  /\ TlvInv /\ wrapped \in BOOLEAN
  /\ KNOWN_APPLICATIONS \in Lists /\ card \in Cards
  /\ Places /\ Printed

LEMMA ParseBoolean == wrapped \in BOOLEAN /\ TlvStep => wrapped' \in BOOLEAN
<1> SUFFICES ASSUME wrapped \in BOOLEAN, TlvStep PROVE wrapped' \in BOOLEAN
  OBVIOUS
<1>1. CASE Element
  <2> DEFINE h == Header(Top.data, Top.p)
  <2>1. wrapped' = (wrapped \/ After(h.value, h.length) >= POS)
    BY <1>1, Zenon DEF Element
  <2> QED
    BY <2>1, Zenon
<1>2. CASE NoHeader
  BY <1>2 DEF NoHeader
<1>3. CASE Close
  BY <1>3 DEF Close
<1> QED
  BY <1>1, <1>2, <1>3 DEF TlvStep

LEMMA TlvNext == TlvInv /\ TlvStep => TlvInv'
BY TlvElement, TlvNoHeader, TlvClose DEF TlvStep

LEMMA TypeInit == Init => TypeInv
<1> SUFFICES ASSUME Init PROVE TypeInv
  OBVIOUS
<1>1. TlvInv
  <2>1. stack = << >> /\ outcome = "none" /\ Len(stack) = 0
    BY DEF Init, TlvInit
  <2>2. Branches({}) /\ Stacked({})
    BY <2>1 DEF Branches, Stacked
  <2> QED
    BY <2>1, <2>2 DEF TlvInv
<1>2. Places
  <2>1. Len(KNOWN_APPLICATIONS) \in Nat /\ k = 1 /\ found = {} /\ pc = "next" /\ selected = << >>
    BY ListIs DEF Init
  <2> QED
    BY <2>1 DEF Places
<1>3. Printed
  BY DEF Init, Printed, Nothing
<1> QED
  BY <1>1, <1>2, <1>3 DEF TypeInv, Init, TlvInit

LEMMA TypeNext == TypeInv /\ [Next]_vars => TypeInv'
<1> SUFFICES ASSUME TypeInv, [Next]_vars PROVE TypeInv'
  OBVIOUS
<1> DEFINE n == Len(KNOWN_APPLICATIONS)
<1>1. n \in Nat /\ k \in 1 .. n + 1 /\ found \subseteq 1 .. k
  BY ListIs DEF TypeInv, Places
<1>2. KNOWN_APPLICATIONS' = KNOWN_APPLICATIONS /\ card' = card
  BY DEF Next, Step, Skip, BadEntry, Select, NotSelected, ParseStep, ParseThrows, Format, Finish,
         Lost, vars, cardVars
<1>3. ASSUME UNCHANGED <<selected, found>>, pc' \in {"next", "end", "failed"},
             k' = k \/ (k' = k + 1 /\ k <= n)
      PROVE  Places'
  <2> HIDE DEF n
  <2>1. k' \in 1 .. n + 1 /\ found' \subseteq 1 .. k'
    BY <1>1, <1>3
  <2>2. selected' \in DOMAIN card' \union {<< >>}
    BY <1>2, <1>3 DEF TypeInv, Places
  <2>3. pc' \in {"next", "parse", "end", "failed"} /\ pc' # "parse"
    BY <1>3
  <2> QED
    BY <1>2, <2>1, <2>2, <2>3 DEF Places, n
<1>4. ASSUME UNCHANGED <<tlvVars, printed>>, Places' PROVE TypeInv'
  <2>1. TlvInv'
    BY <1>4, TlvSame DEF TypeInv
  <2>2. wrapped' \in BOOLEAN
    BY <1>4 DEF TypeInv, tlvVars
  <2>3. Printed'
    BY <1>4 DEF TypeInv, Printed
  <2> QED
    BY <1>2, <1>4, <2>1, <2>2, <2>3 DEF TypeInv
<1>5. CASE Skip \/ BadEntry \/ NotSelected \/ ParseThrows \/ Finish \/ Lost
  <2>1. UNCHANGED <<tlvVars, printed, selected, found>>
    BY <1>5 DEF Skip, BadEntry, NotSelected, ParseThrows, Finish, Lost, cardVars
  <2>2. pc' \in {"next", "end", "failed"} /\ (k' = k \/ (k' = k + 1 /\ k <= n))
    BY <1>5 DEF Skip, BadEntry, NotSelected, ParseThrows, Finish, Lost, More, NextEntry
  <2>3. Places'
    BY <1>3, <2>1, <2>2
  <2> QED
    BY <1>4, <2>1, <2>3
<1>6. CASE Select
  <2>1. /\ k <= n /\ k' = k /\ pc' = "parse" /\ found' = found \union {k}
        /\ printed' = Nothing /\ Parse(card[selected'].bytes) /\ selected' \in DOMAIN card
    BY <1>6 DEF Select, More, Meant
  <2>2. TlvInv'
    <3>1. card[selected'].bytes \in Seq(Byte)
      BY <2>1, CardAssumption DEF TypeInv
    <3> QED
      BY <2>1, <3>1, TlvParse
  <2>3. wrapped' \in BOOLEAN
    BY <2>1 DEF Parse
  <2>4. Places'
    <3> HIDE DEF n
    <3>1. found' \subseteq 1 .. k' /\ k' \in 1 .. n + 1 /\ k' <= n
      BY <1>1, <2>1
    <3> QED
      BY <1>2, <2>1, <3>1 DEF Places, n
  <2>5. Printed'
    BY <2>1 DEF Printed, Nothing
  <2> QED
    BY <1>2, <2>2, <2>3, <2>4, <2>5 DEF TypeInv
<1>7. CASE ParseStep
  <2>1. TlvInv' /\ wrapped' \in BOOLEAN
    BY <1>7, TlvNext, ParseBoolean DEF ParseStep, TypeInv
  <2>2. Places' /\ Printed'
    BY <1>2, <1>7 DEF ParseStep, TypeInv, Places, Printed, cardVars
  <2> QED
    BY <1>2, <2>1, <2>2 DEF TypeInv
<1>8. CASE Format
  <2>1. /\ outcome = "done" /\ printed' = Shown(Children) /\ pc' = "next" /\ k' = k + 1 /\ k <= n
        /\ UNCHANGED <<tlvVars, selected, found>>
    BY <1>8 DEF Format, NextEntry, cardVars, TypeInv, Places
  <2>2. Places'
    BY <1>3, <2>1
  <2>3. TlvInv' /\ wrapped' \in BOOLEAN
    BY <2>1, TlvSame DEF TypeInv, tlvVars
  <2>4. PICK N : Branches(N) /\ Stacked(N)
    BY DEF TypeInv, TlvInv
  <2>5. Children \in Seq(N)
    <3>1. stack # << >> /\ stack \in Seq(Frames(N))
      BY <2>1, <2>4 DEF TypeInv, TlvInv, Stacked
    <3>2. 1 \in 1 .. Len(stack)
      BY <3>1
    <3>3. stack[1] \in Frames(N)
      BY <3>1, <3>2, ElementOfSeq
    <3> QED
      BY <3>3 DEF Children, Frames
  <2>6. Printed'
    BY <2>1, <2>4, <2>5, ShownTyped DEF Printed
  <2> QED
    BY <1>2, <2>2, <2>3, <2>6 DEF TypeInv
<1>9. CASE UNCHANGED vars
  <2>1. UNCHANGED <<tlvVars, printed>> /\ Places'
    BY <1>9 DEF vars, cardVars, TypeInv, Places
  <2> QED
    BY <1>4, <2>1
<1> QED
  BY <1>5, <1>6, <1>7, <1>8, <1>9 DEF Next, Step

LEMMA TypeRight == TypeInv => TypeOK
<1> SUFFICES ASSUME TypeInv PROVE TypeOK
  OBVIOUS
<1>1. TlvTypeOK
  BY TlvTyped DEF TypeInv
<1> QED
  BY <1>1 DEF TypeInv, Places, Printed, TypeOK

LEMMA Typed == Spec => []TypeInv
<1>1. TypeInv /\ [Next]_vars => TypeInv'
  BY TypeNext
<1> QED
  BY TypeInit, <1>1, PTL DEF Spec

(* Whatever an answer says of tags and lengths, the constructors under way  *)
(* hold bytes, a position of 16 bits and elements made of bytes, and what   *)
(* is shown are tags of bytes.                                              *)
THEOREM ProbeTypes == Spec => []TypeOK
BY Typed, TypeRight, PTL

-----------------------------------------------------------------------------
(* What the probe reports.                                                  *)
Named(j) == /\ KNOWN_APPLICATIONS[j].bar
            /\ \E a \in DOMAIN card : IsPrefix(Bytes(KNOWN_APPLICATIONS[j].aid), a)

(* Of the entries behind it the probe has found those that name an          *)
(* application, unless one was refused, and never another.                  *)
Reported ==
  /\ \A j \in found : j \in 1 .. Len(KNOWN_APPLICATIONS) /\ Named(j)
  /\ pc = "parse" => k \in found
  /\ ~refused => \A j \in 1 .. Len(KNOWN_APPLICATIONS) : (j < k /\ Named(j)) => j \in found
  /\ pc = "end" => k > Len(KNOWN_APPLICATIONS)

(* The card answers a SELECT with one of the applications it is for.        *)
LEMMA MeantIs ==
  ASSUME KNOWN_APPLICATIONS \in Lists, card \in Cards,
         NEW j \in 1 .. Len(KNOWN_APPLICATIONS), CanSelect(KNOWN_APPLICATIONS[j].aid),
         NEW a \in DOMAIN card
  PROVE  a \in Meant(select_app_apdu(KNOWN_APPLICATIONS[j].aid))
           <=> IsPrefix(Bytes(KNOWN_APPLICATIONS[j].aid), a)
<1> DEFINE aid == KNOWN_APPLICATIONS[j].aid
<1>1. aid \in Seq(Characters) /\ Len(aid) < 2 * BYTE
  BY ListIs
<1>2. a \in Seq(Byte) /\ Len(a) < BYTE
  BY CardAssumption
<1> HIDE DEF aid
<1>3. CanSelect(aid)
  BY DEF aid
<1>4. (\E n \in 0 .. Len(a) : select_app_apdu(aid) = <<0, 164, 4, 0, n>> \o SubSeq(a, 1, n))
        <=> IsPrefix(Bytes(aid), a)
  BY <1>1, <1>2, <1>3, NamedBy
<1> QED
  BY <1>4 DEF Meant, aid

LEMMA ReportedNext == TypeInv /\ Reported /\ [Next]_vars => Reported'
<1> SUFFICES ASSUME TypeInv, Reported, [Next]_vars PROVE Reported'
  OBVIOUS
<1> DEFINE n == Len(KNOWN_APPLICATIONS)
<1>1. n \in Nat /\ k \in 1 .. n + 1 /\ KNOWN_APPLICATIONS \in Lists /\ card \in Cards
  BY ListIs DEF TypeInv, Places
<1>2. KNOWN_APPLICATIONS' = KNOWN_APPLICATIONS /\ card' = card
  BY DEF Next, Step, Skip, BadEntry, Select, NotSelected, ParseStep, ParseThrows, Format, Finish,
         Lost, vars, cardVars
<1>3. \A j : Named(j)' <=> Named(j)
  BY <1>2 DEF Named
<1>4. /\ \A j \in found : j \in 1 .. n /\ Named(j)
      /\ pc = "parse" => k \in found
      /\ ~refused => \A j \in 1 .. n : (j < k /\ Named(j)) => j \in found
      /\ pc = "end" => k > n
  BY DEF Reported
<1>5. ASSUME /\ \A j \in found' : j \in 1 .. n /\ Named(j)
             /\ pc' = "parse" => k' \in found'
             /\ ~refused' => \A j \in 1 .. n : (j < k' /\ Named(j)) => j \in found'
             /\ pc' = "end" => k' > n
      PROVE  Reported'
  BY <1>2, <1>3, <1>5 DEF Reported
<1> HIDE DEF n
(* An entry is left behind: it names none, or is found, or was refused.     *)
<1>6. ASSUME k \in 1 .. n, k' = k + 1, found' = found, pc' = "next",
             ~refused' => ~refused /\ (Named(k) => k \in found)
      PROVE  Reported'
  <2>1. ASSUME ~refused', NEW j \in 1 .. n, j < k', Named(j) PROVE j \in found'
    <3>1. j < k \/ j = k
      BY <1>1, <1>6, <2>1
    <3> QED
      BY <1>4, <1>6, <2>1, <3>1
  <2> QED
    BY <1>4, <1>5, <1>6, <2>1
<1>7. CASE Skip
  <2>1. k \in 1 .. n /\ ~Named(k)
    BY <1>1, <1>7 DEF Skip, More, Entry, Named, n
  <2> QED
    BY <1>6, <1>7, <2>1 DEF Skip, NextEntry, cardVars
<1>8. CASE BadEntry \/ ParseThrows \/ Lost
  <2>1. UNCHANGED <<k, found, refused>> /\ pc' = "failed"
    BY <1>8 DEF BadEntry, ParseThrows, Lost, cardVars
  <2> QED
    BY <1>4, <1>5, <2>1
<1>9. CASE Select
  <2>1. /\ k \in 1 .. n /\ CanSelect(Entry.aid) /\ Entry.bar
        /\ selected' \in Meant(select_app_apdu(Entry.aid))
        /\ found' = found \union {k} /\ k' = k /\ refused' = refused /\ pc' = "parse"
    BY <1>1, <1>9 DEF Select, More, n
  <2>2. selected' \in DOMAIN card
    BY <2>1 DEF Meant
  <2>3. Named(k)
    BY <1>1, <2>1, <2>2, MeantIs DEF Named, Entry, n
  <2> QED
    BY <1>4, <1>5, <2>1, <2>3
<1>10. CASE NotSelected
  <2>1. /\ k \in 1 .. n /\ CanSelect(Entry.aid) /\ k' = k + 1 /\ found' = found /\ pc' = "next"
        /\ refused' = (refused \/ Meant(select_app_apdu(Entry.aid)) # {})
    BY <1>1, <1>10 DEF NotSelected, More, NextEntry, n
  <2>2. ~refused' => ~refused /\ Meant(select_app_apdu(Entry.aid)) = {}
    BY <2>1
  <2>3. Named(k) => Meant(select_app_apdu(Entry.aid)) # {}
    BY <1>1, <2>1, MeantIs DEF Named, Entry, n
  <2> QED
    BY <1>6, <2>1, <2>2, <2>3
<1>11. CASE ParseStep
  BY <1>4, <1>5, <1>11 DEF ParseStep, cardVars
<1>12. CASE Format
  <2>1. k \in 1 .. n /\ k \in found /\ pc = "parse"
    BY <1>4, <1>12 DEF Format
  <2> QED
    BY <1>6, <1>12, <2>1 DEF Format, NextEntry, cardVars
<1>13. CASE Finish
  BY <1>4, <1>5, <1>13 DEF Finish, cardVars, n
<1>14. CASE UNCHANGED vars
  BY <1>4, <1>5, <1>14 DEF vars, cardVars
<1> QED
  BY <1>7, <1>8, <1>9, <1>10, <1>11, <1>12, <1>13, <1>14 DEF Next, Step

LEMMA ReportedInit == Init => Reported
<1> SUFFICES ASSUME Init PROVE Reported
  OBVIOUS
<1>1. /\ found = {} /\ pc = "next" /\ k = 1 /\ Len(KNOWN_APPLICATIONS) \in Nat
  BY ListIs DEF Init
<1> QED
  BY <1>1 DEF Reported

LEMMA ReportedRight == TypeInv /\ Reported => ReportsTheCard
<1> SUFFICES ASSUME TypeInv, Reported, pc = "end" 
             PROVE  LET there == {j \in 1 .. Len(KNOWN_APPLICATIONS) : Named(j)} IN
                    /\ found \subseteq there
                    /\ ~refused => found = there
  BY DEF ReportsTheCard, Named
<1> DEFINE n == Len(KNOWN_APPLICATIONS)
<1>1. k > n /\ k \in Nat /\ n \in Nat
  BY ListIs DEF Reported, TypeInv, Places
<1>2. \A j \in found : j \in 1 .. n /\ Named(j)
  BY DEF Reported
<1>3. ASSUME ~refused, NEW j \in 1 .. n, Named(j) PROVE j \in found
  <2> HIDE DEF n
  <2>1. j < k
    BY <1>1
  <2> QED
    BY <1>3, <2>1 DEF Reported, n
<1> QED
  BY <1>2, <1>3

(* A probe that ends with nothing refused has reported the entries whose    *)
(* AID, read as bytes, the name of an application of the card begins with,  *)
(* and no others: whatever the list and the card, with spaces, odd numbers  *)
(* of digits and other characters among the AIDs.                           *)
THEOREM ProbeReports == Spec => []ReportsTheCard
<1>1. TypeInv /\ Reported /\ [Next]_vars => Reported'
  BY ReportedNext
<1>2. Spec => []Reported
  <2>1. Init => Reported
    BY ReportedInit
  <2> QED
    BY <1>1, <2>1, Typed, PTL DEF Spec
<1> QED
  BY <1>2, Typed, ReportedRight, PTL

-----------------------------------------------------------------------------
(* Bytes that are a tag, a length, a value and what follows. *)
SplitBytes(b, t, l, v, z) ==
  /\ Len(b) = Len(t) + Len(l) + Len(v) + Len(z)
  /\ \A i \in 1 .. Len(t) : b[i] = t[i]
  /\ \A i \in 1 .. Len(l) : b[Len(t) + i] = l[i]
  /\ \A i \in 1 .. Len(v) : b[Len(t) + Len(l) + i] = v[i]
  /\ \A i \in 1 .. Len(z) : b[Len(t) + Len(l) + Len(v) + i] = z[i]

LEMMA FourJoined ==
  ASSUME NEW T, NEW t \in Seq(T), NEW l \in Seq(T), NEW v \in Seq(T), NEW z \in Seq(T),
         NEW b, b = (t \o l) \o (v \o z)
  PROVE  SplitBytes(b, t, l, v, z)
<1> DEFINE u == t \o l
           w == v \o z
<1>1. /\ u \in Seq(T) /\ Len(u) = Len(t) + Len(l) /\ Len(t) \in Nat /\ Len(l) \in Nat
      /\ \A j \in 1 .. Len(t) : u[j] = t[j]
      /\ \A j \in 1 .. Len(l) : u[Len(t) + j] = l[j]
  BY Joined
<1>2. /\ w \in Seq(T) /\ Len(w) = Len(v) + Len(z) /\ Len(v) \in Nat /\ Len(z) \in Nat
      /\ \A j \in 1 .. Len(v) : w[j] = v[j]
      /\ \A j \in 1 .. Len(z) : w[Len(v) + j] = z[j]
  BY Joined
<1>3. b = u \o w
  OBVIOUS
<1> HIDE DEF u, w
<1>4. /\ Len(b) = Len(u) + Len(w)
      /\ \A j \in 1 .. Len(u) : b[j] = u[j]
      /\ \A j \in 1 .. Len(w) : b[Len(u) + j] = w[j]
  <2>1. u \in Seq(T) /\ w \in Seq(T)
    BY <1>1, <1>2
  <2>2. /\ Len(u \o w) = Len(u) + Len(w)
        /\ \A j \in 1 .. Len(u) : (u \o w)[j] = u[j]
        /\ \A j \in 1 .. Len(w) : (u \o w)[Len(u) + j] = w[j]
    BY ONLY <2>1, Joined
  <2> QED
    BY <1>3, <2>2, Zenon
<1> DEFINE m == Len(t)
           n == Len(l)
           p == Len(v)
           q == Len(z)
<1>5. m \in Nat /\ n \in Nat /\ p \in Nat /\ q \in Nat /\ Len(u) = m + n /\ Len(w) = p + q
  BY <1>1, <1>2
<1> HIDE DEF m, n, p, q
<1>6. ASSUME NEW i \in 1 .. m PROVE b[i] = t[i]
  <2>1. i \in 1 .. Len(u)
    BY <1>5
  <2> QED
    BY <1>1, <1>4, <2>1 DEF m
<1>7. ASSUME NEW i \in 1 .. n PROVE b[m + i] = l[i]
  <2>1. m + i \in 1 .. Len(u)
    BY <1>5
  <2> QED
    BY <1>1, <1>4, <2>1 DEF m, n
<1>8. ASSUME NEW i \in 1 .. p PROVE b[m + n + i] = v[i]
  <2>1. i \in 1 .. Len(w)
    BY <1>5
  <2>2. b[Len(u) + i] = w[i]
    BY <1>4, <2>1
  <2>3. w[i] = v[i]
    BY <1>2 DEF p
  <2> QED
    BY <1>5, <2>2, <2>3
<1>9. ASSUME NEW i \in 1 .. q PROVE b[m + n + p + i] = z[i]
  <2>1. p + i \in 1 .. Len(w) /\ Len(u) + (p + i) = m + n + p + i
    BY <1>5
  <2>2. b[Len(u) + (p + i)] = w[p + i]
    BY <1>4, <2>1
  <2>3. w[p + i] = z[i]
    BY <1>2 DEF p, q
  <2> QED
    BY <2>1, <2>2, <2>3
<1>10. Len(b) = m + n + p + q
  BY <1>4, <1>5
<1> QED
  BY <1>6, <1>7, <1>8, <1>9, <1>10 DEF SplitBytes, m, n, p, q

LEMMA EncodingIs ==
  ASSUME NEW x \in Encodings
  PROVE  /\ x.bytes \in Seq(Byte) /\ Len(x.bytes) \in Nat /\ Len(x.bytes) < POS
         /\ x.elements \in Seq(Elements) /\ Len(x.elements) \in Nat
         /\ x.elements = << >> => x.bytes = << >>
BY EncodingAssumption

(* x is the encoding of an element, its tag t, its length l and its value   *)
(* v, and then that of z.                                                   *)
Inside(e, t, v) ==
  IF Bit(t[1], 5) THEN \E i \in Encodings : e = Node(t, << >>, i.elements) /\ v = i.bytes
  ELSE e = Node(t, v, << >>)
Splits(x, t, l, v, z) ==
  /\ TagForm(t) /\ l \in Seq(Byte) /\ Len(l) >= 1 /\ v \in Seq(Byte)
  /\ LengthForm(l, Len(v))
  /\ SplitBytes(x.bytes, t, l, v, z.bytes)
  /\ Len(x.elements) = 1 + Len(z.elements)
  /\ \A i \in 1 .. Len(z.elements) : x.elements[i + 1] = z.elements[i]
  /\ Inside(x.elements[1], t, v)

LEMMA BeginsSplits ==
  ASSUME NEW x \in Encodings, x.elements # << >>, NEW n, n = x.elements[1], TagForm(n.tag),
         NEW v \in Seq(Byte), Begins(x, n, v), Inside(n, n.tag, v)
  PROVE  \E l : \E z \in Encodings : Splits(x, n.tag, l, v, z)
<1>1. PICK z \in Encodings :
        /\ x.elements = <<n>> \o z.elements
        /\ \E i \in Len(n.tag) + 1 .. Len(x.bytes) :
             LET l == SubSeq(x.bytes, Len(n.tag) + 1, i) IN
             /\ LengthForm(l, Len(v))
             /\ x.bytes = (n.tag \o l) \o (v \o z.bytes)
  BY ZenonT(30) DEF Begins
<1>2. PICK i \in Len(n.tag) + 1 .. Len(x.bytes) :
             LET l == SubSeq(x.bytes, Len(n.tag) + 1, i) IN
             /\ LengthForm(l, Len(v))
             /\ x.bytes = (n.tag \o l) \o (v \o z.bytes)
  BY <1>1, ZenonT(30)
<1> DEFINE t == n.tag
           l == SubSeq(x.bytes, Len(t) + 1, i)
<1>3. LengthForm(l, Len(v)) /\ x.bytes = (t \o l) \o (v \o z.bytes)
  BY <1>2
<1>4. t \in Seq(Byte) /\ Len(t) \in Nat /\ x.bytes \in Seq(Byte) /\ z.bytes \in Seq(Byte)
  BY EncodingIs DEF TagForm
<1>5. l \in Seq(Byte) /\ Len(l) >= 1
  <2> DEFINE m == Len(t)
             b == x.bytes
  <2>1. m \in Nat /\ i \in m + 1 .. Len(b) /\ b \in Seq(Byte) /\ l = SubSeq(b, m + 1, i)
    BY <1>4
  <2> HIDE DEF m, b, l
  <2>2. \A j \in m + 1 .. i : b[j] \in Byte
    BY <2>1
  <2>3. l \in Seq(Byte) /\ Len(l) = i - (m + 1) + 1
    <3>1. m + 1 \in Int /\ i \in Int /\ m + 1 <= i
      BY <2>1
    <3> QED
      BY <2>1, <2>2, <3>1, SubSeqProperties
  <2> QED
    BY <2>1, <2>3
<1> HIDE DEF l
<1>6. SplitBytes(x.bytes, t, l, v, z.bytes)
  <2> HIDE DEF t
  <2> QED
    BY <1>3, <1>4, <1>5, FourJoined
<1>7. /\ Len(x.elements) = 1 + Len(z.elements)
      /\ \A j \in 1 .. Len(z.elements) : x.elements[j + 1] = z.elements[j]
  <2>1. z.elements \in Seq(Elements) /\ x.elements \in Seq(Elements)
    BY EncodingIs
  <2>2. n \in Elements
    <3>1. 1 \in 1 .. Len(x.elements)
      BY <2>1
    <3> QED
      BY <2>1, <3>1, ElementOfSeq
  <2> QED
    BY <1>1, <2>1, <2>2, OneBefore
<1>8. Splits(x, t, l, v, z)
  BY <1>3, <1>5, <1>6, <1>7 DEF Splits
<1> QED
  BY <1>8, SMTT(30)

LEMMA FirstElement ==
  ASSUME NEW x \in Encodings, x.elements # << >>
  PROVE  \E t, l, v : \E z \in Encodings : Splits(x, t, l, v, z)
<1> DEFINE n == x.elements[1]
<1>1. /\ TagForm(n.tag)
      /\ IF Bit(n.tag[1], 5)
         THEN \E inside \in Encodings :
                n = Node(n.tag, << >>, inside.elements) /\ Begins(x, n, inside.bytes)
         ELSE n = Node(n.tag, n.data, << >>) /\ n.data \in Seq(Byte) /\ Begins(x, n, n.data)
  BY EncodingAssumption
<1> HIDE DEF n
<1>2. CASE Bit(n.tag[1], 5)
  <2>1. PICK inside \in Encodings :
          n = Node(n.tag, << >>, inside.elements) /\ Begins(x, n, inside.bytes)
    BY <1>1, <1>2
  <2>2. inside.bytes \in Seq(Byte)
    BY EncodingIs
  <2>3. Inside(n, n.tag, inside.bytes)
    BY <1>2, <2>1 DEF Inside
  <2> QED
    BY <1>1, <2>1, <2>2, <2>3, BeginsSplits DEF n
<1>3. CASE ~Bit(n.tag[1], 5)
  <2>1. Inside(n, n.tag, n.data)
    BY <1>1, <1>3 DEF Inside
  <2> QED
    BY <1>1, <1>3, <2>1, BeginsSplits DEF n
<1> QED
  BY <1>2, <1>3

LEMMA TagFormIs ==
  ASSUME NEW t, TagForm(t)
  PROVE  /\ t \in Seq(Byte) /\ Len(t) \in Nat /\ Len(t) \in 1 .. MAX_TAG
         /\ t[1] % 32 = 31 => Len(t) > 1
         /\ Len(t) > 1 => t[1] % 32 = 31
         /\ \A i \in 2 .. Len(t) : i < Len(t) => Bit(t[i], 7)
         /\ \A i \in 2 .. Len(t) : ~(i < Len(t)) => ~Bit(t[i], 7)
BY DEF TagForm, Bit

LEMMA NumberOfOne ==
  ASSUME NEW n \in Byte
  PROVE  Number(<<n>>) = n
<1> DEFINE s == <<n>>
           Eq(g) == g = [i \in 0 .. Len(s) |-> IF i = 0 THEN 0 ELSE g[i - 1] * BYTE + s[i]]
           h == [i \in 0 .. 1 |-> IF i = 0 THEN 0 ELSE n]
           read == CHOOSE g : Eq(g)
<1>0. Len(s) = 1 /\ s[1] = n /\ n \in Nat /\ BYTE \in Nat
  BY Bytewise
<1>1. Eq(h)
  <2>1. \A i \in 0 .. 1 : i = 0 \/ i = 1
    OBVIOUS
  <2>2. h[0] = 0
    OBVIOUS
  <2>3. \A i \in 0 .. 1 : (IF i = 0 THEN 0 ELSE n) = (IF i = 0 THEN 0 ELSE h[i - 1] * BYTE + s[i])
    <3> HIDE DEF h, s
    <3>1. h[1 - 1] * BYTE + s[1] = n
      BY <1>0, <2>2
    <3> QED
      BY <2>1, <3>1
  <2> QED
    BY <1>0, <2>3
<1>2. Eq(read)
  <2>1. \E g : Eq(g)
    <3> HIDE DEF Eq, h
    <3> QED
      BY <1>1, Zenon
  <2> QED
    BY <2>1, Zenon
<1>3. Number(s) = read[Len(s)]
  BY Zenon DEF Number
<1>4. read[0] = 0 /\ read[1] = read[1 - 1] * BYTE + s[1]
  <2> DEFINE gg == [i \in 0 .. Len(s) |-> IF i = 0 THEN 0 ELSE read[i - 1] * BYTE + s[i]]
  <2>1. read = gg
    BY <1>2, Zenon
  <2> HIDE DEF read, s
  <2>2. gg[0] = 0 /\ gg[1] = read[1 - 1] * BYTE + s[1]
    BY <1>0
  <2> HIDE DEF gg
  <2> QED
    BY <2>1, <2>2
<1> HIDE DEF read, s
<1>5. read[1] = n
  BY <1>0, <1>4
<1> QED
  BY <1>0, <1>3, <1>5 DEF s

(* Where d has the beginning of a tag and a length, the header is read as   *)
(* it is written, if there is enough of it to be read at all.               *)
LEMMA HeaderReads ==
  ASSUME NEW d \in Seq(Byte), NEW p \in Nat, HasHeader(d, p),
         NEW t, TagForm(t), NEW l \in Seq(Byte), Len(l) >= 1, NEW n \in Nat, LengthForm(l, n),
         \A i \in 1 .. Len(t) : p + i <= Len(d) => d[p + i] = t[i],
         \A i \in 1 .. Len(l) : p + Len(t) + i <= Len(d) => d[p + Len(t) + i] = l[i]
  PROVE  /\ p + Len(t) + Len(l) <= Len(d)
         /\ Header(d, p) = [tag |-> t, value |-> p + Len(t) + Len(l), length |-> n]
<1>1. PICK e \in TagLengths(d, p) : /\ p + e < Len(d)
                                    /\ LengthEnd(d, p + e) <= Len(d)
  BY DEF HasHeader
<1>2. /\ e \in 1 .. MAX_TAG /\ MAX_TAG \in Nat /\ e \in Nat /\ TagEnds(d, p, e)
  BY LimitAssumption DEF TagLengths
<1>3. /\ t \in Seq(Byte) /\ Len(t) \in Nat /\ Len(t) >= 1
      /\ t[1] % 32 = 31 => Len(t) > 1
      /\ Len(t) > 1 => t[1] % 32 = 31
      /\ \A i \in 2 .. Len(t) : i < Len(t) => Bit(t[i], 7)
      /\ \A i \in 2 .. Len(t) : ~(i < Len(t)) => ~Bit(t[i], 7)
  BY TagFormIs
<1>4. Len(d) \in Nat /\ Len(l) \in Nat
  OBVIOUS
<1> DEFINE m == Len(t)
<1>5. \A i \in 1 .. e : i <= m => d[p + i] = t[i]
  BY <1>1, <1>2, <1>3, <1>4
<1>6. d[p + 1] = t[1]
  <2>1. 1 \in 1 .. e /\ 1 <= m
    BY <1>2, <1>3
  <2> QED
    BY <1>5, <2>1
<1>7. e = m
  <2>1. CASE e = 1
    <3>1. ~(t[1] % 32 = 31)
      BY <1>2, <1>6, <2>1 DEF TagEnds
    <3>2. ~(m > 1)
      BY <1>3, <3>1
    <3>3. m \in Nat /\ m >= 1
      BY <1>3
    <3> HIDE DEF m
    <3> QED
      BY <2>1, <3>2, <3>3
  <2>2. CASE e # 1
    <3>1. /\ t[1] % 32 = 31 /\ ~Bit(d[p + e], 7)
          /\ \A i \in 2 .. e - 1 : Bit(d[p + i], 7)
      BY <1>2, <1>6, <2>2 DEF TagEnds
    <3>2. m > 1
      BY <1>3, <3>1
    <3>3. ~(e < m)
      <4> SUFFICES ASSUME e < m PROVE FALSE
        OBVIOUS
      <4>1. e \in 2 .. m /\ e \in 1 .. e /\ e <= m
        BY <1>2, <1>3, <2>2
      <4>2. d[p + e] = t[e] /\ Bit(t[e], 7)
        BY <1>3, <1>5, <4>1
      <4> QED
        BY <3>1, <4>2
    <3>4. ~(m < e)
      <4> SUFFICES ASSUME m < e PROVE FALSE
        OBVIOUS
      <4>1. m \in 2 .. m /\ m \in 1 .. e /\ m <= m /\ m \in 2 .. e - 1 /\ ~(m < m)
        BY <1>2, <1>3, <3>2
      <4>2. d[p + m] = t[m] /\ ~Bit(t[m], 7)
        BY <1>3, <1>5, <4>1
      <4> QED
        BY <3>1, <4>1, <4>2
    <3> QED
      BY <1>2, <1>3, <3>3, <3>4
  <2> QED
    BY <2>1, <2>2
<1> DEFINE q == p + e
<1>8. /\ Header(d, p) = [tag |-> SubSeq(d, p + 1, q), value |-> LengthEnd(d, q),
                         length |-> Number(LengthBytes(d, q))]
  BY OneEnd
<1>9. SubSeq(d, p + 1, q) = t
  <2> DEFINE s == SubSeq(d, p + 1, q)
  <2>1. \A i \in p + 1 .. q : d[i] \in Byte
    BY <1>1, <1>2
  <2>2. p + 1 \in Int /\ q \in Int /\ p + 1 <= q /\ q - (p + 1) + 1 = m
    BY <1>2, <1>7
  <2>3. s \in Seq(Byte) /\ Len(s) = m /\ \A i \in 1 .. m : s[i] = d[p + 1 + i - 1]
    <3> HIDE DEF q, m
    <3> QED
      BY <2>1, <2>2, SubSeqProperties
  <2> HIDE DEF s
  <2>4. \A i \in 1 .. m : p + 1 + i - 1 = p + i
    BY <1>3
  <2>5. \A i \in 1 .. m : s[i] = t[i]
    BY <1>5, <1>7, <2>3, <2>4
  <2>6. s = t
    BY <1>3, <2>3, <2>5, SeqEqual
  <2> QED
    BY <2>6 DEF s
<1>10. q \in Nat /\ q < Len(d) /\ q = p + Len(t) /\ LengthEnd(d, q) <= Len(d)
  BY <1>1, <1>2, <1>7
<1> HIDE DEF q, m
<1>11. \A i \in 1 .. Len(l) : q + i <= Len(d) => d[q + i] = l[i]
  BY <1>10
<1>12. d[q + 1] = l[1] /\ l[1] \in Byte
  <2>1. 1 \in 1 .. Len(l) /\ q + 1 <= Len(d)
    BY <1>4, <1>10
  <2> QED
    BY <1>11, <2>1, ElementOfSeq
<1>13. CASE ~Bit(l[1], 7)
  <2>1. l = <<n>>
    BY <1>13 DEF LengthForm
  <2>2. Len(l) = 1 /\ l[1] = n
    BY <2>1
  <2>3. LengthEnd(d, q) = q + 1 /\ LengthBytes(d, q) = <<n>>
    BY <1>12, <1>13, <2>2 DEF LengthEnd, LengthBytes
  <2>4. Number(<<n>>) = n
    BY <1>12, <2>2, NumberOfOne
  <2>5. q + 1 = p + Len(t) + Len(l) /\ q + 1 <= Len(d)
    BY <1>4, <1>10, <2>2
  <2> QED
    BY <1>8, <1>9, <2>3, <2>4, <2>5
<1>14. CASE Bit(l[1], 7)
  <2> DEFINE c == CountOf(l[1])
  <2>1. c = Len(l) - 1 /\ Len(l) - 1 \in 1 .. MAX_LENGTH /\ Number(Tail(l)) = n
    BY <1>14 DEF LengthForm
  <2>2. LengthEnd(d, q) = q + 1 + c /\ LengthBytes(d, q) = SubSeq(d, q + 2, q + 1 + c)
    BY <1>12, <1>14 DEF LengthEnd, LengthBytes
  <2> HIDE DEF c
  <2>3. q + 1 + c = p + Len(t) + Len(l) /\ q + 1 + c <= Len(d) /\ c \in Nat /\ c >= 1
    BY <1>4, <1>10, <2>1, <2>2
  <2> DEFINE s == SubSeq(d, q + 2, q + 1 + c)
  <2>4. s \in Seq(Byte) /\ Len(s) = c /\ \A i \in 1 .. c : s[i] = d[q + 2 + i - 1]
    <3>1. \A i \in q + 2 .. q + 1 + c : d[i] \in Byte
      BY <1>10, <2>3
    <3> DEFINE x == q + 2
               y == q + 1 + c
    <3>2. x \in Int /\ y \in Int /\ x <= y /\ y - x + 1 = c
      BY <1>10, <2>3
    <3>3. s = SubSeq(d, x, y)
      OBVIOUS
    <3> HIDE DEF s, x, y
    <3>4. \A i \in x .. y : d[i] \in Byte
      BY <3>1 DEF x, y
    <3>5. s \in Seq(Byte) /\ Len(s) = c /\ \A i \in 1 .. c : s[i] = d[x + i - 1]
      BY <3>2, <3>3, <3>4, SubSeqProperties
    <3> QED
      BY <3>5 DEF x
  <2>5. /\ Tail(l) \in Seq(Byte) /\ Len(Tail(l)) = c
        /\ \A i \in 1 .. c : Tail(l)[i] = l[i + 1]
    <3>1. l # << >>
      BY <2>1, <1>4
    <3>2. /\ Tail(l) \in Seq(Byte) /\ Len(Tail(l)) = Len(l) - 1
          /\ \A i \in 1 .. Len(Tail(l)) : Tail(l)[i] = l[i + 1]
      BY <3>1, HeadTailProperties
    <3> QED
      BY <2>1, <3>2
  <2> HIDE DEF s
  <2>6. ASSUME NEW i \in 1 .. c PROVE s[i] = Tail(l)[i]
    <3>1. q + 2 + i - 1 = q + (i + 1) /\ i + 1 \in 1 .. Len(l) /\ q + (i + 1) <= Len(d)
      BY <1>4, <1>10, <2>1, <2>3
    <3>2. s[i] = d[q + (i + 1)]
      BY <2>4, <3>1
    <3>3. d[q + (i + 1)] = l[i + 1]
      BY <1>11, <3>1
    <3> QED
      BY <2>5, <3>2, <3>3
  <2>7. s = Tail(l)
    BY <2>4, <2>5, <2>6, SeqEqual
  <2>8. Number(LengthBytes(d, q)) = n
    BY <2>1, <2>2, <2>7 DEF s
  <2> QED
    BY <1>8, <1>9, <2>2, <2>3, <2>8
<1> QED
  BY <1>13, <1>14

(* A sequence is the beginning of another one.                              *)
Starts(u, v) == Len(u) <= Len(v) /\ \A i \in 1 .. Len(u) : u[i] = v[i]

LEMMA ValueReads ==
  ASSUME NEW d \in Seq(Byte), NEW v \in Seq(Byte), NEW h, h.value \in Nat, h.value <= Len(d),
         h.length = Len(v), \A i \in 1 .. Len(v) : h.value + i <= Len(d) => d[h.value + i] = v[i]
  PROVE  /\ ValueAt(d, h) \in Seq(Byte) /\ Starts(ValueAt(d, h), v)
         /\ h.value + h.length <= Len(d) => ValueAt(d, h) = v
<1> DEFINE s == h.value
           e == IF s + h.length < Len(d) THEN s + h.length ELSE Len(d)
           u == SubSeq(d, s + 1, e)
<1>1. s \in Nat /\ s <= Len(d) /\ h.length = Len(v) /\ Len(v) \in Nat /\ Len(d) \in Nat
  OBVIOUS
<1>2. ValueAt(d, h) = u
  BY DEF ValueAt
<1>3. \A i \in 1 .. Len(v) : s + i <= Len(d) => d[s + i] = v[i]
  OBVIOUS
<1> HIDE DEF s
<1>4. e \in Nat /\ s <= e /\ e <= Len(d) /\ e - s <= Len(v)
      /\ (s + h.length <= Len(d) => e - s = Len(v))
  <2> DEFINE c == Len(v)
             n == Len(d)
  <2>1. e = IF s + c < n THEN s + c ELSE n
    BY <1>1
  <2>2. s \in Nat /\ c \in Nat /\ n \in Nat /\ s <= n /\ h.length = c
    BY <1>1
  <2> HIDE DEF c, n, e
  <2>3. e \in Nat /\ s <= e /\ e <= n /\ e - s <= c /\ (s + c <= n => e - s = c)
    BY <2>1, <2>2
  <2> QED
    BY <2>2, <2>3 DEF c, n
<1> HIDE DEF e, u
<1>5. u \in Seq(Byte) /\ Len(u) = e - s /\ \A i \in 1 .. e - s : u[i] = d[s + i]
  <2> DEFINE x == s + 1
  <2>1. x \in Int /\ e \in Int /\ (x <= e => e - x + 1 = e - s) /\ (~(x <= e) => e - s = 0)
        /\ e - x + 1 = e - s
    BY <1>1, <1>4
  <2>2. \A i \in x .. e : d[i] \in Byte
    BY <1>1, <1>4
  <2>3. \A i \in Nat : x + i - 1 = s + i
    BY <1>1
  <2> HIDE DEF x
  <2>4. /\ SubSeq(d, x, e) \in Seq(Byte)
        /\ Len(SubSeq(d, x, e)) = IF x <= e THEN e - x + 1 ELSE 0
        /\ \A i \in 1 .. e - x + 1 : SubSeq(d, x, e)[i] = d[x + i - 1]
    BY <2>1, <2>2, SubSeqProperties
  <2>5. u = SubSeq(d, x, e)
    BY DEF u, x
  <2>6. u \in Seq(Byte) /\ Len(u) = e - s
    BY <2>1, <2>4, <2>5
  <2>7. \A i \in 1 .. e - s : u[i] = d[x + i - 1]
    BY <2>1, <2>4, <2>5
  <2> QED
    BY <2>3, <2>6, <2>7, SMTT(30)
<1>6. Starts(u, v)
  <2>1. \A i \in 1 .. e - s : i \in 1 .. Len(v) /\ s + i <= Len(d)
    BY <1>1, <1>4
  <2>2. \A i \in 1 .. e - s : u[i] = v[i]
    BY <1>3, <1>5, <2>1
  <2> QED
    BY <1>4, <1>5, <2>2 DEF Starts
<1>7. ASSUME s + h.length <= Len(d) PROVE u = v
  <2>1. Len(u) = Len(v)
    BY <1>4, <1>5, <1>7
  <2> QED
    BY <1>5, <1>6, <2>1, SeqEqual DEF Starts
<1> QED
  BY <1>2, <1>5, <1>6, <1>7 DEF s

(* After p bytes of x, and m of its elements, there is y.                   *)
Remains(x, y, p, m) ==
  /\ Len(x.bytes) = p + Len(y.bytes)
  /\ \A i \in 1 .. Len(y.bytes) : x.bytes[p + i] = y.bytes[i]
  /\ Len(x.elements) = m + Len(y.elements)
  /\ \A i \in 1 .. Len(y.elements) : x.elements[m + i] = y.elements[i]

LEMMA RemainsAll == \A x \in Encodings : Remains(x, x, 0, 0)
BY EncodingIs DEF Remains

LEMMA RemainsNext ==
  ASSUME NEW x \in Encodings, NEW y \in Encodings, NEW z \in Encodings,
         NEW p \in Nat, NEW m \in Nat,
         Remains(x, y, p, m), NEW t, NEW l, NEW v, Splits(y, t, l, v, z)
  PROVE  /\ Remains(x, z, p + Len(t) + Len(l) + Len(v), m + 1)
         /\ m + 1 <= Len(x.elements) /\ x.elements[m + 1] = y.elements[1]
         /\ \A i \in 1 .. Len(t) : p + i <= Len(x.bytes) /\ x.bytes[p + i] = t[i]
         /\ \A i \in 1 .. Len(l) : p + Len(t) + i <= Len(x.bytes) /\ x.bytes[p + Len(t) + i] = l[i]
         /\ \A i \in 1 .. Len(v) : /\ p + Len(t) + Len(l) + i <= Len(x.bytes)
                                  /\ x.bytes[p + Len(t) + Len(l) + i] = v[i]
<1> DEFINE X == x.bytes
           Y == y.bytes
           Z == z.bytes
           a == Len(t)
           b == Len(l)
           c == Len(v)
           E == x.elements
           F == y.elements
           G == z.elements
<1>1. /\ a \in Nat /\ b \in Nat /\ c \in Nat /\ Len(X) \in Nat /\ Len(Y) \in Nat /\ Len(Z) \in Nat
      /\ Len(E) \in Nat /\ Len(F) \in Nat /\ Len(G) \in Nat
  BY EncodingIs DEF Splits, TagForm
<1>2. /\ Len(X) = p + Len(Y) /\ \A i \in 1 .. Len(Y) : X[p + i] = Y[i]
      /\ Len(E) = m + Len(F) /\ \A i \in 1 .. Len(F) : E[m + i] = F[i]
  BY DEF Remains
<1>3. /\ Len(Y) = a + b + c + Len(Z)
      /\ \A i \in 1 .. a : Y[i] = t[i]
      /\ \A i \in 1 .. b : Y[a + i] = l[i]
      /\ \A i \in 1 .. c : Y[a + b + i] = v[i]
      /\ \A i \in 1 .. Len(Z) : Y[a + b + c + i] = Z[i]
      /\ Len(F) = 1 + Len(G)
      /\ \A i \in 1 .. Len(G) : F[i + 1] = G[i]
  BY DEF Splits, SplitBytes
<1> HIDE DEF X, Y, Z, E, F, G, a, b, c
<1>0. /\ Len(X) = p + Len(Y) /\ Len(Y) = a + b + c + Len(Z)
      /\ Len(E) = m + Len(F) /\ Len(F) = 1 + Len(G)
  BY ONLY <1>2, <1>3
<1>4. ASSUME NEW i \in 1 .. a PROVE p + i <= Len(X) /\ X[p + i] = t[i]
  <2>1. i \in 1 .. Len(Y) /\ p + i <= Len(X)
    BY <1>0, <1>1
  <2>2. X[p + i] = Y[i]
    BY <1>2, <2>1
  <2> QED
    BY <1>3, <2>1, <2>2
<1>5. ASSUME NEW i \in 1 .. b PROVE p + a + i <= Len(X) /\ X[p + a + i] = l[i]
  <2>1. a + i \in 1 .. Len(Y) /\ p + a + i <= Len(X) /\ p + (a + i) = p + a + i
    BY <1>0, <1>1
  <2>2. X[p + (a + i)] = Y[a + i]
    BY <1>2, <2>1
  <2> QED
    BY <1>3, <2>1, <2>2
<1>6. ASSUME NEW i \in 1 .. c PROVE p + a + b + i <= Len(X) /\ X[p + a + b + i] = v[i]
  <2>1. a + b + i \in 1 .. Len(Y) /\ p + a + b + i <= Len(X) /\ p + (a + b + i) = p + a + b + i
    BY <1>0, <1>1
  <2>2. X[p + (a + b + i)] = Y[a + b + i]
    BY <1>2, <2>1
  <2> QED
    BY <1>3, <2>1, <2>2
<1>7. ASSUME NEW i \in 1 .. Len(Z) PROVE X[p + a + b + c + i] = Z[i]
  <2>1. a + b + c + i \in 1 .. Len(Y) /\ p + (a + b + c + i) = p + a + b + c + i
    BY <1>0, <1>1
  <2>2. X[p + (a + b + c + i)] = Y[a + b + c + i]
    BY <1>2, <2>1
  <2> QED
    BY <1>3, <2>1, <2>2
<1>8. ASSUME NEW i \in 1 .. Len(G) PROVE E[m + 1 + i] = G[i]
  <2>1. i + 1 \in 1 .. Len(F) /\ m + (i + 1) = m + 1 + i
    BY <1>0, <1>1
  <2>2. E[m + (i + 1)] = F[i + 1]
    BY <1>2, <2>1
  <2> QED
    BY <1>3, <2>1, <2>2
<1>9. 1 \in 1 .. Len(F) /\ m + 1 <= Len(E) /\ Len(E) = m + 1 + Len(G)
      /\ Len(X) = p + a + b + c + Len(Z)
  BY <1>0, <1>1
<1>10. E[m + 1] = F[1]
  BY <1>2, <1>9
<1>11. Remains(x, z, p + a + b + c, m + 1)
  BY <1>7, <1>8, <1>9 DEF Remains, X, Z, E, G
<1> QED
  BY <1>4, <1>5, <1>6, <1>9, <1>10, <1>11 DEF X, E, F, a, b, c

(* A turn of the loop reads the element that comes next, or the beginning   *)
(* of it, and no position goes past the largest one.                        *)
LEMMA ElementReads ==
  ASSUME NEW d \in Seq(Byte), NEW p \in Nat, p < Len(d), HasHeader(d, p),
         NEW x \in Encodings, NEW y \in Encodings, NEW m \in Nat, Remains(x, y, p, m),
         Starts(d, x.bytes), NEW h, h = Header(d, p)
  PROVE  \E v \in Seq(Byte) : \E z \in Encodings : \E e \in Nat :
           /\ TagForm(h.tag) /\ m + 1 <= Len(x.elements) /\ Inside(x.elements[m + 1], h.tag, v)
           /\ Starts(ValueAt(d, h), v) /\ (e <= Len(d) => ValueAt(d, h) = v)
           /\ After(h.value, h.length) = e /\ e % POS = e
           /\ Remains(x, z, e, m + 1)
<1> DEFINE X == x.bytes
<1>1. /\ X \in Seq(Byte) /\ Len(X) \in Nat /\ Len(X) < POS /\ POS \in Nat \ {0}
      /\ Len(d) \in Nat /\ Len(d) <= Len(X) /\ \A i \in 1 .. Len(d) : d[i] = X[i]
  BY EncodingIs, WidthAssumption DEF Starts
<1>2. y.elements # << >>
  <2> SUFFICES ASSUME y.elements = << >> PROVE FALSE
    OBVIOUS
  <2>1. y.bytes = << >>
    BY EncodingIs
  <2>2. Len(X) = p + Len(y.bytes) /\ Len(y.bytes) = 0
    BY <2>1 DEF Remains
  <2> HIDE DEF X
  <2> QED
    BY <1>1, <2>2
<1>3. PICK t, l, v : \E z \in Encodings : Splits(y, t, l, v, z)
  BY <1>2, FirstElement
<1>4. PICK z \in Encodings : Splits(y, t, l, v, z)
  BY <1>3
<1> DEFINE a == Len(t)
           b == Len(l)
           c == Len(v)
           s == p + a + b
           e == s + c
<1>5. /\ TagForm(t) /\ a \in Nat /\ l \in Seq(Byte) /\ b \in Nat /\ b >= 1 /\ v \in Seq(Byte)
         /\ c \in Nat
      /\ LengthForm(l, c) /\ Inside(y.elements[1], t, v)
  BY <1>4, TagFormIs DEF Splits
<1>6. /\ Remains(x, z, e, m + 1)
      /\ m + 1 <= Len(x.elements) /\ x.elements[m + 1] = y.elements[1]
      /\ \A i \in 1 .. a : p + i <= Len(X) /\ X[p + i] = t[i]
      /\ \A i \in 1 .. b : p + a + i <= Len(X) /\ X[p + a + i] = l[i]
      /\ \A i \in 1 .. c : s + i <= Len(X) /\ X[s + i] = v[i]
  BY <1>4, RemainsNext
<1>7. s \in Nat /\ e \in Nat
  BY <1>5
<1> HIDE DEF X, a, b, c
<1>8. \A i \in 1 .. a : p + i <= Len(d) => d[p + i] = t[i]
  BY <1>1, <1>5, <1>6
<1>9. \A i \in 1 .. b : p + a + i <= Len(d) => d[p + a + i] = l[i]
  BY <1>1, <1>5, <1>6
<1>10. \A i \in 1 .. c : s + i <= Len(d) => d[s + i] = v[i]
  <2> HIDE DEF s
  <2> SUFFICES ASSUME NEW i \in 1 .. c, s + i <= Len(d) PROVE d[s + i] = v[i]
    OBVIOUS
  <2>1. s + i \in 1 .. Len(d)
    BY <1>1, <1>5, <1>7
  <2> QED
    BY <1>1, <1>6, <2>1
<1>11. s <= Len(d) /\ h = [tag |-> t, value |-> s, length |-> c]
  <2> HIDE DEF s, e
  <2>1. /\ p + Len(t) + Len(l) <= Len(d)
        /\ Header(d, p) = [tag |-> t, value |-> p + Len(t) + Len(l), length |-> c]
    BY <1>5, <1>8, <1>9, HeaderReads DEF a, b
  <2> QED
    BY <2>1 DEF s, a, b
<1>12. h.tag = t /\ h.value = s /\ h.length = c
  BY <1>11
<1> HIDE DEF s
<1>13. /\ Starts(ValueAt(d, h), v)
       /\ s + c <= Len(d) => ValueAt(d, h) = v
  BY <1>5, <1>7, <1>10, <1>11, <1>12, ValueReads DEF c
<1>14. After(h.value, h.length) = e
  BY <1>12 DEF After
<1>15. e % POS = e
  <2>1. e < POS
    <3>1. Len(X) = e + Len(z.bytes) /\ Len(z.bytes) \in Nat
      BY <1>6, EncodingIs DEF Remains, X
    <3> HIDE DEF e
    <3> QED
      BY <1>1, <1>7, <3>1
  <2>2. \A i, n \in Nat : (n # 0 /\ i < n) => i % n = i
    OBVIOUS
  <2> HIDE DEF e
  <2> QED
    BY <1>1, <1>7, <2>1, <2>2
<1> QED
  BY <1>5, <1>6, <1>7, <1>12, <1>13, <1>14, <1>15

-----------------------------------------------------------------------------
(* What a constructor has read of the encoding it has the beginning of:     *)
(* the children are the first elements of it, and the last child may be     *)
(* short of some bytes once the data have ended.                            *)
Shorter(c, e) ==
  /\ c.tag = e.tag /\ Len(c.children) <= Len(e.children)
  /\ \A i \in 1 .. Len(c.children) : c.children[i].tag = e.children[i].tag

HasRead(f, x) ==
  /\ Len(f.children) <= Len(x.elements)
  /\ \A i \in 1 .. Len(f.children) :
       /\ Shorter(f.children[i], x.elements[i])
       /\ (i < Len(f.children) \/ f.p <= Len(f.data)) => f.children[i] = x.elements[i]
  /\ \E y \in Encodings : Remains(x, y, f.p, Len(f.children))

(* The next element is under way: g has the beginning of u, which is what   *)
(* is inside of it.                                                         *)
Waiting(f, x, g, u) ==
  /\ Len(f.children) + 1 <= Len(x.elements)
  /\ \A i \in 1 .. Len(f.children) :
       Shorter(f.children[i], x.elements[i]) /\ f.children[i] = x.elements[i]
  /\ x.elements[Len(f.children) + 1] = Node(g.tag, << >>, u.elements)
  /\ f.p <= Len(f.data) => g.data = u.bytes
  /\ \E y \in Encodings : Remains(x, y, f.p, Len(f.children) + 1)

LEMMA Appended ==
  ASSUME NEW N, NEW s \in Seq(N), NEW c
  PROVE  /\ Len(Append(s, c)) = Len(s) + 1 /\ Len(s) \in Nat
         /\ \A i \in 1 .. Len(s) : Append(s, c)[i] = s[i]
         /\ Append(s, c)[Len(s) + 1] = c
OBVIOUS

(* A child is added to the others. *)
LEMMA ChildRead ==
  ASSUME NEW N, NEW f \in Frames(N), NEW x \in Encodings, NEW q \in Nat, NEW c,
         Len(f.children) + 1 <= Len(x.elements),
         \A i \in 1 .. Len(f.children) :
           Shorter(f.children[i], x.elements[i]) /\ f.children[i] = x.elements[i],
         Shorter(c, x.elements[Len(f.children) + 1]),
         q <= Len(f.data) => c = x.elements[Len(f.children) + 1],
         NEW y \in Encodings, Remains(x, y, q, Len(f.children) + 1)
  PROVE  HasRead(WithChild(f, q, c), x)
<1> DEFINE s == f.children
           m == Len(s)
           g == WithChild(f, q, c)
<1>1. s \in Seq(N)
  BY DEF Frames
<1>2. g.p = q /\ g.data = f.data /\ g.children = Append(s, c)
  BY DEF WithChild
<1> HIDE DEF g
<1>3. /\ Len(g.children) = m + 1 /\ m \in Nat
      /\ \A i \in 1 .. m : g.children[i] = s[i]
      /\ g.children[m + 1] = c
  BY <1>1, <1>2, Appended
<1>4. ASSUME NEW i \in 1 .. m + 1
      PROVE  /\ Shorter(g.children[i], x.elements[i])
             /\ (i < m + 1 \/ q <= Len(f.data)) => g.children[i] = x.elements[i]
  <2>1. CASE i \in 1 .. m
    BY <1>3, <2>1
  <2>2. CASE i = m + 1
    BY <1>3, <2>2
  <2> HIDE DEF m
  <2> QED
    BY <1>3, <2>1, <2>2
<1> HIDE DEF m
<1>5. /\ m + 1 <= Len(x.elements) /\ Remains(x, y, q, m + 1)
  BY DEF m
<1>6. Len(g.children) <= Len(x.elements) /\ Remains(x, y, g.p, Len(g.children))
  BY <1>2, <1>3, <1>5
<1>7. ASSUME NEW i \in 1 .. Len(g.children)
      PROVE  /\ Shorter(g.children[i], x.elements[i])
             /\ (i < Len(g.children) \/ g.p <= Len(g.data)) => g.children[i] = x.elements[i]
  BY <1>2, <1>3, <1>4
<1>8. HasRead(g, x)
  BY <1>6, <1>7 DEF HasRead
<1> QED
  BY <1>8 DEF g

LEMMA ReadsNext ==
  ASSUME NEW N, Branches(N), NEW f \in Frames(N), NEW x \in Encodings, HasRead(f, x),
         Starts(f.data, x.bytes), f.p < Len(f.data), HasHeader(f.data, f.p),
         NEW h, h = Header(f.data, f.p), NEW q, q = After(h.value, h.length) % POS
  PROVE  \E v \in Seq(Byte) : \E z \in Encodings :
           /\ TagForm(h.tag) /\ Len(f.children) + 1 <= Len(x.elements)
           /\ Inside(x.elements[Len(f.children) + 1], h.tag, v)
           /\ Starts(ValueAt(f.data, h), v) /\ (q <= Len(f.data) => ValueAt(f.data, h) = v)
           /\ q \in Nat
           /\ \A i \in 1 .. Len(f.children) :
                Shorter(f.children[i], x.elements[i]) /\ f.children[i] = x.elements[i]
           /\ Remains(x, z, q, Len(f.children) + 1)
<1>1. f.data \in Seq(Byte) /\ f.p \in Nat /\ f.children \in Seq(N)
  BY DEF Frames
<1>2. Len(f.children) \in Nat /\ f.p <= Len(f.data)
  BY <1>1
<1>3. PICK y \in Encodings : Remains(x, y, f.p, Len(f.children))
  BY DEF HasRead
<1>4. PICK v \in Seq(Byte), z \in Encodings, e \in Nat :
           /\ TagForm(h.tag) /\ Len(f.children) + 1 <= Len(x.elements)
           /\ Inside(x.elements[Len(f.children) + 1], h.tag, v)
           /\ Starts(ValueAt(f.data, h), v) /\ (e <= Len(f.data) => ValueAt(f.data, h) = v)
           /\ After(h.value, h.length) = e /\ e % POS = e
           /\ Remains(x, z, e, Len(f.children) + 1)
  <2> DEFINE d == f.data
             p == f.p
             m == Len(f.children)
  <2>1. /\ d \in Seq(Byte) /\ p \in Nat /\ p < Len(d) /\ HasHeader(d, p) /\ m \in Nat
        /\ Remains(x, y, p, m) /\ Starts(d, x.bytes) /\ h = Header(d, p)
    BY <1>1, <1>2, <1>3
  <2> HIDE DEF d, p, m
  <2>2. \E v \in Seq(Byte) : \E z \in Encodings : \E e \in Nat :
           /\ TagForm(h.tag) /\ m + 1 <= Len(x.elements) /\ Inside(x.elements[m + 1], h.tag, v)
           /\ Starts(ValueAt(d, h), v) /\ (e <= Len(d) => ValueAt(d, h) = v)
           /\ After(h.value, h.length) = e /\ e % POS = e
           /\ Remains(x, z, e, m + 1)
    BY <2>1, ElementReads
  <2> QED
    BY <2>2 DEF d, m
<1>5. q = e
  BY <1>4
<1>6. \A i \in 1 .. Len(f.children) :
        Shorter(f.children[i], x.elements[i]) /\ f.children[i] = x.elements[i]
  BY <1>2 DEF HasRead
<1> QED
  BY <1>4, <1>5, <1>6

(* A primitive element is read. *)
LEMMA ReadsPrimitive ==
  ASSUME NEW N, Branches(N), NEW f \in Frames(N), NEW x \in Encodings, HasRead(f, x),
         Starts(f.data, x.bytes), f.p < Len(f.data), HasHeader(f.data, f.p),
         NEW h, h = Header(f.data, f.p), NEW q, q = After(h.value, h.length) % POS, Raw(h.tag)
  PROVE  HasRead(WithChild(f, q, Node(h.tag, ValueAt(f.data, h), << >>)), x)
<1> DEFINE u == ValueAt(f.data, h)
           m == Len(f.children)
           c == Node(h.tag, u, << >>)
<1>1. PICK v \in Seq(Byte), z \in Encodings :
           /\ TagForm(h.tag) /\ m + 1 <= Len(x.elements)
           /\ Inside(x.elements[m + 1], h.tag, v)
           /\ Starts(u, v) /\ (q <= Len(f.data) => u = v)
           /\ q \in Nat
           /\ \A i \in 1 .. m :
                Shorter(f.children[i], x.elements[i]) /\ f.children[i] = x.elements[i]
           /\ Remains(x, z, q, m + 1)
  BY ReadsNext
<1> HIDE DEF u
<1>2. x.elements[m + 1] = Node(h.tag, v, << >>)
  BY <1>1 DEF Inside, Raw
<1>3. Shorter(c, x.elements[m + 1])
  BY <1>2 DEF Shorter, Node
<1>4. q <= Len(f.data) => c = x.elements[m + 1]
  BY <1>1, <1>2
<1> HIDE DEF c
<1>5. HasRead(WithChild(f, q, c), x)
  BY <1>1, <1>3, <1>4, ChildRead
<1> QED
  BY <1>5 DEF c, u

(* A constructed one is begun: f then waits, and has its position moved.    *)
LEMMA ReadsConstructed ==
  ASSUME NEW N, Branches(N), NEW f \in Frames(N), NEW x \in Encodings, HasRead(f, x),
         Starts(f.data, x.bytes), f.p < Len(f.data), HasHeader(f.data, f.p),
         NEW h, h = Header(f.data, f.p), NEW q, q = After(h.value, h.length) % POS, ~Raw(h.tag),
         NEW r, r = [tag |-> f.tag, data |-> f.data, p |-> q, children |-> f.children]
  PROVE  \E u \in Encodings :
           /\ Waiting(r, x, Frame(h.tag, ValueAt(f.data, h)), u)
           /\ Starts(ValueAt(f.data, h), u.bytes)
           /\ HasRead(Frame(h.tag, ValueAt(f.data, h)), u)
<1> DEFINE s == ValueAt(f.data, h)
           m == Len(f.children)
           g == Frame(h.tag, s)
<1>1. PICK v \in Seq(Byte), z \in Encodings :
           /\ TagForm(h.tag) /\ m + 1 <= Len(x.elements)
           /\ Inside(x.elements[m + 1], h.tag, v)
           /\ Starts(s, v) /\ (q <= Len(f.data) => s = v)
           /\ q \in Nat
           /\ \A i \in 1 .. m :
                Shorter(f.children[i], x.elements[i]) /\ f.children[i] = x.elements[i]
           /\ Remains(x, z, q, m + 1)
  BY ReadsNext
<1> HIDE DEF s
<1>2. Bit(h.tag[1], 5)
  <2>1. h.tag # << >>
    BY <1>1 DEF TagForm
  <2> QED
    BY <2>1 DEF Raw
<1>3. PICK u \in Encodings : x.elements[m + 1] = Node(h.tag, << >>, u.elements) /\ v = u.bytes
  BY <1>1, <1>2 DEF Inside
<1>4. /\ g.tag = h.tag /\ g.data = s /\ g.p = 0 /\ g.children = << >>
      /\ r.data = f.data /\ r.p = q /\ r.children = f.children
  BY DEF Frame
<1> HIDE DEF g
<1>5. Waiting(r, x, g, u)
  <2> HIDE DEF m
  <2>1. Len(r.children) = m /\ r.children = f.children
    BY <1>4 DEF m
  <2>2. /\ Len(r.children) + 1 <= Len(x.elements)
        /\ x.elements[Len(r.children) + 1] = Node(g.tag, << >>, u.elements)
        /\ r.p <= Len(r.data) => g.data = u.bytes
    BY <1>1, <1>3, <1>4, <2>1
  <2>3. \A i \in 1 .. Len(r.children) :
          Shorter(r.children[i], x.elements[i]) /\ r.children[i] = x.elements[i]
    BY <1>1, <2>1
  <2>4. Remains(x, z, r.p, Len(r.children) + 1)
    BY <1>1, <1>4, <2>1
  <2> QED
    BY <2>2, <2>3, <2>4 DEF Waiting
<1>6. HasRead(g, u)
  <2>1. Len(g.children) = 0 /\ g.p = 0 /\ Len(u.elements) \in Nat
    BY <1>4, EncodingIs
  <2>2. Remains(u, u, g.p, Len(g.children))
    BY <2>1, RemainsAll
  <2> QED
    BY <2>1, <2>2 DEF HasRead
<1>7. Starts(s, u.bytes)
  BY <1>1, <1>3
<1> QED
  BY <1>5, <1>6, <1>7 DEF g, s

(* All of an encoding is read: its elements are the children. *)
LEMMA ReadsAll ==
  ASSUME NEW N, NEW f \in Frames(N), NEW x \in Encodings, HasRead(f, x),
         f.data = x.bytes, f.p >= Len(f.data)
  PROVE  f.children = x.elements
<1> DEFINE s == f.children
           e == x.elements
<1>1. f.p \in Nat /\ s \in Seq(N)
  BY DEF Frames
<1>2. PICK y \in Encodings : Remains(x, y, f.p, Len(s))
  BY DEF HasRead
<1>3. /\ Len(x.bytes) = f.p + Len(y.bytes) /\ Len(e) = Len(s) + Len(y.elements)
      /\ Len(y.bytes) \in Nat /\ Len(x.bytes) \in Nat
  BY <1>2, EncodingIs DEF Remains
<1>4. y.bytes = << >> /\ f.p = Len(x.bytes)
  <2>1. Len(y.bytes) = 0 /\ f.p = Len(x.bytes)
    BY <1>1, <1>3
  <2>2. y.bytes \in Seq(Byte)
    BY EncodingIs
  <2> QED
    BY <2>1, <2>2
<1>5. y.elements = << >>
  <2> SUFFICES ASSUME y.elements # << >> PROVE FALSE
    OBVIOUS
  <2>1. PICK t, l, v : \E z \in Encodings : Splits(y, t, l, v, z)
    BY FirstElement
  <2>2. PICK z \in Encodings : Splits(y, t, l, v, z)
    BY <2>1
  <2>3. /\ Len(y.bytes) = Len(t) + Len(l) + Len(v) + Len(z.bytes)
        /\ Len(l) >= 1 /\ Len(t) \in Nat /\ Len(l) \in Nat /\ Len(v) \in Nat /\ Len(z.bytes) \in Nat
    BY <2>2, EncodingIs, TagFormIs DEF Splits, SplitBytes
  <2>4. Len(y.bytes) = 0
    BY <1>4
  <2>5. \A a, b, c, n \in Nat : b >= 1 => a + b + c + n # 0
    OBVIOUS
  <2>6. Len(t) + Len(l) + Len(v) + Len(z.bytes) # 0
    BY <2>3, <2>5
  <2> QED
    BY <2>3, <2>4, <2>6, Zenon
<1>6. Len(e) = Len(s)
  <2>1. Len(y.elements) = 0 /\ Len(s) \in Nat
    BY <1>1, <1>5
  <2> QED
    BY <1>3, <2>1
<1>7. \A i \in 1 .. Len(s) : s[i] = e[i]
  <2>1. f.p <= Len(f.data)
    BY <1>3, <1>4
  <2> QED
    BY <2>1 DEF HasRead
<1>8. s \in Seq(N \union Elements) /\ e \in Seq(N \union Elements)
  <2>1. e \in Seq(Elements)
    BY EncodingIs
  <2>2. N \subseteq N \union Elements /\ Elements \subseteq N \union Elements
    OBVIOUS
  <2> HIDE DEF s, e
  <2> QED
    BY <1>1, <2>1, <2>2, SeqMonotonic
<1> HIDE DEF s, e
<1>9. s = e
  BY <1>6, <1>7, <1>8, SeqEqual
<1> QED
  BY <1>9 DEF s, e

(* The inner constructor has come to its end, and the outer one goes on.    *)
LEMMA ReadsOn ==
  ASSUME NEW N, NEW f \in Frames(N), NEW x \in Encodings, NEW g \in Frames(N), NEW u \in Encodings,
         Waiting(f, x, g, u), HasRead(g, u), g.p >= Len(g.data)
  PROVE  HasRead(WithChild(f, f.p, Node(g.tag, << >>, g.children)), x)
<1> DEFINE c == Node(g.tag, << >>, g.children)
           m == Len(f.children)
           e == x.elements[m + 1]
<1>1. PICK y \in Encodings : Remains(x, y, f.p, m + 1)
  BY DEF Waiting
<1>2. /\ m + 1 <= Len(x.elements) /\ e = Node(g.tag, << >>, u.elements)
      /\ f.p <= Len(f.data) => g.data = u.bytes
      /\ \A i \in 1 .. m : Shorter(f.children[i], x.elements[i]) /\ f.children[i] = x.elements[i]
  BY DEF Waiting
<1> HIDE DEF e
<1>3. Shorter(c, e)
  <2>1. /\ c.tag = g.tag /\ c.children = g.children /\ e.tag = g.tag /\ e.children = u.elements
    BY <1>2 DEF Node
  <2>2. Len(g.children) <= Len(u.elements)
    BY DEF HasRead
  <2>3. \A i \in 1 .. Len(g.children) : g.children[i].tag = u.elements[i].tag
    BY DEF HasRead, Shorter
  <2> HIDE DEF c
  <2> QED
    BY <2>1, <2>2, <2>3 DEF Shorter
<1>4. f.p <= Len(f.data) => c = e
  BY <1>2, ReadsAll
<1>5. f.p \in Nat
  BY DEF Frames
<1> HIDE DEF c, m
<1>6. HasRead(WithChild(f, f.p, c), x)
  BY <1>1, <1>2, <1>3, <1>4, <1>5, ChildRead DEF e, m
<1> QED
  BY <1>6 DEF c

-----------------------------------------------------------------------------
(* The stack: w has an encoding for each constructor under way.             *)
Follows(w) ==
  /\ w \in Seq(Encodings) /\ Len(w) = Len(stack)
  /\ \A j \in 1 .. Len(stack) : Starts(stack[j].data, w[j].bytes)
  /\ \A j \in 1 .. Len(stack) - 1 : Waiting(stack[j], w[j], stack[j + 1], w[j + 1])
  /\ HasRead(stack[Len(stack)], w[Len(stack)])

(* What a turn of the loop does to the stack, frame by frame. *)
LEMMA ElementDoes ==
  ASSUME NEW N, Stacked(N), stack # << >>, Element,
         NEW n, n = Len(stack), NEW f, f = stack[n], NEW h, h = Header(f.data, f.p),
         NEW q, q = After(h.value, h.length) % POS
  PROVE  /\ n \in Nat \ {0} /\ f \in Frames(N) /\ f.p < Len(f.data) /\ HasHeader(f.data, f.p)
         /\ Raw(h.tag) =>
              /\ Len(stack') = n /\ \A j \in 1 .. n - 1 : stack'[j] = stack[j]
              /\ stack'[n] = WithChild(f, q, Node(h.tag, ValueAt(f.data, h), << >>))
         /\ ~Raw(h.tag) =>
              /\ Len(stack') = n + 1 /\ \A j \in 1 .. n - 1 : stack'[j] = stack[j]
              /\ stack'[n] = [tag |-> f.tag, data |-> f.data, p |-> q, children |-> f.children]
              /\ stack'[n + 1] = Frame(h.tag, ValueAt(f.data, h))
<1> DEFINE v == ValueAt(f.data, h)
           moved == [Top EXCEPT !.p = q]
           r == [tag |-> f.tag, data |-> f.data, p |-> q, children |-> f.children]
<1>1. stack \in Seq(Frames(N)) /\ n \in Nat \ {0} /\ Top = f /\ f \in Frames(N)
  BY AtTop, SMTT(30) DEF Stacked, Top
<1>2. /\ f.p < Len(f.data) /\ HasHeader(f.data, f.p)
      /\ stack' = IF Raw(h.tag)
                  THEN Append(Front(stack),
                              [moved EXCEPT !.children = Append(@, Node(h.tag, v, << >>))])
                  ELSE Front(stack) \o <<moved, Frame(h.tag, v)>>
  <2>1. f.p \in Nat /\ Len(f.data) \in Nat
    BY <1>1 DEF Frames
  <2>2. HasHeader(f.data, f.p) /\ ~(f.p >= Len(f.data))
    <3>1. HasHeader(Top.data, Top.p) /\ ~AtEnd
      BY Zenon DEF Element
    <3> QED
      BY <1>1, <3>1 DEF AtEnd
  <2> QED
    BY <1>1, <2>1, <2>2 DEF Element
<1>3. moved = r
  <2>1. Top = [tag |-> Top.tag, data |-> Top.data, p |-> Top.p, children |-> Top.children]
    BY <1>1 DEF Frames
  <2>2. moved = [tag |-> Top.tag, data |-> Top.data, p |-> q, children |-> Top.children]
    BY <2>1
  <2> HIDE DEF moved
  <2> QED
    BY <1>1, <2>2
<1> HIDE DEF v, moved
<1>4. CASE Raw(h.tag)
  <2> DEFINE c == Node(h.tag, v, << >>)
             g == WithChild(f, q, c)
             F == Frames(N) \union {g}
  <2>1. [moved EXCEPT !.children = Append(@, c)] = g
    <3> HIDE DEF c
    <3>1. f \in Frames(N)
      BY <1>1
    <3> QED
      BY ONLY <1>3, <3>1, GivenChild
  <2>2. stack' = Append(Front(stack), g)
    <3>1. stack' = Append(Front(stack), [moved EXCEPT !.children = Append(@, c)])
      BY <1>2, <1>4
    <3> HIDE DEF g
    <3> QED
      BY <2>1, <3>1
  <2>3. stack \in Seq(F) /\ g \in F
    <3>1. Frames(N) \subseteq F /\ g \in F
      OBVIOUS
    <3> HIDE DEF F
    <3> QED
      BY <1>1, <3>1, SeqMonotonic
  <2> HIDE DEF F, g
  <2>4. /\ Len(stack') = n /\ \A j \in 1 .. n - 1 : stack'[j] = stack[j]
        /\ stack'[n] = g
    BY <2>2, <2>3, AnotherTop, SMTT(30)
  <2> QED
    BY <1>1, <1>2, <1>4, <2>4 DEF g, c, v
<1>5. CASE ~Raw(h.tag)
  <2> DEFINE g == Frame(h.tag, v)
             F == Frames(N) \union {r, g}
  <2>2. stack' = Front(stack) \o <<r, g>>
    <3> HIDE DEF g, r
    <3> QED
      BY <1>2, <1>3, <1>5 DEF g
  <2>3. stack \in Seq(F) /\ g \in F /\ r \in F
    <3>1. Frames(N) \subseteq F /\ g \in F /\ r \in F
      OBVIOUS
    <3> HIDE DEF F
    <3> QED
      BY <1>1, <3>1, SeqMonotonic
  <2> HIDE DEF F, g, r
  <2>4. /\ Len(stack') = n + 1 /\ \A j \in 1 .. n - 1 : stack'[j] = stack[j]
        /\ stack'[n] = r /\ stack'[n + 1] = g
    BY <2>2, <2>3, TopOver
  <2> QED
    BY <1>1, <1>2, <1>5, <2>4 DEF g, v, r
<1> QED
  BY <1>4, <1>5

LEMMA FollowsElement ==
  ASSUME NEW N, Branches(N), Stacked(N), stack # << >>, Element, NEW w, Follows(w)
  PROVE  \E x : Follows(x)' /\ x[1] = w[1] /\ stack'[1].data = stack[1].data
<1> DEFINE n == Len(stack)
           f == stack[n]
           h == Header(f.data, f.p)
           q == After(h.value, h.length) % POS
           g == Frame(h.tag, ValueAt(f.data, h))
           r == [tag |-> f.tag, data |-> f.data, p |-> q, children |-> f.children]
           c == WithChild(f, q, Node(h.tag, ValueAt(f.data, h), << >>))
<1>1. /\ n \in Nat \ {0} /\ f \in Frames(N) /\ f.p < Len(f.data) /\ HasHeader(f.data, f.p)
      /\ Raw(h.tag) =>
           /\ Len(stack') = n /\ \A j \in 1 .. n - 1 : stack'[j] = stack[j]
           /\ stack'[n] = c
      /\ ~Raw(h.tag) =>
           /\ Len(stack') = n + 1 /\ \A j \in 1 .. n - 1 : stack'[j] = stack[j]
           /\ stack'[n] = r /\ stack'[n + 1] = g
  BY ElementDoes
<1>2. /\ w \in Seq(Encodings) /\ Len(w) = n
      /\ \A j \in 1 .. n : Starts(stack[j].data, w[j].bytes)
      /\ \A j \in 1 .. n - 1 : Waiting(stack[j], w[j], stack[j + 1], w[j + 1])
      /\ HasRead(f, w[n])
  BY DEF Follows
<1>3. 1 \in 1 .. n /\ n \in 1 .. n
  <2> HIDE DEF n
  <2> QED
    BY <1>1
<1>4. w[n] \in Encodings /\ Starts(f.data, w[n].bytes)
  BY <1>2, <1>3, ElementOfSeq
<1>5. CASE Raw(h.tag)
  <2>1. HasRead(c, w[n])
    <3> HIDE DEF n, f, h, q
    <3> QED
      BY <1>1, <1>2, <1>4, <1>5, ReadsPrimitive DEF h, q
  <2>2. c.data = f.data /\ c.tag = f.tag
    BY DEF WithChild
  <2> HIDE DEF c
  <2>3. Len(stack') = n /\ stack'[n] = c /\ \A j \in 1 .. n - 1 : stack'[j] = stack[j]
    BY <1>1, <1>5
  <2>4. \A j \in 1 .. n : stack'[j].data = stack[j].data /\ stack'[j].tag = stack[j].tag
    <3> SUFFICES ASSUME NEW j \in 1 .. n
                 PROVE  stack'[j].data = stack[j].data /\ stack'[j].tag = stack[j].tag
      OBVIOUS
    <3>1. CASE j = n
      BY <2>2, <2>3, <3>1
    <3>2. CASE j # n
      <4>1. j \in 1 .. n - 1
        <5> HIDE DEF n
        <5> QED
          BY <1>1, <3>2
      <4> QED
        BY <2>3, <4>1
    <3> QED
      BY <3>1, <3>2
  <2>5. ASSUME NEW j \in 1 .. n - 1 PROVE Waiting(stack'[j], w[j], stack'[j + 1], w[j + 1])
    <3>1. j + 1 \in 1 .. n
      <4> HIDE DEF n
      <4> QED
        BY <1>1
    <3>2. stack'[j] = stack[j] /\ Waiting(stack[j], w[j], stack[j + 1], w[j + 1])
      BY <1>2, <2>3
    <3>3. stack'[j + 1].data = stack[j + 1].data /\ stack'[j + 1].tag = stack[j + 1].tag
      BY <2>4, <3>1
    <3> QED
      BY <3>2, <3>3 DEF Waiting
  <2>6. Follows(w)'
    BY <1>2, <2>1, <2>3, <2>4, <2>5 DEF Follows
  <2> QED
    BY <1>3, <2>4, <2>6
<1>6. CASE ~Raw(h.tag)
  <2>1. PICK u \in Encodings : /\ Waiting(r, w[n], g, u)
                               /\ Starts(g.data, u.bytes)
                               /\ HasRead(g, u)
    <3> HIDE DEF n, f, h, q
    <3>1. g.data = ValueAt(f.data, h)
      BY DEF Frame
    <3>2. \E u \in Encodings :
           /\ Waiting(r, w[n], g, u)
           /\ Starts(ValueAt(f.data, h), u.bytes)
           /\ HasRead(g, u)
      BY <1>1, <1>2, <1>4, <1>6, ReadsConstructed DEF h, q
    <3> QED
      BY <3>1, <3>2
  <2>2. r.data = f.data /\ r.tag = f.tag
    OBVIOUS
  <2> HIDE DEF r, g
  <2>3. /\ Len(stack') = n + 1 /\ \A j \in 1 .. n - 1 : stack'[j] = stack[j]
        /\ stack'[n] = r /\ stack'[n + 1] = g
    BY <1>1, <1>6
  <2>9. PICK x : x = Append(w, u)
    OBVIOUS
  <2>4. /\ x \in Seq(Encodings) /\ Len(x) = n + 1 /\ x[n + 1] = u /\ \A j \in 1 .. n : x[j] = w[j]
    BY <1>2, <2>9, AppendProperties
  <2>5. \A j \in 1 .. n : stack'[j].data = stack[j].data /\ stack'[j].tag = stack[j].tag
    <3> SUFFICES ASSUME NEW j \in 1 .. n
                 PROVE  stack'[j].data = stack[j].data /\ stack'[j].tag = stack[j].tag
      OBVIOUS
    <3>1. CASE j = n
      BY <2>2, <2>3, <3>1
    <3>2. CASE j # n
      <4>1. j \in 1 .. n - 1
        <5> HIDE DEF n
        <5> QED
          BY <1>1, <3>2
      <4> QED
        BY <2>3, <4>1
    <3> QED
      BY <3>1, <3>2
  <2> HIDE DEF n, f
  <2>6. ASSUME NEW j \in 1 .. n + 1 PROVE Starts(stack'[j].data, x[j].bytes)
    <3>1. CASE j \in 1 .. n
      BY <1>2, <2>4, <2>5, <3>1
    <3>2. CASE j = n + 1
      BY <2>1, <2>3, <2>4, <3>2
    <3> QED
      BY <1>1, <3>1, <3>2
  <2>7. ASSUME NEW j \in 1 .. n PROVE Waiting(stack'[j], x[j], stack'[j + 1], x[j + 1])
    <3>1. CASE j = n
      BY <1>3, <2>1, <2>3, <2>4, <3>1
    <3>2. CASE j # n
      <4>1. j \in 1 .. n - 1 /\ j + 1 \in 1 .. n
        BY <1>1, <3>2
      <4>2. stack'[j] = stack[j] /\ Waiting(stack[j], w[j], stack[j + 1], w[j + 1])
        BY <1>2, <2>3, <4>1
      <4>3. stack'[j + 1].data = stack[j + 1].data /\ stack'[j + 1].tag = stack[j + 1].tag
        BY <2>5, <4>1
      <4>4. x[j] = w[j] /\ x[j + 1] = w[j + 1]
        BY <2>4, <4>1
      <4> QED
        BY <4>2, <4>3, <4>4 DEF Waiting
    <3> QED
      BY <3>1, <3>2
  <2>8. Follows(x)'
    <3>1. n \in Nat
      BY <1>1
    <3> QED
      <4>1. Len(stack') = n + 1 /\ Len(stack') - 1 = n
        BY <2>3, <3>1
      <4>2. \A j \in 1 .. Len(stack') : Starts(stack'[j].data, x[j].bytes)
        BY <2>6, <4>1
      <4>3. \A j \in 1 .. Len(stack') - 1 : Waiting(stack'[j], x[j], stack'[j + 1], x[j + 1])
        BY <2>7, <4>1
      <4>4. HasRead(stack'[Len(stack')], x[Len(stack')])
        BY <2>1, <2>3, <2>4, <4>1
      <4> QED
        BY <2>4, <4>1, <4>2, <4>3, <4>4 DEF Follows
  <2> QED
    BY <1>3, <2>4, <2>5, <2>8
<1> QED
  BY <1>5, <1>6

LEMMA CloseDoes ==
  ASSUME NEW N, Stacked(N), stack # << >>, Close, NEW n, n = Len(stack), n # 1,
         NEW f, f = stack[n - 1], NEW g, g = stack[n]
  PROVE  /\ n \in Nat /\ n > 1 /\ f \in Frames(N) /\ g \in Frames(N) /\ g.p >= Len(g.data)
         /\ Len(stack') = n - 1 /\ \A j \in 1 .. n - 2 : stack'[j] = stack[j]
         /\ stack'[n - 1] = WithChild(f, f.p, Node(g.tag, << >>, g.children))
<1> DEFINE c == Node(g.tag, << >>, g.children)
           r == WithChild(f, f.p, c)
           F == Frames(N) \union {r}
<1>1. stack \in Seq(Frames(N)) /\ n \in Nat /\ n > 1 /\ Top = g /\ g \in Frames(N)
  BY AtTop DEF Stacked, Top
<1>2. f \in Frames(N)
  <2>1. n - 1 \in 1 .. Len(stack)
    BY <1>1
  <2> QED
    BY <1>1, <2>1, ElementOfSeq
<1>3. g.p >= Len(g.data)
      /\ stack' = Append(Front(Front(stack)), [f EXCEPT !.children = Append(@, c)])
  BY <1>1 DEF Close, AtEnd
<1>4. [f EXCEPT !.children = Append(@, c)] = r
  <2> HIDE DEF c
  <2>1. f = [tag |-> f.tag, data |-> f.data, p |-> f.p, children |-> f.children]
    BY <1>2 DEF Frames
  <2> QED
    BY ONLY <1>2, <2>1, GivenChild
<1>5. stack' = Append(Front(Front(stack)), r)
  <2> HIDE DEF r, c
  <2> QED
    BY <1>3, <1>4
<1>6. stack \in Seq(F) /\ r \in F
  <2>1. Frames(N) \subseteq F /\ r \in F
    OBVIOUS
  <2> HIDE DEF F
  <2> QED
    BY <1>1, <2>1, SeqMonotonic
<1> HIDE DEF F, r
<1>7. /\ Len(stack') = n - 1 /\ \A j \in 1 .. n - 2 : stack'[j] = stack[j]
      /\ stack'[n - 1] = r
  BY <1>1, <1>5, <1>6, TopOff
<1> QED
  BY <1>1, <1>2, <1>3, <1>7 DEF r, c

LEMMA FollowsClose ==
  ASSUME NEW N, Branches(N), Stacked(N), stack # << >>, Close, NEW w, Follows(w)
  PROVE  \E x : Follows(x)' /\ x[1] = w[1] /\ stack'[1].data = stack[1].data
<1> DEFINE n == Len(stack)
<1>1. CASE n = 1
  <2>1. stack' = stack
    BY <1>1 DEF Close
  <2>2. Follows(w)'
    BY <2>1 DEF Follows
  <2> QED
    BY <2>1, <2>2
<1>2. CASE n # 1
  <2> DEFINE f == stack[n - 1]
             g == stack[n]
             r == WithChild(f, f.p, Node(g.tag, << >>, g.children))
  <2>1. /\ n \in Nat /\ n > 1 /\ f \in Frames(N) /\ g \in Frames(N) /\ g.p >= Len(g.data)
        /\ Len(stack') = n - 1 /\ \A j \in 1 .. n - 2 : stack'[j] = stack[j]
        /\ stack'[n - 1] = r
    <3>1. n = Len(stack) /\ f = stack[n - 1] /\ g = stack[n]
      OBVIOUS
    <3> HIDE DEF n, f, g
    <3> QED
      BY <1>2, <3>1, CloseDoes, SMTT(30)
  <2>2. /\ w \in Seq(Encodings) /\ Len(w) = n
        /\ \A j \in 1 .. n : Starts(stack[j].data, w[j].bytes)
        /\ \A j \in 1 .. n - 1 : Waiting(stack[j], w[j], stack[j + 1], w[j + 1])
        /\ HasRead(g, w[n])
    BY DEF Follows
  <2> HIDE DEF n
  <2>3. n - 1 \in 1 .. n - 1 /\ n - 1 \in 1 .. n /\ n \in 1 .. n /\ n - 1 + 1 = n
        /\ n - 1 \in 0 .. n
    BY <2>1
  <2>4. w[n - 1] \in Encodings /\ w[n] \in Encodings
    BY <2>2, <2>3, ElementOfSeq
  <2>5. Waiting(f, w[n - 1], g, w[n])
    BY <2>2, <2>3
  <2>6. HasRead(r, w[n - 1])
    <3> HIDE DEF f, g
    <3> QED
      BY <2>1, <2>2, <2>4, <2>5, ReadsOn
  <2>7. r.data = f.data /\ r.tag = f.tag
    BY DEF WithChild
  <2> HIDE DEF r
  <2>8. PICK x : x = SubSeq(w, 1, n - 1)
    OBVIOUS
  <2>9. x \in Seq(Encodings) /\ Len(x) = n - 1 /\ \A j \in 1 .. n - 1 : x[j] = w[j]
    BY <2>2, <2>3, <2>8, Beginning
  <2>10. \A j \in 1 .. n - 1 : stack'[j].data = stack[j].data /\ stack'[j].tag = stack[j].tag
    <3> SUFFICES ASSUME NEW j \in 1 .. n - 1
                 PROVE  stack'[j].data = stack[j].data /\ stack'[j].tag = stack[j].tag
      OBVIOUS
    <3>1. CASE j = n - 1
      BY <2>1, <2>7, <3>1
    <3>2. CASE j # n - 1
      <4>1. j \in 1 .. n - 2
        BY <2>1, <3>2
      <4> QED
        BY <2>1, <4>1
    <3> QED
      BY <3>1, <3>2
  <2>11. ASSUME NEW j \in 1 .. n - 2 PROVE Waiting(stack'[j], x[j], stack'[j + 1], x[j + 1])
    <3>1. j \in 1 .. n - 1 /\ j + 1 \in 1 .. n - 1
      BY <2>1
    <3>2. stack'[j] = stack[j] /\ Waiting(stack[j], w[j], stack[j + 1], w[j + 1])
      BY <2>1, <2>2, <3>1
    <3>3. stack'[j + 1].data = stack[j + 1].data /\ stack'[j + 1].tag = stack[j + 1].tag
      BY <2>10, <3>1
    <3>4. x[j] = w[j] /\ x[j + 1] = w[j + 1]
      BY <2>9, <3>1
    <3> QED
      BY <3>2, <3>3, <3>4 DEF Waiting
  <2>12. Follows(x)'
    <3>1. Len(stack') = n - 1 /\ Len(stack') - 1 = n - 2
      BY <2>1
    <3>2. \A j \in 1 .. n - 1 : Starts(stack'[j].data, x[j].bytes)
      <4>1. \A j \in 1 .. n - 1 : j \in 1 .. n
        BY <2>1
      <4> QED
        BY <2>2, <2>9, <2>10, <4>1
    <3>3. \A j \in 1 .. Len(stack') : Starts(stack'[j].data, x[j].bytes)
      BY <3>1, <3>2
    <3>4. \A j \in 1 .. Len(stack') - 1 : Waiting(stack'[j], x[j], stack'[j + 1], x[j + 1])
      BY <2>11, <3>1
    <3>5. HasRead(stack'[Len(stack')], x[Len(stack')])
      BY <2>1, <2>3, <2>6, <2>9, <3>1
    <3> QED
      BY <2>9, <3>1, <3>3, <3>4, <3>5 DEF Follows
  <2>13. 1 \in 1 .. n - 1
    BY <2>1
  <2> QED
    BY <2>9, <2>10, <2>12, <2>13
<1> QED
  BY <1>1, <1>2

-----------------------------------------------------------------------------
(* The parser has read the beginning of what the answer encodes; done, all  *)
(* of the answer.                                                           *)
Parsed ==
  /\ (outcome \in {"parsing", "done"} /\ card[selected].elements # Junk) =>
       \E w : /\ Follows(w) /\ w[1].elements = card[selected].elements
              /\ ~card[selected].cut => stack[1].data = w[1].bytes
  /\ outcome = "done" => Len(stack) = 1 /\ stack[1].p >= Len(stack[1].data)

LEMMA ParsedStep ==
  ASSUME TypeInv, Parsed, TlvStep, card' = card, selected' = selected
  PROVE  Parsed'
<1>1. PICK N : Branches(N) /\ Stacked(N)
  BY DEF TypeInv, TlvInv
<1>2. stack # << >> /\ outcome = "parsing"
  BY DEF TypeInv, TlvInv, TlvStep, Element, NoHeader, Close
<1>3. ASSUME \A w : Follows(w) =>
               \E x : Follows(x)' /\ x[1] = w[1] /\ stack'[1].data = stack[1].data
      PROVE  (outcome' \in {"parsing", "done"} /\ card'[selected'].elements # Junk) =>
               \E w : /\ Follows(w)' /\ w[1].elements = card'[selected'].elements
                      /\ ~card'[selected'].cut => stack'[1].data = w[1].bytes
  <2> SUFFICES ASSUME card'[selected'].elements # Junk
               PROVE  \E w : /\ Follows(w)' /\ w[1].elements = card'[selected'].elements
                             /\ ~card'[selected'].cut => stack'[1].data = w[1].bytes
    OBVIOUS
  <2>1. PICK w : /\ Follows(w) /\ w[1].elements = card[selected].elements
                 /\ ~card[selected].cut => stack[1].data = w[1].bytes
    BY <1>2 DEF Parsed
  <2>2. PICK x : Follows(x)' /\ x[1] = w[1] /\ stack'[1].data = stack[1].data
    BY <1>3, <2>1
  <2>3. x[1].elements = card'[selected'].elements
    BY <2>1, <2>2
  <2>4. ~card'[selected'].cut => stack'[1].data = x[1].bytes
    BY <2>1, <2>2
  <2> QED
    BY <2>2, <2>3, <2>4
<1>4. CASE Element
  <2>1. outcome' = "parsing"
    BY <1>2, <1>4 DEF Element
  <2>2. \A w : Follows(w) => \E x : Follows(x)' /\ x[1] = w[1] /\ stack'[1].data = stack[1].data
    BY <1>1, <1>2, <1>4, FollowsElement
  <2> QED
    BY <1>3, <2>1, <2>2 DEF Parsed
<1>5. CASE NoHeader
  <2>1. outcome' = "throws"
    BY <1>5 DEF NoHeader
  <2> QED
    BY <2>1 DEF Parsed
<1>6. CASE Close
  <2>1. \A w : Follows(w) => \E x : Follows(x)' /\ x[1] = w[1] /\ stack'[1].data = stack[1].data
    BY <1>1, <1>2, <1>6, FollowsClose
  <2>2. outcome' = "done" => Len(stack') = 1 /\ stack'[1].p >= Len(stack'[1].data)
    <3> SUFFICES ASSUME outcome' = "done"
                 PROVE  Len(stack') = 1 /\ stack'[1].p >= Len(stack'[1].data)
      OBVIOUS
    <3>1. Len(stack) = 1 /\ stack' = stack /\ AtEnd
      BY <1>2, <1>6 DEF Close
    <3>2. Top = stack[1]
      BY <1>1, <1>2, <3>1, AtTop DEF Top, Stacked
    <3> QED
      BY <3>1, <3>2 DEF AtEnd
  <2> QED
    BY <1>3, <2>1, <2>2 DEF Parsed
<1> QED
  BY <1>4, <1>5, <1>6 DEF TlvStep

LEMMA ParsedSame ==
  ASSUME Parsed, UNCHANGED tlvVars, card' = card, selected' = selected
  PROVE  Parsed'
<1>1. stack' = stack /\ outcome' = outcome
  BY DEF tlvVars
<1>2. \A w : Follows(w) => Follows(w)'
  BY <1>1 DEF Follows
<1> QED
  BY <1>1, <1>2 DEF Parsed

LEMMA ParsedSelect ==
  ASSUME card \in Cards, card' = card, selected' \in DOMAIN card, Parse(card[selected'].bytes)
  PROVE  Parsed'
<1> DEFINE a == card[selected']
           f == Frame(<< >>, a.bytes)
<1>1. stack' = <<f>> /\ outcome' = "parsing"
  BY DEF Parse
<1>2. SUFFICES ASSUME a.elements # Junk
               PROVE  \E w : /\ Follows(w)' /\ w[1].elements = a.elements
                             /\ ~a.cut => stack'[1].data = w[1].bytes
  BY <1>1 DEF Parsed
<1>3. PICK x \in Encodings :
       /\ a.elements = x.elements /\ IsPrefix(a.bytes, x.bytes)
       /\ ~a.cut => a.bytes = x.bytes
  BY <1>2, CardAssumption
<1>4. a.bytes \in Seq(Byte)
  BY CardAssumption
<1> HIDE DEF a
<1>5. Starts(a.bytes, x.bytes)
  <2>1. x.bytes \in Seq(Byte)
    BY EncodingIs
  <2> QED
    BY <1>3, <1>4, <2>1, PrefixIs DEF Starts
<1>6. f.data = a.bytes /\ f.p = 0 /\ f.children = << >>
  BY DEF Frame
<1> HIDE DEF f
<1>7. HasRead(f, x)
  <2>1. Len(f.children) = 0 /\ f.p = 0 /\ Len(x.elements) \in Nat
    BY <1>6, EncodingIs
  <2>2. Remains(x, x, f.p, Len(f.children))
    BY <2>1, RemainsAll
  <2> QED
    BY <2>1, <2>2 DEF HasRead
<1>8. PICK w : w = <<x>>
  OBVIOUS
<1>9. w \in Seq(Encodings) /\ Len(w) = 1 /\ w[1] = x
  BY <1>8
<1>10. Len(stack') = 1 /\ stack'[1] = f
  BY <1>1
<1>11. Follows(w)'
  <2>1. \A j \in 1 .. 1 : j = 1
    OBVIOUS
  <2>2. \A j \in 1 .. 1 - 1 : FALSE
    OBVIOUS
  <2>3. \A j \in 1 .. Len(stack') : Starts(stack'[j].data, w[j].bytes)
    BY <1>5, <1>6, <1>9, <1>10, <2>1
  <2>4. \A j \in 1 .. Len(stack') - 1 : FALSE
    BY <1>10, <2>2
  <2>5. HasRead(stack'[Len(stack')], w[Len(stack')])
    BY <1>7, <1>9, <1>10
  <2> QED
    BY <1>9, <1>10, <2>3, <2>4, <2>5 DEF Follows
<1>12. ~a.cut => stack'[1].data = w[1].bytes
  BY <1>3, <1>6, <1>9, <1>10
<1> QED
  BY <1>3, <1>9, <1>11, <1>12

LEMMA ParsedNext == TypeInv /\ Parsed /\ [Next]_vars => Parsed'
<1> SUFFICES ASSUME TypeInv, Parsed, [Next]_vars PROVE Parsed'
  OBVIOUS
<1>1. CASE Skip \/ BadEntry \/ NotSelected \/ ParseThrows \/ Format \/ Finish \/ Lost
      \/ UNCHANGED vars
  <2>1. UNCHANGED <<tlvVars, card, selected>>
    BY <1>1 DEF Skip, BadEntry, NotSelected, ParseThrows, Format, Finish, Lost, cardVars, vars
  <2> QED
    BY <2>1, ParsedSame
<1>2. CASE Select
  <2>1. card \in Cards /\ card' = card /\ selected' \in DOMAIN card /\ Parse(card[selected'].bytes)
    BY <1>2 DEF Select, Meant, TypeInv
  <2> QED
    BY <2>1, ParsedSelect
<1>3. CASE ParseStep
  BY <1>3, ParsedStep DEF ParseStep, cardVars
<1> QED
  BY <1>1, <1>2, <1>3 DEF Next, Step

LEMMA Parses == Spec => []Parsed
<1>1. Init => Parsed
  BY DEF Init, TlvInit, Parsed
<1>2. TypeInv /\ Parsed /\ [Next]_vars => Parsed'
  BY ParsedNext
<1> QED
  BY <1>1, <1>2, Typed, PTL DEF Spec

LEMMA TreeRight == TypeInv /\ Parsed => TreeIsWritten
<1> SUFFICES ASSUME TypeInv, Parsed, outcome = "done", card[selected].elements # Junk,
                    ~card[selected].cut
             PROVE  Children = card[selected].elements
  BY DEF TreeIsWritten
<1>1. PICK w : /\ Follows(w) /\ w[1].elements = card[selected].elements
               /\ stack[1].data = w[1].bytes
  BY DEF Parsed
<1>2. Len(stack) = 1 /\ stack[1].p >= Len(stack[1].data)
  BY DEF Parsed
<1>3. HasRead(stack[1], w[1]) /\ w \in Seq(Encodings) /\ Len(w) = 1
  BY <1>1, <1>2 DEF Follows
<1>4. PICK N : Branches(N) /\ Stacked(N)
  BY DEF TypeInv, TlvInv
<1>5. stack \in Seq(Frames(N))
  BY <1>4 DEF Stacked
<1>6. 1 \in 1 .. Len(stack) /\ 1 \in 1 .. Len(w)
  BY <1>2, <1>3
<1>7. stack[1] \in Frames(N)
  BY <1>5, <1>6, ElementOfSeq
<1>8. w[1] \in Encodings
  BY <1>3, <1>6, ElementOfSeq
<1> QED
  BY <1>1, <1>2, <1>3, <1>4, <1>7, <1>8, ReadsAll DEF Children

(* The parser undoes every encoding: a whole one, its elements nested to    *)
(* any depth and its lengths in any of their forms, is taken apart into the *)
(* elements that were encoded.                                              *)
THEOREM ParseInverts == Spec => []TreeIsWritten
BY Parses, Typed, TreeRight, PTL

-----------------------------------------------------------------------------
(* What is shown.                                                           *)

(* What encodings encode are elements as the parser makes them. *)
LEMMA ElementsNest == Branches(Elements)
<1> DEFINE Nests(e) == e.tag \in Seq(Byte) /\ e.children \in Seq(Elements)
           S == {j \in Nat : \A x \in Encodings :
                   j \in 1 .. Len(x.elements) => Nests(x.elements[j])}
<1>1. 0 \in S
  OBVIOUS
<1>2. ASSUME NEW i \in Nat, i \in S PROVE i + 1 \in S
  <2> SUFFICES ASSUME NEW x \in Encodings, i + 1 \in 1 .. Len(x.elements)
               PROVE  Nests(x.elements[i + 1])
    OBVIOUS
  <2>1. x.elements # << >> /\ Len(x.elements) \in Nat
    BY EncodingIs
  <2>2. PICK t, l, v : \E z \in Encodings : Splits(x, t, l, v, z)
    BY <2>1, FirstElement
  <2>3. PICK z \in Encodings : Splits(x, t, l, v, z)
    BY <2>2
  <2>4. CASE i = 0
    <3>1. t \in Seq(Byte) /\ Inside(x.elements[1], t, v)
      BY <2>3, TagFormIs DEF Splits
    <3>2. CASE Bit(t[1], 5)
      <4>1. PICK y \in Encodings : x.elements[1] = Node(t, << >>, y.elements)
        BY <3>1, <3>2 DEF Inside
      <4>2. y.elements \in Seq(Elements)
        BY EncodingIs
      <4>3. x.elements[1].tag = t /\ x.elements[1].children = y.elements
        BY <4>1 DEF Node
      <4> QED
        BY <2>4, <3>1, <4>2, <4>3
    <3>3. CASE ~Bit(t[1], 5)
      <4>1. x.elements[1] = Node(t, v, << >>)
        BY <3>1, <3>3 DEF Inside
      <4>2. << >> \in Seq(Elements)
        OBVIOUS
      <4>3. x.elements[1].tag = t /\ x.elements[1].children = << >>
        BY <4>1 DEF Node
      <4>4. x.elements[1].tag \in Seq(Byte) /\ x.elements[1].children \in Seq(Elements)
        BY <3>1, <4>2, <4>3
      <4> QED
        BY <2>4, <4>4
    <3> QED
      BY <3>2, <3>3
  <2>5. CASE i # 0
    <3>1. Len(z.elements) \in Nat
      BY EncodingIs
    <3>2. i \in 1 .. Len(z.elements) /\ x.elements[i + 1] = z.elements[i]
      BY <2>3, <2>5, <3>1 DEF Splits
    <3> QED
      BY <1>2, <3>2
  <2> QED
    BY <2>4, <2>5
<1>3. \A i \in Nat : i \in S
  <2> HIDE DEF S
  <2> QED
    BY <1>1, <1>2, ByInduction
<1>4. ASSUME NEW e \in Elements PROVE Nests(e)
  <2>1. PICK x \in Encodings : e \in Range(x.elements)
    BY DEF Elements
  <2>2. Len(x.elements) \in Nat /\ x.elements \in Seq(Elements)
    BY EncodingIs
  <2>3. PICK j \in 1 .. Len(x.elements) : e = x.elements[j]
    BY <2>1, <2>2 DEF Range
  <2> QED
    BY <1>3, <2>2, <2>3
<1> QED
  BY <1>4 DEF Branches

(* The elements expected, in the words of what shows them. *)
LEMMA ExpectedIs ==
  ASSUME NEW N, Branches(N), NEW c \in Seq(N)
  PROVE  /\ Expected(c) = Shown(c)
         /\ WithTag(c, TAG_EMV_FCI) = {} => Shown(c) = NoFci
         /\ WithTag(c, TAG_EMV_FCI) # {} =>
              LET m == Min(WithTag(c, TAG_EMV_FCI)) IN
              /\ m \in 1 .. Len(c) /\ c[m].tag = TAG_EMV_FCI
              /\ \A j \in WithTag(c, TAG_EMV_FCI) : m <= j
              /\ c[m].children \in Seq(N)
              /\ Shown(c) = [tags |-> TagsIn(c[m].children), what |-> "FCI"]
<1> DEFINE W == WithTag(c, TAG_EMV_FCI)
           m == Min(W)
           s == c[m].children
<1>1. {j \in 1 .. Len(c) : c[j].tag = <<111>>} = W
  BY DEF WithTag, TAG_EMV_FCI
<1>2. CASE W = {}
  <2>1. Expected(c) = NoFci
    BY <1>1, <1>2 DEF Expected
  <2>2. Fci(c) = << >>
    BY <1>2, FirstWith DEF Fci
  <2> QED
    BY <1>2, <2>1, <2>2 DEF Shown
<1>3. CASE W # {}
  <2>1. Fci(c) = <<c[m]>> /\ m \in W /\ \A j \in W : m <= j
    BY <1>3, FirstWith DEF Fci
  <2>2. m \in 1 .. Len(c) /\ c[m].tag = TAG_EMV_FCI
    BY <2>1 DEF WithTag
  <2>3. s \in Seq(N)
    <3>1. c[m] \in N
      BY <2>2, ElementOfSeq, SMTT(30)
    <3> QED
      BY <3>1 DEF Branches
  <2>4. Expected(c) = [tags |-> [i \in DOMAIN s |-> s[i].tag], what |-> "FCI"]
    BY <1>1, <1>3, Zenon DEF Expected
  <2>5. Fci(c) # << >> /\ Fci(c)[1].children = s
    BY <2>1
  <2> HIDE DEF s, m, W
  <2>6. DOMAIN s = 1 .. Len(s)
    BY <2>3
  <2>7. Shown(c) = [tags |-> TagsIn(s), what |-> "FCI"]
    BY <2>5 DEF Shown
  <2>8. TagsIn(s) = [i \in DOMAIN s |-> s[i].tag]
    BY <2>6 DEF TagsIn
  <2> QED
    BY <1>3, <2>1, <2>2, <2>3, <2>4, <2>7, <2>8 DEF W, m, s
<1> QED
  BY <1>2, <1>3

LEMMA TagsAre ==
  ASSUME NEW N, Branches(N), NEW c \in Seq(N)
  PROVE  /\ TagsIn(c) \in Seq(Seq(Byte)) /\ Len(TagsIn(c)) = Len(c) /\ Len(c) \in Nat
         /\ \A j \in 1 .. Len(c) : TagsIn(c)[j] = c[j].tag
<1>1. \A j \in 1 .. Len(c) : c[j].tag \in Seq(Byte)
  BY ElementOfSeq DEF Branches
<1> QED
  BY <1>1 DEF TagsIn

(* The first children of some elements show some first tags of what they    *)
(* show.                                                                    *)
LEMMA ShownShorter ==
  ASSUME NEW N, Branches(N), NEW c \in Seq(N), NEW M, Branches(M), NEW e \in Seq(M),
         Len(c) <= Len(e), \A i \in 1 .. Len(c) : Shorter(c[i], e[i])
  PROVE  IsPrefix(Shown(c).tags, Shown(e).tags)
<1> DEFINE V == WithTag(c, TAG_EMV_FCI)
           W == WithTag(e, TAG_EMV_FCI)
           a == Min(V)
           b == Min(W)
           s == c[a].children
           r == e[b].children
<1>1. Len(c) \in Nat /\ Len(e) \in Nat
  OBVIOUS
<1>2. Shown(e).tags \in Seq(Seq(Byte))
  BY ShownTyped
<1>3. CASE V = {}
  <2>1. Shown(c) = NoFci
    <3>1. WithTag(c, TAG_EMV_FCI) = {} => Shown(c) = NoFci
      BY ExpectedIs
    <3> QED
      BY <1>3, <3>1
  <2>2. Shown(c).tags = << >>
    <3>1. NoFci.tags = << >>
      BY DEF NoFci
    <3> QED
      BY <2>1, <3>1, Zenon
  <2>3. PICK u : u = << >>
    OBVIOUS
  <2>4. u \in Seq(Seq(Byte)) /\ Len(u) = 0
    BY <2>3
  <2>5. PICK r2 : r2 = Shown(e).tags
    OBVIOUS
  <2>6. r2 \in Seq(Seq(Byte)) /\ Len(r2) \in Nat
    BY <1>2, <2>5
  <2>7. Len(u) <= Len(r2) /\ \A j \in 1 .. Len(u) : u[j] = r2[j]
    BY <2>4, <2>6
  <2>8. IsPrefix(u, r2)
    BY ONLY <2>4, <2>6, <2>7, PrefixIs
  <2> QED
    BY <2>2, <2>3, <2>5, <2>8
<1>4. CASE V # {}
  <2>1. /\ a \in 1 .. Len(c) /\ c[a].tag = TAG_EMV_FCI /\ s \in Seq(N)
        /\ \A j \in V : a <= j
        /\ Shown(c) = [tags |-> TagsIn(s), what |-> "FCI"]
    BY <1>4, ExpectedIs
  <2>2. a \in W
    BY <1>1, <2>1 DEF Shorter, WithTag
  <2>3. /\ b \in 1 .. Len(e) /\ e[b].tag = TAG_EMV_FCI /\ r \in Seq(M)
        /\ \A j \in W : b <= j
        /\ Shown(e) = [tags |-> TagsIn(r), what |-> "FCI"]
    BY <2>2, ExpectedIs
  <2>4. b \in V
    <3>1. b <= a
      BY <2>2, <2>3
    <3>2. b \in 1 .. Len(c)
      BY <1>1, <2>1, <2>3, <3>1
    <3> QED
      BY <2>3, <3>2 DEF Shorter, WithTag
  <2>5. a = b
    BY <2>1, <2>2, <2>3, <2>4
  <2>6. Len(s) <= Len(r) /\ \A i \in 1 .. Len(s) : s[i].tag = r[i].tag
    BY <2>1, <2>5 DEF Shorter
  <2> HIDE DEF s, r, a, b
  <2>7. /\ TagsIn(s) \in Seq(Seq(Byte)) /\ Len(TagsIn(s)) = Len(s) /\ Len(s) \in Nat
        /\ \A j \in 1 .. Len(s) : TagsIn(s)[j] = s[j].tag
    BY <2>1, TagsAre
  <2>8. /\ TagsIn(r) \in Seq(Seq(Byte)) /\ Len(TagsIn(r)) = Len(r) /\ Len(r) \in Nat
        /\ \A j \in 1 .. Len(r) : TagsIn(r)[j] = r[j].tag
    BY <2>3, TagsAre
  <2>9. IsPrefix(TagsIn(s), TagsIn(r))
    <3>1. \A j \in 1 .. Len(s) : j \in 1 .. Len(r)
      BY <2>6, <2>7, <2>8
    <3>2. \A j \in 1 .. Len(TagsIn(s)) : TagsIn(s)[j] = TagsIn(r)[j]
      BY <2>6, <2>7, <2>8, <3>1
    <3> QED
      BY <2>6, <2>7, <2>8, <3>2, PrefixIs
  <2> QED
    BY <2>1, <2>3, <2>9
<1> QED
  BY <1>3, <1>4

(* The last entry reported names the application that the card has selected, *)
(* and what is shown is what its answer encodes.                            *)
ShownRight ==
  LET written == card[selected] IN
  written.elements # Junk =>
    IF written.cut THEN IsPrefix(printed.tags, Expected(written.elements).tags)
    ELSE printed = Expected(written.elements)
LastNamed(m) ==
  /\ m \in found /\ \A j \in found : j <= m
  /\ m \in 1 .. Len(KNOWN_APPLICATIONS)
  /\ IsPrefix(Bytes(KNOWN_APPLICATIONS[m].aid), selected)
ShownInv ==
  /\ found # {} => \E m \in Nat : LastNamed(m)
  /\ printed # Nothing => found # {} /\ ShownRight

LEMMA MaxIs ==
  ASSUME NEW S \in SUBSET Nat, NEW m \in S, \A j \in S : j <= m
  PROVE  Max(S) = m
<1>1. \A y \in S : m >= y
  OBVIOUS
<1>2. \A x \in S : (\A y \in S : x >= y) => x = m
  OBVIOUS
<1> QED
  BY <1>1, <1>2 DEF Max

LEMMA ShownInit == Init => ShownInv
BY DEF Init, ShownInv

LEMMA ShownSelect ==
  ASSUME TypeInv, Reported, Select
  PROVE  ShownInv'
<1>1. /\ KNOWN_APPLICATIONS \in Lists /\ KNOWN_APPLICATIONS' = KNOWN_APPLICATIONS
      /\ card \in Cards /\ CanSelect(Entry.aid)
      /\ selected' \in Meant(select_app_apdu(Entry.aid))
      /\ found' = found \union {k} /\ printed' = Nothing /\ k' = k
  BY DEF Select, TypeInv
<1>2. k \in 1 .. Len(KNOWN_APPLICATIONS) /\ found \subseteq 1 .. k
  BY ListIs DEF Select, More, TypeInv, Places
<1>3. k \in found' /\ \A j \in found' : j <= k
  BY <1>1, <1>2
<1>4. selected' \in DOMAIN card
  BY <1>1 DEF Meant
<1>5. IsPrefix(Bytes(KNOWN_APPLICATIONS[k].aid), selected')
  BY <1>1, <1>2, <1>4, MeantIs DEF Entry
<1>6. LastNamed(k)'
  BY <1>1, <1>2, <1>3, <1>5 DEF LastNamed
<1> QED
  BY <1>1, <1>2, <1>6 DEF ShownInv

(* What has been taken apart is what the answer encodes, or a beginning.    *)
LEMMA ShownFormat ==
  ASSUME TypeInv, Parsed, outcome = "done", card[selected].elements # Junk
  PROVE  IF card[selected].cut
         THEN IsPrefix(Shown(Children).tags, Expected(card[selected].elements).tags)
         ELSE Shown(Children) = Expected(card[selected].elements)
<1>1. PICK w : Follows(w) /\ w[1].elements = card[selected].elements
  BY DEF Parsed
<1>2. Len(stack) = 1
  BY DEF Parsed
<1>3. HasRead(stack[1], w[1]) /\ w \in Seq(Encodings) /\ Len(w) = 1
  BY <1>1, <1>2 DEF Follows
<1>4. PICK N : Branches(N) /\ Stacked(N)
  BY DEF TypeInv, TlvInv
<1>5. stack \in Seq(Frames(N))
  BY <1>4 DEF Stacked
<1>6. 1 \in 1 .. Len(stack) /\ 1 \in 1 .. Len(w)
  BY <1>2, <1>3
<1>7. stack[1] \in Frames(N)
  BY <1>5, <1>6, ElementOfSeq
<1>8. w[1] \in Encodings
  BY <1>3, <1>6, ElementOfSeq
<1> DEFINE c == stack[1].children
           e == w[1].elements
<1>9. c \in Seq(N) /\ e \in Seq(Elements)
  BY <1>7, <1>8, EncodingIs DEF Frames
<1>10. Len(c) <= Len(e) /\ \A i \in 1 .. Len(c) : Shorter(c[i], e[i])
  BY <1>3 DEF HasRead
<1>11. Expected(e) = Shown(e)
  BY <1>9, ElementsNest, ExpectedIs
<1>12. IsPrefix(Shown(c).tags, Shown(e).tags)
  <2> HIDE DEF c, e
  <2> QED
    BY <1>4, <1>9, <1>10, ElementsNest, ShownShorter
<1>13. ~card[selected].cut => c = e
  BY <1>1, TreeRight DEF TreeIsWritten, Children
<1>14. Children = c /\ e = card[selected].elements
  BY <1>1 DEF Children
<1> HIDE DEF c, e
<1> QED
  BY <1>11, <1>12, <1>13, <1>14

LEMMA ShownNext == TypeInv /\ Reported /\ Parsed /\ ShownInv /\ [Next]_vars => ShownInv'
<1> SUFFICES ASSUME TypeInv, Reported, Parsed, ShownInv, [Next]_vars PROVE ShownInv'
  OBVIOUS
<1>1. CASE UNCHANGED <<KNOWN_APPLICATIONS, card, selected, found, printed>>
  BY <1>1 DEF ShownInv, LastNamed, ShownRight
<1>2. CASE Select
  BY <1>2, ShownSelect
<1>3. CASE Format
  <2>1. /\ UNCHANGED <<KNOWN_APPLICATIONS, card, selected, found>>
        /\ printed' = Shown(Children) /\ outcome = "done" /\ k \in found
    BY <1>3 DEF Format, cardVars, Reported
  <2>2. ShownRight'
    BY <2>1, ShownFormat DEF ShownRight
  <2>3. found # {} => \E m \in Nat : LastNamed(m)'
    BY <2>1 DEF ShownInv, LastNamed
  <2> QED
    BY <2>1, <2>2, <2>3 DEF ShownInv
<1> QED
  BY <1>1, <1>2, <1>3 DEF Next, Step, Skip, BadEntry, NotSelected, ParseStep, ParseThrows, Finish,
                          Lost, vars, cardVars

LEMMA ShownIs == TypeInv /\ ShownInv => ShownIsWritten
<1> SUFFICES ASSUME TypeInv, ShownInv, printed # Nothing PROVE ShownIsWritten
  BY DEF ShownIsWritten
<1>1. PICK m \in Nat : LastNamed(m)
  BY DEF ShownInv
<1>2. found \in SUBSET Nat
  BY DEF TypeInv, Places
<1>3. Max(found) = m
  BY <1>1, <1>2, MaxIs DEF LastNamed
<1> QED
  BY <1>1, <1>3 DEF ShownInv, ShownRight, LastNamed, ShownIsWritten

(* The answer shown is that of an application the entry names, and the tags *)
(* are those of the first FCI it encodes, or the first of these if it is    *)
(* cut short: for every list, card and encoding.                            *)
THEOREM ProbeShows == Spec => []ShownIsWritten
<1>1. TypeInv /\ Reported /\ [Next]_vars => Reported'
  BY ReportedNext
<1>2. TypeInv /\ Reported /\ Parsed /\ ShownInv /\ [Next]_vars => ShownInv'
  BY ShownNext
<1>3. Init => Reported /\ ShownInv
  BY ReportedInit, ShownInit
<1>4. TypeInv /\ ShownInv => ShownIsWritten
  BY ShownIs
<1> QED
  BY <1>1, <1>2, <1>3, <1>4, Typed, Parses, PTL DEF Spec
=============================================================================
