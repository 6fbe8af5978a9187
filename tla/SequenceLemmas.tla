---------------------------- MODULE SequenceLemmas ----------------------------
(* Induction, recursive functions and sequences, for the proofs of the      *)
(* other modules.                                                           *)
EXTENDS Integers, SequencesExt, SequenceTheorems, WellFoundedInduction, TLAPS

(* Induction: a set of numbers that has 0, and with each number the next.   *)
LEMMA ByInduction ==
  ASSUME NEW S, 0 \in S, \A i \in Nat : i \in S => i + 1 \in S
  PROVE  \A i \in Nat : i \in S
<1> DEFINE Others == {i \in Nat : i \notin S}
<1> SUFFICES ASSUME Others # {} PROVE FALSE
  OBVIOUS
<1>1. PICK m \in Others : \A y \in Others : ~(<<y, m>> \in OpToRel(<, Nat))
  <2>1. Others \subseteq Nat
    OBVIOUS
  <2> HIDE DEF Others
  <2> QED
    BY <2>1, NatLessThanWellFounded, WFMin, Zenon
<1>2. \A y \in Others : ~(y < m)
  BY <1>1 DEF OpToRel
<1>3. m # 0 /\ m \in Nat /\ m \notin S
  BY <1>1
<1>4. m - 1 \in Nat /\ m - 1 \in S
  BY <1>2, <1>3
<1> QED
  BY <1>3, <1>4

(* The least of some numbers. *)
LEMMA MinIs ==
  ASSUME NEW I \in SUBSET Nat, I # {}
  PROVE  Min(I) \in I /\ \A j \in I : Min(I) <= j
<1>1. PICK m \in I : \A y \in I : ~(<<y, m>> \in OpToRel(<, Nat))
  <2>1. I \subseteq Nat
    OBVIOUS
  <2> QED
    BY <2>1, NatLessThanWellFounded, WFMin, Zenon
<1>2. \A y \in I : m <= y
  <2>1. \A y \in I : ~(y < m)
    BY <1>1 DEF OpToRel
  <2> QED
    BY <2>1
<1> QED
  BY <1>2 DEF Min

LEMMA OneBefore ==
  ASSUME NEW T, NEW x \in T, NEW r \in Seq(T)
  PROVE  /\ <<x>> \o r \in Seq(T) /\ Len(<<x>> \o r) = 1 + Len(r) /\ (<<x>> \o r)[1] = x
         /\ \A j \in 1 .. Len(r) : (<<x>> \o r)[j + 1] = r[j]
<1>1. <<x>> \in Seq(T) /\ Len(<<x>>) = 1 /\ <<x>>[1] = x
  OBVIOUS
<1>2. /\ <<x>> \o r \in Seq(T) /\ Len(<<x>> \o r) = 1 + Len(r)
      /\ \A i \in 1 .. 1 + Len(r) : (<<x>> \o r)[i] = IF i <= 1 THEN <<x>>[i] ELSE r[i - 1]
  BY <1>1, ConcatProperties
<1>3. ASSUME NEW j \in 1 .. Len(r) PROVE (<<x>> \o r)[j + 1] = r[j]
  <2>1. j + 1 \in 1 .. 1 + Len(r) /\ ~(j + 1 <= 1) /\ j + 1 - 1 = j
    OBVIOUS
  <2> QED
    BY <1>2, <2>1
<1> QED
  BY <1>1, <1>2, <1>3

LEMMA Joined ==
  ASSUME NEW T, NEW u \in Seq(T), NEW v \in Seq(T)
  PROVE  /\ u \o v \in Seq(T) /\ Len(u \o v) = Len(u) + Len(v)
         /\ Len(u) \in Nat /\ Len(v) \in Nat
         /\ \A j \in 1 .. Len(u) : (u \o v)[j] = u[j]
         /\ \A j \in 1 .. Len(v) : (u \o v)[Len(u) + j] = v[j]
OBVIOUS

(* FlattenSeq is defined by a recursive function: that there is one which   *)
(* satisfies its equation has to be shown before it can be used.             *)
LEMMA Flattened ==
  ASSUME NEW T, NEW s \in Seq(Seq(T)), s # << >>
  PROVE  \E f : /\ f = [i \in 1 .. Len(s) |-> IF i = 1 THEN s[i] ELSE f[i - 1] \o s[i]]
                /\ FlattenSeq(s) = f[Len(s)]
<1> DEFINE Eq(g, m) == g = [i \in 1 .. m |-> IF i = 1 THEN s[i] ELSE g[i - 1] \o s[i]]
           S == {m \in Nat : \E g : Eq(g, m)}
<1>1. 0 \in S
  <2> DEFINE g == [i \in 1 .. 0 |-> 0]
  <2>1. Eq(g, 0)
    OBVIOUS
  <2> QED
    BY <2>1
<1>2. ASSUME NEW m \in Nat, m \in S PROVE m + 1 \in S
  <2>1. PICK g : Eq(g, m)
    BY <1>2
  <2> DEFINE h == [i \in 1 .. m + 1 |-> IF i = 1 THEN s[i] ELSE g[i - 1] \o s[i]]
  <2>2. ASSUME NEW i \in 1 .. m PROVE h[i] = g[i]
    <3>1. g[i] = IF i = 1 THEN s[i] ELSE g[i - 1] \o s[i]
      <4> DEFINE gg == [j \in 1 .. m |-> IF j = 1 THEN s[j] ELSE g[j - 1] \o s[j]]
      <4>1. gg[i] = IF i = 1 THEN s[i] ELSE g[i - 1] \o s[i]
        OBVIOUS
      <4>2. g = gg
        BY <2>1, Zenon
      <4> QED
        BY <4>1, <4>2, Zenon
    <3>2. h[i] = IF i = 1 THEN s[i] ELSE g[i - 1] \o s[i]
      OBVIOUS
    <3> QED
      BY <3>1, <3>2
  <2>3. Eq(h, m + 1)
    <3>1. \A i \in 1 .. m + 1 : (IF i = 1 THEN s[i] ELSE h[i - 1] \o s[i])
                                = (IF i = 1 THEN s[i] ELSE g[i - 1] \o s[i])
      <4> HIDE DEF h
      <4> QED
        BY <2>2
    <3> QED
      BY <3>1
  <2>4. \E g1 : Eq(g1, m + 1)
    <3> HIDE DEF Eq, h
    <3> QED
      BY <2>3, Zenon
  <2> HIDE DEF Eq, h
  <2> QED
    BY <2>4
<1>3. Len(s) \in Nat /\ Len(s) # 0
  OBVIOUS
<1>4. \E g : Eq(g, Len(s))
  <2>1. \A i \in Nat : i \in S
    <3> HIDE DEF S
    <3> QED
      BY <1>1, <1>2, ByInduction
  <2> QED
    BY <2>1, <1>3
<1> DEFINE f == CHOOSE g : Eq(g, Len(s))
<1>5. Eq(f, Len(s))
  BY <1>4, Zenon
<1>6. FlattenSeq(s) = f[Len(s)]
  BY <1>3, Zenon DEF FlattenSeq
<1> QED
  BY <1>5, <1>6, Zenon

(* One sequence more is put at the end.                                     *)
LEMMA FlattenAppend ==
  ASSUME NEW T, NEW s \in Seq(Seq(T)), NEW x \in Seq(T)
  PROVE  /\ FlattenSeq(s) \in Seq(T)
         /\ FlattenSeq(Append(s, x)) = FlattenSeq(s) \o x
<1> DEFINE t == Append(s, x)
<1>1. /\ t \in Seq(Seq(T)) /\ Len(t) = Len(s) + 1 /\ Len(s) \in Nat
      /\ \A i \in 1 .. Len(s) : t[i] = s[i] /\ s[i] \in Seq(T)
      /\ t[Len(s) + 1] = x
  BY ElementOfSeq
<1>2. PICK f : /\ f = [i \in 1 .. Len(t) |-> IF i = 1 THEN t[i] ELSE f[i - 1] \o t[i]]
               /\ FlattenSeq(t) = f[Len(t)]
  <2>1. t # << >>
    <3> HIDE DEF t
    <3>1. Len(t) # 0
      BY <1>1
    <3> QED
      BY <3>1
  <2> HIDE DEF t
  <2> QED
    BY <1>1, <2>1, Flattened, Zenon
<1> HIDE DEF t
<1>3. \A i \in 1 .. Len(t) : f[i] = IF i = 1 THEN t[i] ELSE f[i - 1] \o t[i]
  <2> DEFINE ff == [i \in 1 .. Len(t) |-> IF i = 1 THEN t[i] ELSE f[i - 1] \o t[i]]
  <2>1. \A i \in 1 .. Len(t) : ff[i] = IF i = 1 THEN t[i] ELSE f[i - 1] \o t[i]
    OBVIOUS
  <2>2. ff = f
    BY <1>2, Zenon
  <2> QED
    BY <2>1, <2>2, Zenon
<1>4. CASE s = << >>
  <2>1. Len(t) = 1 /\ Len(s) = 0
    BY <1>1, <1>4
  <2>2. FlattenSeq(t) = x
    BY <1>1, <1>2, <1>3, <2>1
  <2>3. FlattenSeq(s) = << >>
    BY <1>4, <2>1 DEF FlattenSeq
  <2> QED
    BY <2>2, <2>3 DEF t
<1>5. CASE s # << >>
  <2>1. PICK g : /\ g = [i \in 1 .. Len(s) |-> IF i = 1 THEN s[i] ELSE g[i - 1] \o s[i]]
                 /\ FlattenSeq(s) = g[Len(s)]
    BY <1>5, Flattened, Zenon
  <2>2. \A i \in 1 .. Len(s) : g[i] = IF i = 1 THEN s[i] ELSE g[i - 1] \o s[i]
    <3> DEFINE gg == [i \in 1 .. Len(s) |-> IF i = 1 THEN s[i] ELSE g[i - 1] \o s[i]]
    <3>1. \A i \in 1 .. Len(s) : gg[i] = IF i = 1 THEN s[i] ELSE g[i - 1] \o s[i]
      OBVIOUS
    <3>2. gg = g
      BY <2>1, Zenon
    <3> QED
      BY <3>1, <3>2, Zenon
  <2> DEFINE S == {i \in Nat : i + 1 \in 1 .. Len(s) => g[i + 1] \in Seq(T) /\ f[i + 1] = g[i + 1]}
  <2>3. 0 \in S
    BY <1>1, <1>3, <2>2
  <2>4. ASSUME NEW i \in Nat, i \in S PROVE i + 1 \in S
    <3> SUFFICES ASSUME i + 2 \in 1 .. Len(s) PROVE g[i + 2] \in Seq(T) /\ f[i + 2] = g[i + 2]
      OBVIOUS
    <3>0. /\ i + 2 \in 1 .. Len(s) /\ i + 2 \in 1 .. Len(t) /\ i + 2 # 1
          /\ (i + 2) - 1 = i + 1 /\ i + 1 \in 1 .. Len(s)
      BY <1>1
    <3>1. g[i + 1] \in Seq(T) /\ f[i + 1] = g[i + 1]
      BY <3>0, <2>4
    <3>2. g[i + 2] = g[i + 1] \o s[i + 2]
      BY <3>0, <2>2
    <3>3. f[i + 2] = f[i + 1] \o t[i + 2]
      BY <3>0, <1>3
    <3>4. t[i + 2] = s[i + 2] /\ s[i + 2] \in Seq(T)
      BY <1>1
    <3> QED
      BY <3>1, <3>2, <3>3, <3>4
  <2>5. \A i \in Nat : i \in S
    <3> HIDE DEF S
    <3> QED
      BY <2>3, <2>4, ByInduction
  <2>6. Len(s) - 1 \in Nat /\ Len(s) \in 1 .. Len(s)
    BY <1>1, <1>5
  <2>7. g[Len(s)] \in Seq(T) /\ f[Len(s)] = g[Len(s)]
    <3>1. Len(s) - 1 \in S
      BY <2>5, <2>6
    <3> QED
      BY <3>1, <2>6
  <2>8. f[Len(s) + 1] = f[Len(s)] \o t[Len(s) + 1]
    <3>1. Len(s) + 1 \in 1 .. Len(t) /\ Len(s) + 1 # 1 /\ (Len(s) + 1) - 1 = Len(s)
      BY <1>1, <2>6
    <3> QED
      BY <1>3, <3>1
  <2> QED
    BY <1>1, <1>2, <2>1, <2>7, <2>8, Zenon DEF t
<1> QED
  BY <1>4, <1>5

(* Where the elements of a flattened sequence are.                          *)
FlatPlaces(s, b) ==
  /\ b \in [0 .. Len(s) -> Nat] /\ b[0] = 0 /\ b[Len(s)] = Len(FlattenSeq(s))
  /\ \A k \in 1 .. Len(s) :
       /\ b[k] = b[k - 1] + Len(s[k]) /\ b[k] <= Len(FlattenSeq(s))
       /\ \A q \in 1 .. Len(s[k]) : FlattenSeq(s)[b[k - 1] + q] = s[k][q]

LEMMA FlatPlacesAppend ==
  ASSUME NEW T, NEW s \in Seq(Seq(T)), NEW x \in Seq(T), NEW b, FlatPlaces(s, b)
  PROVE  \E d : FlatPlaces(Append(s, x), d)
<1> DEFINE t == Append(s, x)
           m == Len(s)
           f == FlattenSeq(s)
           g == FlattenSeq(t)
           d == [i \in 0 .. m + 1 |-> IF i = m + 1 THEN b[m] + Len(x) ELSE b[i]]
<1>1. /\ t \in Seq(Seq(T)) /\ Len(t) = m + 1 /\ m \in Nat
      /\ \A i \in 1 .. m : t[i] = s[i] /\ s[i] \in Seq(T)
      /\ t[m + 1] = x
  BY ElementOfSeq
<1>2. f \in Seq(T) /\ g = f \o x
  BY FlattenAppend
<1> HIDE DEF f, g, t, m
<1>3. /\ g \in Seq(T) /\ Len(g) = Len(f) + Len(x) /\ Len(f) \in Nat /\ Len(x) \in Nat
      /\ \A j \in 1 .. Len(f) : g[j] = f[j]
      /\ \A j \in 1 .. Len(x) : g[Len(f) + j] = x[j]
  BY ONLY <1>2, x \in Seq(T), Joined
<1>4. /\ b \in [0 .. m -> Nat] /\ b[0] = 0 /\ b[m] = Len(f)
      /\ \A k \in 1 .. m : b[k] = b[k - 1] + Len(s[k]) /\ b[k] <= Len(f)
      /\ \A k \in 1 .. m : \A q \in 1 .. Len(s[k]) : f[b[k - 1] + q] = s[k][q]
  BY DEF FlatPlaces, f, m
<1>5. /\ d \in [0 .. m + 1 -> Nat] /\ d[0] = 0 /\ d[m + 1] = Len(g)
      /\ \A i \in 0 .. m : d[i] = b[i]
  BY <1>1, <1>3, <1>4
<1> HIDE DEF d
<1>6. ASSUME NEW k \in 1 .. m
      PROVE  /\ d[k] = d[k - 1] + Len(t[k]) /\ d[k] <= Len(g)
             /\ \A q \in 1 .. Len(t[k]) : g[d[k - 1] + q] = t[k][q]
  <2>1. /\ d[k] = b[k] /\ d[k - 1] = b[k - 1] /\ t[k] = s[k] /\ Len(s[k]) \in Nat
        /\ b[k] \in Nat /\ b[k - 1] \in Nat
    <3>1. k \in 0 .. m /\ k - 1 \in 0 .. m
      BY <1>1
    <3>2. t[k] = s[k] /\ Len(s[k]) \in Nat
      BY <1>1
    <3> QED
      BY <1>4, <1>5, <3>1, <3>2
  <2>2. b[k] = b[k - 1] + Len(s[k]) /\ b[k] <= Len(f)
    BY <1>4
  <2>3. ASSUME NEW q \in 1 .. Len(s[k]) PROVE g[b[k - 1] + q] = s[k][q]
    <3>1. b[k - 1] + q \in 1 .. Len(f)
      <4>1. PICK p \in Nat, e \in Nat, l \in Nat : p = b[k - 1] /\ e = Len(s[k]) /\ l = Len(f)
        BY <1>3, <2>1
      <4>2. p + e <= l /\ q \in 1 .. e
        BY <2>2, <4>1
      <4>3. p + q \in 1 .. l
        BY <4>2
      <4> QED
        BY <4>1, <4>3
    <3>2. f[b[k - 1] + q] = s[k][q]
      BY <1>4
    <3> QED
      BY <1>3, <3>1, <3>2
  <2>4. b[k] <= Len(g)
    BY <1>3, <2>1, <2>2
  <2> QED
    BY <2>1, <2>2, <2>3, <2>4
<1>7. /\ d[m + 1] = d[(m + 1) - 1] + Len(t[m + 1]) /\ d[m + 1] <= Len(g)
      /\ \A q \in 1 .. Len(t[m + 1]) : g[d[(m + 1) - 1] + q] = t[m + 1][q]
  <2>1. (m + 1) - 1 = m /\ d[m] = Len(f)
    BY <1>1, <1>4, <1>5
  <2>2. d[m + 1] = Len(g) /\ t[m + 1] = x /\ Len(g) = Len(f) + Len(x)
    BY <1>1, <1>3, <1>5
  <2>3. \A q \in 1 .. Len(x) : g[Len(f) + q] = x[q]
    BY <1>3
  <2>4. Len(g) <= Len(g)
    BY <1>3
  <2> QED
    BY ONLY <2>1, <2>2, <2>3, <2>4
<1>8. \A k \in 1 .. m + 1 : k \in 1 .. m \/ k = m + 1
  BY <1>1
<1>9. \A k \in 1 .. m + 1 :
        /\ d[k] = d[k - 1] + Len(t[k]) /\ d[k] <= Len(g)
        /\ \A q \in 1 .. Len(t[k]) : g[d[k - 1] + q] = t[k][q]
  BY <1>6, <1>7, <1>8
<1>10. FlatPlaces(t, d)
  BY <1>1, <1>5, <1>9 DEF FlatPlaces, g
<1> QED
  BY <1>10 DEF t

LEMMA Flat ==
  ASSUME NEW T, NEW s \in Seq(Seq(T))
  PROVE  FlattenSeq(s) \in Seq(T) /\ \E b : FlatPlaces(s, b)
<1> DEFINE S == {m \in Nat : \A t \in Seq(Seq(T)) :
                   Len(t) = m => FlattenSeq(t) \in Seq(T) /\ \E b : FlatPlaces(t, b)}
<1>1. 0 \in S
  <2> SUFFICES ASSUME NEW t \in Seq(Seq(T)), Len(t) = 0
               PROVE  FlattenSeq(t) \in Seq(T) /\ \E b : FlatPlaces(t, b)
    OBVIOUS
  <2>1. t = << >> /\ FlattenSeq(t) = << >> /\ Len(FlattenSeq(t)) = 0
    BY DEF FlattenSeq
  <2>2. PICK b : b = [i \in 0 .. 0 |-> 0]
    OBVIOUS
  <2>3. b \in [0 .. 0 -> Nat] /\ b[0] = 0
    BY <2>2
  <2>4. \A k \in 1 .. 0 : FALSE
    OBVIOUS
  <2>5. FlatPlaces(t, b)
    <3>1. Len(t) = 0 /\ b[Len(t)] = Len(FlattenSeq(t))
      BY <2>1, <2>3
    <3> QED
      BY <2>3, <2>4, <3>1 DEF FlatPlaces
  <2>6. << >> \in Seq(T)
    OBVIOUS
  <2> QED
    BY <2>1, <2>5, <2>6, Zenon
<1>2. ASSUME NEW m \in Nat, m \in S PROVE m + 1 \in S
  <2> SUFFICES ASSUME NEW t \in Seq(Seq(T)), Len(t) = m + 1
               PROVE  FlattenSeq(t) \in Seq(T) /\ \E b : FlatPlaces(t, b)
    OBVIOUS
  <2> DEFINE u == SubSeq(t, 1, m)
             x == t[m + 1]
             w == Append(u, x)
  <2>1. u \in Seq(Seq(T)) /\ Len(u) = m /\ x \in Seq(T) /\ \A i \in 1 .. m : u[i] = t[i]
    OBVIOUS
  <2> HIDE DEF u
  <2>2. w = t
    <3>1. w \in Seq(Seq(T)) /\ Len(w) = m + 1 /\ (\A i \in 1 .. m : w[i] = u[i]) /\ w[m + 1] = x
      BY <2>1, AppendProperties
    <3> HIDE DEF w
    <3>2. \A i \in 1 .. m + 1 : w[i] = t[i]
      <4>1. \A i \in 1 .. m + 1 : i \in 1 .. m \/ i = m + 1
        OBVIOUS
      <4> QED
        BY <2>1, <3>1, <4>1
    <3> QED
      BY <3>1, <3>2, SeqEqual
  <2>3. FlattenSeq(u) \in Seq(T) /\ \E b : FlatPlaces(u, b)
    BY <1>2, <2>1
  <2>4. FlattenSeq(w) = FlattenSeq(u) \o x
    BY <2>1, FlattenAppend
  <2>5. FlattenSeq(w) \in Seq(T)
    BY <2>1, <2>3, <2>4
  <2>6. \E b : FlatPlaces(w, b)
    BY <2>1, <2>3, FlatPlacesAppend
  <2> QED
    BY <2>2, <2>5, <2>6
<1>3. \A m \in Nat : m \in S
  <2> HIDE DEF S
  <2> QED
    BY <1>1, <1>2, ByInduction
<1> QED
  BY <1>3
===============================================================================
