------------------------------- MODULE AtrParser -------------------------------
(* xpcsc::ATRParser (libxpcsc/src/atrparser.cpp): load takes an ATR apart  *)
(* as a loop over the sections of its interface bytes, checkFeature and    *)
(* str answer questions about it.  The programs make an object for every   *)
(* ATR, and an exception of load ends them.                                *)
EXTENDS Integers, Sequences, FiniteSets, Functions

CONSTANTS
  Atrs,         \* what SCardStatus may return: sequences of bytes
  SIZES,        \* how many values a size_t has
  RID           \* the five bytes A0 00 00 03 06

Byte == 0 .. 255
ASSUME AtrAssumption == Atrs \subseteq Seq(Byte) /\ RID \in Seq(Byte) /\ Len(RID) = 5
ASSUME SizeAssumption == SIZES \in Nat \ (0 .. 255)

(* A field is a pair such as <<"TA", 1>>; sections count from 1. *)
Letters == <<"TA", "TB", "TC", "TD">>
MaxSections == 7
TS == <<"TS", 0>>
T0 == <<"T0", 0>>
TCK == <<"TCK", 0>>
Fields == {TS, T0, TCK} \union {<<Letters[k], i>> : k \in 1 .. 4, i \in 1 .. MaxSections}
Features == {"ICC", "PICC", "MIFARE_1K", "MIFARE_4K", "SLE_66R35"}

VARIABLES
  atr,
  fields,    \* a map: the fields found, each with its byte
  hbSize, hb,
  features,  \* the cache of checkFeature
  pos,       \* local to load: the last byte read
  section,   \* local to load: i
  presence,  \* local to load: TD_p
  pc,        \* "new", "section", "history", "loaded", "refused", "aborted"
  answer     \* what checkFeature said last: [feature, is], or "none"

loading == <<pos, section, presence>>
vars == <<atr, fields, hbSize, hb, features, loading, pc, answer>>

NoAnswer == [feature |-> "none", is |-> FALSE]

(* The parser's bookkeeping stays within what it has names for: seven      *)
(* sections, fifteen historical bytes, the fields of the enumeration.      *)
TypeOK ==
  /\ atr \in Atrs \union {<< >>}
  /\ DOMAIN fields \subseteq Fields
  /\ \A f \in DOMAIN fields : fields[f] \in Byte
  /\ hbSize \in 0 .. 15 /\ Len(hb) <= 15
  /\ features \subseteq Features
  /\ pos \in Byte
  /\ section \in 1 .. MaxSections + 1
  /\ answer \in [feature : Features \union {"none"}, is : BOOLEAN]

Init ==
  /\ atr = << >> /\ fields = [f \in {} |-> 0]
  /\ hbSize = 0 /\ hb = << >>
  /\ features = {}
  /\ pos = 0 /\ section = 1 /\ presence = 0
  /\ pc = "new" /\ answer = NoAnswer

-----------------------------------------------------------------------------
HN(b) == b \div 16
LN(b) == b % 16
CHECK_BIT(b, n) == (b \div 2 ^ n) % 2 = 1

(* The byte of a field; operator[] makes an absent one a zero. *)
Value(m, f) == IF f \in DOMAIN m THEN m[f] ELSE 0
Detection == <<TS, T0, <<"TD", 1>>, <<"TD", 2>>>>

(* Slips a change of the parser could make, for the properties to catch.   *)
KeepFeatures(fs) == fs                                         \* of Fresh
LateCheck(i) == i > MaxSections + 1                            \* of TooMany
TightRoom(p, size, k) == p >= (size - k - 1) % SIZES           \* of NoRoom
EarlyTck(p, size) == p < size - 1                              \* of HasTck
LookAll(m) == [f \in DOMAIN m \union {Detection[j] : j \in 1 .. 4} |-> Value(m, f)]
                                                               \* of Looked

(* at() of the ATR, counted from 0; the caller makes sure it is there.     *)
At(p) == atr[p + 1]
Here(p) == p < Len(atr)

Refuse == pc' = "refused"

(* load, up to T0.  A length it does not accept leaves the object alone.   *)
Load(a) ==
  /\ pc = "new"
  /\ IF Len(a) > 33 \/ Len(a) < 2
     THEN Refuse /\ UNCHANGED <<atr, fields, hbSize, loading>>
     ELSE /\ atr' = a
          /\ IF a[1] \notin {59, 63}                      \* 3B, 3F
             THEN Refuse /\ fields' = [f \in {} |-> 0]
                  /\ UNCHANGED <<hbSize, loading>>
             ELSE /\ fields' = [f \in {TS, T0} |-> IF f = TS THEN a[1] ELSE a[2]]
                  /\ hbSize' = LN(a[2])
                  /\ pos' = 1 /\ section' = 1 /\ presence' = a[2]
                  /\ pc' = "section"
  /\ UNCHANGED <<hb, features, answer>>

(* Which of TA, TB, TC and TD follow, and where the k-th of them is. *)
Present(b, k) == CHECK_BIT(b, k + 3)
Place(b, p, k) == p + Cardinality({j \in 1 .. k : Present(b, j)})

TooMany(i) == i > MaxSections

(* One turn of the loop. *)
Section ==
  /\ pc = "section"
  /\ LET there == {k \in 1 .. 4 : Present(presence, k)}
         read == {k \in there : Here(Place(presence, pos, k))}
         last == Place(presence, pos, 4)
     IN
     IF TooMany(section)
     THEN Refuse /\ UNCHANGED <<fields, loading>>
     ELSE /\ fields' = [f \in DOMAIN fields \union {<<Letters[k], section>> : k \in read} |->
                IF f \in DOMAIN fields THEN fields[f]
                ELSE At(Place(presence, pos, CHOOSE k \in read : Letters[k] = f[1]))]
          /\ IF read # there
             THEN Refuse /\ UNCHANGED loading
             ELSE /\ pos' = last
                  /\ \/ /\ 4 \in there
                        /\ presence' = At(last)
                        /\ section' = section + 1
                        /\ UNCHANGED pc
                     \/ /\ 4 \notin there
                        /\ pc' = "history"
                        /\ UNCHANGED <<section, presence>>
  /\ UNCHANGED <<atr, hbSize, hb, features, answer>>

(* The arithmetic of the length checks is that of size_t. *)
Size_t(x) == x % SIZES
NoRoom(p, size, k) == p > Size_t(size - k - 1)
HasTck(p, size) == p = Size_t(size - 2)

(* The historical bytes and the byte after them. *)
History ==
  /\ pc = "history"
  /\ LET size == Len(atr)
         last == pos + hbSize
     IN
     IF NoRoom(pos, size, hbSize) \/ ~Here(last)
     THEN Refuse /\ UNCHANGED <<fields, hb, pos>>
     ELSE /\ hb' = SubSeq(atr, pos + 2, last + 1)
          /\ pos' = IF HasTck(last, size) THEN last + 1 ELSE last
          /\ fields' = IF HasTck(last, size)
                       THEN [f \in DOMAIN fields \union {TCK} |->
                               IF f = TCK THEN At(last + 1) ELSE fields[f]]
                       ELSE fields
          /\ pc' = "loaded"
  /\ UNCHANGED <<atr, hbSize, features, section, presence, answer>>

-----------------------------------------------------------------------------
(* The four tests for a proximity card, each made only if the one before   *)
(* it succeeded; looking a field up puts it into the map.                  *)
Passes(m, j) ==
  LET v == Value(m, Detection[j])
  IN  CASE j = 1 -> v = 59 [] j = 2 -> HN(v) = 8 [] j = 3 -> v = 128 [] j = 4 -> v = 1
Proximity(m) == \A j \in 1 .. 4 : Passes(m, j)
Looked(m) ==
  [f \in DOMAIN m \union {Detection[j] : j \in {n \in 1 .. 4 : \A i \in 1 .. n - 1 : Passes(m, i)}}
     |-> Value(m, f)]

(* Historical bytes that name a card, and what the card they name can do.  *)
Naming(h) == Len(h) >= 2 /\ h[1] = 128 /\ h[2] = 79
OfPcsc(h) == Len(h) >= 3 /\ SubSeq(h, 4, IF Len(h) < 8 THEN Len(h) ELSE 8) = RID
CardName(h) == h[10] * 256 + h[11]
Abilities(name) ==
  {f \in Features : \/ f = "MIFARE_1K" /\ name \in {1, 65416}
                    \/ f = "MIFARE_4K" /\ name = 2
                    \/ f = "SLE_66R35" /\ name = 65416}

(* Reading past the historical bytes throws: substr when they end before   *)
(* the RID, at when they end before the card's name.                       *)
NameCut(h) == Naming(h) /\ (Len(h) < 3 \/ (OfPcsc(h) /\ Len(h) < 11))

checkFeature(f) ==
  /\ pc = "loaded"
  /\ \/ /\ features # {}
        /\ answer' = [feature |-> f, is |-> f \in features]
        /\ UNCHANGED <<fields, features, pc>>
     \/ /\ features = {}
        /\ fields' = Looked(fields)
        /\ features' = IF ~Proximity(fields) THEN {"ICC"}
                       ELSE {"PICC"} \union
                            (IF Naming(hb) /\ OfPcsc(hb) /\ ~NameCut(hb)
                             THEN Abilities(CardName(hb)) ELSE {})
        /\ IF Proximity(fields) /\ NameCut(hb)
           THEN pc' = "aborted" /\ UNCHANGED answer
           ELSE answer' = [feature |-> f, is |-> f \in features'] /\ UNCHANGED pc
  /\ UNCHANGED <<atr, hbSize, hb, loading>>

(* The data objects of the historical bytes, one after another, from the   *)
(* i-th: do they end where the bytes end?                                  *)
Whole(h) ==
  LET from[i \in Nat] == \/ i >= Len(h)
                         \/ LET next == i + LN(h[i + 1]) + 1
                            IN  next <= Len(h) /\ from[next]
  IN  from[1]

(* str: of what it does, only the map and whether it comes to an end. *)
str ==
  /\ pc = "loaded"
  /\ fields' = Looked(fields)
  /\ LET reads == Proximity(fields) /\ hb # << >> /\ hb[1] = 128
     IN  IF reads /\ (IF Naming(hb) THEN Len(hb) < 11 ELSE ~Whole(hb))
         THEN pc' = "aborted"
         ELSE UNCHANGED pc
  /\ UNCHANGED <<atr, hbSize, hb, features, loading, answer>>

(* The next card: a new object, so nothing is known of it. *)
Fresh(fs) == {}
New ==
  /\ pc \in {"loaded", "refused", "aborted"}
  /\ atr' = << >> /\ fields' = [f \in {} |-> 0]
  /\ hbSize' = 0 /\ hb' = << >>
  /\ features' = Fresh(features)
  /\ pos' = 0 /\ section' = 1 /\ presence' = 0
  /\ pc' = "new" /\ answer' = NoAnswer

Next ==
  \/ \E a \in Atrs : Load(a)
  \/ Section \/ History
  \/ \E f \in Features : checkFeature(f)
  \/ str \/ New

Spec == Init /\ [][Next]_vars

-----------------------------------------------------------------------------
Before(k, i) == {f \in DOMAIN fields : \E n \in 1 .. 4 : f[1] = Letters[n] /\
                    (f[2] < i \/ (f[2] = i /\ n < k))}

(* What is known of a loaded ATR is its decomposition by ISO 7816-3: each  *)
(* interface byte is there exactly if T0 or the TD before it says so, the  *)
(* bytes lie one after another in the order of their sections, then come   *)
(* the historical bytes, and TCK is the byte after them if it is the last. *)
Decomposed ==
  pc \in {"loaded", "aborted"} =>
    LET Announced(k, i) ==
          LET by == IF i = 1 THEN T0 ELSE <<"TD", i - 1>>
          IN  by \in DOMAIN fields /\ CHECK_BIT(fields[by], k + 3)
        interface == DOMAIN fields \ {TS, T0, TCK}
        end == 2 + Cardinality(interface) + LN(atr[2])
    IN  /\ fields[TS] = atr[1] /\ fields[T0] = atr[2]
        /\ \A k \in 1 .. 4, i \in 1 .. MaxSections :
             /\ (<<Letters[k], i>> \in interface) = Announced(k, i)
             /\ Announced(k, i) =>
                  fields[<<Letters[k], i>>] = atr[3 + Cardinality(Before(k, i))]
        /\ hb = SubSeq(atr, end - LN(atr[2]) + 1, end)
        /\ (TCK \in DOMAIN fields) = (Len(atr) = end + 1)
        /\ TCK \in DOMAIN fields => fields[TCK] = atr[Len(atr)]

(* An ATR is acceptable if it is 2 to 33 bytes, begins with a known TS,    *)
(* and has room for the bytes it announces, of at most seven sections.     *)
Acceptable(a) ==
  LET width(p) == Cardinality({k \in 4 .. 7 : CHECK_BIT(a[p], k)})
      td[i \in 1 .. MaxSections] ==        \* where T0, TD1, TD2, ... would be
        IF i = 1 THEN 2
        ELSE td[i - 1] + IF td[i - 1] <= Len(a) THEN width(td[i - 1]) ELSE 0
  IN  /\ Len(a) \in 2 .. 33 /\ a[1] \in {59, 63}
      /\ \E n \in 1 .. MaxSections :
           /\ td[n] <= Len(a)
           /\ \A i \in 1 .. n : CHECK_BIT(a[td[i]], 7) = (i < n)
           /\ td[n] + width(td[n]) + LN(a[2]) <= Len(a)

(* load accepts the acceptable ATRs and no others, whatever the unsigned   *)
(* subtraction of its length check does.                                   *)
Verdict ==
  /\ pc \in {"loaded", "aborted"} => Acceptable(atr)
  /\ pc = "refused" /\ atr # << >> => ~Acceptable(atr)

(* What the card of this ATR is, read off its bytes. *)
Contactless(a) == Len(a) >= 4 /\ a[1] = 59 /\ HN(a[2]) = 8 /\ a[3] = 128 /\ a[4] = 1
Named(a, name) ==
  /\ Contactless(a) /\ LN(a[2]) >= 11
  /\ a[5] = 128 /\ a[6] = 79 /\ SubSeq(a, 8, 12) = RID
  /\ a[14] = name \div 256 /\ a[15] = name % 256

Is(f) ==
  \/ f = "ICC" /\ ~Contactless(atr)
  \/ f = "PICC" /\ Contactless(atr)
  \/ f = "MIFARE_1K" /\ (Named(atr, 1) \/ Named(atr, 65416))
  \/ f = "MIFARE_4K" /\ Named(atr, 2)
  \/ f = "SLE_66R35" /\ Named(atr, 65416)

(* Every answer is about the card of this ATR: it is contactless or not,   *)
(* and of the kind its historical bytes name, in whatever order the        *)
(* questions are asked and whatever card came before.                      *)
AnswerOfCard == answer # NoAnswer => (answer.is <=> Is(answer.feature))

(* Asking or showing changes nothing of what load found: a field looked    *)
(* up is always there, though operator[] would make it up.                 *)
AskingIsReading == [][pc = "loaded" /\ pc' # "new" => fields' = fields]_vars
=============================================================================
