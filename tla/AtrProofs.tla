------------------------------- MODULE AtrProofs -------------------------------
(* Theorems about AtrParser, for every set of ATRs: its bookkeeping stays   *)
(* within its bounds, questions change nothing, and the answers are those   *)
(* of the card.                                                             *)
EXTENDS AtrParser, FiniteSetTheorems, SequenceLemmas

TD(i) == <<"TD", i>>
There == {k \in 1 .. 4 : Present(presence, k)}
Width == Cardinality(There)

(* The loop counts its sections, and a section needs at most four bytes.    *)
Counting ==
  /\ atr \in Seq(Byte) /\ presence \in Byte
  /\ pc \in {"section", "history"} => Len(atr) \in 2 .. 33
  /\ pc = "section" => pos \in 1 .. 4 * section - 3
  /\ pc = "history" => pos \in 1 .. 29

AtrInv == TypeOK /\ Counting

-----------------------------------------------------------------------------
(* Bytes and bits.                                                          *)

LEMMA Nibbles ==
  ASSUME NEW b \in Byte
  PROVE  HN(b) \in 0 .. 15 /\ LN(b) \in 0 .. 15
BY DEF Byte, HN, LN

LEMMA Length ==
  ASSUME NEW n \in Nat, ~(n > 33 \/ n < 2)
  PROVE  n \in 2 .. 33
OBVIOUS

LEMMA NoWrap ==
  ASSUME NEW x \in 0 .. 255
  PROVE  Size_t(x) = x
<1>1. SIZES \in Nat /\ x < SIZES
  BY SizeAssumption
<1> QED
  BY <1>1 DEF Size_t

(* The number of two bytes. *)
Word(x, y) == x * 256 + y
HighOf(n) == n \div 256
LowOf(n) == n % 256

LEMMA TwoBytes ==
  ASSUME NEW x \in 0 .. 255, NEW y \in 0 .. 255, NEW n \in Nat
  PROVE  Word(x, y) = n <=> x = HighOf(n) /\ y = LowOf(n)
<1>1. (x * 256 + y) \div 256 = x /\ (x * 256 + y) % 256 = y
  OBVIOUS
<1>2. (n \div 256) * 256 + (n % 256) = n
  OBVIOUS
<1> QED
  BY <1>1, <1>2 DEF Word, HighOf, LowOf

(* The places of the bytes of a section, after p. *)
LEMMA Places ==
  ASSUME NEW b, NEW p \in Nat, NEW k \in 1 .. 4
  PROVE  Place(b, p, k) \in p .. p + 4
<1> DEFINE S == {j \in 1 .. k : Present(b, j)}
<1>1. IsFiniteSet(1 .. 4) /\ Cardinality(1 .. 4) = 4
  <2>1. 1 \in Int /\ 4 \in Int /\ ~(1 > 4) /\ 4 - 1 + 1 = 4
    OBVIOUS
  <2> QED
    BY <2>1, FS_Interval
<1>2. S \subseteq 1 .. 4
  OBVIOUS
<1>3. Cardinality(S) \in Nat /\ Cardinality(S) <= 4
  BY <1>1, <1>2, FS_Subset, FS_CardinalityType
<1> QED
  BY <1>3 DEF Place

LEMMA ByteAt ==
  ASSUME atr \in Seq(Byte), NEW p \in Nat, Here(p)
  PROVE  At(p) \in Byte
<1>1. p + 1 \in 1 .. Len(atr)
  BY LenProperties DEF Here
<1> QED
  BY <1>1, ElementOfSeq DEF At

LEMMA FieldNames ==
  /\ {TS, T0, TCK} \subseteq Fields
  /\ \A k \in 1 .. 4, i \in 1 .. MaxSections : <<Letters[k], i>> \in Fields
  /\ \A j \in 1 .. 4 : Detection[j] \in Fields
<1>1. {TS, T0, TCK} \subseteq Fields
  BY DEF Fields
<1>2. \A k \in 1 .. 4, i \in 1 .. MaxSections : <<Letters[k], i>> \in Fields
  BY DEF Fields
<1>3. TD(1) \in Fields /\ TD(2) \in Fields
  <2>1. Letters[4] = "TD" /\ 4 \in 1 .. 4 /\ 1 \in 1 .. MaxSections /\ 2 \in 1 .. MaxSections
    BY DEF Letters, MaxSections
  <2>2. <<Letters[4], 1>> \in Fields /\ <<Letters[4], 2>> \in Fields
    BY <1>2, <2>1
  <2> QED
    BY <2>1, <2>2 DEF TD
<1>4. Detection[1] = TS /\ Detection[2] = T0 /\ Detection[3] = TD(1) /\ Detection[4] = TD(2)
  BY DEF Detection, TD
<1>5. \A j \in 1 .. 4 : j = 1 \/ j = 2 \/ j = 3 \/ j = 4
  OBVIOUS
<1> QED
  BY <1>1, <1>2, <1>3, <1>4, <1>5

-----------------------------------------------------------------------------
(* One turn of the loop.                                                    *)

LEMMA TurnFields ==
  ASSUME AtrInv, Section, ~TooMany(section)
  PROVE  LET read == {k \in There : Here(Place(presence, pos, k))} IN
         /\ section \in 1 .. MaxSections
         /\ DOMAIN fields' = DOMAIN fields \union {<<Letters[k], section>> : k \in read}
         /\ \A f \in DOMAIN fields : fields'[f] = fields[f]
         /\ \A k \in read : <<Letters[k], section>> \in DOMAIN fields
                            \/ fields'[<<Letters[k], section>>] = At(Place(presence, pos, k))
         /\ \/ read # There /\ pc' = "refused" /\ UNCHANGED loading
            \/ /\ read = There /\ pos' = Place(presence, pos, 4)
               /\ \/ /\ 4 \in There /\ presence' = At(pos') /\ section' = section + 1
                     /\ pc' = "section"
                  \/ 4 \notin There /\ pc' = "history" /\ UNCHANGED <<section, presence>>
<1> DEFINE read == {k \in There : Here(Place(presence, pos, k))}
<1>1. section \in 1 .. MaxSections
  BY DEF AtrInv, TypeOK, TooMany, MaxSections
<1>2. fields' = [f \in DOMAIN fields \union {<<Letters[k], section>> : k \in read} |->
                  IF f \in DOMAIN fields THEN fields[f]
                  ELSE At(Place(presence, pos, CHOOSE k \in read : Letters[k] = f[1]))]
  BY DEF Section, There
<1>3. \A k \in read : (CHOOSE i \in read : Letters[i] = Letters[k]) = k
  <2>1. \A i, k \in read : Letters[i] = Letters[k] => i = k
    BY DEF Letters, There
  <2> QED
    BY <2>1
<1>4. \A k \in read : <<Letters[k], section>> \in DOMAIN fields
                      \/ fields'[<<Letters[k], section>>] = At(Place(presence, pos, k))
  <2> SUFFICES ASSUME NEW k \in read, <<Letters[k], section>> \notin DOMAIN fields
               PROVE  fields'[<<Letters[k], section>>] = At(Place(presence, pos, k))
    OBVIOUS
  <2> DEFINE f == <<Letters[k], section>>
  <2>1. f[1] = Letters[k] /\ f \in {<<Letters[i], section>> : i \in read}
    OBVIOUS
  <2> HIDE DEF f, read
  <2>2. fields'[f] = At(Place(presence, pos, CHOOSE i \in read : Letters[i] = f[1]))
    BY <1>2, <2>1 DEF f
  <2>3. (CHOOSE i \in read : Letters[i] = f[1]) = k
    BY <1>3, <2>1
  <2>4. fields'[f] = At(Place(presence, pos, k))
    BY <2>2, <2>3
  <2> QED
    BY <2>4 DEF f
<1>5. DOMAIN fields' = DOMAIN fields \union {<<Letters[k], section>> : k \in read}
      /\ \A f \in DOMAIN fields : fields'[f] = fields[f]
  BY <1>2
<1>6. \/ read # There /\ pc' = "refused" /\ UNCHANGED loading
      \/ /\ read = There /\ pos' = Place(presence, pos, 4)
         /\ \/ /\ 4 \in There /\ presence' = At(pos') /\ section' = section + 1
               /\ pc' = "section"
            \/ 4 \notin There /\ pc' = "history" /\ UNCHANGED <<section, presence>>
  BY DEF Section, There, Refuse
<1> QED
  BY <1>1, <1>4, <1>5, <1>6

LEMMA SectionStep == AtrInv /\ Section => AtrInv'
<1> SUFFICES ASSUME AtrInv, Section PROVE AtrInv'
  OBVIOUS
<1>0. UNCHANGED <<atr, hbSize, hb, features, answer>> /\ pc = "section"
  BY DEF Section
<1>1. CASE TooMany(section)
  BY <1>0, <1>1 DEF Section, AtrInv, TypeOK, Counting, Refuse, loading
<1>2. CASE ~TooMany(section)
  <2> DEFINE read == {k \in There : Here(Place(presence, pos, k))}
             new == {<<Letters[k], section>> : k \in read}
  <2>1. /\ section \in 1 .. MaxSections /\ pos \in Nat /\ pos <= 4 * section - 3
        /\ atr \in Seq(Byte) /\ Len(atr) \in 2 .. 33
    BY <1>0, <1>2, TurnFields DEF AtrInv, Counting, MaxSections
  <2>2. DOMAIN fields' = DOMAIN fields \union new
    BY <1>2, TurnFields
  <2>3. new \subseteq Fields
    BY <2>1, FieldNames DEF There
  <2>4. \A k \in read : At(Place(presence, pos, k)) \in Byte
    <3> SUFFICES ASSUME NEW k \in read PROVE At(Place(presence, pos, k)) \in Byte
      OBVIOUS
    <3>1. Place(presence, pos, k) \in Nat /\ Here(Place(presence, pos, k))
      BY <2>1, Places DEF There
    <3> QED
      BY <2>1, <3>1, ByteAt
  <2>5. \A f \in DOMAIN fields' : fields'[f] \in Byte
    <3> SUFFICES ASSUME NEW f \in DOMAIN fields' PROVE fields'[f] \in Byte
      OBVIOUS
    <3>1. CASE f \in DOMAIN fields
      BY <1>2, <3>1, TurnFields DEF AtrInv, TypeOK
    <3>2. CASE f \notin DOMAIN fields
      <4>1. PICK k \in read : f = <<Letters[k], section>>
        BY <2>2, <3>2
      <4>2. fields'[f] = At(Place(presence, pos, k))
        BY <1>2, <3>2, <4>1, TurnFields
      <4> QED
        BY <2>4, <4>2
    <3> QED
      BY <3>1, <3>2
  <2>6. CASE pc' = "refused" /\ UNCHANGED loading
    BY <1>0, <2>2, <2>3, <2>5, <2>6 DEF AtrInv, TypeOK, Counting, loading
  <2>7. CASE read = There /\ pos' = Place(presence, pos, 4)
    <3>1. pos' \in Nat /\ pos' >= 1 /\ pos' <= 4 * section + 1
      <4>1. pos' \in pos .. pos + 4
        BY <2>1, <2>7, Places
      <4> QED
        BY <1>0, <2>1, <4>1 DEF AtrInv, Counting, MaxSections
    <3>2. pos' \in Byte /\ 4 * section + 1 <= 29
      BY <2>1, <3>1 DEF Byte, MaxSections
    <3>3. CASE 4 \in There /\ presence' = At(pos') /\ section' = section + 1 /\ pc' = "section"
      <4>1. presence' \in Byte
        BY <2>4, <2>7, <3>3
      <4>2. section' \in 1 .. MaxSections + 1 /\ pos' \in 1 .. 4 * section' - 3
        BY <2>1, <3>1, <3>3 DEF MaxSections
      <4> QED
        BY <1>0, <2>1, <2>2, <2>3, <2>5, <3>2, <3>3, <4>1, <4>2 DEF AtrInv, TypeOK, Counting
    <3>4. CASE pc' = "history" /\ UNCHANGED <<section, presence>>
      <4>1. pos' \in 1 .. 29
        BY <2>1, <3>1, <3>2 DEF MaxSections
      <4> QED
        BY <1>0, <2>1, <2>2, <2>3, <2>5, <3>2, <3>4, <4>1 DEF AtrInv, TypeOK, Counting
    <3> QED
      BY <1>2, <2>7, <3>3, <3>4, TurnFields
  <2> QED
    BY <1>2, <2>6, <2>7, TurnFields
<1> QED
  BY <1>1, <1>2

-----------------------------------------------------------------------------
(* The other steps.                                                         *)

LEMMA AtrInit == Init => AtrInv
<1> SUFFICES ASSUME Init PROVE AtrInv
  OBVIOUS
<1>1. DOMAIN fields = {} /\ atr = << >> /\ hb = << >> /\ Len(hb) = 0 /\ atr \in Seq(Byte)
  BY EmptySeq DEF Init
<1> QED
  BY <1>1 DEF Init, AtrInv, TypeOK, Counting, NoAnswer, Byte, MaxSections

LEMMA LoadStep ==
  ASSUME AtrInv, NEW a \in Atrs, Load(a)
  PROVE  AtrInv'
<1>0. UNCHANGED <<hb, features, answer>> /\ pc = "new" /\ a \in Seq(Byte) /\ Len(a) \in Nat
  BY AtrAssumption, LenProperties DEF Load
<1>1. CASE Len(a) > 33 \/ Len(a) < 2
  BY <1>0, <1>1 DEF Load, Refuse, AtrInv, TypeOK, Counting, loading
<1>2. CASE /\ ~(Len(a) > 33 \/ Len(a) < 2) /\ a[1] \notin {59, 63}
  <2>1. DOMAIN fields' = {}
    BY <1>2 DEF Load
  <2> QED
    BY <1>0, <1>2, <2>1 DEF Load, Refuse, AtrInv, TypeOK, Counting, loading
<1>3. CASE ~(Len(a) > 33 \/ Len(a) < 2) /\ a[1] \in {59, 63}
  <2>1. /\ atr' = a /\ hbSize' = LN(a[2]) /\ pos' = 1 /\ section' = 1 /\ presence' = a[2]
        /\ pc' = "section"
        /\ fields' = [f \in {TS, T0} |-> IF f = TS THEN a[1] ELSE a[2]]
    BY <1>3 DEF Load
  <2>2. Len(a) \in 2 .. 33
    BY <1>0, <1>3, Length
  <2>3. a[1] \in Byte /\ a[2] \in Byte
    BY <1>0, <2>2, ElementOfSeq
  <2>4. DOMAIN fields' = {TS, T0} /\ \A f \in DOMAIN fields' : fields'[f] \in Byte
    BY <2>1, <2>3
  <2>5. hbSize' \in 0 .. 15
    <3>1. LN(a[2]) \in 0 .. 15
      BY <2>3, Nibbles
    <3> QED
      BY <2>1, <3>1
  <2>6. DOMAIN fields' \subseteq Fields
    BY <2>4, FieldNames
  <2>7. pos' \in Byte /\ section' \in 1 .. MaxSections + 1 /\ pos' \in 1 .. 4 * section' - 3
    BY <2>1 DEF Byte, MaxSections
  <2>8. TypeOK'
    BY <1>0, <2>1, <2>4, <2>5, <2>6, <2>7 DEF AtrInv, TypeOK
  <2> QED
    BY <1>0, <2>1, <2>2, <2>3, <2>7, <2>8 DEF AtrInv, Counting
<1> QED
  BY <1>1, <1>2, <1>3

LEMMA HistoryStep == AtrInv /\ History => AtrInv'
<1> SUFFICES ASSUME AtrInv, History PROVE AtrInv'
  OBVIOUS
<1>0. UNCHANGED <<atr, hbSize, features, section, presence, answer>> /\ pc = "history"
  BY DEF History
<1> DEFINE last == pos + hbSize
<1>1. CASE NoRoom(pos, Len(atr), hbSize) \/ ~Here(last)
  BY <1>0, <1>1 DEF History, Refuse, AtrInv, TypeOK, Counting
<1>2. CASE ~(NoRoom(pos, Len(atr), hbSize) \/ ~Here(last))
  <2>1. /\ hb' = SubSeq(atr, pos + 2, last + 1)
        /\ pc' = "loaded"
        /\ \/ pos' = last /\ fields' = fields
           \/ /\ HasTck(last, Len(atr)) /\ pos' = last + 1
              /\ fields' = [f \in DOMAIN fields \union {TCK} |->
                              IF f = TCK THEN At(last + 1) ELSE fields[f]]
    BY <1>2 DEF History
  <2>2. /\ pos \in 1 .. 29 /\ hbSize \in 0 .. 15 /\ atr \in Seq(Byte) /\ Len(atr) \in 2 .. 33
        /\ last < Len(atr)
    BY <1>0, <1>2 DEF AtrInv, TypeOK, Counting, Here
  <2>3. last \in Nat /\ last <= 44 /\ last + 1 \in Byte /\ last \in Byte
    BY <2>2 DEF Byte
  <2>4. Len(hb') = hbSize
    <3>1. pos + 2 \in 1 .. Len(atr) + 1 /\ last + 1 \in (pos + 2) - 1 .. Len(atr)
      BY <2>2
    <3>2. Len(SubSeq(atr, pos + 2, last + 1)) = (last + 1) - (pos + 2) + 1
      BY <2>2, <3>1, SubSeqProperties
    <3>3. (last + 1) - (pos + 2) + 1 = hbSize
      BY <2>2
    <3> QED
      BY <2>1, <3>2, <3>3
  <2> HIDE DEF last
  <2>7. Len(hb') <= 15
    BY <2>2, <2>4
  <2>8. UNCHANGED <<atr, hbSize, features, section, presence, answer>> /\ pc' = "loaded"
    BY <1>0, <2>1
  <2>5. CASE pos' = last /\ fields' = fields
    BY <2>2, <2>3, <2>5, <2>7, <2>8 DEF AtrInv, TypeOK, Counting
  <2>6. CASE /\ HasTck(last, Len(atr)) /\ pos' = last + 1
             /\ fields' = [f \in DOMAIN fields \union {TCK} |->
                              IF f = TCK THEN At(last + 1) ELSE fields[f]]
    <3>1. last = Len(atr) - 2
      <4>1. Len(atr) - 2 \in 0 .. 255
        BY <2>2
      <4>2. Size_t(Len(atr) - 2) = Len(atr) - 2
        BY <4>1, NoWrap
      <4> QED
        BY <2>6, <4>2 DEF HasTck
    <3>2. Here(last + 1)
      BY <2>2, <3>1 DEF Here
    <3>3. At(last + 1) \in Byte
      <4>1. last + 1 \in Nat
        BY <2>3
      <4> QED
        BY <2>2, <3>2, <4>1, ByteAt
    <3>4. /\ DOMAIN fields' = DOMAIN fields \union {TCK}
          /\ \A f \in DOMAIN fields' : fields'[f] \in Byte
      BY <2>6, <3>3 DEF AtrInv, TypeOK
    <3>5. DOMAIN fields' \subseteq Fields
      BY <3>4, FieldNames DEF AtrInv, TypeOK
    <3> QED
      BY <2>2, <2>3, <2>6, <2>7, <2>8, <3>4, <3>5 DEF AtrInv, TypeOK, Counting
  <2> QED
    BY <2>1, <2>5, <2>6
<1> QED
  BY <1>1, <1>2

LEMMA LookedType ==
  ASSUME TypeOK
  PROVE  /\ DOMAIN Looked(fields) \subseteq Fields
         /\ \A f \in DOMAIN Looked(fields) : Looked(fields)[f] \in Byte
<1>1. \A f : Value(fields, f) \in Byte
  BY DEF TypeOK, Value, Byte
<1>2. \A f \in DOMAIN Looked(fields) : Looked(fields)[f] = Value(fields, f)
  BY DEF Looked
<1>3. DOMAIN Looked(fields) \subseteq DOMAIN fields \union {Detection[j] : j \in 1 .. 4}
  BY DEF Looked
<1> QED
  BY <1>1, <1>2, <1>3, FieldNames DEF TypeOK

LEMMA AskStep ==
  ASSUME AtrInv, NEW f \in Features, checkFeature(f)
  PROVE  AtrInv'
<1>0. UNCHANGED <<atr, hbSize, hb, pos, section, presence>> /\ pc = "loaded"
  BY DEF checkFeature, loading
<1>1. CASE /\ answer' = [feature |-> f, is |-> f \in features] /\ UNCHANGED <<fields, features, pc>>
  <2>1. answer' \in [feature : Features \union {"none"}, is : BOOLEAN]
    BY <1>1
  <2> QED
    BY <1>0, <1>1, <2>1 DEF AtrInv, TypeOK, Counting
<1>2. CASE features = {}
  <2>1. fields' = Looked(fields) /\ pc' \in {"loaded", "aborted"}
    BY <1>0, <1>2 DEF checkFeature
  <2>2. features' \subseteq Features
    <3>1. \A name : Abilities(name) \subseteq Features
      BY DEF Abilities, Features
    <3>2. \/ features' = {"ICC"}
          \/ features' = {"PICC"} \union {}
          \/ features' = {"PICC"} \union Abilities(CardName(hb))
      BY <1>2 DEF checkFeature
    <3> QED
      BY <3>1, <3>2 DEF Features
  <2>3. answer' \in [feature : Features \union {"none"}, is : BOOLEAN]
    <3>1. \/ answer' = answer
          \/ answer' = [feature |-> f, is |-> f \in features']
      BY <1>2 DEF checkFeature
    <3>2. CASE answer' = answer
      BY <3>2 DEF AtrInv, TypeOK
    <3>3. CASE answer' = [feature |-> f, is |-> f \in features']
      BY <3>3
    <3> QED
      BY <3>1, <3>2, <3>3
  <2> QED
    BY <1>0, <2>1, <2>2, <2>3, LookedType DEF AtrInv, TypeOK, Counting
<1> QED
  BY <1>1, <1>2 DEF checkFeature

LEMMA ShowStep == AtrInv /\ (str \/ New) => AtrInv'
<1>1. ASSUME AtrInv, str PROVE AtrInv'
  <2>1. /\ UNCHANGED <<atr, hbSize, hb, features, pos, section, presence, answer>>
        /\ fields' = Looked(fields) /\ pc' \in {"loaded", "aborted"}
    BY <1>1 DEF str, loading
  <2> QED
    BY <1>1, <2>1, LookedType DEF AtrInv, TypeOK, Counting
<1>2. ASSUME AtrInv, New PROVE AtrInv'
  <2>1. DOMAIN fields' = {} /\ atr' = << >> /\ hb' = << >> /\ Len(hb') = 0 /\ atr' \in Seq(Byte)
    BY <1>2, EmptySeq DEF New
  <2> QED
    BY <1>2, <2>1 DEF New, AtrInv, TypeOK, Counting, NoAnswer, Byte, MaxSections, Fresh
<1> QED
  BY <1>1, <1>2

LEMMA AtrStep == AtrInv /\ [Next]_vars => AtrInv'
<1>1. ASSUME AtrInv, UNCHANGED vars PROVE AtrInv'
  BY <1>1 DEF AtrInv, TypeOK, Counting, vars, loading
<1> QED
  BY <1>1, LoadStep, SectionStep, HistoryStep, AskStep, ShowStep DEF Next

-----------------------------------------------------------------------------
(* The first bytes, which tell a proximity card, and the bytes after them.  *)

InSection(i) == pc = "section" /\ section = i

(* T0 of such a card announces TD1 alone, TD1 announces TD2 alone, and TD2  *)
(* nothing: each step of the loop has put the next one where it belongs.    *)
AfterTD2 ==
  \/ InSection(3)
  \/ pc = "history" /\ pos = 3
  \/ pc = "loaded" /\ 4 + hbSize <= Len(atr) /\ hb = SubSeq(atr, 5, 4 + hbSize)

AfterTD1 ==
  \/ InSection(2)
  \/ /\ Len(atr) >= 4 /\ TD(2) \in DOMAIN fields /\ fields[TD(2)] = atr[4]
     /\ InSection(3) => pos = 3 /\ presence = atr[4]
     /\ atr[4] = 1 => AfterTD2

AfterT0 ==
  \/ InSection(1)
  \/ /\ Len(atr) >= 3 /\ TD(1) \in DOMAIN fields /\ fields[TD(1)] = atr[3]
     /\ InSection(2) => pos = 2 /\ presence = atr[3]
     /\ atr[3] = 128 => AfterTD1

FirstBytes ==
  pc \in {"section", "history", "loaded"} =>
    /\ Len(atr) \in 2 .. 33
    /\ TS \in DOMAIN fields /\ fields[TS] = atr[1]
    /\ T0 \in DOMAIN fields /\ fields[T0] = atr[2]
    /\ hbSize = LN(atr[2])
    /\ pc = "section" => \A f \in DOMAIN fields : f[2] < section
    /\ InSection(1) => pos = 1 /\ presence = atr[2]
    /\ HN(atr[2]) = 8 => AfterT0

(* A byte that announces a TD alone, and one that announces nothing.        *)
LEMMA Announce ==
  ASSUME NEW b \in Byte, NEW p \in Nat
  PROVE  /\ HN(b) = 8 => Present(b, 4) /\ Place(b, p, 4) = p + 1
         /\ HN(b) = 0 => ~Present(b, 4) /\ Place(b, p, 4) = p
<1> DEFINE S == {j \in 1 .. 4 : Present(b, j)}
<1>1. b \in 0 .. 255
  BY DEF Byte
<1>2. \A j \in 1 .. 4 : j = 1 \/ j = 2 \/ j = 3 \/ j = 4
  OBVIOUS
<1>3. ASSUME HN(b) = 8 PROVE Present(b, 4) /\ Place(b, p, 4) = p + 1
  <2>1. ~Present(b, 1) /\ ~Present(b, 2) /\ ~Present(b, 3) /\ Present(b, 4)
    BY <1>1, <1>3 DEF HN, Present, CHECK_BIT
  <2>2. S = {4}
    BY <1>2, <2>1
  <2>3. Cardinality(S) = 1
    BY <2>2, FS_Singleton
  <2> QED
    BY <2>1, <2>3 DEF Place
<1>4. ASSUME HN(b) = 0 PROVE ~Present(b, 4) /\ Place(b, p, 4) = p
  <2>1. ~Present(b, 1) /\ ~Present(b, 2) /\ ~Present(b, 3) /\ ~Present(b, 4)
    BY <1>1, <1>4 DEF HN, Present, CHECK_BIT
  <2>2. S = {}
    BY <1>2, <2>1
  <2>3. Cardinality(S) = 0
    BY <2>2, FS_EmptySet
  <2> QED
    BY <2>1, <2>3 DEF Place
<1> QED
  BY <1>3, <1>4

(* A turn of the loop that goes on, or is the last.                         *)
LEMMA GoodTurn ==
  ASSUME AtrInv, FirstBytes, Section, pc' # "refused"
  PROVE  /\ UNCHANGED <<atr, hbSize, hb>> /\ pc = "section" /\ section \in 1 .. MaxSections
         /\ pos' = Place(presence, pos, 4)
         /\ \A f \in DOMAIN fields : f \in DOMAIN fields' /\ fields'[f] = fields[f]
         /\ \A f \in DOMAIN fields' : f \in DOMAIN fields \/ f[2] = section
         /\ \/ /\ Present(presence, 4) /\ pc' = "section" /\ section' = section + 1
               /\ TD(section) \in DOMAIN fields' /\ fields'[TD(section)] = atr[pos' + 1]
               /\ presence' = atr[pos' + 1] /\ pos' < Len(atr)
            \/ ~Present(presence, 4) /\ pc' = "history" /\ section' = section
<1>1. ~TooMany(section) /\ pc = "section" /\ UNCHANGED <<atr, hbSize, hb>>
  BY DEF Section, Refuse
<1> DEFINE read == {k \in There : Here(Place(presence, pos, k))}
<1>2. /\ section \in 1 .. MaxSections /\ read = There /\ pos' = Place(presence, pos, 4)
      /\ DOMAIN fields' = DOMAIN fields \union {<<Letters[k], section>> : k \in read}
      /\ \A f \in DOMAIN fields : fields'[f] = fields[f]
      /\ \/ /\ 4 \in There /\ presence' = At(pos') /\ section' = section + 1
            /\ pc' = "section"
         \/ 4 \notin There /\ pc' = "history" /\ UNCHANGED <<section, presence>>
  BY <1>1, TurnFields
<1>3. \A f \in DOMAIN fields' : f \in DOMAIN fields \/ f[2] = section
  BY <1>2
<1>4. 4 \in There <=> Present(presence, 4)
  BY DEF There
<1>5. CASE 4 \in There
  <2>1. 4 \in read /\ Here(pos')
    BY <1>2, <1>5
  <2>2. TD(section) = <<Letters[4], section>>
    BY DEF TD, Letters
  <2>3. TD(section) \in DOMAIN fields'
    BY <1>2, <2>1, <2>2
  <2>4. TD(section) \notin DOMAIN fields
    <3>1. \A f \in DOMAIN fields : f[2] < section
      BY <1>1 DEF FirstBytes
    <3>2. TD(section)[2] = section /\ ~(section < section)
      BY <1>2 DEF TD
    <3> QED
      BY <3>1, <3>2
  <2>5. fields'[TD(section)] = At(pos')
    BY <1>1, <1>2, <2>1, <2>2, <2>4, TurnFields
  <2> QED
    BY <1>1, <1>2, <1>3, <1>4, <1>5, <2>1, <2>3, <2>5 DEF At, Here
<1>6. CASE 4 \notin There
  BY <1>1, <1>2, <1>3, <1>4, <1>6
<1> QED
  BY <1>5, <1>6

LEMMA SectionBytes == AtrInv /\ FirstBytes /\ Section => FirstBytes'
<1> SUFFICES ASSUME AtrInv, FirstBytes, Section, pc' # "refused" PROVE FirstBytes'
  BY DEF FirstBytes
<1>1. /\ UNCHANGED <<atr, hbSize, hb>> /\ pc = "section" /\ section \in 1 .. MaxSections
      /\ pos' = Place(presence, pos, 4)
      /\ \A f \in DOMAIN fields : f \in DOMAIN fields' /\ fields'[f] = fields[f]
      /\ \A f \in DOMAIN fields' : f \in DOMAIN fields \/ f[2] = section
  BY GoodTurn
<1>2. \/ /\ Present(presence, 4) /\ pc' = "section" /\ section' = section + 1
         /\ TD(section) \in DOMAIN fields' /\ fields'[TD(section)] = atr[pos' + 1]
         /\ presence' = atr[pos' + 1] /\ pos' < Len(atr)
      \/ ~Present(presence, 4) /\ pc' = "history" /\ section' = section
  BY GoodTurn
<1>3. /\ Len(atr) \in 2 .. 33 /\ presence \in Byte /\ pos \in Nat /\ section \in Nat /\ section >= 1
      /\ TS \in DOMAIN fields /\ fields[TS] = atr[1]
      /\ T0 \in DOMAIN fields /\ fields[T0] = atr[2]
      /\ hbSize = LN(atr[2])
      /\ \A f \in DOMAIN fields : f[2] < section
      /\ InSection(1) => pos = 1 /\ presence = atr[2]
      /\ HN(atr[2]) = 8 => AfterT0
  BY <1>1 DEF AtrInv, Counting, FirstBytes
<1>4. /\ HN(presence) = 8 => Present(presence, 4) /\ pos' = pos + 1
      /\ HN(presence) = 0 => ~Present(presence, 4) /\ pos' = pos
  BY <1>1, <1>3, Announce
<1>5. pc' = "section" => \A f \in DOMAIN fields' : f[2] < section'
  <2> SUFFICES ASSUME pc' = "section", NEW f \in DOMAIN fields' PROVE f[2] < section'
    OBVIOUS
  <2>1. section' = section + 1
    BY <1>2
  <2>2. CASE f[2] = section
    BY <1>3, <2>1, <2>2
  <2>3. CASE f \in DOMAIN fields
    <3>1. f \in Fields /\ f[2] < section
      BY <1>3, <2>3 DEF AtrInv, TypeOK
    <3>2. f[2] \in Nat
      BY <3>1 DEF Fields, TS, T0, TCK, MaxSections
    <3> QED
      BY <1>3, <2>1, <3>1, <3>2
  <2> QED
    BY <1>1, <2>2, <2>3
<1>6. ~InSection(1)'
  BY <1>1, <1>2, <1>3 DEF InSection
<1>7. ASSUME HN(atr[2]) = 8 PROVE AfterT0'
  <2>1. CASE section = 1
    <3>1. pos = 1 /\ presence = atr[2] /\ InSection(1)
      BY <1>1, <1>3, <2>1 DEF InSection
    <3>2. pos' = 2 /\ pc' = "section" /\ section' = 2
      BY <1>2, <1>4, <1>7, <2>1, <3>1
    <3>3. TD(1) \in DOMAIN fields' /\ fields'[TD(1)] = atr[3] /\ presence' = atr[3] /\ 2 < Len(atr)
      BY <1>2, <2>1, <3>2
    <3> QED
      BY <1>1, <1>3, <3>2, <3>3 DEF AfterT0, AfterTD1, InSection
  <2>2. ASSUME section # 1
        PROVE  /\ Len(atr) >= 3 /\ TD(1) \in DOMAIN fields' /\ fields'[TD(1)] = atr[3]
               /\ section = 2 => pos = 2 /\ presence = atr[3]
               /\ atr[3] = 128 => AfterTD1
               /\ ~InSection(2)'
    BY <1>1, <1>2, <1>3, <1>7, <2>2 DEF AfterT0, InSection
  <2>3. CASE section = 2
    <3>1. ASSUME atr[3] = 128 PROVE AfterTD1'
      <4>1. pos = 2 /\ presence = 128
        BY <2>2, <2>3, <3>1
      <4>2. pos' = 3 /\ pc' = "section" /\ section' = 3
        BY <1>2, <1>4, <2>3, <4>1 DEF HN
      <4>3. TD(2) \in DOMAIN fields' /\ fields'[TD(2)] = atr[4] /\ presence' = atr[4] /\ 3 < Len(atr)
        BY <1>2, <2>3, <4>2
      <4> QED
        BY <1>1, <1>3, <4>2, <4>3 DEF AfterTD1, AfterTD2, InSection
    <3> QED
      BY <1>1, <2>2, <2>3, <3>1 DEF AfterT0
  <2>4. CASE section > 2
    <3>1. ASSUME atr[3] = 128 PROVE AfterTD1'
      <4>1. AfterTD1 /\ ~InSection(2)
        BY <1>3, <2>2, <2>4, <3>1 DEF InSection
      <4>2. /\ Len(atr) >= 4 /\ TD(2) \in DOMAIN fields' /\ fields'[TD(2)] = atr[4]
            /\ section = 3 => pos = 3 /\ presence = atr[4]
            /\ atr[4] = 1 => section = 3
        BY <1>1, <4>1 DEF AfterTD1, AfterTD2, InSection
      <4>3. ~InSection(3)'
        BY <1>1, <1>2, <1>3, <2>4 DEF InSection
      <4>4. atr[4] = 1 => AfterTD2'
        BY <1>2, <1>4, <4>2 DEF AfterTD2, HN
      <4> QED
        BY <1>1, <4>2, <4>3, <4>4 DEF AfterTD1
    <3> QED
      BY <1>1, <1>3, <2>2, <2>4, <3>1 DEF AfterT0
  <2> QED
    BY <1>3, <2>1, <2>3, <2>4
<1> QED
  BY <1>1, <1>3, <1>5, <1>6, <1>7 DEF FirstBytes

LEMMA HistoryBytes == AtrInv /\ FirstBytes /\ History => FirstBytes'
<1> SUFFICES ASSUME AtrInv, FirstBytes, History, pc' # "refused" PROVE FirstBytes'
  BY DEF FirstBytes, History, Refuse
<1>1. /\ UNCHANGED <<atr, hbSize>> /\ pc = "history" /\ pc' = "loaded" /\ Here(pos + hbSize)
      /\ hb' = SubSeq(atr, pos + 2, pos + hbSize + 1)
      /\ \A f \in DOMAIN fields : f \in DOMAIN fields' /\ (f # TCK => fields'[f] = fields[f])
  BY DEF History, Refuse
<1>2. /\ Len(atr) \in 2 .. 33 /\ hbSize \in 0 .. 15
      /\ TS \in DOMAIN fields /\ fields[TS] = atr[1]
      /\ T0 \in DOMAIN fields /\ fields[T0] = atr[2]
      /\ hbSize = LN(atr[2])
      /\ HN(atr[2]) = 8 => AfterT0
  BY <1>1 DEF FirstBytes, AtrInv, TypeOK
<1>3. TS # TCK /\ T0 # TCK /\ TD(1) # TCK /\ TD(2) # TCK
  BY DEF TS, T0, TCK, TD
<1>4. ASSUME AfterTD2 PROVE AfterTD2'
  <2>1. pos = 3
    BY <1>1, <1>4 DEF AfterTD2, InSection
  <2>2. pos + 2 = 5 /\ pos + hbSize + 1 = 4 + hbSize /\ 4 + hbSize <= Len(atr)
    BY <1>1, <1>2, <2>1 DEF Here
  <2> QED
    BY <1>1, <2>2 DEF AfterTD2
<1>5. ASSUME AfterTD1 PROVE AfterTD1'
  BY <1>1, <1>3, <1>4, <1>5 DEF AfterTD1, InSection
<1>6. ASSUME AfterT0 PROVE AfterT0'
  BY <1>1, <1>3, <1>5, <1>6 DEF AfterT0, InSection
<1> QED
  BY <1>1, <1>2, <1>3, <1>6 DEF FirstBytes, InSection

LEMMA LoadBytes ==
  ASSUME AtrInv, NEW a \in Atrs, Load(a)
  PROVE  FirstBytes'
<1> SUFFICES ASSUME pc' \in {"section", "history", "loaded"} PROVE FirstBytes'
  BY DEF FirstBytes
<1>1. a \in Seq(Byte) /\ Len(a) \in Nat
  BY AtrAssumption, LenProperties
<1>2. /\ ~(Len(a) > 33 \/ Len(a) < 2) /\ atr' = a /\ hbSize' = LN(a[2])
      /\ pos' = 1 /\ section' = 1 /\ presence' = a[2] /\ pc' = "section"
      /\ fields' = [f \in {TS, T0} |-> IF f = TS THEN a[1] ELSE a[2]]
  BY DEF Load, Refuse
<1>3. Len(a) \in 2 .. 33
  BY <1>1, <1>2, Length
<1>4. TS # T0 /\ TS[2] = 0 /\ T0[2] = 0
  BY DEF TS, T0
<1>5. \A f \in DOMAIN fields' : f[2] < section'
  BY <1>2, <1>4
<1> QED
  BY <1>2, <1>3, <1>4, <1>5 DEF FirstBytes, AfterT0, InSection

(* The map is a function, of what it has.                                   *)
IsMap == fields = [f \in DOMAIN fields |-> fields[f]]

LEMMA MapInit == Init => IsMap
BY DEF Init, IsMap

LEMMA MapStep == IsMap /\ [Next]_vars => IsMap'
<1> SUFFICES ASSUME IsMap, [Next]_vars PROVE IsMap'
  OBVIOUS
<1>1. CASE UNCHANGED fields
  BY <1>1 DEF IsMap
<1>2. ASSUME NEW a \in Atrs, Load(a) PROVE IsMap'
  BY <1>1, <1>2 DEF Load, IsMap
<1>3. CASE Section
  BY <1>1, <1>3 DEF Section, IsMap
<1>4. CASE History
  BY <1>1, <1>4 DEF History, IsMap
<1>5. ASSUME NEW f \in Features, checkFeature(f) PROVE IsMap'
  BY <1>1, <1>5 DEF checkFeature, Looked, IsMap
<1>6. CASE str \/ New
  BY <1>6 DEF str, New, Looked, IsMap
<1>7. UNCHANGED vars => UNCHANGED fields
  BY DEF vars
<1> QED
  BY <1>1, <1>2, <1>3, <1>4, <1>5, <1>6, <1>7 DEF Next

-----------------------------------------------------------------------------
(* Questions.                                                               *)

(* Once loaded, every field that is looked up is there, and the four tests  *)
(* tell a proximity card by the bytes of its ATR.                           *)
LEMMA Lookups ==
  ASSUME AtrInv, FirstBytes, IsMap, pc = "loaded"
  PROVE  /\ Looked(fields) = fields
         /\ Proximity(fields) = Contactless(atr)
<1>1. /\ Len(atr) \in 2 .. 33
      /\ TS \in DOMAIN fields /\ fields[TS] = atr[1]
      /\ T0 \in DOMAIN fields /\ fields[T0] = atr[2]
      /\ HN(atr[2]) = 8 => Len(atr) >= 3 /\ TD(1) \in DOMAIN fields /\ fields[TD(1)] = atr[3]
      /\ HN(atr[2]) = 8 /\ atr[3] = 128 =>
           Len(atr) >= 4 /\ TD(2) \in DOMAIN fields /\ fields[TD(2)] = atr[4]
  BY DEF FirstBytes, AfterT0, AfterTD1, InSection
<1>2. /\ Detection[1] = TS /\ Detection[2] = T0 /\ Detection[3] = TD(1) /\ Detection[4] = TD(2)
      /\ \A j \in 1 .. 4 : j = 1 \/ j = 2 \/ j = 3 \/ j = 4
  BY DEF Detection, TD
<1>3. /\ Passes(fields, 1) <=> atr[1] = 59
      /\ Passes(fields, 2) <=> HN(atr[2]) = 8
      /\ HN(atr[2]) = 8 => (Passes(fields, 3) <=> atr[3] = 128)
      /\ HN(atr[2]) = 8 /\ atr[3] = 128 => (Passes(fields, 4) <=> atr[4] = 1)
  BY <1>1, <1>2 DEF Passes, Value
<1> DEFINE Turns == {n \in 1 .. 4 : \A i \in 1 .. n - 1 : Passes(fields, i)}
<1>4. \A j \in Turns : Detection[j] \in DOMAIN fields
  <2> SUFFICES ASSUME NEW j \in Turns PROVE Detection[j] \in DOMAIN fields
    OBVIOUS
  <2>1. CASE j = 1 \/ j = 2
    BY <1>1, <1>2, <2>1
  <2>2. CASE j = 3
    <3>1. Passes(fields, 2)
      BY <2>2
    <3> QED
      BY <1>1, <1>2, <1>3, <2>2, <3>1
  <2>3. CASE j = 4
    <3>1. Passes(fields, 2) /\ Passes(fields, 3)
      BY <2>3
    <3> QED
      BY <1>1, <1>2, <1>3, <2>3, <3>1
  <2> QED
    BY <1>2, <2>1, <2>2, <2>3
<1>5. Looked(fields) = fields
  <2>1. Looked(fields) = [f \in DOMAIN fields \union {Detection[j] : j \in Turns} |-> Value(fields, f)]
    BY DEF Looked
  <2> HIDE DEF Turns
  <2>2. DOMAIN fields \union {Detection[j] : j \in Turns} = DOMAIN fields
    BY <1>4
  <2>3. Looked(fields) = [f \in DOMAIN fields |-> Value(fields, f)]
    BY <2>1, <2>2
  <2>4. Looked(fields) = [f \in DOMAIN fields |-> fields[f]]
    BY <2>3 DEF Value
  <2>5. fields = [f \in DOMAIN fields |-> fields[f]]
    BY DEF IsMap
  <2> QED
    BY <2>4, <2>5
<1>6. Proximity(fields) <=> /\ Passes(fields, 1) /\ Passes(fields, 2)
                           /\ Passes(fields, 3) /\ Passes(fields, 4)
  BY <1>2 DEF Proximity
<1>7. Contactless(atr) <=> atr[1] = 59 /\ HN(atr[2]) = 8 /\ atr[3] = 128 /\ atr[4] = 1
  BY <1>1 DEF Contactless
<1>8. Proximity(fields) <=> Contactless(atr)
  BY <1>3, <1>6, <1>7
<1> QED
  BY <1>5, <1>8 DEF Proximity, Contactless

Answers ==
  /\ pc \notin {"loaded", "aborted"} => features = {} /\ answer = NoAnswer
  /\ features # {} => \A f \in Features : f \in features <=> Is(f)
  /\ answer # NoAnswer =>
       /\ features # {}
       /\ answer.feature \in Features /\ (answer.is <=> answer.feature \in features)

(* The historical bytes name the card that the bytes of the ATR name.       *)
LEMMA NameInHistory ==
  ASSUME AtrInv, FirstBytes, pc = "loaded", Contactless(atr), NEW name \in Nat
  PROVE  Named(atr, name) <=> Naming(hb) /\ OfPcsc(hb) /\ ~NameCut(hb) /\ CardName(hb) = name
<1>1. /\ Len(atr) \in 2 .. 33 /\ atr \in Seq(Byte) /\ hbSize = LN(atr[2]) /\ hbSize \in 0 .. 15
      /\ 4 + hbSize <= Len(atr) /\ hb = SubSeq(atr, 5, 4 + hbSize)
  BY DEF AtrInv, TypeOK, Counting, FirstBytes, AfterT0, AfterTD1, AfterTD2, InSection, Contactless
<1>2. /\ Len(hb) = hbSize /\ \A i \in 1 .. hbSize : hb[i] = atr[4 + i] /\ hb[i] \in Byte
      /\ hb \in Seq(Byte)
  <2>1. \A i \in 5 .. 4 + hbSize : atr[i] \in Byte
    BY <1>1, ElementOfSeq
  <2>2. 5 \in Int /\ 4 + hbSize \in Int
    BY <1>1
  <2>3. /\ Len(hb) = IF 5 <= 4 + hbSize THEN (4 + hbSize) - 5 + 1 ELSE 0
        /\ \A i \in 1 .. (4 + hbSize) - 5 + 1 : hb[i] = atr[5 + i - 1]
        /\ hb \in Seq(Byte)
    BY <1>1, <2>1, <2>2, SubSeqProperties
  <2>4. (4 + hbSize) - 5 + 1 = hbSize /\ (~(5 <= 4 + hbSize) => hbSize = 0)
    <3>1. hbSize \in 0 .. 15
      BY <1>1
    <3> QED
      BY <3>1
  <2>5. Len(hb) = hbSize
    BY <2>3, <2>4
  <2>6. ASSUME NEW i \in 1 .. hbSize PROVE hb[i] = atr[4 + i] /\ hb[i] \in Byte
    <3>1. 5 + i - 1 = 4 + i /\ 4 + i \in 5 .. 4 + hbSize /\ i \in 1 .. (4 + hbSize) - 5 + 1
      BY <1>1
    <3>2. hb[i] = atr[5 + i - 1]
      BY <2>3, <3>1
    <3> QED
      BY <2>1, <3>1, <3>2
  <2> QED
    BY <2>3, <2>5, <2>6
<1>3. CASE hbSize < 11
  BY <1>1, <1>2, <1>3 DEF Named, NameCut
<1>4. CASE hbSize >= 11
  <2>1. /\ hb[1] = atr[5] /\ hb[2] = atr[6] /\ hb[10] = atr[14] /\ hb[11] = atr[15]
        /\ hb[10] \in Byte /\ hb[11] \in Byte
    BY <1>1, <1>2, <1>4
  <2>2. SubSeq(hb, 4, 8) = SubSeq(atr, 8, 12)
    <3>1. /\ 5 \in 1 .. Len(atr) /\ 4 + hbSize \in 1 .. Len(atr)
          /\ 4 \in 1 .. (4 + hbSize) - 5 + 1 /\ 8 \in 1 .. (4 + hbSize) - 5 + 1
      BY <1>1, <1>4
    <3>2. SubSeq(SubSeq(atr, 5, 4 + hbSize), 4, 8) = SubSeq(atr, 5 + 4 - 1, 5 + 8 - 1)
      BY <1>1, <3>1, SubSeqOfSubSeq
    <3>3. SubSeq(atr, 5 + 4 - 1, 5 + 8 - 1) = SubSeq(atr, 8, 12)
      OBVIOUS
    <3>4. SubSeq(hb, 4, 8) = SubSeq(SubSeq(atr, 5, 4 + hbSize), 4, 8)
      BY <1>1
    <3> QED
      BY <3>2, <3>3, <3>4
  <2>3. Naming(hb) <=> atr[5] = 128 /\ atr[6] = 79
    BY <1>1, <1>2, <1>4, <2>1, SMTT(30) DEF Naming
  <2>4. OfPcsc(hb) <=> SubSeq(atr, 8, 12) = RID
    <3>1. Len(hb) >= 3 /\ (IF Len(hb) < 8 THEN Len(hb) ELSE 8) = 8
      BY <1>1, <1>2, <1>4
    <3>2. OfPcsc(hb) <=> SubSeq(hb, 4, 8) = RID
      BY <3>1 DEF OfPcsc
    <3> QED
      BY <2>2, <3>2
  <2>5. ~NameCut(hb)
    BY <1>1, <1>2, <1>4 DEF NameCut
  <2>6. CardName(hb) = name <=> atr[14] = name \div 256 /\ atr[15] = name % 256
    <3>1. PICK x \in 0 .. 255 : x = hb[10]
      BY <2>1 DEF Byte
    <3>2. PICK y \in 0 .. 255 : y = hb[11]
      BY <2>1 DEF Byte
    <3>3. CardName(hb) = Word(x, y)
      BY <3>1, <3>2, Zenon DEF CardName, Word
    <3>4. Word(x, y) = name <=> x = HighOf(name) /\ y = LowOf(name)
      BY TwoBytes, Zenon
    <3>5. atr[14] = x /\ atr[15] = y
      BY <2>1, <3>1, <3>2
    <3> QED
      BY <3>3, <3>4, <3>5 DEF HighOf, LowOf
  <2> QED
    BY <1>1, <1>4, <2>3, <2>4, <2>5, <2>6 DEF Named
<1> QED
  BY <1>1, <1>3, <1>4

(* The cache, once filled, is right. *)
LEMMA Filled ==
  ASSUME AtrInv, FirstBytes, IsMap, NEW g \in Features, checkFeature(g), features = {}
  PROVE  features' # {} /\ \A f \in Features : f \in features' <=> Is(f)
<1>1. /\ pc = "loaded"
      /\ features' = IF ~Proximity(fields) THEN {"ICC"}
                     ELSE {"PICC"} \union
                          (IF Naming(hb) /\ OfPcsc(hb) /\ ~NameCut(hb)
                           THEN Abilities(CardName(hb)) ELSE {})
  BY DEF checkFeature
<1>2. Proximity(fields) = Contactless(atr)
  BY <1>1, Lookups
<1>3. CASE ~Contactless(atr)
  <2>1. features' = {"ICC"}
    BY <1>1, <1>2, <1>3
  <2>2. \A name : ~Named(atr, name)
    BY <1>3 DEF Named
  <2> QED
    BY <1>3, <2>1, <2>2 DEF Is, Features
<1>4. CASE Contactless(atr)
  <2> DEFINE known == Naming(hb) /\ OfPcsc(hb) /\ ~NameCut(hb)
             name == CardName(hb)
  <2>1. features' = {"PICC"} \union (IF known THEN Abilities(name) ELSE {})
    BY <1>1, <1>2, <1>4
  <2>2. \A n \in Nat : Named(atr, n) <=> known /\ name = n
    BY <1>1, <1>4, NameInHistory
  <2> HIDE DEF known, name
  <2>3. CASE ~known
    BY <1>4, <2>1, <2>2, <2>3 DEF Is, Features
  <2>4. CASE known
    <3>1. features' = {"PICC"} \union Abilities(name)
      BY <2>1, <2>4
    <3> QED
      BY <1>4, <2>2, <2>4, <3>1 DEF Is, Features, Abilities
  <2> QED
    BY <2>3, <2>4
<1> QED
  BY <1>3, <1>4

LEMMA AskAnswers ==
  ASSUME AtrInv, FirstBytes, IsMap, Answers, NEW g \in Features, checkFeature(g)
  PROVE  /\ Answers'
         /\ UNCHANGED fields
         /\ FirstBytes'
<1>0. /\ UNCHANGED <<atr, hbSize, hb, pos, section, presence>>
      /\ pc = "loaded" /\ pc' \in {"loaded", "aborted"}
  BY DEF checkFeature, loading
<1>1. \A f : Is(f)' <=> Is(f)
  BY <1>0 DEF Is, Contactless, Named
<1>2. UNCHANGED fields
  BY <1>0, Lookups DEF checkFeature
<1>3. FirstBytes'
  BY <1>0, <1>2 DEF FirstBytes, AfterT0, AfterTD1, AfterTD2, InSection
<1>4. CASE features # {}
  <2>1. answer' = [feature |-> g, is |-> g \in features] /\ UNCHANGED <<features, pc>>
    BY <1>4 DEF checkFeature
  <2>2. answer'.feature = g /\ (answer'.is <=> g \in features')
    BY <2>1
  <2> QED
    BY <1>0, <1>1, <1>2, <1>3, <1>4, <2>1, <2>2 DEF Answers
<1>5. CASE features = {}
  <2>1. features' # {} /\ \A f \in Features : f \in features' <=> Is(f)
    BY <1>5, Filled
  <2>2. \/ answer' = answer /\ answer = NoAnswer
        \/ answer' = [feature |-> g, is |-> g \in features']
    BY <1>5 DEF checkFeature, Answers
  <2>3. CASE answer' = NoAnswer
    BY <1>0, <1>1, <1>2, <1>3, <2>1, <2>3 DEF Answers, NoAnswer
  <2>4. CASE answer' = [feature |-> g, is |-> g \in features']
    <3>1. answer'.feature = g /\ (answer'.is <=> g \in features')
      BY <2>4
    <3> QED
      BY <1>0, <1>1, <1>2, <1>3, <2>1, <3>1 DEF Answers
  <2> QED
    BY <2>2, <2>3, <2>4
<1> QED
  BY <1>4, <1>5

CardInv == AtrInv /\ FirstBytes /\ IsMap /\ Answers

LEMMA CardInit == Init => CardInv
<1>1. Init => FirstBytes /\ Answers
  BY DEF Init, FirstBytes, Answers
<1> QED
  BY <1>1, AtrInit, MapInit DEF CardInv

LEMMA CardStep == CardInv /\ [Next]_vars => CardInv'
<1> SUFFICES ASSUME CardInv, [Next]_vars PROVE FirstBytes' /\ Answers'
  BY AtrStep, MapStep DEF CardInv
<1> USE DEF CardInv
<1>1. CASE UNCHANGED vars
  <2>1. \A f : Is(f)' <=> Is(f)
    BY <1>1 DEF vars, Is, Contactless, Named
  <2>2. FirstBytes'
    BY <1>1 DEF vars, loading, FirstBytes, AfterT0, AfterTD1, AfterTD2, InSection
  <2>3. UNCHANGED <<pc, features, answer>>
    BY <1>1 DEF vars
  <2> QED
    BY <2>1, <2>2, <2>3 DEF Answers
<1>2. ASSUME NEW a \in Atrs, Load(a) PROVE FirstBytes' /\ Answers'
  <2>1. pc = "new" /\ pc' \in {"section", "refused"} /\ UNCHANGED <<features, answer>>
    BY <1>2 DEF Load, Refuse
  <2> QED
    BY <1>2, <2>1, LoadBytes DEF Answers
<1>3. CASE Section
  <2>1. /\ pc = "section" /\ pc' \in {"section", "history", "refused"}
        /\ UNCHANGED <<features, answer>>
    BY <1>3 DEF Section, Refuse
  <2> QED
    BY <1>3, <2>1, SectionBytes DEF Answers
<1>4. CASE History
  <2>1. pc = "history" /\ UNCHANGED <<features, answer>>
    BY <1>4 DEF History
  <2>2. features = {} /\ answer = NoAnswer
    BY <2>1 DEF Answers
  <2> QED
    BY <1>4, <2>1, <2>2, HistoryBytes DEF Answers
<1>5. ASSUME NEW f \in Features, checkFeature(f) PROVE FirstBytes' /\ Answers'
  BY <1>5, AskAnswers
<1>6. CASE str
  <2>1. /\ pc = "loaded" /\ pc' \in {"loaded", "aborted"} /\ fields' = Looked(fields)
        /\ UNCHANGED <<atr, hbSize, hb, features, pos, section, presence, answer>>
    BY <1>6 DEF str, loading
  <2>2. UNCHANGED fields
    BY <2>1, Lookups
  <2>3. FirstBytes'
    BY <2>1, <2>2 DEF FirstBytes, AfterT0, AfterTD1, AfterTD2, InSection
  <2>4. \A f : Is(f)' <=> Is(f)
    BY <2>1 DEF Is, Contactless, Named
  <2> QED
    BY <2>1, <2>3, <2>4 DEF Answers
<1>7. CASE New
  BY <1>7 DEF New, Fresh, FirstBytes, Answers
<1> QED
  BY <1>1, <1>2, <1>3, <1>4, <1>5, <1>6, <1>7 DEF Next

-----------------------------------------------------------------------------
(* Where T0 and the TD bytes of an ATR would be.                            *)

(* Two sets one of which is a renaming of the other.                        *)
LEMMA SameCard ==
  ASSUME NEW S, IsFiniteSet(S), NEW T, NEW f \in [S -> T],
         \A x, y \in S : f[x] = f[y] => x = y,
         \A t \in T : \E x \in S : f[x] = t
  PROVE  IsFiniteSet(T) /\ Cardinality(T) = Cardinality(S)
<1>1. f \in Bijection(S, T)
  BY DEF Bijection, Injection, Surjection, IsInjective
<1>2. ExistsBijection(S, T)
  BY <1>1 DEF ExistsBijection
<1> QED
  BY <1>2, FS_Bijection

WidthOf(a, p) == Cardinality({k \in 4 .. 7 : CHECK_BIT(a[p], k)})

(* The places of T0, TD1, TD2, ... as Acceptable has them.                  *)
Td(a) ==
  LET width(p) == Cardinality({k \in 4 .. 7 : CHECK_BIT(a[p], k)})
      td[i \in 1 .. MaxSections] ==
        IF i = 1 THEN 2
        ELSE td[i - 1] + IF td[i - 1] <= Len(a) THEN width(td[i - 1]) ELSE 0
  IN  td

LEMMA AcceptableByTd ==
  ASSUME NEW a
  PROVE  Acceptable(a) <=>
           /\ Len(a) \in 2 .. 33 /\ a[1] \in {59, 63}
           /\ \E n \in 1 .. MaxSections :
                /\ Td(a)[n] <= Len(a)
                /\ \A i \in 1 .. n : CHECK_BIT(a[Td(a)[i]], 7) = (i < n)
                /\ Td(a)[n] + WidthOf(a, Td(a)[n]) + LN(a[2]) <= Len(a)
BY Zenon DEF Acceptable, Td, WidthOf

(* Td is a recursive function: one that satisfies its equation exists.      *)
LEMMA TdSteps ==
  ASSUME NEW a
  PROVE  /\ Td(a)[1] = 2
         /\ \A i \in 2 .. MaxSections :
              Td(a)[i] = Td(a)[i - 1]
                           + IF Td(a)[i - 1] <= Len(a) THEN WidthOf(a, Td(a)[i - 1]) ELSE 0
<1> DEFINE Next2(g, i) == IF i = 1 THEN 2 
                          ELSE g[i - 1] + IF g[i - 1] <= Len(a) THEN WidthOf(a, g[i - 1]) ELSE 0
           Eq(g, m) == g = [i \in 1 .. m |-> IF i = 1 THEN 2 
                          ELSE g[i - 1] + IF g[i - 1] <= Len(a) THEN WidthOf(a, g[i - 1]) ELSE 0]
           S == {m \in Nat : \E g : Eq(g, m)}
<1>0. ASSUME NEW g, NEW m \in Nat, Eq(g, m), NEW i \in 1 .. m PROVE g[i] = Next2(g, i)
  <2> DEFINE gg == [j \in 1 .. m |-> IF j = 1 THEN 2 
                          ELSE g[j - 1] + IF g[j - 1] <= Len(a) THEN WidthOf(a, g[j - 1]) ELSE 0]
  <2>1. gg[i] = Next2(g, i)
    OBVIOUS
  <2>2. gg = g
    BY <1>0, Zenon
  <2> QED
    BY <2>1, <2>2, Zenon
<1>1. 0 \in S
  <2> DEFINE g == [i \in 1 .. 0 |-> 0]
  <2>1. Eq(g, 0)
    OBVIOUS
  <2> QED
    BY <2>1
<1>2. ASSUME NEW m \in Nat, m \in S PROVE m + 1 \in S
  <2>1. PICK g : Eq(g, m)
    BY <1>2
  <2> DEFINE h == [i \in 1 .. m + 1 |-> Next2(g, i)]
  <2>2. ASSUME NEW i \in 1 .. m PROVE h[i] = g[i]
    BY <1>0, <2>1
  <2>3. Eq(h, m + 1)
    <3>1. \A i \in 1 .. m + 1 : Next2(h, i) = Next2(g, i)
      <4> HIDE DEF h
      <4> QED
        BY <2>2
    <3> QED
      BY <3>1
  <2>4. \E g1 : Eq(g1, m + 1)
    <3> HIDE DEF Eq, h
    <3> QED
      BY <2>3, Zenon
  <2> HIDE DEF Eq, h
  <2> QED
    BY <2>4
<1>3. MaxSections \in Nat
  BY DEF MaxSections
<1>4. \E g : Eq(g, MaxSections)
  <2>1. \A i \in Nat : i \in S
    <3> HIDE DEF S
    <3> QED
      BY <1>1, <1>2, ByInduction
  <2> QED
    BY <2>1, <1>3
<1>5. Eq(Td(a), MaxSections)
  BY <1>4, Zenon DEF Td, WidthOf
<1>6. \A i \in 1 .. MaxSections : Td(a)[i] = Next2(Td(a), i)
  BY <1>0, <1>3, <1>5
<1> HIDE DEF Eq, S
<1> QED
  BY <1>6 DEF MaxSections

(* The width of a section is what Place counts.                             *)
LEMMA Widths ==
  ASSUME NEW a \in Seq(Byte), NEW p \in 1 .. Len(a), NEW q \in Nat
  PROVE  /\ WidthOf(a, p) \in 0 .. 4
         /\ Place(a[p], q, 4) = q + WidthOf(a, p)
         /\ \A k \in 1 .. 4 : Place(a[p], q, k) <= q + WidthOf(a, p)
<1> DEFINE S(k) == {j \in 1 .. k : Present(a[p], j)}
           T == {k \in 4 .. 7 : CHECK_BIT(a[p], k)}
           f == [j \in S(4) |-> j + 3]
<1>1. IsFiniteSet(1 .. 4) /\ Cardinality(1 .. 4) = 4
  <2>1. 1 \in Int /\ 4 \in Int /\ ~(1 > 4) /\ 4 - 1 + 1 = 4
    OBVIOUS
  <2> QED
    BY <2>1, FS_Interval
<1>2. IsFiniteSet(S(4)) /\ Cardinality(S(4)) \in 0 .. 4
  <2>1. S(4) \in SUBSET (1 .. 4)
    OBVIOUS
  <2>2. IsFiniteSet(S(4)) /\ Cardinality(S(4)) <= 4
    BY <1>1, <2>1, FS_Subset
  <2> QED
    BY <2>2, FS_CardinalityType
<1>3. Cardinality(T) = Cardinality(S(4))
  <2>1. f \in [S(4) -> T] /\ \A x, y \in S(4) : f[x] = f[y] => x = y
    BY DEF Present
  <2>2. \A t \in T : \E x \in S(4) : f[x] = t
    <3> SUFFICES ASSUME NEW t \in T PROVE t - 3 \in S(4) /\ f[t - 3] = t
      OBVIOUS
    <3>1. t \in 4 .. 7 /\ (t - 3) + 3 = t /\ CHECK_BIT(a[p], t)
      OBVIOUS
    <3> QED
      BY <3>1 DEF Present
  <2> HIDE DEF S, T, f
  <2> QED
    BY <1>2, <2>1, <2>2, SameCard
<1>4. \A k \in 1 .. 4 : Cardinality(S(k)) \in Nat /\ Cardinality(S(k)) <= Cardinality(S(4))
  <2> SUFFICES ASSUME NEW k \in 1 .. 4 
               PROVE  Cardinality(S(k)) \in Nat /\ Cardinality(S(k)) <= Cardinality(S(4))
    OBVIOUS
  <2>1. S(k) \in SUBSET S(4)
    OBVIOUS
  <2>2. IsFiniteSet(S(k)) /\ Cardinality(S(k)) <= Cardinality(S(4))
    BY <1>2, <2>1, FS_Subset
  <2> QED
    BY <2>2, FS_CardinalityType
<1>5. WidthOf(a, p) = Cardinality(S(4))
  BY <1>3 DEF WidthOf
<1>6. \A k \in 1 .. 4 : Place(a[p], q, k) = q + Cardinality(S(k))
  BY DEF Place
<1> HIDE DEF S
<1> QED
  BY <1>2, <1>4, <1>5, <1>6

LEMMA TdNext ==
  ASSUME NEW a, NEW i \in 1 .. MaxSections - 1
  PROVE  Td(a)[i + 1] = Td(a)[i] + IF Td(a)[i] <= Len(a) THEN WidthOf(a, Td(a)[i]) ELSE 0
<1>1. i + 1 \in 2 .. MaxSections /\ (i + 1) - 1 = i
  BY DEF MaxSections
<1>2. Td(a)[i + 1] = Td(a)[(i + 1) - 1] + IF Td(a)[(i + 1) - 1] <= Len(a)
                                          THEN WidthOf(a, Td(a)[(i + 1) - 1]) ELSE 0
  BY <1>1, TdSteps, Zenon
<1> QED
  BY <1>1, <1>2, Zenon

(* The places grow. *)
LEMMA TdGrows ==
  ASSUME NEW a \in Seq(Byte)
  PROVE  /\ \A i \in 1 .. MaxSections : Td(a)[i] \in Nat /\ Td(a)[i] >= 2
         /\ \A i, j \in 1 .. MaxSections : i <= j => Td(a)[i] <= Td(a)[j]
<1> DEFINE t == Td(a)
           S == {n \in Nat : n + 1 \in 1 .. MaxSections =>
                   \A i \in 1 .. n + 1 : t[i] \in Nat /\ t[i] >= 2 /\ t[i] <= t[n + 1]}
<1>1. /\ t[1] = 2
      /\ \A i \in 2 .. MaxSections :
           t[i] = t[i - 1] + IF t[i - 1] <= Len(a) THEN WidthOf(a, t[i - 1]) ELSE 0
  BY TdSteps
<1> HIDE DEF t
<1>2. 0 \in S
  BY <1>1
<1>3. ASSUME NEW n \in Nat, n \in S PROVE n + 1 \in S
  <2> SUFFICES ASSUME n + 2 \in 1 .. MaxSections
               PROVE  \A i \in 1 .. n + 2 : t[i] \in Nat /\ t[i] >= 2 /\ t[i] <= t[n + 2]
    OBVIOUS
  <2>1. n + 1 \in 1 .. MaxSections /\ n + 2 \in 2 .. MaxSections /\ (n + 2) - 1 = n + 1
    BY DEF MaxSections
  <2>2. \A i \in 1 .. n + 1 : t[i] \in Nat /\ t[i] >= 2 /\ t[i] <= t[n + 1]
    BY <1>3, <2>1
  <2>3. t[n + 2] = t[n + 1] + IF t[n + 1] <= Len(a) THEN WidthOf(a, t[n + 1]) ELSE 0
    BY <1>1, <2>1
  <2>4. t[n + 1] \in Nat /\ t[n + 1] >= 2
    BY <2>2
  <2>5. t[n + 1] <= Len(a) => WidthOf(a, t[n + 1]) \in 0 .. 4
    <3> SUFFICES ASSUME t[n + 1] <= Len(a) PROVE WidthOf(a, t[n + 1]) \in 0 .. 4
      OBVIOUS
    <3>1. t[n + 1] \in 1 .. Len(a)
      BY <2>4, LenProperties
    <3> QED
      BY <3>1, Widths
  <2>6. t[n + 2] \in Nat /\ t[n + 1] <= t[n + 2]
    BY <2>3, <2>4, <2>5
  <2> SUFFICES ASSUME NEW i \in 1 .. n + 2 PROVE t[i] \in Nat /\ t[i] >= 2 /\ t[i] <= t[n + 2]
    OBVIOUS
  <2>7. CASE i = n + 2
    BY <2>4, <2>6, <2>7
  <2>8. CASE i \in 1 .. n + 1
    BY <2>2, <2>4, <2>6, <2>8
  <2> QED
    BY <2>7, <2>8
<1>4. \A n \in Nat : n \in S
  <2> HIDE DEF S
  <2> QED
    BY <1>2, <1>3, ByInduction
<1>5. ASSUME NEW i \in 1 .. MaxSections, NEW j \in 1 .. MaxSections, i <= j
      PROVE  t[i] \in Nat /\ t[i] >= 2 /\ t[i] <= t[j]
  <2>1. j - 1 \in Nat /\ (j - 1) + 1 = j /\ i \in 1 .. j
    BY <1>5 DEF MaxSections
  <2>2. j - 1 \in S
    BY <1>4, <2>1
  <2> QED
    BY <2>1, <2>2
<1> QED
  BY <1>5 DEF t, MaxSections

-----------------------------------------------------------------------------
(* The sections so far are those the ATR announces.                         *)
Chained ==
  /\ pc = "new" => atr = << >>
  /\ pc \in {"section", "history"} =>
       /\ atr[1] \in {59, 63} /\ hbSize = LN(atr[2])
       /\ \A i \in 1 .. section - 1 : Td(atr)[i] <= Len(atr) /\ CHECK_BIT(atr[Td(atr)[i]], 7)
  /\ pc = "section" /\ section <= MaxSections =>
       pos + 1 = Td(atr)[section] /\ pos + 1 <= Len(atr) /\ presence = atr[pos + 1]
  /\ pc = "history" =>
       /\ section <= MaxSections
       /\ Td(atr)[section] <= Len(atr) /\ ~CHECK_BIT(atr[Td(atr)[section]], 7)
       /\ pos + 1 = Td(atr)[section] + WidthOf(atr, Td(atr)[section])
  /\ Verdict

(* What every section before the one in hand says, an acceptable ATR ends   *)
(* no earlier.                                                              *)
LEMMA NotBefore ==
  ASSUME NEW a \in Seq(Byte), NEW m \in 1 .. MaxSections + 1,
         \A i \in 1 .. m - 1 : CHECK_BIT(a[Td(a)[i]], 7),
         Acceptable(a)
  PROVE  \E n \in 1 .. MaxSections :
           /\ n >= m /\ Td(a)[n] <= Len(a)
           /\ \A i \in 1 .. n : CHECK_BIT(a[Td(a)[i]], 7) = (i < n)
           /\ Td(a)[n] + WidthOf(a, Td(a)[n]) + LN(a[2]) <= Len(a)
<1>1. PICK n \in 1 .. MaxSections :
           /\ Td(a)[n] <= Len(a)
           /\ \A i \in 1 .. n : CHECK_BIT(a[Td(a)[i]], 7) = (i < n)
           /\ Td(a)[n] + WidthOf(a, Td(a)[n]) + LN(a[2]) <= Len(a)
  BY AcceptableByTd
<1>2. ~(n < n) /\ n \in 1 .. n
  OBVIOUS
<1>3. ~CHECK_BIT(a[Td(a)[n]], 7)
  BY <1>1, <1>2
<1>4. n >= m
  BY <1>3 DEF MaxSections
<1> QED
  BY <1>1, <1>4

(* Where a section has no room the ATR is not acceptable. *)
LEMMA SectionCut ==
  ASSUME NEW a \in Seq(Byte), NEW m \in 1 .. MaxSections,
         \A i \in 1 .. m - 1 : CHECK_BIT(a[Td(a)[i]], 7),
         Td(a)[m] <= Len(a), Td(a)[m] + WidthOf(a, Td(a)[m]) > Len(a)
  PROVE  ~Acceptable(a)
<1> SUFFICES ASSUME Acceptable(a) PROVE FALSE
  OBVIOUS
<1>1. m \in 1 .. MaxSections + 1
  BY DEF MaxSections
<1>2. PICK n \in 1 .. MaxSections :
           /\ n >= m /\ Td(a)[n] <= Len(a)
           /\ Td(a)[n] + WidthOf(a, Td(a)[n]) + LN(a[2]) <= Len(a)
  BY <1>1, NotBefore
<1>3. /\ \A i \in 1 .. MaxSections : Td(a)[i] \in Nat /\ Td(a)[i] >= 2
      /\ \A i, j \in 1 .. MaxSections : i <= j => Td(a)[i] <= Td(a)[j]
  BY TdGrows
<1>4. Len(a) \in Nat
  OBVIOUS
<1>5. CASE n = m
  <2>1. Td(a)[m] \in 1 .. Len(a)
    BY <1>3, <1>4
  <2>2. WidthOf(a, Td(a)[m]) \in 0 .. 4
    BY <2>1, Widths
  <2>3. 2 \in 1 .. Len(a)
    BY <1>3, <1>4
  <2>4. LN(a[2]) \in 0 .. 15
    <3>1. a[2] \in Byte
      BY <2>3, ElementOfSeq
    <3> QED
      BY <3>1, Nibbles
  <2>5. Td(a)[m] + WidthOf(a, Td(a)[m]) + LN(a[2]) <= Len(a)
    BY <1>2, <1>5
  <2> DEFINE q == Td(a)[m]
             w == WidthOf(a, q)
             l == LN(a[2])
  <2>6. q + w > Len(a) /\ q + w + l <= Len(a)
    BY <2>5, Zenon
  <2>7. q \in Nat /\ w \in Nat /\ l \in Nat
    BY <2>1, <2>2, <2>4, SMTT(30)
  <2> HIDE DEF q, w, l
  <2> QED
    BY <1>4, <2>6, <2>7
<1>6. CASE n # m
  <2>1. m + 1 \in 2 .. MaxSections /\ m + 1 <= n /\ (m + 1) - 1 = m
    BY <1>2, <1>6 DEF MaxSections
  <2>2. Td(a)[m + 1] = Td(a)[m] + WidthOf(a, Td(a)[m])
    <3>1. m \in 1 .. MaxSections - 1
      BY <2>1 DEF MaxSections
    <3>2. Td(a)[m + 1] = Td(a)[m] + IF Td(a)[m] <= Len(a) THEN WidthOf(a, Td(a)[m]) ELSE 0
      BY <3>1, TdNext, Zenon
    <3> QED
      BY <3>2, Zenon
  <2>3. Td(a)[m + 1] <= Td(a)[n] /\ Td(a)[m + 1] \in Nat /\ Td(a)[n] \in Nat
    <3>1. m + 1 \in 1 .. MaxSections
      BY <2>1
    <3> QED
      BY <1>3, <2>1, <3>1
  <2> QED
    BY <1>2, <1>4, <2>2, <2>3
<1> QED
  BY <1>5, <1>6

LEMMA ChainInit == Init => Chained
BY DEF Init, Chained, Verdict

LEMMA ChainLoad ==
  ASSUME AtrInv, Chained, NEW a \in Atrs, Load(a)
  PROVE  Chained'
<1>1. /\ pc = "new" /\ a \in Seq(Byte) /\ Len(a) \in Nat
  BY AtrAssumption, LenProperties DEF Load
<1>2. CASE Len(a) > 33 \/ Len(a) < 2
  <2>1. pc' = "refused" /\ atr' = atr
    BY <1>2 DEF Load, Refuse
  <2>2. atr = << >>
    BY <1>1 DEF Chained
  <2> QED
    BY <2>1, <2>2 DEF Chained, Verdict
<1>3. CASE ~(Len(a) > 33 \/ Len(a) < 2) /\ a[1] \notin {59, 63}
  <2>1. pc' = "refused" /\ atr' = a
    BY <1>3 DEF Load, Refuse
  <2>2. ~Acceptable(a)
    BY <1>3, AcceptableByTd
  <2> QED
    BY <2>1, <2>2 DEF Chained, Verdict
<1>4. CASE ~(Len(a) > 33 \/ Len(a) < 2) /\ a[1] \in {59, 63}
  <2>1. /\ atr' = a /\ hbSize' = LN(a[2])
        /\ pos' = 1 /\ section' = 1 /\ presence' = a[2] /\ pc' = "section"
    BY <1>4 DEF Load
  <2>2. Td(a)[1] = 2 /\ 2 <= Len(a)
    BY <1>1, <1>4, TdSteps
  <2>3. \A i \in 1 .. 1 - 1 : FALSE
    OBVIOUS
  <2> QED
    BY <1>4, <2>1, <2>2, <2>3 DEF Chained, Verdict
<1> QED
  BY <1>2, <1>3, <1>4

LEMMA ChainSection == AtrInv /\ Chained /\ Section => Chained'
<1> SUFFICES ASSUME AtrInv, Chained, Section PROVE Chained'
  OBVIOUS
<1>0. /\ UNCHANGED <<atr, hbSize>> /\ pc = "section" /\ atr \in Seq(Byte)
      /\ section \in 1 .. MaxSections + 1 /\ Len(atr) \in 2 .. 33 /\ pos \in Nat
  BY DEF Section, AtrInv, TypeOK, Counting, Byte
<1>1. /\ atr[1] \in {59, 63} /\ hbSize = LN(atr[2])
      /\ \A i \in 1 .. section - 1 : Td(atr)[i] <= Len(atr) /\ CHECK_BIT(atr[Td(atr)[i]], 7)
  BY <1>0 DEF Chained
<1>2. CASE TooMany(section)
  <2>1. pc' = "refused" /\ section = MaxSections + 1
    BY <1>0, <1>2 DEF Section, Refuse, TooMany, MaxSections
  <2>2. ~Acceptable(atr)
    <3> SUFFICES ASSUME Acceptable(atr) PROVE FALSE
      OBVIOUS
    <3>1. PICK n \in 1 .. MaxSections : n >= section
      BY <1>0, <1>1, NotBefore
    <3> QED
      BY <2>1, <3>1 DEF MaxSections
  <2> QED
    BY <1>0, <2>1, <2>2 DEF Chained, Verdict
<1>3. CASE ~TooMany(section)
  <2> DEFINE q == Td(atr)[section]
             w == WidthOf(atr, q)
             read == {k \in There : Here(Place(presence, pos, k))}
  <2>1. /\ section \in 1 .. MaxSections
        /\ \/ read # There /\ pc' = "refused" /\ UNCHANGED loading
           \/ /\ read = There /\ pos' = Place(presence, pos, 4)
              /\ \/ /\ 4 \in There /\ presence' = At(pos') /\ section' = section + 1
                    /\ pc' = "section"
                 \/ 4 \notin There /\ pc' = "history" /\ UNCHANGED <<section, presence>>
    BY <1>3, TurnFields
  <2>2. pos + 1 = q /\ pos + 1 <= Len(atr) /\ presence = atr[q] /\ q \in 1 .. Len(atr)
    BY <1>0, <2>1 DEF Chained
  <2>3. /\ w \in 0 .. 4
        /\ Place(presence, pos, 4) = pos + w
        /\ \A k \in 1 .. 4 : Place(presence, pos, k) <= pos + w
    <3> HIDE DEF q
    <3> QED
      BY <1>0, <2>2, Widths
  <2>4. 4 \in There <=> CHECK_BIT(atr[q], 7)
    BY <2>2 DEF There, Present
  <2> HIDE DEF q, w
  <2>5. CASE read # There /\ pc' = "refused"
    <3>1. PICK k \in There : ~Here(Place(presence, pos, k))
      BY <2>5
    <3>2. Place(presence, pos, k) >= Len(atr)
      <4>1. Place(presence, pos, k) \in pos .. pos + 4
        BY <1>0, Places DEF There
      <4> QED
        BY <1>0, <3>1, <4>1 DEF Here
    <3>3. q + w > Len(atr)
      <4>1. Place(presence, pos, k) <= pos + w /\ Place(presence, pos, k) \in pos .. pos + 4
        BY <1>0, <2>3, Places DEF There
      <4> QED
        BY <1>0, <2>2, <2>3, <3>2, <4>1
    <3>4. ~Acceptable(atr)
      BY <1>0, <1>1, <2>1, <2>2, <3>3, SectionCut DEF q, w
    <3> QED
      BY <1>0, <2>5, <3>4 DEF Chained, Verdict
  <2>6. CASE /\ read = There /\ pos' = Place(presence, pos, 4)
             /\ 4 \in There /\ presence' = At(pos') /\ section' = section + 1
             /\ pc' = "section"
    <3>1. Here(pos')
      BY <2>6
    <3>2. pos' = pos + w /\ pos' + 1 = q + w /\ pos' + 1 <= Len(atr) /\ presence' = atr[pos' + 1]
      BY <1>0, <2>2, <2>3, <2>6, <3>1 DEF Here, At
    <3>3. \A i \in 1 .. section : Td(atr)[i] <= Len(atr) /\ CHECK_BIT(atr[Td(atr)[i]], 7)
      <4> SUFFICES ASSUME NEW i \in 1 .. section
                   PROVE  Td(atr)[i] <= Len(atr) /\ CHECK_BIT(atr[Td(atr)[i]], 7)
        OBVIOUS
      <4>1. CASE i = section
        BY <1>0, <2>2, <2>4, <2>6, <4>1 DEF q
      <4>2. CASE i # section
        BY <1>1, <2>1, <4>2 DEF MaxSections
      <4> QED
        BY <4>1, <4>2
    <3>4. section + 1 <= MaxSections => Td(atr)[section + 1] = q + w
      <4> SUFFICES ASSUME section + 1 <= MaxSections PROVE Td(atr)[section + 1] = q + w
        OBVIOUS
      <4>1. section + 1 \in 2 .. MaxSections /\ (section + 1) - 1 = section
        BY <2>1 DEF MaxSections
      <4>2. section \in 1 .. MaxSections - 1 /\ q <= Len(atr)
        BY <1>0, <2>1, <2>2, <4>1 DEF MaxSections
      <4> QED
        BY <4>2, TdNext DEF q, w
    <3>5. section' - 1 = section
      BY <1>0, <2>6 DEF MaxSections
    <3> QED
      BY <1>0, <1>1, <2>6, <3>2, <3>3, <3>4, <3>5 DEF Chained, Verdict
  <2>7. CASE /\ read = There /\ pos' = Place(presence, pos, 4)
             /\ 4 \notin There /\ pc' = "history" /\ UNCHANGED <<section, presence>>
    <3>1. pos' + 1 = q + w
      BY <1>0, <2>2, <2>3, <2>7
    <3> QED
      BY <1>0, <1>1, <2>1, <2>2, <2>4, <2>7, <3>1 DEF Chained, Verdict, q, w
  <2> QED
    BY <2>1, <2>5, <2>6, <2>7
<1> QED
  BY <1>2, <1>3

LEMMA ChainHistory == AtrInv /\ Chained /\ History => Chained'
<1> SUFFICES ASSUME AtrInv, Chained, History PROVE Chained'
  OBVIOUS
<1> DEFINE q == Td(atr)[section]
           w == WidthOf(atr, q)
<1>0. /\ UNCHANGED <<atr, hbSize, section>> /\ pc = "history" /\ atr \in Seq(Byte)
      /\ section \in 1 .. MaxSections /\ Len(atr) \in 2 .. 33 /\ pos \in 1 .. 29
      /\ hbSize \in 0 .. 15
  BY DEF History, AtrInv, TypeOK, Counting, Chained, MaxSections
<1>1. /\ atr[1] \in {59, 63} /\ hbSize = LN(atr[2])
      /\ \A i \in 1 .. section - 1 : Td(atr)[i] <= Len(atr) /\ CHECK_BIT(atr[Td(atr)[i]], 7)
      /\ q <= Len(atr) /\ ~CHECK_BIT(atr[q], 7) /\ pos + 1 = q + w
  BY <1>0 DEF Chained
<1>2. q \in Nat /\ q >= 2 /\ q \in 1 .. Len(atr) /\ w \in 0 .. 4
  <2>1. q \in Nat /\ q >= 2
    BY <1>0, TdGrows
  <2>2. q \in 1 .. Len(atr)
    BY <1>0, <1>1, <2>1
  <2> HIDE DEF q
  <2> QED
    BY <1>0, <2>1, <2>2, Widths
<1>3. CASE NoRoom(pos, Len(atr), hbSize) \/ ~Here(pos + hbSize)
  <2>1. pc' = "refused"
    BY <1>3 DEF History, Refuse
  <2>2. pos + hbSize >= Len(atr)
    <3>1. CASE ~Here(pos + hbSize)
      BY <1>0, <3>1 DEF Here
    <3>2. CASE NoRoom(pos, Len(atr), hbSize)
      <4>1. CASE Len(atr) - hbSize - 1 \in 0 .. 255
        <5>1. Size_t(Len(atr) - hbSize - 1) = Len(atr) - hbSize - 1
          BY <4>1, NoWrap
        <5> QED
          BY <1>0, <3>2, <4>1, <5>1 DEF NoRoom
      <4>2. CASE Len(atr) - hbSize - 1 < 0
        BY <1>0, <4>2
      <4>3. Len(atr) - hbSize - 1 \in 0 .. 255 \/ Len(atr) - hbSize - 1 < 0
        <5>1. \A x \in 2 .. 33, h \in 0 .. 15 : x - h - 1 \in 0 .. 255 \/ x - h - 1 < 0
          OBVIOUS
        <5> QED
          BY <1>0, <5>1
      <4> QED
        BY <4>1, <4>2, <4>3
    <3> QED
      BY <1>3, <3>1, <3>2
  <2>3. ~Acceptable(atr)
    <3> SUFFICES ASSUME Acceptable(atr) PROVE FALSE
      OBVIOUS
    <3>1. PICK n \in 1 .. MaxSections :
           /\ n >= section /\ Td(atr)[n] <= Len(atr)
           /\ \A i \in 1 .. n : CHECK_BIT(atr[Td(atr)[i]], 7) = (i < n)
           /\ Td(atr)[n] + WidthOf(atr, Td(atr)[n]) + LN(atr[2]) <= Len(atr)
      <4>1. section \in 1 .. MaxSections + 1
        BY <1>0 DEF MaxSections
      <4> QED
        BY <1>0, <1>1, <4>1, NotBefore
    <3>2. n = section
      <4>1. ASSUME section < n PROVE FALSE
        <5>1. section \in 1 .. n
          BY <1>0, <4>1 DEF MaxSections
        <5>2. CHECK_BIT(atr[Td(atr)[section]], 7) = (section < n)
          BY <3>1, <5>1
        <5> QED
          BY <1>1, <4>1, <5>2, Zenon
      <4> QED
        BY <1>0, <3>1, <4>1 DEF MaxSections
    <3>3. q + w + hbSize <= Len(atr)
      BY <1>1, <3>1, <3>2
    <3> HIDE DEF q, w
    <3> QED
      BY <1>0, <1>1, <1>2, <2>2, <3>3
  <2> QED
    BY <1>0, <2>1, <2>3 DEF Chained, Verdict
<1>4. CASE ~(NoRoom(pos, Len(atr), hbSize) \/ ~Here(pos + hbSize))
  <2>1. pc' = "loaded" /\ pos + hbSize < Len(atr)
    BY <1>4 DEF History, Here
  <2>2. q + w + LN(atr[2]) <= Len(atr)
    <3> HIDE DEF q, w
    <3> QED
      BY <1>0, <1>1, <1>2, <2>1
  <2>3. \A i \in 1 .. section : CHECK_BIT(atr[Td(atr)[i]], 7) = (i < section)
    <3> SUFFICES ASSUME NEW i \in 1 .. section
                 PROVE  CHECK_BIT(atr[Td(atr)[i]], 7) = (i < section)
      OBVIOUS
    <3>1. CASE i = section
      BY <1>0, <1>1, <3>1 DEF CHECK_BIT, MaxSections
    <3>2. CASE i # section
      <4>1. i \in 1 .. section - 1 /\ i < section
        BY <1>0, <3>2 DEF MaxSections
      <4> QED
        BY <1>1, <4>1 DEF CHECK_BIT
    <3> QED
      BY <3>1, <3>2
  <2>4. Acceptable(atr)
    BY <1>0, <1>1, <2>2, <2>3, AcceptableByTd
  <2> QED
    BY <1>0, <2>1, <2>4 DEF Chained, Verdict
<1> QED
  BY <1>3, <1>4

-----------------------------------------------------------------------------
(* The decomposition.                                                       *)

Interface(m) == DOMAIN m \ {TS, T0, TCK}
By(i) == IF i = 1 THEN T0 ELSE TD(i - 1)
Says(m, k, i) == By(i) \in DOMAIN m /\ CHECK_BIT(m[By(i)], k + 3)
Earlier(m, k, i) == {f \in DOMAIN m : \E n \in 1 .. 4 : f[1] = Letters[n] /\
                       (f[2] < i \/ (f[2] = i /\ n < k))}

(* The first d sections of interface bytes, and no others, are in the map,  *)
(* each byte from its place.                                                *)
Laid(a, m, d) ==
  /\ IsFiniteSet(DOMAIN m)
  /\ \A k \in 1 .. 4, i \in 1 .. MaxSections :
       /\ <<Letters[k], i>> \in DOMAIN m <=> i <= d /\ Says(m, k, i)
       /\ <<Letters[k], i>> \in DOMAIN m =>
            m[<<Letters[k], i>>] = a[3 + Cardinality(Earlier(m, k, i))]
  /\ \A f \in Interface(m) : \E k \in 1 .. 4, i \in 1 .. d : f = <<Letters[k], i>>

NewFields(b, s) == {<<Letters[k], s>> : k \in {j \in 1 .. 4 : Present(b, j)}}

LEMMA Distinct ==
  /\ \A j, k \in 1 .. 4 : Letters[j] = Letters[k] => j = k
  /\ \A k \in 1 .. 4 : Letters[k] # "TS" /\ Letters[k] # "T0" /\ Letters[k] # "TCK"
  /\ \A k \in 1 .. 4 : \A i : <<Letters[k], i>> \notin {TS, T0, TCK}
<1>1. /\ \A j, k \in 1 .. 4 : Letters[j] = Letters[k] => j = k
      /\ \A k \in 1 .. 4 : Letters[k] # "TS" /\ Letters[k] # "T0" /\ Letters[k] # "TCK"
  BY DEF Letters
<1>2. ASSUME NEW k \in 1 .. 4, NEW i PROVE <<Letters[k], i>> \notin {TS, T0, TCK}
  <2>1. <<Letters[k], i>>[1] = Letters[k]
    OBVIOUS
  <2>2. TS[1] = "TS" /\ T0[1] = "T0" /\ TCK[1] = "TCK"
    BY DEF TS, T0, TCK
  <2> QED
    BY <1>1, <2>1, <2>2
<1> QED
  BY <1>1, <1>2

LEMMA FourFinite == IsFiniteSet(1 .. 4)
<1>1. 1 \in Int /\ 4 \in Int
  OBVIOUS
<1> QED
  BY <1>1, FS_Interval

Below(b, k) == {i \in 1 .. 4 : i < k /\ Present(b, i)}
NewBelow(b, s, k) == {<<Letters[j], s>> : j \in Below(b, k)}

(* How many new fields there are, and how many of them before the k-th.     *)
LEMMA NewCount ==
  ASSUME NEW b, NEW s, NEW k \in 1 .. 5
  PROVE  /\ IsFiniteSet(NewBelow(b, s, k))
         /\ Cardinality(NewBelow(b, s, k)) = Cardinality(Below(b, k))
<1> DEFINE S == Below(b, k)
           T == {<<Letters[j], s>> : j \in S}
           f == [j \in S |-> <<Letters[j], s>>]
<1>1. IsFiniteSet(S)
  <2>1. IsFiniteSet(1 .. 4)
    BY FourFinite
  <2>2. S \in SUBSET (1 .. 4)
    BY DEF Below
  <2> QED
    BY <2>1, <2>2, FS_Subset
<1>2. f \in [S -> T] /\ \A t \in T : \E x \in S : f[x] = t
  OBVIOUS
<1>3. ASSUME NEW x \in S, NEW y \in S, f[x] = f[y] PROVE x = y
  <2>1. <<Letters[x], s>> = <<Letters[y], s>>
    BY <1>3
  <2>2. Letters[x] = Letters[y]
    BY <2>1
  <2> QED
    BY <2>2, Distinct DEF Below
<1> HIDE DEF S, T, f
<1>4. IsFiniteSet(T) /\ Cardinality(T) = Cardinality(S)
  BY <1>1, <1>2, <1>3, SameCard
<1> QED
  BY <1>4 DEF S, T, NewBelow

(* A section is put after those that are there.                             *)
LEMMA TurnLaid ==
  ASSUME NEW m, NEW m2, section \in 1 .. MaxSections,
         Laid(atr, m, section - 1), By(section) \in DOMAIN m, m[By(section)] = presence,
         pos = 1 + Cardinality(Interface(m)),
         DOMAIN m2 = DOMAIN m \union NewFields(presence, section),
         \A f \in DOMAIN m : m2[f] = m[f],
         \A k \in 1 .. 4 : Present(presence, k) =>
           m2[<<Letters[k], section>>] = atr[Place(presence, pos, k) + 1]
  PROVE  /\ Laid(atr, m2, section)
         /\ Place(presence, pos, 4) = 1 + Cardinality(Interface(m2))
         /\ \A k \in 1 .. 4 : <<Letters[k], section>> \in DOMAIN m2 <=> Present(presence, k)
<1> DEFINE F(k) == <<Letters[k], section>>
           Added(k) == NewBelow(presence, section, k)
           Old == Interface(m)
<1>0. section \in Nat /\ section >= 1 /\ section - 1 \in Nat
  BY DEF MaxSections
<1>1. /\ IsFiniteSet(DOMAIN m)
      /\ \A k \in 1 .. 4, i \in 1 .. MaxSections :
           /\ <<Letters[k], i>> \in DOMAIN m <=> i <= section - 1 /\ Says(m, k, i)
           /\ <<Letters[k], i>> \in DOMAIN m =>
                m[<<Letters[k], i>>] = atr[3 + Cardinality(Earlier(m, k, i))]
      /\ \A f \in Old : \E k \in 1 .. 4, i \in 1 .. section - 1 : f = <<Letters[k], i>>
  BY DEF Laid
<1>2. \A k \in 1 .. 4 : F(k) \notin DOMAIN m
  BY <1>0, <1>1
<1>3. \A k \in 1 .. 4 : F(k) \in DOMAIN m2 <=> Present(presence, k)
  <2> SUFFICES ASSUME NEW k \in 1 .. 4 PROVE F(k) \in DOMAIN m2 <=> Present(presence, k)
    OBVIOUS
  <2>1. F(k) \in NewFields(presence, section) <=> Present(presence, k)
    <3>1. ASSUME NEW j \in 1 .. 4, F(k) = F(j) PROVE j = k
      <4>1. Letters[k] = Letters[j]
        BY <3>1
      <4> QED
        BY <4>1, Distinct
    <3> QED
      BY <3>1 DEF NewFields
  <2> QED
    BY <1>2, <2>1
<1>4. \A k \in 1 .. 4 : <<Letters[k], section>> \in DOMAIN m2 <=> Present(presence, k)
  BY <1>3
<1> HIDE DEF F
<1>5. Old \in SUBSET DOMAIN m /\ IsFiniteSet(Old) /\ Cardinality(Old) \in Nat
  <2>1. Old \in SUBSET DOMAIN m
    BY DEF Interface
  <2> QED
    BY <1>1, <2>1, FS_Subset, FS_CardinalityType
<1>6. \A k \in 1 .. 5 : /\ IsFiniteSet(Added(k)) /\ Old \intersect Added(k) = {}
                        /\ Cardinality(Added(k)) = Cardinality(Below(presence, k))
                        /\ Cardinality(Added(k)) \in Nat
                        /\ Cardinality(Old \union Added(k)) = Cardinality(Old) + Cardinality(Added(k))
  <2> SUFFICES ASSUME NEW k \in 1 .. 5
               PROVE  /\ IsFiniteSet(Added(k)) /\ Old \intersect Added(k) = {}
                      /\ Cardinality(Added(k)) = Cardinality(Below(presence, k))
                      /\ Cardinality(Added(k)) \in Nat
                      /\ Cardinality(Old \union Added(k)) = Cardinality(Old) + Cardinality(Added(k))
    OBVIOUS
  <2>1. /\ IsFiniteSet(Added(k))
        /\ Cardinality(Added(k)) = Cardinality(Below(presence, k))
    BY NewCount
  <2>2. Old \intersect Added(k) = {}
    BY <1>2, <1>5 DEF NewBelow, Below, F
  <2>3. Cardinality(Added(k)) \in Nat
    BY <2>1, FS_CardinalityType
  <2>4. Cardinality(Old \union Added(k))
          = Cardinality(Old) + Cardinality(Added(k)) - Cardinality(Old \intersect Added(k))
    BY <1>5, <2>1, FS_Union
  <2>5. Cardinality(Old \intersect Added(k)) = 0
    BY <2>2, FS_EmptySet
  <2> HIDE DEF Old, Added
  <2> QED
    BY <1>5, <2>1, <2>2, <2>3, <2>4, <2>5
<1>7. Interface(m2) = Old \union Added(5)
  <2>1. Added(5) = NewFields(presence, section)
    BY DEF NewFields, F, NewBelow, Below
  <2>2. \A f \in NewFields(presence, section) : f \notin {TS, T0, TCK}
    BY Distinct DEF NewFields
  <2> QED
    BY <2>1, <2>2 DEF Interface
<1>8. Place(presence, pos, 4) = 1 + Cardinality(Interface(m2))
  <2>1. {j \in 1 .. 4 : Present(presence, j)} = Below(presence, 5)
    BY DEF Below
  <2>2. 5 \in 1 .. 5
    OBVIOUS
  <2>3. Cardinality(Added(5)) = Cardinality(Below(presence, 5))
        /\ Cardinality(Old \union Added(5)) = Cardinality(Old) + Cardinality(Added(5))
        /\ Cardinality(Added(5)) \in Nat
    BY <1>6, <2>2, Zenon
  <2>4. Place(presence, pos, 4) = pos + Cardinality(Added(5))
    BY <2>1, <2>3, Zenon DEF Place
  <2> HIDE DEF Added
  <2> QED
    BY <1>5, <1>7, <2>3, <2>4
<1>9. IsFiniteSet(DOMAIN m2)
  <2>1. DOMAIN m2 = DOMAIN m \union Added(5)
    BY DEF NewFields, F, NewBelow, Below
  <2>2. 5 \in 1 .. 5
    OBVIOUS
  <2>3. IsFiniteSet(Added(5))
    BY <1>6, <2>2, Zenon
  <2>4. IsFiniteSet(DOMAIN m \union Added(5))
    BY <1>1, <2>3, FS_Union, Zenon
  <2> QED
    BY <2>1, <2>4, Zenon
(* The order.                                                               *)
<1>10. \A k \in 1 .. 4, i \in 1 .. section - 1 : Earlier(m2, k, i) = Earlier(m, k, i)
  <2> SUFFICES ASSUME NEW k \in 1 .. 4, NEW i \in 1 .. section - 1
               PROVE  Earlier(m2, k, i) = Earlier(m, k, i)
    OBVIOUS
  <2>1. \A f \in NewFields(presence, section) : f[2] = section
    BY DEF NewFields
  <2>2. ~(section < i) /\ section # i
    BY <1>0
  <2>3. \A f \in NewFields(presence, section) : ~(f[2] < i \/ f[2] = i)
    BY <2>1, <2>2
  <2> QED
    BY <2>3 DEF Earlier
<1>11. \A k \in 1 .. 4 : Earlier(m2, k, section) = Old \union Added(k)
  <2> SUFFICES ASSUME NEW k \in 1 .. 4 PROVE Earlier(m2, k, section) = Old \union Added(k)
    OBVIOUS
  <2>1. ASSUME NEW f \in Old PROVE f \in Earlier(m2, k, section)
    <3>1. PICK j \in 1 .. 4, i \in 1 .. section - 1 : f = <<Letters[j], i>>
      BY <1>1, <2>1
    <3>2. f \in DOMAIN m2 /\ f[1] = Letters[j] /\ f[2] < section
      BY <1>0, <1>5, <3>1
    <3> QED
      BY <3>2 DEF Earlier
  <2>2. ASSUME NEW f \in Added(k) PROVE f \in Earlier(m2, k, section)
    <3>1. PICK j \in 1 .. 4 : j < k /\ Present(presence, j) /\ f = F(j)
      BY <2>2 DEF NewBelow, Below, F
    <3>2. f \in DOMAIN m2 /\ f[1] = Letters[j] /\ f[2] = section
      BY <1>3, <3>1 DEF F
    <3> QED
      BY <3>1, <3>2 DEF Earlier
  <2>3. ASSUME NEW f \in Earlier(m2, k, section) PROVE f \in Old \union Added(k)
    <3>1. f \in DOMAIN m2
      BY DEF Earlier
    <3>2. PICK n \in 1 .. 4 : f[1] = Letters[n] /\ (f[2] < section \/ (f[2] = section /\ n < k))
      BY DEF Earlier
    <3>3. f \notin {TS, T0, TCK}
      <4>1. TS[1] = "TS" /\ T0[1] = "T0" /\ TCK[1] = "TCK"
        BY DEF TS, T0, TCK
      <4> QED
        BY <3>2, <4>1, Distinct
    <3>4. CASE f \in DOMAIN m
      BY <3>3, <3>4 DEF Interface
    <3>5. CASE f \in NewFields(presence, section)
      <4>1. PICK j \in 1 .. 4 : Present(presence, j) /\ f = F(j)
        BY <3>5 DEF NewFields, F, NewBelow, Below
      <4>2. f[1] = Letters[j] /\ f[2] = section
        BY <4>1 DEF F
      <4>3. j = n
        <5>1. Letters[j] = Letters[n]
          BY <3>2, <4>2
        <5> QED
          BY <5>1, Distinct, Zenon
      <4>4. j < k
        BY <1>0, <3>2, <4>2, <4>3
      <4> QED
        BY <4>1, <4>4 DEF NewBelow, Below, F
    <3> QED
      BY <3>1, <3>4, <3>5
  <2> QED
    BY <2>1, <2>2, <2>3
<1>12. ASSUME NEW k \in 1 .. 4, Present(presence, k)
       PROVE  m2[F(k)] = atr[3 + Cardinality(Earlier(m2, k, section))]
  <2> DEFINE Upto == {j \in 1 .. k : Present(presence, j)}
  <2>1. Upto = Below(presence, k) \union {k} /\ k \notin Below(presence, k)
    <3>1. \A j : j \in 1 .. k <=> j \in 1 .. 4 /\ (j < k \/ j = k)
      OBVIOUS
    <3>2. ~(k < k)
      OBVIOUS
    <3> QED
      BY <1>12, <3>1, <3>2 DEF Below
  <2>2. IsFiniteSet(Below(presence, k))
    <3>1. IsFiniteSet(1 .. 4)
      BY FourFinite
    <3>2. Below(presence, k) \in SUBSET (1 .. 4)
      BY DEF Below
    <3> QED
      BY <3>1, <3>2, FS_Subset
  <2>3. k \in 1 .. 5
    OBVIOUS
  <2> HIDE DEF Upto
  <2>4. Cardinality(Upto) = Cardinality(Below(presence, k)) + 1
    BY <2>1, <2>2, FS_AddElement
  <2>5. /\ Cardinality(Added(k)) = Cardinality(Below(presence, k)) /\ Cardinality(Added(k)) \in Nat
        /\ Cardinality(Old \union Added(k)) = Cardinality(Old) + Cardinality(Added(k))
    BY <1>6, <2>3
  <2>6. m2[F(k)] = atr[pos + Cardinality(Upto) + 1]
    BY <1>12 DEF F, Place, Upto
  <2>7. Cardinality(Earlier(m2, k, section)) = Cardinality(Old) + Cardinality(Added(k))
    BY <1>11, <2>5
  <2> HIDE DEF Old, Added
  <2>8. pos + Cardinality(Upto) + 1 = 3 + Cardinality(Earlier(m2, k, section))
    BY <1>5, <2>4, <2>5, <2>7 DEF Old
  <2> QED
    BY <2>6, <2>8
(* What announces them is as it was.                                        *)
<1>13. \A i \in 1 .. MaxSections : i <= section =>
         (\A k \in 1 .. 4 : Says(m2, k, i) <=> Says(m, k, i))
  <2> SUFFICES ASSUME NEW i \in 1 .. MaxSections, i <= section, NEW k \in 1 .. 4
               PROVE  Says(m2, k, i) <=> Says(m, k, i)
    OBVIOUS
  <2>1. By(i) \notin NewFields(presence, section)
    <3>1. \A f \in NewFields(presence, section) : f[2] = section
      BY DEF NewFields
    <3>2. By(i)[2] # section
      BY <1>0 DEF By, T0, TD, MaxSections
    <3> QED
      BY <3>1, <3>2
  <2>2. By(i) \in DOMAIN m2 <=> By(i) \in DOMAIN m
    BY <2>1
  <2> QED
    BY <2>2 DEF Says
<1>14. Laid(atr, m2, section)
  <2>1. ASSUME NEW k \in 1 .. 4, NEW i \in 1 .. MaxSections
        PROVE  /\ <<Letters[k], i>> \in DOMAIN m2 <=> i <= section /\ Says(m2, k, i)
               /\ <<Letters[k], i>> \in DOMAIN m2 =>
                    m2[<<Letters[k], i>>] = atr[3 + Cardinality(Earlier(m2, k, i))]
    <3> DEFINE g == <<Letters[k], i>>
    <3>1. CASE i = section
      <4>1. Says(m, k, section) <=> Present(presence, k)
        BY DEF Says, Present
      <4> QED
        BY <1>0, <1>3, <1>12, <1>13, <3>1, <4>1 DEF F
    <3>2. CASE i # section
      <4>1. g \notin NewFields(presence, section)
        <5>1. \A f \in NewFields(presence, section) : f[2] = section
          BY DEF NewFields
        <5>2. g[2] = i
          OBVIOUS
        <5> QED
          BY <3>2, <5>1, <5>2
      <4>2. g \in DOMAIN m2 <=> g \in DOMAIN m
        BY <4>1
      <4>3. i <= section <=> i <= section - 1
        BY <1>0, <3>2 DEF MaxSections
      <4>4. g \in DOMAIN m <=> i <= section - 1 /\ Says(m, k, i)
        BY <1>1
      <4>5. ASSUME g \in DOMAIN m2 PROVE m2[g] = atr[3 + Cardinality(Earlier(m2, k, i))]
        <5>0. g \in DOMAIN m
          BY <4>2, <4>5
        <5>1. m2[g] = m[g] /\ m[g] = atr[3 + Cardinality(Earlier(m, k, i))]
          BY <1>1, <5>0
        <5>2. i \in 1 .. section - 1
          BY <1>0, <4>4, <5>0 DEF MaxSections
        <5> QED
          BY <1>10, <5>1, <5>2
      <4> HIDE DEF g
      <4>6. g \in DOMAIN m2 <=> i <= section /\ Says(m2, k, i)
        BY <1>13, <4>2, <4>3, <4>4
      <4> QED
        BY <4>5, <4>6 DEF g
    <3> QED
      BY <3>1, <3>2
  <2>2. ASSUME NEW f \in Interface(m2) PROVE \E k \in 1 .. 4, i \in 1 .. section : f = <<Letters[k], i>>
    <3>1. CASE f \in Old
      <4>1. PICK k \in 1 .. 4, i \in 1 .. section - 1 : f = <<Letters[k], i>>
        BY <1>1, <3>1
      <4>2. i \in 1 .. section
        BY <1>0
      <4> QED
        BY <4>1, <4>2
    <3>2. CASE f \in Added(5)
      BY <1>0, <3>2 DEF NewBelow, Below
    <3> QED
      BY <1>7, <2>2, <3>1, <3>2
  <2> QED
    BY <1>9, <2>1, <2>2 DEF Laid
<1> QED
  BY <1>4, <1>8, <1>14

(* The fields of load so far are those of its sections so far, and after    *)
(* load they are the decomposition.                                         *)
LaidInv ==
  /\ pc \in {"section", "history", "loaded", "aborted"} =>
       /\ TS \in DOMAIN fields /\ fields[TS] = atr[1]
       /\ T0 \in DOMAIN fields /\ fields[T0] = atr[2]
       /\ hbSize = LN(atr[2]) /\ Len(atr) \in 2 .. 33
  /\ pc \in {"section", "history"} =>
       TCK \notin DOMAIN fields /\ pos = 1 + Cardinality(Interface(fields))
  /\ pc = "section" /\ section <= MaxSections =>
       /\ Laid(atr, fields, section - 1)
       /\ By(section) \in DOMAIN fields /\ fields[By(section)] = presence
  /\ pc = "history" =>
       /\ section <= MaxSections /\ Laid(atr, fields, section)
       /\ TD(section) \notin DOMAIN fields
  /\ Decomposed

LEMMA LaidInit == Init => LaidInv
BY DEF Init, LaidInv, Decomposed

LEMMA LaidLoad ==
  ASSUME NEW a \in Atrs, Load(a)
  PROVE  LaidInv'
<1> SUFFICES ASSUME pc' # "refused" PROVE LaidInv'
  BY DEF LaidInv, Decomposed, Load, Refuse
<1>1. /\ a \in Seq(Byte) /\ Len(a) \in Nat /\ ~(Len(a) > 33 \/ Len(a) < 2)
      /\ atr' = a /\ fields' = [f \in {TS, T0} |-> IF f = TS THEN a[1] ELSE a[2]]
      /\ hbSize' = LN(a[2]) /\ pos' = 1 /\ section' = 1 /\ presence' = a[2]
      /\ pc' = "section"
  BY AtrAssumption, LenProperties DEF Load, Refuse
<1>2. TS # T0 /\ TCK \notin {TS, T0}
  BY DEF TS, T0, TCK
<1>3. /\ DOMAIN fields' = {TS, T0}
      /\ fields'[TS] = a[1] /\ fields'[T0] = a[2]
  BY <1>1, <1>2
<1>4. Len(a) \in 2 .. 33
  BY <1>1, Length
<1>5. Interface(fields') = {}
  BY <1>3 DEF Interface
<1>6. Cardinality(Interface(fields')) = 0 /\ IsFiniteSet({TS, T0})
  <2>1. IsFiniteSet({TS}) /\ {TS, T0} = {TS} \union {T0}
    BY FS_Singleton
  <2> QED
    <3>1. Cardinality(Interface(fields')) = 0
      BY <1>5, FS_EmptySet
    <3>2. IsFiniteSet({TS} \union {T0})
      BY <2>1, FS_AddElement, Zenon
    <3> QED
      BY <2>1, <3>1, <3>2, Zenon
<1>7. Laid(atr', fields', 0)
  <2>1. \A k \in 1 .. 4, i \in 1 .. MaxSections :
          <<Letters[k], i>> \notin DOMAIN fields' /\ ~(i <= 0)
    BY <1>3, Distinct DEF MaxSections
  <2> QED
    <3>1. IsFiniteSet(DOMAIN fields') /\ \A f : f \notin Interface(fields')
      BY <1>3, <1>5, <1>6
    <3> QED
      BY <2>1, <3>1 DEF Laid
<1>8. By(1) = T0 /\ 1 - 1 = 0
  BY DEF By
<1>9. (/\ Laid(atr, fields, section - 1)
       /\ By(section) \in DOMAIN fields /\ fields[By(section)] = presence)'
  BY <1>1, <1>3, <1>7, <1>8
<1>10. (TCK \notin DOMAIN fields /\ pos = 1 + Cardinality(Interface(fields)))'
  BY <1>1, <1>2, <1>3, <1>6
<1>11. (/\ TS \in DOMAIN fields /\ fields[TS] = atr[1]
        /\ T0 \in DOMAIN fields /\ fields[T0] = atr[2]
        /\ hbSize = LN(atr[2]) /\ Len(atr) \in 2 .. 33)'
  BY <1>1, <1>3, <1>4
<1> QED
  BY <1>1, <1>9, <1>10, <1>11 DEF LaidInv, Decomposed

LEMMA LaidSection == AtrInv /\ Chained /\ LaidInv /\ Section => LaidInv'
<1> SUFFICES ASSUME AtrInv, Chained, LaidInv, Section, pc' # "refused" PROVE LaidInv'
  BY DEF LaidInv, Decomposed, Section, Refuse
<1> DEFINE read == {k \in There : Here(Place(presence, pos, k))}
<1>1. /\ UNCHANGED <<atr, hbSize>> /\ pc = "section" /\ ~TooMany(section)
      /\ atr \in Seq(Byte) /\ pos \in Nat
  BY DEF Section, Refuse, AtrInv, TypeOK, Counting, Byte
<1>2. /\ section \in 1 .. MaxSections /\ read = There /\ pos' = Place(presence, pos, 4)
      /\ DOMAIN fields' = DOMAIN fields \union {<<Letters[k], section>> : k \in read}
      /\ \A f \in DOMAIN fields : fields'[f] = fields[f]
      /\ \A k \in read : <<Letters[k], section>> \in DOMAIN fields
                         \/ fields'[<<Letters[k], section>>] = At(Place(presence, pos, k))
      /\ \/ /\ 4 \in There /\ presence' = At(pos') /\ section' = section + 1
            /\ pc' = "section"
         \/ 4 \notin There /\ pc' = "history" /\ UNCHANGED <<section, presence>>
  BY <1>1, TurnFields
<1>3. /\ Laid(atr, fields, section - 1)
      /\ By(section) \in DOMAIN fields /\ fields[By(section)] = presence
      /\ TCK \notin DOMAIN fields /\ pos = 1 + Cardinality(Interface(fields))
      /\ TS \in DOMAIN fields /\ fields[TS] = atr[1]
      /\ T0 \in DOMAIN fields /\ fields[T0] = atr[2]
      /\ hbSize = LN(atr[2]) /\ Len(atr) \in 2 .. 33
  BY <1>1, <1>2 DEF LaidInv, MaxSections
<1>4. DOMAIN fields' = DOMAIN fields \union NewFields(presence, section)
  <2>1. {<<Letters[k], section>> : k \in read} = NewFields(presence, section)
    BY <1>2 DEF NewFields, There
  <2> QED
    BY <1>2, <2>1, Zenon
<1>5. ASSUME NEW k \in 1 .. 4, Present(presence, k)
      PROVE  fields'[<<Letters[k], section>>] = atr[Place(presence, pos, k) + 1]
  <2>1. k \in read
    BY <1>2, <1>5 DEF There
  <2>2. <<Letters[k], section>> \notin DOMAIN fields
    <3>1. <<Letters[k], section>> \in DOMAIN fields => section <= section - 1
      BY <1>2, <1>3 DEF Laid
    <3> QED
      BY <1>2, <3>1 DEF MaxSections
  <2> QED
    BY <1>2, <2>1, <2>2 DEF At
<1> DEFINE m2 == fields'
<1>6. /\ Laid(atr, m2, section)
      /\ Place(presence, pos, 4) = 1 + Cardinality(Interface(m2))
      /\ \A k \in 1 .. 4 : <<Letters[k], section>> \in DOMAIN m2 <=> Present(presence, k)
  <2>1. /\ DOMAIN m2 = DOMAIN fields \union NewFields(presence, section)
        /\ \A f \in DOMAIN fields : m2[f] = fields[f]
        /\ \A k \in 1 .. 4 : Present(presence, k) =>
             m2[<<Letters[k], section>>] = atr[Place(presence, pos, k) + 1]
    BY <1>2, <1>4, <1>5
  <2>2. section \in 1 .. MaxSections
    BY <1>2
  <2>3. /\ Laid(atr, fields, section - 1)
        /\ By(section) \in DOMAIN fields /\ fields[By(section)] = presence
        /\ pos = 1 + Cardinality(Interface(fields))
    BY <1>3
  <2> HIDE DEF m2
  <2> QED
    BY <2>1, <2>2, <2>3, TurnLaid
<1>7. (/\ TCK \notin DOMAIN fields /\ pos = 1 + Cardinality(Interface(fields))
       /\ TS \in DOMAIN fields /\ fields[TS] = atr[1]
       /\ T0 \in DOMAIN fields /\ fields[T0] = atr[2]
       /\ hbSize = LN(atr[2]) /\ Len(atr) \in 2 .. 33)'
  <2>1. TCK \notin NewFields(presence, section)
    BY Distinct DEF NewFields
  <2>2. TCK \notin DOMAIN fields'
    BY <1>3, <1>4, <2>1
  <2> QED
    BY <1>1, <1>2, <1>3, <1>4, <1>6, <2>2
<1>8. TD(section) = <<Letters[4], section>> /\ (4 \in There <=> Present(presence, 4))
  BY DEF TD, Letters, There
<1>9. CASE 4 \in There /\ presence' = At(pos') /\ section' = section + 1 /\ pc' = "section"
  <2>1. By(section') = TD(section) /\ section' - 1 = section
    BY <1>2, <1>9 DEF By, MaxSections
  <2>2. TD(section) \in DOMAIN fields'
    BY <1>6, <1>8, <1>9
  <2>3. fields'[TD(section)] = presence'
    BY <1>2, <1>5, <1>8, <1>9 DEF At
  <2>4. Laid(atr', fields', section' - 1)
    BY <1>1, <1>6, <2>1
  <2> QED
    BY <1>7, <1>9, <2>1, <2>2, <2>3, <2>4 DEF LaidInv, Decomposed
<1>10. CASE 4 \notin There /\ pc' = "history" /\ UNCHANGED <<section, presence>>
  <2>1. TD(section) \notin DOMAIN fields'
    BY <1>6, <1>8, <1>10
  <2>2. Laid(atr', fields', section')
    BY <1>1, <1>6, <1>10
  <2>3. section' <= MaxSections
    BY <1>2, <1>10 DEF MaxSections
  <2> QED
    BY <1>7, <1>10, <2>1, <2>2, <2>3 DEF LaidInv, Decomposed
<1> QED
  BY <1>2, <1>9, <1>10

(* The historical bytes: the decomposition is complete.                     *)
LEMMA LaidHistory == AtrInv /\ LaidInv /\ History => LaidInv'
<1> SUFFICES ASSUME AtrInv, LaidInv, History, pc' # "refused" PROVE LaidInv'
  BY DEF LaidInv, Decomposed, History, Refuse
<1> DEFINE last == pos + hbSize
           c == Cardinality(Interface(fields))
<1>1. /\ UNCHANGED <<atr, hbSize, section>> /\ pc = "history" /\ pc' = "loaded"
      /\ hb' = SubSeq(atr, pos + 2, last + 1) /\ Here(last)
      /\ fields' = IF HasTck(last, Len(atr))
                   THEN [f \in DOMAIN fields \union {TCK} |->
                           IF f = TCK THEN At(last + 1) ELSE fields[f]]
                   ELSE fields
  BY DEF History, Refuse
<1>2. /\ atr \in Seq(Byte) /\ Len(atr) \in 2 .. 33 /\ pos \in 1 .. 29 /\ hbSize \in 0 .. 15
      /\ section \in 1 .. MaxSections
  BY <1>1 DEF AtrInv, TypeOK, Counting, LaidInv, MaxSections
<1>3. /\ Laid(atr, fields, section) /\ TD(section) \notin DOMAIN fields
      /\ TCK \notin DOMAIN fields /\ pos = 1 + c
      /\ TS \in DOMAIN fields /\ fields[TS] = atr[1]
      /\ T0 \in DOMAIN fields /\ fields[T0] = atr[2]
      /\ hbSize = LN(atr[2])
  BY <1>1 DEF LaidInv
<1>4. HasTck(last, Len(atr)) <=> last = Len(atr) - 2
  <2>1. Len(atr) - 2 \in 0 .. 255
    BY <1>2
  <2> QED
    BY <2>1, NoWrap DEF HasTck
<1>5. /\ \A f \in DOMAIN fields : f \in DOMAIN fields' /\ fields'[f] = fields[f]
      /\ \A f \in DOMAIN fields' : f \in DOMAIN fields \/ f = TCK
      /\ TCK \in DOMAIN fields' <=> last = Len(atr) - 2
      /\ TCK \in DOMAIN fields' => fields'[TCK] = atr[last + 2]
  <2>1. CASE HasTck(last, Len(atr))
    <3>1. fields'[TCK] = At(last + 1) /\ TCK \in DOMAIN fields'
      BY <1>1, <2>1
    <3>2. (last + 1) + 1 = last + 2
      BY <1>2
    <3>3. fields'[TCK] = atr[last + 2]
      BY <3>1, <3>2 DEF At
    <3>4. /\ \A f \in DOMAIN fields : f \in DOMAIN fields' /\ fields'[f] = fields[f]
          /\ \A f \in DOMAIN fields' : f \in DOMAIN fields \/ f = TCK
      BY <1>1, <1>3, <2>1
    <3> QED
      BY <1>4, <2>1, <3>1, <3>3, <3>4
  <2>2. CASE ~HasTck(last, Len(atr))
    BY <1>1, <1>3, <1>4, <2>2
  <2> QED
    BY <2>1, <2>2
<1>6. Interface(fields') = Interface(fields)
  BY <1>5 DEF Interface
<1>7. c \in Nat
  <2>1. Interface(fields) \in SUBSET DOMAIN fields /\ IsFiniteSet(DOMAIN fields)
    BY <1>3 DEF Interface, Laid
  <2> QED
    BY <2>1, FS_Subset, FS_CardinalityType
<1>8. \A k \in 1 .. 4, i \in 1 .. MaxSections : Before(k, i)' = Earlier(fields, k, i)
  <2> SUFFICES ASSUME NEW k \in 1 .. 4, NEW i \in 1 .. MaxSections
               PROVE  Before(k, i)' = Earlier(fields, k, i)
    OBVIOUS
  <2>1. TCK[1] = "TCK"
    BY DEF TCK
  <2>2. \A n \in 1 .. 4 : TCK[1] # Letters[n]
    BY <2>1, Distinct
  <2> QED
    BY <1>5, <2>2 DEF Before, Earlier
<1> DEFINE By2(i) == IF i = 1 THEN T0 ELSE <<"TD", i - 1>>
           Ann(k, i) == By2(i) \in DOMAIN fields' /\ CHECK_BIT(fields'[By2(i)], k + 3)
<1>9. \A k \in 1 .. 4, i \in 1 .. MaxSections : Ann(k, i) <=> Says(fields, k, i)
  <2> SUFFICES ASSUME NEW k \in 1 .. 4, NEW i \in 1 .. MaxSections
               PROVE  Ann(k, i) <=> Says(fields, k, i)
    OBVIOUS
  <2>1. By2(i) = By(i)
    BY DEF By, TD
  <2>2. By(i) # TCK
    BY DEF By, TD, T0, TCK
  <2>3. By(i) \in DOMAIN fields' <=> By(i) \in DOMAIN fields
    BY <1>5, <2>2
  <2> QED
    BY <1>5, <2>1, <2>3 DEF Says
<1>10. \A k \in 1 .. 4, i \in 1 .. MaxSections :
         /\ <<Letters[k], i>> \in Interface(fields') <=> Ann(k, i)
         /\ Ann(k, i) => fields'[<<Letters[k], i>>] = atr[3 + Cardinality(Before(k, i)')]
  <2> SUFFICES ASSUME NEW k \in 1 .. 4, NEW i \in 1 .. MaxSections
               PROVE  /\ <<Letters[k], i>> \in Interface(fields') <=> Ann(k, i)
                      /\ Ann(k, i) => fields'[<<Letters[k], i>>] = atr[3 + Cardinality(Before(k, i)')]
    OBVIOUS
  <2> DEFINE g == <<Letters[k], i>>
  <2>1. /\ g \in DOMAIN fields <=> i <= section /\ Says(fields, k, i)
        /\ g \in DOMAIN fields => fields[g] = atr[3 + Cardinality(Earlier(fields, k, i))]
    BY <1>3 DEF Laid
  <2>2. Says(fields, k, i) => i <= section
    <3> SUFFICES ASSUME Says(fields, k, i), ~(i <= section) PROVE FALSE
      OBVIOUS
    <3>1. By(i) = TD(i - 1) /\ i - 1 \in 1 .. MaxSections /\ i - 1 >= section
      BY <1>2 DEF By, MaxSections
    <3>2. TD(i - 1) \in DOMAIN fields
      BY <3>1 DEF Says
    <3>3. TD(i - 1) = <<Letters[4], i - 1>>
      BY DEF TD, Letters
    <3>4. i - 1 <= section
      BY <1>3, <3>1, <3>2, <3>3 DEF Laid
    <3>5. i - 1 = section
      BY <1>2, <3>1, <3>4 DEF MaxSections
    <3> QED
      BY <1>3, <3>2, <3>5
  <2>3. g \in Interface(fields') <=> g \in DOMAIN fields
    <3>1. g \notin {TS, T0, TCK}
      BY Distinct
    <3> QED
      BY <1>6, <3>1 DEF Interface
  <2> HIDE DEF g
  <2>4. Ann(k, i) <=> Says(fields, k, i)
    BY <1>9
  <2> HIDE DEF Ann
  <2>5. g \in DOMAIN fields <=> Ann(k, i)
    BY <2>1, <2>2, <2>4
  <2>6. g \in DOMAIN fields => fields'[g] = atr[3 + Cardinality(Before(k, i)')]
    BY <1>5, <1>8, <2>1
  <2> QED
    BY <2>3, <2>5, <2>6 DEF g
<1> DEFINE inter == DOMAIN fields' \ {TS, T0, TCK}
           end == 2 + Cardinality(inter) + LN(atr[2])
<1>11. inter = Interface(fields') /\ Cardinality(inter) = c
  <2>1. inter = Interface(fields')
    BY DEF Interface
  <2> QED
    BY <1>6, <2>1, Zenon
<1>12. end = last + 1 /\ end - LN(atr[2]) + 1 = pos + 2 /\ last + 2 = end + 1
  <2>1. /\ pos \in Nat /\ hbSize \in Nat /\ c \in Nat
        /\ pos = 1 + c /\ hbSize = LN(atr[2]) /\ Cardinality(inter) = c
    <3>1. pos \in Nat /\ hbSize \in Nat
      BY <1>2
    <3>2. c \in Nat
      BY <1>7
    <3>3. pos = 1 + c /\ hbSize = LN(atr[2])
      BY <1>3, <1>7
    <3> QED
      BY <1>11, <3>1, <3>2, <3>3
  <2> HIDE DEF inter, c
  <2> QED
    BY <2>1
<1>13. /\ fields'[TS] = atr[1] /\ fields'[T0] = atr[2]
       /\ \A k \in 1 .. 4, i \in 1 .. MaxSections :
            /\ (<<Letters[k], i>> \in inter) = Ann(k, i)
            /\ Ann(k, i) => fields'[<<Letters[k], i>>] = atr[3 + Cardinality(Before(k, i)')]
  <2>1. \A k \in 1 .. 4, i \in 1 .. MaxSections : Ann(k, i) \in BOOLEAN
    OBVIOUS
  <2> HIDE DEF Ann, inter
  <2> QED
    BY <1>3, <1>5, <1>10, <1>11, <2>1
<1>14. hb' = SubSeq(atr, end - LN(atr[2]) + 1, end)
  <2> HIDE DEF end, last
  <2> QED
    BY <1>1, <1>12
<1>15. /\ (TCK \in DOMAIN fields') = (Len(atr) = end + 1)
       /\ TCK \in DOMAIN fields' => fields'[TCK] = atr[Len(atr)]
  <2>1. end \in Int /\ last + 2 = end + 1 /\ last \in Int
    <3> HIDE DEF end
    <3> QED
      BY <1>2, <1>12
  <2> HIDE DEF end, last
  <2> QED
    BY <1>2, <1>5, <2>1
<1>16. Decomposed'
  <2> HIDE DEF last, c
  <2> QED
    BY <1>1, <1>13, <1>14, <1>15 DEF Decomposed
<1>17. (/\ TS \in DOMAIN fields /\ fields[TS] = atr[1]
        /\ T0 \in DOMAIN fields /\ fields[T0] = atr[2]
        /\ hbSize = LN(atr[2]) /\ Len(atr) \in 2 .. 33)'
  BY <1>1, <1>2, <1>3, <1>5
<1> QED
  BY <1>1, <1>16, <1>17 DEF LaidInv

LEMMA LaidKept ==
  ASSUME LaidInv, UNCHANGED <<atr, fields, hbSize, hb>>, pc = "loaded", pc' \in {"loaded", "aborted"}
  PROVE  LaidInv'
<1>1. Decomposed'
  <2>1. \A k, i : Before(k, i)' = Before(k, i)
    BY DEF Before
  <2> QED
    BY <2>1 DEF LaidInv, Decomposed
<1> QED
  BY <1>1 DEF LaidInv

LEMMA LaidStep == CardInv /\ Chained /\ LaidInv /\ [Next]_vars => LaidInv'
<1> SUFFICES ASSUME CardInv, Chained, LaidInv, [Next]_vars PROVE LaidInv'
  OBVIOUS
<1> USE DEF CardInv
<1>1. CASE UNCHANGED vars
  <2>1. UNCHANGED <<atr, fields, hbSize, hb, pos, section, presence, pc>>
    BY <1>1 DEF vars, loading
  <2>2. \A k, i : Before(k, i)' = Before(k, i)
    BY <2>1 DEF Before
  <2>3. Decomposed'
    BY <2>1, <2>2 DEF LaidInv, Decomposed
  <2> QED
    BY <2>1, <2>3 DEF LaidInv
<1>2. ASSUME NEW a \in Atrs, Load(a) PROVE LaidInv'
  BY <1>2, LaidLoad
<1>3. CASE Section
  BY <1>3, LaidSection
<1>4. CASE History
  BY <1>4, LaidHistory
<1>5. ASSUME NEW f \in Features, checkFeature(f) PROVE LaidInv'
  <2>1. UNCHANGED <<atr, hbSize, hb>> /\ pc = "loaded" /\ pc' \in {"loaded", "aborted"}
    BY <1>5 DEF checkFeature
  <2>2. UNCHANGED fields
    BY <1>5, AskAnswers
  <2> QED
    BY <2>1, <2>2, LaidKept
<1>6. CASE str
  <2>1. /\ pc = "loaded" /\ pc' \in {"loaded", "aborted"} /\ fields' = Looked(fields)
        /\ UNCHANGED <<atr, hbSize, hb>>
    BY <1>6 DEF str
  <2>2. UNCHANGED fields
    BY <2>1, Lookups
  <2> QED
    BY <2>1, <2>2, LaidKept
<1>7. CASE New
  BY <1>7 DEF New, LaidInv, Decomposed
<1> QED
  BY <1>1, <1>2, <1>3, <1>4, <1>5, <1>6, <1>7 DEF Next

LEMMA ChainStep == AtrInv /\ Chained /\ [Next]_vars => Chained'
<1> SUFFICES ASSUME AtrInv, Chained, [Next]_vars PROVE Chained'
  OBVIOUS
<1>1. ASSUME UNCHANGED <<atr, hbSize, pos, section, presence, pc>> PROVE Chained'
  BY <1>1 DEF Chained, Verdict
<1>2. ASSUME UNCHANGED atr, pc = "loaded", pc' \in {"loaded", "aborted"} PROVE Chained'
  BY <1>2 DEF Chained, Verdict
<1>3. CASE UNCHANGED vars
  BY <1>1, <1>3 DEF vars, loading
<1>4. ASSUME NEW a \in Atrs, Load(a) PROVE Chained'
  BY <1>4, ChainLoad
<1>5. CASE Section
  BY <1>5, ChainSection
<1>6. CASE History
  BY <1>6, ChainHistory
<1>7. ASSUME NEW f \in Features, checkFeature(f) PROVE Chained'
  BY <1>2, <1>7 DEF checkFeature
<1>8. CASE str
  BY <1>2, <1>8 DEF str
<1>9. CASE New
  BY <1>9 DEF New, Chained, Verdict
<1> QED
  BY <1>3, <1>4, <1>5, <1>6, <1>7, <1>8, <1>9 DEF Next

LEMMA LoadAlways == Spec => [](CardInv /\ Chained /\ LaidInv)
<1>1. CardInv => AtrInv
  BY DEF CardInv
<1> QED
  BY <1>1, CardInit, ChainInit, LaidInit, CardStep, ChainStep, LaidStep, PTL DEF Spec

-----------------------------------------------------------------------------
(* The theorems.                                                            *)

LEMMA AtrAlways == Spec => []CardInv
BY CardInit, CardStep, PTL DEF Spec

(* Whatever an ATR says, ATRParser keeps within its bounds: the sections it *)
(* has names for, the bytes the ATR has.                                    *)
THEOREM AtrTypes == Spec => []TypeOK
<1>1. CardInv => TypeOK
  BY DEF CardInv, AtrInv
<1> QED
  BY <1>1, AtrAlways, PTL

(* Asking for a feature, or printing an ATR, changes nothing of what was    *)
(* found, though it looks fields up with an operator that inserts them.     *)
THEOREM QuestionsRead == Spec => AskingIsReading
<1>1. CardInv /\ [Next]_vars => [pc = "loaded" /\ pc' # "new" => fields' = fields]_vars
  <2> SUFFICES ASSUME CardInv, [Next]_vars, pc = "loaded", pc' # "new"
               PROVE  UNCHANGED vars \/ fields' = fields
    OBVIOUS
  <2>1. ASSUME NEW f \in Features, checkFeature(f) PROVE fields' = fields
    BY <2>1, AskAnswers DEF CardInv
  <2>2. CASE str
    BY <2>2, Lookups DEF str, CardInv
  <2>3. ~(\E a \in Atrs : Load(a)) /\ ~Section /\ ~History /\ ~New
    BY DEF Load, Section, History, New
  <2> QED
    BY <2>1, <2>2, <2>3 DEF Next
<1> QED
  BY <1>1, AtrAlways, PTL DEF Spec, AskingIsReading

(* Every answer is the one the bytes of this ATR give, whatever was asked   *)
(* before and whatever ATR came before.                                     *)
THEOREM AnswersRight == Spec => []AnswerOfCard
<1>1. CardInv => AnswerOfCard
  <2> SUFFICES ASSUME CardInv, answer # NoAnswer
               PROVE  answer.is <=> Is(answer.feature)
    BY DEF AnswerOfCard
  <2>1. /\ features # {} /\ answer.feature \in Features
        /\ answer.is <=> answer.feature \in features
        /\ answer.feature \in features <=> Is(answer.feature)
    BY DEF CardInv, Answers
  <2> QED
    BY <2>1
<1> QED
  BY <1>1, AtrAlways, PTL

(* load accepts the ATRs that are acceptable and no others, although its    *)
(* length check subtracts unsigned numbers.                                 *)
THEOREM AcceptsRight == Spec => []Verdict
<1>1. Chained => Verdict
  BY DEF Chained
<1> QED
  BY <1>1, LoadAlways, PTL

(* What load found is the decomposition of the ATR by ISO 7816-3.           *)
THEOREM DecomposedRight == Spec => []Decomposed
<1>1. LaidInv => Decomposed
  BY DEF LaidInv
<1> QED
  BY <1>1, LoadAlways, PTL
=============================================================================
