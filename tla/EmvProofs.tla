------------------------------- MODULE EmvProofs -------------------------------
(* Theorems about Emv, for any applications, directories and file locators: *)
(* the commands for an application reach it, and what is shown is all of    *)
(* what one application lists, of that application.                         *)
EXTENDS Emv, SequenceLemmas

(* What a file locator lists, for an application. *)
Listed(a, l) ==
  {x \in Aids \X Byte \X Byte :
     \E k \in 1 .. Len(l) : \E j \in l[k].first .. l[k].last : x = <<a, l[k].sfi, j>>}

(* The rest of the entry being read. *)
RestOfEntry(a, e, r) == {<<a, e.sfi, j>> : j \in r .. e.last}

(* While records are read, those read and those to come are all of them, if *)
(* the AFL ends with an entry; if not, the reading never comes to its end.  *)
All == Listed(selected, files[selected].entries)
Complete ==
  /\ pc = "rec" =>
       /\ afl # << >>
       /\ record \in Head(afl).first .. Head(afl).last
       /\ files[selected].spare = 0 =>
            values \union RestOfEntry(selected, Head(afl), record) \union Listed(selected, Tail(afl)) = All
  /\ pc = "shown" => files[selected].spare = 0 /\ values = All

EmvInv ==
  /\ TypeOK
  /\ dir \in Directories \union {NoPse}
  /\ files \in [Aids -> Lists]
  /\ pc = "psd" => dir # NoPse /\ record \in 1 .. MAX_RECORDS
  /\ pc \in {"gpo", "rec", "shown"} => n <= Len(apps) /\ selected = apps[n]
  /\ Complete

-----------------------------------------------------------------------------
(* The first entry with a record.                                           *)

LEMMA SkipKeeps ==
  ASSUME NEW l \in Seq(Entry), NEW a \in Aids
  PROVE  /\ Skip(l) \in Seq(Entry)
         /\ Skip(l) = << >> => Listed(a, l) = {}
         /\ Skip(l) # << >> => Head(Skip(l)).first <= Head(Skip(l)).last
         /\ Listed(a, Skip(l)) = Listed(a, l)
<1> DEFINE some == {k \in 1 .. Len(l) : l[k].first <= l[k].last}
<1>1. \A k \in 1 .. Len(l) : l[k] \in Entry
  BY ElementOfSeq
<1>2. CASE some = {}
  <2>1. Skip(l) = << >>
    BY <1>2 DEF Skip
  <2>2. \A k \in 1 .. Len(l) : \A j \in l[k].first .. l[k].last : FALSE
    <3> SUFFICES ASSUME NEW k \in 1 .. Len(l), NEW j \in l[k].first .. l[k].last PROVE FALSE
      OBVIOUS
    <3>1. ~(l[k].first <= l[k].last)
      BY <1>2
    <3>2. l[k].first \in Nat /\ l[k].last \in Nat
      BY <1>1, ByteAssumption DEF Entry, Byte
    <3> QED
      BY <3>1, <3>2
  <2>3. Listed(a, l) = {}
    BY <2>2 DEF Listed
  <2>4. Listed(a, << >>) = {}
    <3>1. \A k \in 1 .. Len(<< >>) : FALSE
      OBVIOUS
    <3> QED
      BY <3>1 DEF Listed
  <2> QED
    BY <2>1, <2>3, <2>4
<1>3. CASE some # {}
  <2> DEFINE m == Min(some)
  <2>1. m \in some /\ \A k \in some : m <= k
    <3>1. some \in SUBSET Nat
      OBVIOUS
    <3> QED
      BY <1>3, <3>1, MinIs
  <2>2. Skip(l) = SubSeq(l, m, Len(l))
    BY <1>3 DEF Skip
  <2> HIDE DEF m
  <2>3. m \in 1 .. Len(l) /\ Len(l) \in Nat
    BY <2>1
  <2>4. /\ Skip(l) \in Seq(Entry) /\ Len(Skip(l)) = Len(l) - m + 1
        /\ \A k \in 1 .. Len(l) - m + 1 : Skip(l)[k] = l[m + k - 1]
    BY <2>2, <2>3, SubSeqProperties
  <2>5. Head(Skip(l)) = l[m]
    BY <2>3, <2>4
  <2>6. \A x : x \in Listed(a, l) => x \in Listed(a, Skip(l))
    <3> SUFFICES ASSUME NEW x \in Listed(a, l) PROVE x \in Listed(a, Skip(l))
      OBVIOUS
    <3>1. PICK k \in 1 .. Len(l) : \E j \in l[k].first .. l[k].last : x = <<a, l[k].sfi, j>>
      BY DEF Listed
    <3>2. l[k].first <= l[k].last
      BY <3>1, <1>1 DEF Entry, Byte
    <3>3. m <= k
      BY <2>1, <3>2
    <3>4. k - m + 1 \in 1 .. Len(Skip(l)) /\ Skip(l)[k - m + 1] = l[k]
      BY <2>3, <2>4, <3>3
    <3> QED
      BY <3>1, <3>4 DEF Listed
  <2>7. \A x : x \in Listed(a, Skip(l)) => x \in Listed(a, l)
    <3> SUFFICES ASSUME NEW x \in Listed(a, Skip(l)) PROVE x \in Listed(a, l)
      OBVIOUS
    <3>1. PICK k \in 1 .. Len(Skip(l)) :
            \E j \in Skip(l)[k].first .. Skip(l)[k].last : x = <<a, Skip(l)[k].sfi, j>>
      BY DEF Listed
    <3>2. m + k - 1 \in 1 .. Len(l) /\ Skip(l)[k] = l[m + k - 1]
      BY <2>3, <2>4
    <3> QED
      BY <3>1, <3>2 DEF Listed
  <2>8. Skip(l) # << >>
    BY <2>3, <2>4
  <2> QED
    BY <2>1, <2>4, <2>5, <2>6, <2>7, <2>8
<1> QED
  BY <1>2, <1>3

(* A list is its first entry and the rest. *)
LEMMA FirstAndRest ==
  ASSUME NEW l \in Seq(Entry), l # << >>, NEW a \in Aids
  PROVE  /\ Head(l) \in Entry /\ Tail(l) \in Seq(Entry)
         /\ Listed(a, l) = RestOfEntry(a, Head(l), Head(l).first) \union Listed(a, Tail(l))
<1>1. /\ Head(l) \in Entry /\ Tail(l) \in Seq(Entry) /\ Len(Tail(l)) = Len(l) - 1
      /\ Head(l) = l[1] /\ Len(l) \in Nat \ {0}
      /\ \A k \in 1 .. Len(l) - 1 : Tail(l)[k] = l[k + 1]
  BY HeadTailProperties, ElementOfSeq
<1>2. \A k \in 1 .. Len(l) : l[k] \in Entry
  BY ElementOfSeq
<1>3. RestOfEntry(a, Head(l), Head(l).first) \subseteq Listed(a, l)
  <2> SUFFICES ASSUME NEW j \in l[1].first .. l[1].last PROVE <<a, l[1].sfi, j>> \in Listed(a, l)
    BY <1>1 DEF RestOfEntry
  <2>1. 1 \in 1 .. Len(l) /\ l[1] \in Entry
    BY <1>1, <1>2
  <2>2. l[1].sfi \in Byte /\ j \in Byte
    BY <2>1, ByteAssumption DEF Entry, Byte
  <2>3. \E k \in 1 .. Len(l) : \E i \in l[k].first .. l[k].last :
          <<a, l[1].sfi, j>> = <<a, l[k].sfi, i>>
    BY <2>1
  <2> QED
    BY <2>2, <2>3 DEF Listed
<1>4. Listed(a, Tail(l)) \subseteq Listed(a, l)
  <2> SUFFICES ASSUME NEW x \in Listed(a, Tail(l)) PROVE x \in Listed(a, l)
    OBVIOUS
  <2>1. PICK k \in 1 .. Len(Tail(l)) :
          \E j \in Tail(l)[k].first .. Tail(l)[k].last : x = <<a, Tail(l)[k].sfi, j>>
    BY DEF Listed
  <2>2. k + 1 \in 1 .. Len(l) /\ Tail(l)[k] = l[k + 1]
    BY <1>1
  <2> QED
    BY <2>1, <2>2 DEF Listed
<1>5. Listed(a, l) \subseteq RestOfEntry(a, Head(l), Head(l).first) \union Listed(a, Tail(l))
  <2> SUFFICES ASSUME NEW x \in Listed(a, l),
                      x \notin RestOfEntry(a, Head(l), Head(l).first)
               PROVE  x \in Listed(a, Tail(l))
    OBVIOUS
  <2>1. PICK k \in 1 .. Len(l) : \E j \in l[k].first .. l[k].last : x = <<a, l[k].sfi, j>>
    BY DEF Listed
  <2>2. k # 1
    BY <1>1, <2>1 DEF RestOfEntry
  <2>3. k - 1 \in 1 .. Len(Tail(l)) /\ Tail(l)[k - 1] = l[k]
    BY <1>1, <2>2
  <2> QED
    BY <2>1, <2>3 DEF Listed
<1> QED
  BY <1>1, <1>3, <1>4, <1>5

(* What the property calls the records of an application. *)
LEMMA AllListed ==
  ASSUME NEW a \in Aids, files[a].entries \in Seq(Entry)
  PROVE  RecordsOf(a) = Listed(a, files[a].entries)
<1> DEFINE l == files[a].entries
           OfEntry(e) == {<<a, e.sfi, j>> : j \in e.first .. e.last}
<1>1. \A k \in 1 .. Len(l) : l[k] \in Entry
  BY ElementOfSeq
<1>2. RecordsOf(a) = UNION {OfEntry(e) : e \in {l[k] : k \in 1 .. Len(l)}}
  BY RangeEquality DEF RecordsOf
<1>3. ASSUME NEW x \in RecordsOf(a) PROVE x \in Listed(a, l)
  <2>1. PICK k \in 1 .. Len(l) : x \in OfEntry(l[k])
    BY <1>2, <1>3
  <2>2. PICK j \in l[k].first .. l[k].last : x = <<a, l[k].sfi, j>>
    BY <2>1
  <2>3. l[k].sfi \in Byte /\ l[k].first \in Byte /\ l[k].last \in Byte
    BY <1>1 DEF Entry
  <2>4. j \in Byte
    BY <2>2, <2>3, ByteAssumption DEF Byte
  <2> QED
    BY <2>2, <2>3, <2>4 DEF Listed
<1>4. ASSUME NEW x \in Listed(a, l) PROVE x \in RecordsOf(a)
  <2>1. PICK k \in 1 .. Len(l) : \E j \in l[k].first .. l[k].last : x = <<a, l[k].sfi, j>>
    BY <1>4 DEF Listed
  <2>2. x \in OfEntry(l[k])
    BY <2>1
  <2> QED
    BY <1>2, <2>2
<1> QED
  BY <1>3, <1>4

-----------------------------------------------------------------------------
(* The steps.                                                               *)

LEMMA EmvInit == Init => EmvInv
<1> SUFFICES ASSUME Init PROVE EmvInv
  OBVIOUS
<1>1. files \in [Aids -> Lists]
  BY ListAssumption DEF Init
<1>2. apps \in Seq(Aids) /\ Len(apps) = 0 /\ afl \in Seq(Entry)
  BY EmptySeq DEF Init
<1>3. n \in 1 .. Len(apps) + 1 /\ record \in 0 .. BYTE /\ taken \in 0 .. MAX_RECORDS
  BY <1>2, ByteAssumption DEF Init
<1>4. TypeOK
  BY <1>2, <1>3 DEF Init, TypeOK
<1> QED
  BY <1>1, <1>4 DEF Init, EmvInv, Complete

(* Where nothing is being read the values do not matter. *)
LEMMA NotReading ==
  ASSUME EmvInv, UNCHANGED cardVars, TypeOK', pc' \in {"select", "lost", "gpo", "nothing", "failed"},
         pc' = "gpo" => n' <= Len(apps') /\ selected' = apps'[n']
  PROVE  EmvInv'
BY DEF EmvInv, cardVars, Complete, All

(* The start of the reading, of a list or of what is left of it. *)
LEMMA StartReads ==
  ASSUME EmvInv, UNCHANGED <<cardVars, selected, taken, apps, n>>, pc \in {"gpo", "rec"},
         NEW l \in Seq(Entry), StartEntry(l), values' \subseteq Aids \X Byte \X Byte,
         files[selected].spare = 0 => values' \union Listed(selected, l) = All
  PROVE  EmvInv'
<1>1. n <= Len(apps) /\ selected = apps[n] /\ selected \in Aids
  BY ElementOfSeq DEF EmvInv, TypeOK
<1>2. PICK left : left = Skip(l)
  OBVIOUS
<1>3. /\ left \in Seq(Entry)
      /\ left = << >> => Listed(selected, l) = {}
      /\ left # << >> => Head(left).first <= Head(left).last
      /\ Listed(selected, left) = Listed(selected, l)
  BY <1>1, <1>2, SkipKeeps
<1>4. /\ All' = All /\ files'[selected'].spare = files[selected].spare
      /\ UNCHANGED <<cardVars, selected, taken, apps, n>>
  BY DEF All, cardVars
<1>5. ASSUME NEW m \in Seq(Entry), ReadFrom(m), m # << >>, Head(m).first <= Head(m).last,
             files[selected].spare = 0 => Listed(selected, m) = Listed(selected, l)
      PROVE  EmvInv'
  <2>1. afl' = m /\ pc' = "rec" /\ record' = Head(m).first /\ again' = FALSE
    BY <1>5 DEF ReadFrom
  <2>2. Head(m) \in Entry /\ Listed(selected, m)
          = RestOfEntry(selected, Head(m), record') \union Listed(selected, Tail(m))
    BY <1>1, <1>5, <2>1, FirstAndRest
  <2>3. record' \in 0 .. BYTE /\ record' \in Head(m).first .. Head(m).last
    BY <1>5, <2>1, <2>2, ByteAssumption DEF Entry, Byte
  <2>4. TypeOK'
    BY <1>1, <1>4, <1>5, <2>1, <2>3 DEF EmvInv, TypeOK
  <2>5. files[selected].spare = 0 =>
          values' \union RestOfEntry(selected, Head(m), record') \union Listed(selected, Tail(m)) = All
    BY <1>5, <2>2
  <2>6. Complete'
    BY <1>4, <1>5, <2>1, <2>3, <2>5 DEF Complete
  <2> QED
    BY <1>1, <1>4, <2>1, <2>4, <2>6 DEF EmvInv, cardVars
<1>6. CASE left # << >> /\ ReadFrom(left)
  BY <1>3, <1>5, <1>6
<1>7. CASE /\ left = << >> /\ files[selected].spare = 0
           /\ afl' = << >> /\ pc' = "shown" /\ again' = FALSE /\ UNCHANGED record
  <2>1. values' = All /\ afl' \in Seq(Entry)
    BY <1>3, <1>7
  <2>2. TypeOK'
    BY <1>4, <1>7, <2>1 DEF EmvInv, TypeOK
  <2>3. Complete'
    BY <1>4, <1>7, <2>1 DEF Complete
  <2> QED
    BY <1>1, <1>4, <1>7, <2>2, <2>3 DEF EmvInv, cardVars
<1>8. CASE /\ files[selected].spare # 0
           /\ \E e \in Behind : e.first <= e.last /\ ReadFrom(<<e>>)
  <2>1. PICK e \in Behind : e.first <= e.last /\ ReadFrom(<<e>>)
    BY <1>8
  <2>2. e \in Entry
    BY ListAssumption
  <2>3. <<e>> \in Seq(Entry) /\ <<e>> # << >> /\ Head(<<e>>) = e
    BY <2>2
  <2>4. Head(<<e>>).first <= Head(<<e>>).last
    BY <2>1, <2>3
  <2> QED
    BY <1>5, <1>8, <2>1, <2>3, <2>4
<1> QED
  BY <1>2, <1>6, <1>7, <1>8, Zenon DEF StartEntry

(* main and the directory. *)
LEMMA TryTypes ==
  ASSUME EmvInv, NEW found \in Seq(Aids), Try(found)
  PROVE  apps' \in Seq(Aids) /\ n' = 1 /\ n' \in 1 .. Len(apps') + 1
         /\ pc' = "select" /\ again' = FALSE
<1>1. apps' \in Seq(Aids)
  BY AidAssumption DEF Try
<1>2. Len(apps') \in Nat
  BY <1>1, LenProperties
<1> QED
  BY <1>1, <1>2 DEF Try

LEMMA SelectPseStep == EmvInv /\ SelectPse => EmvInv'
<1> SUFFICES ASSUME EmvInv, SelectPse PROVE EmvInv'
  OBVIOUS
<1>1. UNCHANGED <<onCard, dir, files, taken, afl, values>>
  BY DEF SelectPse, cardVars
<1>2. CASE /\ dir # NoPse /\ selected' = NoPse /\ pc' = "psd" /\ record' = 1
           /\ UNCHANGED <<apps, n, again>>
  BY <1>1, <1>2, ByteAssumption DEF EmvInv, TypeOK, Complete
<1>3. CASE selected' \in {selected, NoPse} /\ Try(<< >>) /\ UNCHANGED record
  <2>1. TypeOK' /\ pc' = "select"
    BY <1>1, <1>3, TryTypes, EmptySeq DEF EmvInv, TypeOK
  <2> QED
    BY <1>1, <2>1, NotReading DEF cardVars
<1> QED
  BY <1>2, <1>3 DEF SelectPse

LEMMA DirectoryStep == EmvInv /\ ReadDirectory => EmvInv'
<1> SUFFICES ASSUME EmvInv, ReadDirectory PROVE EmvInv'
  OBVIOUS
<1>0. /\ UNCHANGED <<onCard, dir, files, selected, afl, values>> /\ pc = "psd"
      /\ apps \in Seq(Aids)
  BY DEF ReadDirectory, cardVars, EmvInv, TypeOK
<1>1. ASSUME NEW found \in Seq(Aids), Try(found), record' = record, taken' \in 0 .. MAX_RECORDS PROVE EmvInv'
  <2>1. TypeOK' /\ pc' = "select"
    BY <1>0, <1>1, TryTypes DEF EmvInv, TypeOK
  <2> QED
    BY <1>0, <2>1, NotReading DEF cardVars
<1>2. CASE Repeat /\ UNCHANGED <<pc, taken, apps, n, record>>
  BY <1>0, <1>2 DEF EmvInv, TypeOK, Complete, Repeat
<1>3. CASE record <= Len(dir) /\ TakeRecord(dir[record])
  <2> DEFINE r == dir[record]
  <2>1. r \in {BadRecord} \union Seq(Aids)
    <3>1. dir \in Seq({BadRecord} \union Seq(Aids)) /\ record \in 1 .. MAX_RECORDS
      BY <1>0, DirectoryAssumption DEF EmvInv
    <3>2. record \in 1 .. Len(dir)
      BY <1>3, <3>1, LenProperties, ByteAssumption
    <3> QED
      BY <3>1, <3>2, ElementOfSeq
  <2>0. taken' \in 0 .. MAX_RECORDS
    <3>1. taken' = taken \/ taken' = record
      BY <1>3 DEF TakeRecord
    <3> QED
      BY <1>0, <3>1, ByteAssumption DEF EmvInv, TypeOK
  <2>2. r # BadRecord => Added(apps, r) \in Seq(Aids) /\ Len(Added(apps, r)) >= Len(apps)
    BY <1>0, <2>1, ConcatProperties, LenProperties DEF Added
  <2>3. CASE r # BadRecord /\ record < MAX_RECORDS
    <3>1. /\ apps' = Added(apps, r) /\ record' = record + 1 /\ again' = FALSE
          /\ UNCHANGED <<pc, n>>
      BY <1>3, <2>3 DEF TakeRecord
    <3>2. record' \in 1 .. MAX_RECORDS /\ record' \in 0 .. BYTE
      <4>1. record \in 1 .. MAX_RECORDS
        BY <1>0 DEF EmvInv
      <4> QED
        BY <2>3, <3>1, <4>1, ByteAssumption
    <3>3. n' \in 1 .. Len(apps') + 1
      <4>1. n \in 1 .. Len(apps) + 1 /\ Len(apps) \in Nat /\ Len(apps') \in Nat
            /\ Len(apps') >= Len(apps)
        BY <1>0, <2>2, <2>3, <3>1, LenProperties DEF EmvInv, TypeOK
      <4> QED
        BY <3>1, <4>1
    <3> QED
      BY <1>0, <2>0, <2>2, <2>3, <3>1, <3>2, <3>3 DEF EmvInv, TypeOK, Complete
  <2>4. CASE ~(r # BadRecord /\ record < MAX_RECORDS)
    <3>1. Try(IF r = BadRecord THEN apps ELSE Added(apps, r)) /\ record' = record
      BY <1>3, <2>4 DEF TakeRecord
    <3> QED
      BY <1>0, <1>1, <2>0, <2>2, <3>1
  <2> QED
    BY <2>3, <2>4
<1>4. CASE Try(apps) /\ UNCHANGED <<taken, record>>
  BY <1>0, <1>1, <1>4 DEF EmvInv, TypeOK
<1> QED
  BY <1>2, <1>3, <1>4 DEF ReadDirectory

LEMMA SelectStep == EmvInv /\ (Select \/ NoMoreApps \/ Abort) => EmvInv'
<1>1. ASSUME EmvInv, Select PROVE EmvInv'
  <2>0. /\ UNCHANGED <<onCard, dir, files, taken, apps, record, afl, values>> /\ n <= Len(apps)
        /\ apps \in Seq(Aids) /\ n \in 1 .. Len(apps) + 1 /\ Len(apps) \in Nat
    BY <1>1, LenProperties DEF Select, cardVars, EmvInv, TypeOK
  <2>1. CASE selected' = apps[n] /\ pc' \in {"lost", "gpo"} /\ UNCHANGED <<n, again>>
    <3>1. apps[n] \in Aids
      BY <2>0, ElementOfSeq
    <3> QED
      BY <1>1, <2>0, <2>1, <3>1 DEF EmvInv, TypeOK, Complete
  <2>2. CASE selected' \in {selected, NoApp} \union (onCard \intersect {apps[n]}) /\ NextApp
    <3>1. n' \in 1 .. Len(apps) + 1 /\ pc' = "select" /\ again' = FALSE
      BY <2>0, <2>2 DEF NextApp
    <3>2. selected' \in Aids \union {NoApp, NoPse}
      <4>1. apps[n] \in Aids
        BY <2>0, ElementOfSeq
      <4> QED
        BY <1>1, <2>2, <4>1 DEF EmvInv, TypeOK
    <3>3. TypeOK'
      BY <1>1, <2>0, <3>1, <3>2 DEF EmvInv, TypeOK
    <3> QED
      BY <1>1, <2>0, <3>1, <3>3, NotReading DEF cardVars
  <2> QED
    BY <1>1, <2>1, <2>2 DEF Select
<1>2. ASSUME EmvInv, NoMoreApps \/ Abort PROVE EmvInv'
  <2>1. TypeOK' /\ UNCHANGED cardVars /\ pc' \in {"nothing", "failed"}
    BY <1>2 DEF NoMoreApps, Abort, EmvInv, TypeOK
  <2> QED
    BY <1>2, <2>1, NotReading
<1> QED
  BY <1>1, <1>2

(* read_app gives up while it has an application. *)
LEMMA GivesUp ==
  ASSUME EmvInv, NextApp, pc \in {"gpo", "rec"},
         UNCHANGED <<onCard, dir, files, selected, taken, apps, record, afl, values>>
  PROVE  EmvInv'
<1>1. /\ apps \in Seq(Aids) /\ n \in 1 .. Len(apps) + 1 /\ n <= Len(apps)
      /\ Len(apps) \in Nat
  BY LenProperties DEF EmvInv, TypeOK
<1>2. n' \in 1 .. Len(apps) + 1 /\ pc' = "select" /\ again' = FALSE
  BY <1>1 DEF NextApp
<1>3. TypeOK'
  BY <1>2 DEF EmvInv, TypeOK
<1> QED
  BY <1>2, <1>3, NotReading DEF cardVars

LEMMA OptionsStep == EmvInv /\ GetOptions => EmvInv'
<1> SUFFICES ASSUME EmvInv, GetOptions PROVE EmvInv'
  OBVIOUS
<1>0. UNCHANGED <<onCard, dir, files, selected, taken, apps>> /\ pc = "gpo"
  BY DEF GetOptions, cardVars
<1>1. selected \in Aids /\ files[selected].entries \in Seq(Entry)
  <2>1. selected = apps[n] /\ n \in 1 .. Len(apps) /\ apps \in Seq(Aids)
    BY <1>0, LenProperties DEF EmvInv, TypeOK
  <2>2. apps[n] \in Aids
    BY <2>1, ElementOfSeq
  <2> QED
    BY <2>1, <2>2 DEF EmvInv, Lists
<1>2. CASE StartEntry(files[selected].entries) /\ values' = {} /\ n' = n
  <2>1. values' \subseteq Aids \X Byte \X Byte /\ values' \union All = All
    BY <1>2
  <2> QED
    BY <1>0, <1>1, <1>2, <2>1, StartReads DEF cardVars, All
<1>3. CASE NextApp /\ UNCHANGED <<record, afl, values>>
  BY <1>0, <1>3, GivesUp
<1> QED
  BY <1>2, <1>3 DEF GetOptions, NoValues

(* What remains of the entry, before and after a record. *)
LEMMA OneRecord ==
  ASSUME NEW a, NEW e \in Entry, NEW r \in Nat, r <= e.last
  PROVE  RestOfEntry(a, e, r) = {<<a, e.sfi, r>>} \union RestOfEntry(a, e, r + 1)
<1>1. e.last \in Nat
  BY ByteAssumption DEF Entry, Byte
<1>2. r .. e.last = {r} \union (r + 1 .. e.last)
  BY <1>1
<1>3. RestOfEntry(a, e, r) = {<<a, e.sfi, j>> : j \in {r} \union (r + 1 .. e.last)}
  BY <1>2 DEF RestOfEntry
<1> QED
  BY <1>3, Zenon DEF RestOfEntry

LEMMA RecordStep == EmvInv /\ ReadRecord => EmvInv'
<1> SUFFICES ASSUME EmvInv, ReadRecord PROVE EmvInv'
  OBVIOUS
<1>0. UNCHANGED <<onCard, dir, files, selected, taken, apps>> /\ pc = "rec"
  BY DEF ReadRecord, cardVars
<1>1. CASE Repeat /\ UNCHANGED <<pc, n, record, afl, values>>
  BY <1>0, <1>1 DEF EmvInv, TypeOK, Complete, All, Repeat
<1>2. CASE NextApp /\ UNCHANGED <<record, afl, values>>
  BY <1>0, <1>2, GivesUp
<1>3. CASE /\ values' = values \union {<<selected, Head(afl).sfi, record>>} /\ n' = n
           /\ IF NextRecord(record) <= Head(afl).last
              THEN /\ record' = NextRecord(record) /\ again' = FALSE
                   /\ UNCHANGED <<pc, afl>>
              ELSE StartEntry(Tail(afl))
  <2> DEFINE e == Head(afl)
             rest == RestOfEntry(selected, e, record + 1)
             later == Listed(selected, Tail(afl))
             whole == files[selected].spare = 0
  <2>1. /\ afl \in Seq(Entry) /\ afl # << >> /\ values \subseteq Aids \X Byte \X Byte
        /\ record \in e.first .. e.last
        /\ whole => values \union RestOfEntry(selected, e, record) \union later = All
    BY <1>0 DEF EmvInv, TypeOK, Complete
  <2>2. e \in Entry /\ Tail(afl) \in Seq(Entry)
    BY <2>1, HeadTailProperties
  <2>3. e.first \in Byte /\ e.last \in Byte /\ e.sfi \in Byte
    BY <2>2 DEF Entry
  <2>4. record \in Nat /\ record \in Byte /\ record <= e.last
    BY <2>1, <2>3, ByteAssumption DEF Byte
  <2>5. selected \in Aids
    <3>1. selected = apps[n] /\ n \in 1 .. Len(apps) /\ apps \in Seq(Aids)
      BY <1>0, LenProperties DEF EmvInv, TypeOK
    <3> QED
      BY <3>1, ElementOfSeq
  <2>6. values' \subseteq Aids \X Byte \X Byte
    BY <1>3, <2>1, <2>3, <2>4, <2>5
  <2>7. whole => values' \union rest \union later = All
    <3>1. RestOfEntry(selected, e, record) = {<<selected, e.sfi, record>>} \union rest
      BY <2>2, <2>4, OneRecord
    <3> HIDE DEF rest, later, whole
    <3> QED
      BY <1>3, <2>1, <3>1
  <2>8. CASE record + 1 <= e.last
    <3>1. /\ record' = record + 1 /\ again' = FALSE /\ UNCHANGED <<pc, afl>>
      BY <1>3, <2>8 DEF NextRecord
    <3>2. record' \in e.first .. e.last /\ record' \in 0 .. BYTE
      BY <2>1, <2>3, <2>8, <3>1, ByteAssumption DEF Byte
    <3>3. TypeOK'
      BY <1>0, <1>3, <2>6, <3>1, <3>2 DEF EmvInv, TypeOK
    <3>4. Complete'
      <4>1. All' = All /\ files'[selected'].spare = files[selected].spare
        BY <1>0 DEF All
      <4> QED
        BY <1>0, <2>1, <2>7, <3>1, <3>2, <4>1 DEF Complete
    <3> QED
      BY <1>0, <1>3, <3>1, <3>3, <3>4 DEF EmvInv
  <2>9. CASE ~(record + 1 <= e.last)
    <3>1. StartEntry(Tail(afl))
      BY <1>3, <2>9 DEF NextRecord
    <3>2. rest = {}
      BY <2>3, <2>4, <2>9, ByteAssumption DEF RestOfEntry, Byte
    <3>3. whole => values' \union later = All
      BY <2>7, <3>2
    <3> QED
      BY <1>0, <1>3, <2>2, <2>6, <3>1, <3>3, StartReads DEF cardVars
  <2> QED
    BY <2>8, <2>9
<1> QED
  BY <1>1, <1>2, <1>3 DEF ReadRecord

LEMMA EmvStep == EmvInv /\ [Next]_vars => EmvInv'
<1>1. ASSUME EmvInv, UNCHANGED vars PROVE EmvInv'
  BY <1>1 DEF EmvInv, TypeOK, Complete, All, vars, cardVars
<1> QED
  BY <1>1, SelectPseStep, DirectoryStep, SelectStep, OptionsStep, RecordStep DEF Next, Step

-----------------------------------------------------------------------------
(* The list of applications.                                                *)

(* a are the AIDs of the first m records, all of them well formed.          *)
OfFirst(m, a) ==
  /\ dir # NoPse /\ m \in 0 .. Len(dir)
  /\ BadRecord \notin Range(SubSeq(dir, 1, m))
  /\ a = FlattenSeq(SubSeq(dir, 1, m))

DirectoryInv ==
  /\ pc = "pse" => taken = 0 /\ apps = << >>
  /\ pc = "psd" => taken = record - 1 /\ OfFirst(taken, apps)
  /\ FromDirectory

LEMMA NoneRead ==
  ASSUME dir \in Seq({BadRecord} \union Seq(Aids)), dir # NoPse
  PROVE  OfFirst(0, << >>)
<1>1. SubSeq(dir, 1, 0) = << >> /\ Len(dir) \in Nat
  OBVIOUS
<1>2. FlattenSeq(<< >>) = << >>
  BY DEF FlattenSeq
<1>3. Range(<< >>) = {}
  BY DEF Range
<1>4. BadRecord \notin Range(SubSeq(dir, 1, 0)) /\ << >> = FlattenSeq(SubSeq(dir, 1, 0))
  BY <1>1, <1>2, <1>3, Zenon
<1>5. 0 \in 0 .. Len(dir)
  BY <1>1
<1> QED
  BY <1>4, <1>5, Zenon DEF OfFirst

LEMMA OneMore ==
  ASSUME dir \in Seq({BadRecord} \union Seq(Aids)), NEW m \in Nat, NEW a, OfFirst(m, a),
         m + 1 <= Len(dir), dir[m + 1] # BadRecord
  PROVE  OfFirst(m + 1, Added(a, dir[m + 1]))
<1> DEFINE s == SubSeq(dir, 1, m)
           t == SubSeq(dir, 1, m + 1)
           x == dir[m + 1]
<1>1. /\ Len(dir) \in Nat /\ m \in 0 .. Len(dir) /\ m + 1 \in 1 .. Len(dir)
      /\ \A i \in 1 .. Len(dir) : dir[i] \in {BadRecord} \union Seq(Aids)
  BY ElementOfSeq DEF OfFirst
<1>2. /\ Len(s) = m /\ Len(t) = m + 1
      /\ \A i \in 1 .. m : s[i] = dir[i] /\ t[i] = dir[i]
      /\ t[m + 1] = x
      /\ s \in Seq({BadRecord} \union Seq(Aids)) /\ t \in Seq({BadRecord} \union Seq(Aids))
  <2>1. m \in Int /\ m + 1 \in Int /\ \A i \in 1 .. m + 1 : dir[i] \in {BadRecord} \union Seq(Aids)
    BY <1>1, ElementOfSeq
  <2>2. /\ s \in Seq({BadRecord} \union Seq(Aids)) /\ Len(s) = m
        /\ \A i \in 1 .. m : s[i] = dir[i]
    BY <1>1, <2>1, SubSeqProperties
  <2>3. /\ t \in Seq({BadRecord} \union Seq(Aids)) /\ Len(t) = m + 1
        /\ \A i \in 1 .. m + 1 : t[i] = dir[i]
    BY <1>1, <2>1, SubSeqProperties
  <2> QED
    BY <1>1, <2>2, <2>3
<1>3. /\ DOMAIN s = 1 .. m /\ DOMAIN t = 1 .. m + 1
  BY <1>2, LenProperties
<1> HIDE DEF s, t
<1>4. \A i \in 1 .. m : s[i] # BadRecord
  BY <1>2, <1>3 DEF OfFirst, Range, s
<1>5. x # BadRecord /\ x \in Seq(Aids)
  BY <1>1
<1>6. BadRecord \notin Range(t)
  <2>1. \A i \in 1 .. m + 1 : t[i] # BadRecord
    BY <1>2, <1>4, <1>5
  <2> QED
    BY <1>3, <2>1 DEF Range
<1>7. s \in Seq(Seq(Aids))
  <2>1. \A i \in 1 .. m : s[i] \in Seq(Aids)
    BY <1>1, <1>2, <1>4
  <2> QED
    BY <1>2, <1>3, <2>1
<1>8. t = Append(s, x)
  BY <1>2, <1>3
<1>9. FlattenSeq(t) = FlattenSeq(s) \o x
  BY <1>5, <1>7, <1>8, FlattenAppend
<1>10. a = FlattenSeq(s) /\ dir # NoPse
  BY DEF OfFirst, s
<1>11. m + 1 \in 0 .. Len(dir)
  BY <1>1
<1>12. Added(a, dir[m + 1]) = FlattenSeq(t)
  BY <1>9, <1>10, Zenon DEF Added
<1> QED
  BY <1>6, <1>10, <1>11, <1>12, Zenon DEF OfFirst, t

(* Without a record there is no application.                                *)
LEMMA TakenNone == taken = 0 => Taken = << >> /\ FlattenSeq(Taken) = << >> /\ Range(Taken) = {}
BY DEF Taken, FlattenSeq, Range

(* The reading ends: the applications found, or those built in.             *)
LEMMA TryFrom ==
  ASSUME NEW found, OfFirst(taken', found), Try(found), dir' = dir
  PROVE  DirectoryInv'
<1>1. pc' = "select" /\ apps' = IF found = << >> THEN KnownAids ELSE found
  BY DEF Try
<1>2. SubSeq(dir, 1, 0) = << >>
  OBVIOUS
<1>3. Taken' = SubSeq(dir, 1, taken')
  BY <1>2 DEF Taken
<1>4. BadRecord \notin Range(Taken)' /\ found = FlattenSeq(Taken)'
  BY <1>3 DEF OfFirst
<1>5. FromDirectory'
  BY <1>1, <1>4 DEF FromDirectory
<1> QED
  BY <1>1, <1>5 DEF DirectoryInv

LEMMA DirectoryInit == Init => DirectoryInv
BY DEF Init, DirectoryInv, FromDirectory

(* Once an application is tried the list is left as it is.                  *)
LEMMA ListKept ==
  ASSUME DirectoryInv, UNCHANGED <<dir, taken, apps>>, pc \in {"select", "lost", "gpo", "rec", "shown"},
         pc' \notin {"pse", "psd"}
  PROVE  DirectoryInv'
BY DEF DirectoryInv, FromDirectory, Taken

LEMMA DirectoryInvStep == EmvInv /\ DirectoryInv /\ [Next]_vars => DirectoryInv'
<1> SUFFICES ASSUME EmvInv, DirectoryInv, [Next]_vars PROVE DirectoryInv'
  OBVIOUS
<1>0. dir \in Seq({BadRecord} \union Seq(Aids)) \union {NoPse} /\ record \in Nat
  BY DirectoryAssumption, ByteAssumption DEF EmvInv, TypeOK
<1>1. CASE SelectPse
  <2>0. pc = "pse" /\ taken = 0 /\ apps = << >> /\ UNCHANGED <<dir, taken>>
    BY <1>1 DEF SelectPse, DirectoryInv, cardVars
  <2>1. CASE dir # NoPse /\ pc' = "psd" /\ record' = 1 /\ apps' = apps
    <3>1. OfFirst(0, << >>)
      BY <1>0, <2>1, NoneRead
    <3>2. OfFirst(taken, apps)'
      BY <2>0, <2>1, <3>1 DEF OfFirst
    <3> QED
      BY <2>0, <2>1, <3>2 DEF DirectoryInv, FromDirectory
  <2>2. CASE Try(<< >>)
    <3>1. pc' = "select" /\ apps' = KnownAids
      BY <2>2 DEF Try
    <3>2. BadRecord \notin Range(Taken)' /\ FlattenSeq(Taken)' = << >>
      BY <2>0, TakenNone DEF Taken
    <3> QED
      BY <3>1, <3>2 DEF DirectoryInv, FromDirectory
  <2> QED
    BY <1>1, <2>1, <2>2 DEF SelectPse
<1>2. CASE ReadDirectory
  <2>0. pc = "psd" /\ dir' = dir /\ taken = record - 1 /\ taken \in Nat /\ OfFirst(taken, apps)
    BY <1>2 DEF ReadDirectory, EmvInv, DirectoryInv, cardVars, OfFirst
  <2>1. CASE record <= Len(dir) /\ TakeRecord(dir[record])
    <3>1. dir \in Seq({BadRecord} \union Seq(Aids)) /\ taken + 1 = record
      BY <1>0, <2>0 DEF OfFirst
    <3>2. CASE dir[record] = BadRecord
      <4>1. Try(apps) /\ taken' = taken
        BY <2>1, <3>2 DEF TakeRecord
      <4> QED
        BY <2>0, <4>1, TryFrom
    <3>3. CASE dir[record] # BadRecord
      <4>1. OfFirst(record, Added(apps, dir[record])) /\ taken' = record
        BY <2>0, <2>1, <3>1, <3>3, OneMore DEF TakeRecord
      <4>2. CASE record < MAX_RECORDS
        <5>1. apps' = Added(apps, dir[record]) /\ record' = record + 1 /\ pc' = pc
          BY <2>1, <3>3, <4>2 DEF TakeRecord
        <5>2. OfFirst(taken, apps)'
          BY <1>0, <2>0, <4>1, <5>1 DEF OfFirst
        <5>3. taken' = record' - 1
          BY <1>0, <4>1, <5>1
        <5> QED
          BY <2>0, <5>1, <5>2, <5>3 DEF DirectoryInv, FromDirectory
      <4>3. CASE ~(record < MAX_RECORDS)
        <5>1. Try(Added(apps, dir[record]))
          BY <2>1, <3>3, <4>3 DEF TakeRecord
        <5> QED
          BY <2>0, <4>1, <5>1, TryFrom
      <4> QED
        BY <4>2, <4>3
    <3> QED
      BY <3>2, <3>3
  <2>2. CASE Repeat /\ UNCHANGED <<pc, taken, apps, n, record>>
    <3>1. OfFirst(taken, apps)'
      BY <2>0, <2>2 DEF OfFirst
    <3> QED
      BY <2>0, <2>2, <3>1 DEF DirectoryInv, FromDirectory
  <2>3. CASE Try(apps) /\ UNCHANGED <<taken, record>>
    BY <2>0, <2>3, TryFrom
  <2> QED
    BY <1>2, <2>1, <2>2, <2>3 DEF ReadDirectory
<1>3. CASE NoMoreApps
  BY <1>3, ListKept DEF NoMoreApps, cardVars
<1>4. CASE Select
  BY <1>4, ListKept DEF Select, cardVars, NextApp
<1>5. CASE GetOptions
  BY <1>5, ListKept DEF GetOptions, cardVars, NextApp, StartEntry, ReadFrom
<1>6. CASE ReadRecord
  BY <1>6, ListKept DEF ReadRecord, cardVars, NextApp, StartEntry, ReadFrom, Repeat
<1>7. CASE Abort
  BY <1>7 DEF Abort, DirectoryInv, FromDirectory
<1>8. CASE UNCHANGED vars
  BY <1>8 DEF vars, cardVars, DirectoryInv, FromDirectory, Taken, OfFirst
<1> QED
  BY <1>1, <1>2, <1>3, <1>4, <1>5, <1>6, <1>7, <1>8 DEF Next, Step

-----------------------------------------------------------------------------
(* The theorems.                                                            *)

LEMMA EmvAlways == Spec => []EmvInv
<1> QED
  BY EmvInit, EmvStep, PTL DEF Spec

(* example-07 keeps to the types of its variables, in particular to record  *)
(* numbers of the width the code gives them.                                *)
THEOREM EmvTypes == Spec => []TypeOK
<1>1. EmvInv => TypeOK
  BY DEF EmvInv
<1> QED
  BY <1>1, EmvAlways, PTL

(* The commands for an application reach that application.                  *)
THEOREM CommandsArrive == Spec => []OwnCommands
<1>1. EmvInv => OwnCommands
  BY DEF EmvInv, OwnCommands
<1> QED
  BY <1>1, EmvAlways, PTL

(* What is shown is all that the file locator of one application lists; of  *)
(* a locator that ends amid an entry nothing is.                            *)
THEOREM WholeApplication == Spec => []ShownIsWhole
<1>1. EmvInv => ShownIsWhole
  <2> SUFFICES ASSUME EmvInv, pc = "shown" PROVE files[apps[n]].spare = 0 /\ values = RecordsOf(apps[n])
    BY DEF ShownIsWhole
  <2>1. apps[n] = selected /\ n \in 1 .. Len(apps) /\ apps \in Seq(Aids)
    BY LenProperties DEF EmvInv, TypeOK
  <2>2. apps[n] \in Aids
    BY <2>1, ElementOfSeq
  <2>3. /\ files[apps[n]].entries \in Seq(Entry) /\ files[apps[n]].spare = 0
        /\ values = Listed(apps[n], files[apps[n]].entries)
    BY <2>1, <2>2 DEF EmvInv, Complete, All, Lists
  <2> QED
    BY <2>2, <2>3, AllListed
<1> QED
  BY <1>1, EmvAlways, PTL

(* The applications tried are those of the records taken from the card's    *)
(* directory, in its order, those built in only if there are none.          *)
THEOREM DirectoryOrder == Spec => []FromDirectory
<1>1. DirectoryInv => FromDirectory
  BY DEF DirectoryInv
<1> QED
  BY <1>1, EmvAlways, DirectoryInit, DirectoryInvStep, PTL DEF Spec
=============================================================================
