------------------------------ MODULE DumpProofs ------------------------------
(* Theorems about MifareDump, for cards and files of any size: what is      *)
(* printed was read with the key it is printed with, access bits are those  *)
(* of their sector, and nothing readable is left out.  And about Dumps, for *)
(* any card and any list of keys: example-05 says of a block what it read   *)
(* there, and prints nothing of the memory it does not initialize unless    *)
(* the card or the reader refused a command.                                *)
EXTENDS Dumps, SequenceTheorems, TLAPS

Block == [key : Letters \union {"none"}, data : {<< >>} \union Sectors \X Blocks, access : Access]
Working == {"load", "auth", "read"}

(* While a sector is worked on it has a line in the file, and the blocks    *)
(* still to read are some that the line gives to the key in use; they are   *)
(* read only after the card has taken that key.                             *)
AtWork ==
  /\ pc \in Working \union {"fill"} => sector \in Sectors
  /\ pc \in Working => keys[sector] # Missing /\ left # {} /\ left \subseteq BlocksOf(sector, letter)
  /\ pc = "read" => Right(sector, letter)

DumpInv ==
  /\ TypeOK
  /\ file \in Seq(Lines)
  /\ cardBits \in [Sectors -> Bits]
  /\ \A s \in Sectors : keys[s] # Missing => keys[s] \in Line
  /\ pc = "keys" => \A s \in Sectors, i \in Blocks :
       shown[s][i].key = "none" /\ ~shown[s][i].access.set
  /\ AtWork
  /\ ShownWithItsKey
  /\ AccessOfSector

-----------------------------------------------------------------------------
(* The blocks in their order.                                               *)

LEMMA FirstLeft ==
  ASSUME NEW S \in SUBSET Blocks, S # {}
  PROVE  Min(S) \in S
<1> DEFINE IsLeast(x) == x \in S /\ \A y \in S : x <= y
<1>1. S \subseteq {0, 1, 2, 3}
  BY DEF Blocks
<1>2. \E x : IsLeast(x)
  <2>1. CASE 0 \in S
    <3>1. IsLeast(0)
      BY <1>1, <2>1
    <3> QED
      BY <3>1
  <2>2. CASE 0 \notin S /\ 1 \in S
    <3>1. IsLeast(1)
      BY <1>1, <2>2
    <3> QED
      BY <3>1
  <2>3. CASE 0 \notin S /\ 1 \notin S /\ 2 \in S
    <3>1. IsLeast(2)
      BY <1>1, <2>3
    <3> QED
      BY <3>1
  <2>4. CASE S = {3}
    <3>1. IsLeast(3)
      BY <2>4
    <3> QED
      BY <3>1
  <2> QED
    BY <1>1, <2>1, <2>2, <2>3, <2>4
<1>3. \E x \in S : \A y \in S : x =< y
  BY <1>2
<1>4. Min(S) = CHOOSE x \in S : \A y \in S : x =< y
  BY DEF Min
<1> HIDE DEF IsLeast
<1> QED
  BY <1>3, <1>4, Zenon

LEMMA RestOf ==
  ASSUME NEW ok, left \subseteq Blocks, left # {}
  PROVE  Rest(ok) = left \ {Min(left)} /\ Min(left) \in left
BY FirstLeft DEF Rest

LEMMA UnreadType == Unread \in Block
BY DEF Unread, Block, Access, Bits, NoBits

(* The shape of the vector that is printed. *)
LEMMA ShownType ==
  ASSUME TypeOK, NEW s \in Sectors, NEW i \in Blocks
  PROVE  shown \in [Sectors -> [Blocks -> Block]] /\ shown[s][i] \in Block
BY DEF TypeOK, Block

(* A line has a letter for every block. *)
LEMMA LineShape ==
  ASSUME NEW s \in Sectors, keys[s] \in Line
  PROVE  /\ \A i \in Blocks : keys[s].use[i] \in Letters
         /\ BlocksOf(s, "a") = {} => BlocksOf(s, "b") # {}
<1>1. \A i \in Blocks : keys[s].use[i] \in Letters
  BY DEF Line
<1> QED
  BY <1>1 DEF BlocksOf, Blocks, Letters

-----------------------------------------------------------------------------
(* The steps.                                                               *)

LEMMA DumpInit == Init => DumpInv
<1> SUFFICES ASSUME Init PROVE DumpInv
  OBVIOUS
<1>1. file \in Seq(Lines)
  <2>1. PICK n \in 0 .. MaxLines : file \in [1 .. n -> Lines]
    BY DEF Init
  <2> QED
    BY <2>1, SizeAssumption, SMT
<1>2. shown = [s \in Sectors |-> [i \in Blocks |-> Unread]]
  BY DEF Init
<1>3. TypeOK
  BY <1>2, UnreadType, SizeAssumption DEF Init, TypeOK, Block, Letters, Sectors
<1>4. \A s \in Sectors, i \in Blocks : shown[s][i].key = "none" /\ ~shown[s][i].access.set
  BY <1>2 DEF Unread
<1>5. cardBits \in [Sectors -> Bits]
  BY BitsAssumption DEF Init
<1> QED
  BY <1>1, <1>3, <1>4, <1>5
  DEF Init, DumpInv, AtWork, Working, ShownWithItsKey, AccessOfSector

(* What is printed and what it is compared with stay the same in most       *)
(* steps.                                                                   *)
LEMMA SameShown ==
  ASSUME DumpInv, UNCHANGED <<file, keys, cardVars, shown>>,
         TypeOK', AtWork', pc' # "keys"
  PROVE  DumpInv'
BY DEF DumpInv, cardVars, ShownWithItsKey, AccessOfSector

LEMMA LineStep == DumpInv /\ ReadLine => DumpInv'
<1> SUFFICES ASSUME DumpInv, ReadLine PROVE DumpInv'
  OBVIOUS
<1>0. /\ UNCHANGED <<cardKey, cardBits, open, sector, letter, left, shown, refused>>
      /\ pc = "keys" /\ pc' \in {"keys", "failed"}
  BY DEF ReadLine, cardVars
<1>1. Head(file) \in Lines /\ file' \in Seq(Lines)
  BY HeadTailProperties DEF ReadLine, DumpInv
<1>2. \A s \in Sectors : keys'[s] = keys[s] \/ (keys'[s] = Head(file) /\ Head(file) # Malformed)
  BY DEF ReadLine, Valid
<1>3. keys' \in [Sectors -> Lines \union {Missing}]
  BY <1>1 DEF ReadLine, DumpInv, TypeOK
<1>4. \A s \in Sectors : keys'[s] # Missing => keys'[s] \in Line
  BY <1>1, <1>2, LineAssumption DEF DumpInv
<1>5. TypeOK' /\ AtWork'
  BY <1>0, <1>3 DEF DumpInv, TypeOK, AtWork, Working
<1>6. \A s \in Sectors, i \in Blocks : shown'[s][i].key = "none" /\ ~shown'[s][i].access.set
  BY <1>0 DEF DumpInv
<1> QED
  BY <1>0, <1>1, <1>4, <1>5, <1>6 DEF DumpInv, ShownWithItsKey, AccessOfSector

LEMMA OtherSteps ==
  DumpInv /\ (OpenCard \/ PrintDump \/ Lost) => DumpInv'
<1> SUFFICES ASSUME DumpInv, OpenCard \/ PrintDump \/ Lost PROVE DumpInv'
  OBVIOUS
<1>1. /\ UNCHANGED <<file, keys, cardVars, open, sector, letter, left, shown, refused>>
      /\ pc' \in {"sector", "print", "failed"}
  BY DEF OpenCard, PrintDump, Lost
<1>2. TypeOK' /\ AtWork'
  BY <1>1 DEF DumpInv, TypeOK, AtWork, Working
<1> QED
  BY <1>1, <1>2, SameShown

LEMMA SectorStep == DumpInv /\ Sector => DumpInv'
<1> SUFFICES ASSUME DumpInv, Sector PROVE DumpInv'
  OBVIOUS
<1>0. /\ UNCHANGED <<file, keys, cardKey, cardBits, open, refused>>
      /\ pc = "sector" /\ sector \in Sectors /\ NSectors \in Nat
      /\ shown' = [shown EXCEPT ![sector] = [i \in Blocks |-> Unread]]
  BY SizeAssumption DEF Sector, DumpInv, TypeOK, cardVars, Sectors
<1>1. shown' \in [Sectors -> [Blocks -> Block]]
  BY <1>0, UnreadType, ShownType DEF DumpInv, TypeOK, Block
<1>2. \A s \in Sectors, i \in Blocks :
        shown'[s][i] = IF s = sector THEN Unread ELSE shown[s][i]
  BY <1>0 DEF DumpInv, TypeOK
<1>3. ASSUME keys[sector] = Missing PROVE TypeOK' /\ AtWork'
  <2>1. sector' = sector + 1 /\ pc' = "sector" /\ UNCHANGED <<letter, left>>
    BY <1>3 DEF Sector, NextSector
  <2> QED
    BY <1>0, <1>1, <2>1 DEF DumpInv, TypeOK, AtWork, Working, Sectors, Block
<1>4. ASSUME keys[sector] # Missing PROVE TypeOK' /\ AtWork'
  <2> DEFINE l == IF BlocksOf(sector, "a") # {} THEN "a" ELSE "b"
  <2>1. pc' = "load" /\ letter' = l /\ left' = BlocksOf(sector, l) /\ sector' = sector
    BY <1>4 DEF Sector, UseKey
  <2>2. keys[sector] \in Line
    BY <1>0, <1>4 DEF DumpInv
  <2>3. left' # {} /\ left' \subseteq Blocks /\ l \in Letters
    BY <1>0, <2>1, <2>2, LineShape DEF BlocksOf, Letters
  <2> QED
    BY <1>0, <1>1, <1>4, <2>1, <2>3 DEF DumpInv, TypeOK, AtWork, Working, BlocksOf, Block
<1>5. TypeOK' /\ AtWork'
  BY <1>3, <1>4 DEF DumpInv
<1>6. ShownWithItsKey' /\ AccessOfSector'
  BY <1>0, <1>2 DEF DumpInv, ShownWithItsKey, AccessOfSector, Unread
<1>7. pc' # "keys"
  BY DEF Sector, NextSector, UseKey
<1> QED
  BY <1>0, <1>5, <1>6, <1>7 DEF DumpInv

LEMMA LoadStep == DumpInv /\ Load => DumpInv'
<1> SUFFICES ASSUME DumpInv, Load PROVE DumpInv'
  OBVIOUS
<1>0. UNCHANGED <<file, keys, cardKey, cardBits, open, letter, left, shown>> /\ pc = "load"
  BY DEF Load, cardVars
<1>1. sector \in Sectors /\ sector + 1 \in 0 .. NSectors
  BY <1>0, SizeAssumption DEF DumpInv, AtWork, Working, Sectors
<1>2. \/ pc' = "auth" /\ sector' = sector
      \/ pc' = "sector" /\ sector' = sector + 1
  BY DEF Load, NextSector
<1>3. TypeOK'
  BY <1>0, <1>1, <1>2 DEF DumpInv, TypeOK
<1>4. AtWork'
  BY <1>0, <1>1, <1>2 DEF DumpInv, AtWork, Working, BlocksOf
<1> QED
  BY <1>0, <1>2, <1>3, <1>4, SameShown DEF cardVars

LEMMA AuthStep == DumpInv /\ Auth => DumpInv'
<1> SUFFICES ASSUME DumpInv, Auth PROVE DumpInv'
  OBVIOUS
<1>0. UNCHANGED <<file, keys, cardKey, cardBits, letter, left, shown>> /\ pc = "auth"
  BY DEF Auth, cardVars
<1>1. sector \in Sectors /\ sector + 1 \in 0 .. NSectors
  BY <1>0, SizeAssumption DEF DumpInv, AtWork, Working, Sectors
<1>2. \/ pc' = "read" /\ sector' = sector /\ open' = <<sector, letter>> /\ Right(sector, letter)
      \/ pc' = "sector" /\ sector' = sector + 1 /\ open' = << >>
  BY DEF Auth, NextSector, Opened, Right
<1>3. TypeOK'
  BY <1>0, <1>1, <1>2 DEF DumpInv, TypeOK
<1>4. AtWork'
  BY <1>0, <1>1, <1>2 DEF DumpInv, AtWork, Working, BlocksOf, Right
<1> QED
  BY <1>0, <1>2, <1>3, <1>4, SameShown DEF cardVars

(* What a read does: to the blocks that are left, and to those shown.       *)
LEMMA ReadLeft ==
  ASSUME DumpInv, Read
  PROVE  /\ sector \in Sectors /\ sector' = sector
         /\ Min(left) \in left
         /\ pc = "read"
         /\ UNCHANGED <<file, keys, cardKey, cardBits>>
         /\ \/ /\ left \ {Min(left)} # {} /\ left' = left \ {Min(left)}
               /\ UNCHANGED <<pc, letter>>
            \/ /\ left \ {Min(left)} = {} /\ letter = "a" /\ BlocksOf(sector, "b") # {}
               /\ letter' = "b" /\ left' = BlocksOf(sector, "b") /\ pc' = "load"
            \/ /\ left \ {Min(left)} = {} /\ (letter = "a" => BlocksOf(sector, "b") = {})
               /\ letter' = letter /\ left' = {} /\ pc' = "fill"
<1>0. pc = "read" /\ UNCHANGED <<file, keys, cardKey, cardBits>> /\ sector' = sector
  BY DEF Read, cardVars
<1>1. left \subseteq Blocks /\ left # {} /\ sector \in Sectors
  BY <1>0 DEF DumpInv, TypeOK, AtWork, Working
<1>2. Min(left) \in left
  BY <1>1, FirstLeft
<1> QED
  BY <1>0, <1>1, <1>2 DEF Read, Rest, AfterKey, UseKey

LEMMA ReadShown ==
  ASSUME DumpInv, Read
  PROVE  /\ shown' \in [Sectors -> [Blocks -> Block]]
         /\ open' \in {open, << >>}
         /\ \A s \in Sectors, i \in Blocks :
              /\ shown'[s][i].access = shown[s][i].access
              /\ \/ shown'[s][i] = shown[s][i]
                 \/ /\ s = sector /\ i = Min(left)
                    /\ shown'[s][i].key = letter /\ shown'[s][i].data = <<s, i>>
         /\ refused' \/ (~refused /\ shown'[sector][Min(left)].key = letter)
<1>1. sector \in Sectors /\ Min(left) \in Blocks /\ letter \in Letters
  BY ReadLeft DEF DumpInv, TypeOK
<1>2. shown \in [Sectors -> [Blocks -> Block]]
  BY DEF DumpInv, TypeOK, Block
<1>3. PICK ok \in BOOLEAN :
        /\ shown' = IF ok THEN [shown EXCEPT ![sector][Min(left)] =
                                  [@ EXCEPT !.key = letter, !.data = <<sector, Min(left)>>]]
                    ELSE shown
        /\ open' \in IF ok THEN {open} ELSE {open, << >>}
        /\ refused' = (refused \/ ~ok)
  BY DEF Read
<1>4. CASE ~ok
  BY <1>1, <1>2, <1>3, <1>4
<1>5. CASE ok
  <2> DEFINE old == shown[sector][Min(left)]
             new == [old EXCEPT !.key = letter, !.data = <<sector, Min(left)>>]
  <2>1. old \in Block
    BY <1>1, <1>2
  <2>2. /\ new \in Block /\ new.access = old.access
        /\ new.key = letter /\ new.data = <<sector, Min(left)>>
    BY <1>1, <2>1 DEF Block
  <2>3. shown' = [shown EXCEPT ![sector][Min(left)] = new]
    BY <1>3, <1>5
  <2> HIDE DEF new
  <2>4. shown' \in [Sectors -> [Blocks -> Block]]
    BY <1>1, <1>2, <2>2, <2>3
  <2>5. \A s \in Sectors, i \in Blocks :
          shown'[s][i] = IF s = sector /\ i = Min(left) THEN new ELSE shown[s][i]
    BY <1>1, <1>2, <2>3
  <2>6. \A s \in Sectors, i \in Blocks :
          /\ shown'[s][i].access = shown[s][i].access
          /\ \/ shown'[s][i] = shown[s][i]
             \/ /\ s = sector /\ i = Min(left)
                /\ shown'[s][i].key = letter /\ shown'[s][i].data = <<s, i>>
    BY <2>2, <2>5
  <2>7. shown'[sector][Min(left)].key = letter
    BY <1>1, <2>2, <2>5
  <2>8. open' = open /\ (refused' \/ ~refused)
    BY <1>3, <1>5
  <2> QED
    BY <2>4, <2>6, <2>7, <2>8, Zenon
<1> QED
  BY <1>4, <1>5

LEMMA ReadStep == DumpInv /\ Read => DumpInv'
<1> SUFFICES ASSUME DumpInv, Read PROVE DumpInv'
  OBVIOUS
<1>1. sector' = sector /\ sector \in Sectors /\ UNCHANGED <<file, keys, cardKey, cardBits>>
  BY ReadLeft
<1>2. left \subseteq Blocks /\ left \subseteq BlocksOf(sector, letter) /\ Right(sector, letter)
  BY ReadLeft DEF DumpInv, TypeOK, AtWork, Working
<1>3. TypeOK'
  BY <1>1, <1>2, ReadLeft, ReadShown DEF DumpInv, TypeOK, Block, Letters, BlocksOf
<1>4. AtWork'
  BY <1>1, <1>2, ReadLeft DEF DumpInv, AtWork, Working, BlocksOf, Right
<1>5. ShownWithItsKey'
  <2> SUFFICES ASSUME NEW s \in Sectors, NEW i \in Blocks, shown'[s][i].key # "none"
               PROVE  /\ shown'[s][i].data = <<s, i>>
                      /\ keys[s].use[i] = shown'[s][i].key
                      /\ keys[s].key[shown'[s][i].key] = cardKey[s][shown'[s][i].key]
    BY <1>1 DEF ShownWithItsKey
  <2>1. CASE shown'[s][i] = shown[s][i]
    BY <2>1 DEF DumpInv, ShownWithItsKey
  <2>2. CASE s = sector /\ i = Min(left) /\ shown'[s][i].key = letter /\ shown'[s][i].data = <<s, i>>
    BY <1>2, <2>2, ReadLeft DEF BlocksOf, Right
  <2> QED
    BY <2>1, <2>2, ReadShown
<1>6. AccessOfSector'
  <2>1. \A s \in Sectors : shown[s][3].key # "none" => shown'[s][3].key # "none"
    BY ReadShown DEF DumpInv, TypeOK, Letters, Blocks
  <2> QED
    BY <1>1, <2>1, ReadShown DEF DumpInv, AccessOfSector
<1>7. pc' # "keys"
  BY ReadLeft
<1> QED
  BY <1>1, <1>3, <1>4, <1>5, <1>6, <1>7 DEF DumpInv

LEMMA FillShown ==
  ASSUME DumpInv, Fill
  PROVE  /\ shown' \in [Sectors -> [Blocks -> Block]]
         /\ \A s \in Sectors, i \in Blocks :
              /\ shown'[s][i].key = shown[s][i].key /\ shown'[s][i].data = shown[s][i].data
              /\ \/ shown'[s][i].access = shown[s][i].access
                 \/ /\ s = sector /\ shown[s][3].key # "none"
                    /\ shown'[s][i].access = [set |-> TRUE, bits |-> ShownBits(cardBits[s])]
<1>1. sector \in Sectors /\ 3 \in Blocks
  BY DEF Fill, DumpInv, AtWork, Blocks
<1>2. shown \in [Sectors -> [Blocks -> Block]]
  BY DEF DumpInv, TypeOK, Block
<1>3. CASE shown[sector][3].key = "none"
  BY <1>2, <1>3 DEF Fill, TrailerSector
<1>4. CASE shown[sector][3].key # "none"
  <2> DEFINE a == [set |-> TRUE, bits |-> ShownBits(cardBits[sector])]
             new(i) == [shown[sector][i] EXCEPT !.access = a]
  <2>1. shown[sector][3].data[1] = sector
    BY <1>1, <1>4 DEF DumpInv, ShownWithItsKey
  <2>2. a \in Access
    <3>1. cardBits[sector] \in Bits
      BY <1>1 DEF DumpInv
    <3> QED
      BY <3>1 DEF Access, Bits, ShownBits
  <2>3. shown' = [shown EXCEPT ![sector] = [i \in Blocks |-> new(i)]]
    BY <1>4, <2>1 DEF Fill, TrailerSector
  <2> HIDE DEF a
  <2>4. \A i \in Blocks : /\ new(i) \in Block /\ new(i).access = a
                          /\ new(i).key = shown[sector][i].key
                          /\ new(i).data = shown[sector][i].data
    BY <1>1, <1>2, <2>2 DEF Block
  <2> HIDE DEF new
  <2>5. shown' \in [Sectors -> [Blocks -> Block]]
    BY <1>1, <1>2, <2>3, <2>4
  <2>6. \A s \in Sectors, i \in Blocks :
          shown'[s][i] = IF s = sector THEN new(i) ELSE shown[s][i]
    BY <1>1, <1>2, <2>3
  <2> QED
    BY <1>1, <1>4, <2>4, <2>5, <2>6, ZenonT(30) DEF a
<1> QED
  BY <1>3, <1>4

LEMMA FillStep == DumpInv /\ Fill => DumpInv'
<1> SUFFICES ASSUME DumpInv, Fill PROVE DumpInv'
  OBVIOUS
<1>0. /\ UNCHANGED <<file, keys, cardKey, cardBits, open, letter, left>>
      /\ pc = "fill" /\ pc' = "sector" /\ sector' = sector + 1
  BY DEF Fill, NextSector, cardVars
<1>1. sector \in Sectors /\ sector + 1 \in 0 .. NSectors
  BY <1>0, SizeAssumption DEF DumpInv, AtWork, Sectors
<1>2. TypeOK' /\ AtWork'
  BY <1>0, <1>1, FillShown DEF DumpInv, TypeOK, AtWork, Working, Block
<1>3. ShownWithItsKey'
  <2> SUFFICES ASSUME NEW s \in Sectors, NEW i \in Blocks, shown'[s][i].key # "none"
               PROVE  /\ shown'[s][i].data = <<s, i>>
                      /\ keys[s].use[i] = shown'[s][i].key
                      /\ keys[s].key[shown'[s][i].key] = cardKey[s][shown'[s][i].key]
    BY <1>0 DEF ShownWithItsKey
  <2>1. shown'[s][i].key = shown[s][i].key /\ shown'[s][i].data = shown[s][i].data
    BY FillShown
  <2> QED
    BY <2>1 DEF DumpInv, ShownWithItsKey
<1>4. AccessOfSector'
  <2>1. \A s \in Sectors : ShownBits(cardBits[s]).C1 = cardBits[s].C1
                           /\ ShownBits(cardBits[s]).C2 = cardBits[s].C2
    BY DEF ShownBits
  <2>2. 3 \in Blocks
    BY DEF Blocks
  <2> SUFFICES ASSUME NEW s \in Sectors, NEW i \in Blocks, shown'[s][i].access.set
               PROVE  /\ shown'[s][3].key # "none"
                      /\ shown'[s][i].access.bits.C1 = cardBits[s].C1
                      /\ shown'[s][i].access.bits.C2 = cardBits[s].C2
    BY <1>0 DEF AccessOfSector
  <2>3. shown'[s][3].key = shown[s][3].key
    BY <2>2, FillShown
  <2>4. CASE shown'[s][i].access = shown[s][i].access
    BY <2>3, <2>4 DEF DumpInv, AccessOfSector
  <2>5. CASE /\ shown[s][3].key # "none"
             /\ shown'[s][i].access = [set |-> TRUE, bits |-> ShownBits(cardBits[s])]
    BY <2>1, <2>3, <2>5
  <2> QED
    BY <2>4, <2>5, FillShown
<1> QED
  BY <1>0, <1>2, <1>3, <1>4 DEF DumpInv

LEMMA DumpStep == DumpInv /\ [Next]_vars => DumpInv'
<1>1. ASSUME DumpInv, UNCHANGED vars PROVE DumpInv'
  BY <1>1 DEF DumpInv, vars, cardVars, TypeOK, AtWork, BlocksOf, Right,
              ShownWithItsKey, AccessOfSector
<1> QED
  BY <1>1, LineStep, OtherSteps, SectorStep, LoadStep, AuthStep, ReadStep, FillStep DEF Next, Step

-----------------------------------------------------------------------------
(* Nothing readable is left out.                                            *)

(* The blocks that will be printed unless something is refused, and those   *)
(* whose reading is over.                                                   *)
Should(s, i) ==
  /\ keys[s] # Missing /\ Right(s, keys[s].use[i])
  /\ keys[s].use[i] = "b" => BlocksOf(s, "a") = {} \/ Right(s, "a")

Over(s, i) ==
  \/ s < sector
  \/ s = sector /\ pc = "fill"
  \/ /\ s = sector /\ pc \in Working
     /\ \/ keys[s].use[i] = "a" /\ letter = "b"
        \/ keys[s].use[i] = letter /\ i \notin left

Progress ==
  /\ pc = "keys" => sector = 0
  /\ pc = "print" => sector = NSectors
  /\ ~refused => \A s \in Sectors, i \in Blocks :
       Should(s, i) /\ Over(s, i) => shown[s][i].key = keys[s].use[i]

LEMMA ProgressInit == Init => Progress
BY SizeAssumption DEF Init, Progress, Over, Sectors, Working

(* Sectors before this one are not disturbed by what is done to this one.   *)
LEMMA Others ==
  ASSUME DumpInv, Progress, UNCHANGED <<keys, cardKey>>, ~refused, sector \in Sectors,
         NEW s \in Sectors, NEW i \in Blocks, s < sector, Should(s, i)',
         shown'[s][i].key = shown[s][i].key
  PROVE  shown'[s][i].key = keys'[s].use[i]
BY DEF Progress, Should, Over, BlocksOf, Right

LEMMA ProgressStep == DumpInv /\ DumpInv' /\ Progress /\ [Next]_vars => Progress'
<1> SUFFICES ASSUME DumpInv, DumpInv', Progress, [Next]_vars PROVE Progress'
  OBVIOUS
<1> USE SizeAssumption
<1>0. sector \in 0 .. NSectors /\ NSectors \in Nat
  BY DEF DumpInv, TypeOK
<1>1. CASE UNCHANGED vars
  BY <1>1 DEF vars, cardVars, Progress, Should, Over, Right, BlocksOf
<1>2. CASE ReadLine
  <2>1. sector' = 0 /\ pc' \in {"keys", "failed"}
    BY <1>2 DEF ReadLine, Progress
  <2> QED
    BY <2>1 DEF Progress, Over, Sectors, Working
<1>3. CASE OpenCard \/ PrintDump \/ Lost
  <2>1. /\ UNCHANGED <<keys, cardKey, sector, shown, refused, letter, left>>
        /\ pc' \in {"sector", "print", "failed"}
        /\ pc' = "print" => sector = NSectors
    BY <1>3 DEF OpenCard, PrintDump, Lost, cardVars
  <2> QED
    BY <2>1 DEF Progress, Should, Over, Right, BlocksOf, Working
<1>4. CASE Sector
  <2>0. /\ UNCHANGED <<keys, cardKey, refused>> /\ sector \in Sectors
        /\ pc' \in {"sector", "load"}
        /\ shown' = [shown EXCEPT ![sector] = [i \in Blocks |-> Unread]]
    BY <1>0, <1>4 DEF Sector, NextSector, UseKey, cardVars, Sectors
  <2> SUFFICES ASSUME ~refused, NEW s \in Sectors, NEW i \in Blocks, Should(s, i)', Over(s, i)'
               PROVE  shown'[s][i].key = keys'[s].use[i]
    BY <2>0 DEF Progress
  <2>1. s # sector => shown'[s][i] = shown[s][i]
    BY <2>0 DEF DumpInv, TypeOK
  <2>2. CASE s < sector
    BY <1>0, <2>0, <2>1, <2>2, Others DEF Sectors
  <2>3. CASE s = sector
    <3>1. keys[s] # Missing /\ keys[s] \in Line
      BY <2>0, <2>3 DEF Should, DumpInv
    <3> DEFINE l == IF BlocksOf(s, "a") # {} THEN "a" ELSE "b"
    <3>2. pc' = "load" /\ sector' = sector /\ letter' = l /\ left' = BlocksOf(s, l)
      BY <1>4, <2>3, <3>1 DEF Sector, UseKey
    <3>3. \/ keys[s].use[i] = "a" /\ l = "b"
          \/ keys[s].use[i] = l /\ i \notin BlocksOf(s, l)
      BY <1>0, <2>0, <2>3, <3>2 DEF Over, Working
    <3> QED
      BY <3>3 DEF BlocksOf
  <2>4. CASE s > sector
    <3>1. s \in Nat /\ (sector' = sector \/ (sector' = sector + 1 /\ pc' = "sector"))
      BY <1>4 DEF Sector, NextSector, UseKey, Sectors
    <3> QED
      BY <1>0, <2>4, <3>1 DEF Over, Working
  <2> QED
    BY <1>0, <2>2, <2>3, <2>4 DEF Sectors
<1>5. CASE Load
  <2>0. /\ UNCHANGED <<keys, cardKey, letter, left, shown>> /\ sector \in Sectors /\ pc = "load"
        /\ \/ pc' = "auth" /\ UNCHANGED <<sector, refused>>
           \/ pc' = "sector" /\ refused'
    BY <1>5 DEF Load, NextSector, cardVars, DumpInv, AtWork, Working
  <2> QED
    BY <2>0 DEF Progress, Should, Over, Right, BlocksOf, Working
<1>6. CASE Auth
  <2>0. UNCHANGED <<keys, cardKey, letter, left, shown>> /\ sector \in Sectors /\ pc = "auth"
    BY <1>6 DEF Auth, cardVars, DumpInv, AtWork, Working
  <2>1. \/ pc' = "read" /\ UNCHANGED <<sector, refused>>
        \/ pc' = "sector" /\ sector' = sector + 1 /\ refused' = refused /\ ~Right(sector, letter)
        \/ pc' = "sector" /\ refused'
    BY <1>6 DEF Auth, NextSector, Opened, Right
  <2>2. CASE pc' = "read" /\ UNCHANGED <<sector, refused>>
    BY <2>0, <2>2 DEF Progress, Should, Over, Right, BlocksOf, Working
  <2>3. CASE pc' = "sector" /\ sector' = sector + 1 /\ refused' = refused /\ ~Right(sector, letter)
    <3> SUFFICES ASSUME ~refused, NEW s \in Sectors, NEW i \in Blocks, Should(s, i)', Over(s, i)'
                 PROVE  shown'[s][i].key = keys'[s].use[i]
      BY <2>3 DEF Progress
    <3>1. Should(s, i) /\ (s < sector \/ s = sector)
      BY <1>0, <2>0, <2>3 DEF Should, Over, Right, BlocksOf, Working, Sectors
    <3>2. CASE s < sector
      BY <2>0, <3>1, <3>2 DEF Progress, Over
    <3>3. CASE s = sector
      <4>1. left # {} /\ left \subseteq BlocksOf(sector, letter) /\ letter \in Letters
        BY <2>0 DEF DumpInv, TypeOK, AtWork, Working
      <4>2. keys[s].use[i] \in Letters
        BY <3>1, <3>3, LineShape DEF Should, DumpInv
      <4>3. letter = "b" /\ keys[s].use[i] = "a"
        BY <2>3, <3>1, <3>3, <4>1, <4>2 DEF Should, Letters
      <4> QED
        BY <2>0, <3>1, <3>3, <4>3 DEF Progress, Over, Working
    <3> QED
      BY <3>1, <3>2, <3>3
  <2> QED
    BY <2>1, <2>2, <2>3 DEF Progress
<1>7. CASE Read
  <2>0. /\ sector \in Sectors /\ sector' = sector /\ pc = "read" /\ UNCHANGED <<keys, cardKey>>
        /\ pc' \in {"read", "load", "fill"}
    BY <1>7, ReadLeft
  <2> SUFFICES ASSUME ~refused', NEW s \in Sectors, NEW i \in Blocks, Should(s, i)', Over(s, i)'
               PROVE  shown'[s][i].key = keys[s].use[i]
    BY <2>0 DEF Progress
  <2>1. Should(s, i) /\ ~refused /\ keys[s] \in Line
    BY <1>7, <2>0, ReadShown DEF Should, Right, BlocksOf, DumpInv
  <2>2. CASE s < sector
    BY <1>7, <1>0, <2>0, <2>1, <2>2, ReadShown DEF Progress, Over, Sectors
  <2>3. CASE s = sector
    <3>1. left \subseteq BlocksOf(s, letter) /\ keys[s].use[i] \in Letters /\ letter \in Letters
      BY <2>0, <2>1, <2>3, LineShape DEF DumpInv, TypeOK, AtWork, Working
    <3>2. i = Min(left) => shown'[s][i].key = keys[s].use[i]
      BY <1>7, <2>1, <2>3, <3>1, ReadLeft, ReadShown DEF BlocksOf
    <3>3. i # Min(left) => shown'[s][i] = shown[s][i]
      BY <1>7, ReadShown
    <3>4. i # Min(left) => Over(s, i)
      BY <1>0, <1>7, <2>0, <2>3, <3>1, ReadLeft DEF Over, Working, BlocksOf, Letters
    <3> QED
      BY <2>1, <3>2, <3>3, <3>4 DEF Progress
  <2> QED
    BY <1>0, <2>0, <2>2, <2>3 DEF Over, Working, Sectors
<1>8. CASE Fill
  <2>0. /\ UNCHANGED <<keys, cardKey, refused>> /\ sector \in Sectors /\ pc = "fill"
        /\ pc' = "sector" /\ sector' = sector + 1
    BY <1>8 DEF Fill, NextSector, cardVars, DumpInv, AtWork
  <2>1. \A s \in Sectors, i \in Blocks : Over(s, i)' => Over(s, i)
    BY <1>0, <2>0 DEF Over, Working, Sectors
  <2>2. \A s \in Sectors, i \in Blocks : Should(s, i)' => Should(s, i)
    BY <2>0 DEF Should, Right, BlocksOf
  <2>3. \A s \in Sectors, i \in Blocks : shown'[s][i].key = shown[s][i].key
    BY <1>8, FillShown
  <2> QED
    BY <2>0, <2>1, <2>2, <2>3 DEF Progress
<1> QED
  BY <1>1, <1>2, <1>3, <1>4, <1>5, <1>6, <1>7, <1>8 DEF Next, Step

-----------------------------------------------------------------------------
(* The theorems.                                                            *)

LEMMA DumpAlways == Spec => [](DumpInv /\ Progress)
<1>1. Init => DumpInv /\ Progress
  BY DumpInit, ProgressInit
<1>2. DumpInv /\ Progress /\ [Next]_vars => DumpInv' /\ Progress'
  BY DumpStep, ProgressStep
<1> QED
  BY <1>1, <1>2, PTL DEF Spec

(* dump-mifare-card keeps to the types of its variables, for any number of  *)
(* sectors and any key file.                                                *)
THEOREM DumpTypes == Spec => []TypeOK
<1>1. DumpInv => TypeOK
  BY DEF DumpInv
<1> QED
  BY <1>1, DumpAlways, PTL

(* A block is printed with the key that opened it, which is the card's and  *)
(* the one the file names for it.                                           *)
THEOREM ShownRightly == Spec => []ShownWithItsKey
<1>1. DumpInv => ShownWithItsKey
  BY DEF DumpInv
<1> QED
  BY <1>1, DumpAlways, PTL

(* Access bits are printed for a sector only when its own trailer was read, *)
(* and C1 and C2 are the card's.                                            *)
THEOREM AccessRightly == Spec => []AccessOfSector
<1>1. DumpInv => AccessOfSector
  BY DEF DumpInv
<1> QED
  BY <1>1, DumpAlways, PTL

(* With no command refused, every block the file has a right key for is     *)
(* printed.                                                                 *)
THEOREM NothingLeftOut == Spec => []AllShown
<1>1. Progress => AllShown
  BY SizeAssumption DEF Progress, AllShown, Should, Over, Sectors
<1> QED
  BY <1>1, DumpAlways, PTL

-----------------------------------------------------------------------------
(* The table of example-05.                                                 *)

Garbage == Five!Garbage
Unset == Five!Unset
OfGarbage == Five!OfGarbage

(* An entry of the table: left over, of no key, or read with one. *)
Cell == [type : {"garbage", "none"} \union Letters,
         key  : KeyValues \union {"garbage"},
         data : {<< >>} \union Sectors \X Blocks]
Table == [Sectors -> [Blocks -> Cell]]

(* What is read is what is there; what is left over is all of it.           *)
Honest(t) == \A s \in Sectors, i \in Blocks :
  /\ t[s][i].type \in Letters => t[s][i].data = <<s, i>> /\ t[s][i].key = cardKey[s][t[s][i].type]
  /\ t[s][i].type = "garbage" => t[s][i] = Garbage

(* Sectors from n on are as they were, or partly read.                      *)
Ahead(t, n) == \A s \in Sectors : s >= n => \A i \in Blocks : t[s][i].type # "none"
AheadUnset(acc, n) == \A s \in Sectors : s >= n => acc[s] = Unset

(* A sector that has been tried: read whole, or not at all.                 *)
Opens(s) == \E j \in 1 .. Len(KEYS), l \in Letters : KEYS[j] = cardKey[s][l]
Whole(t, s) == \A i \in Blocks : t[s][i].type \in Letters
Done(t, acc, s) ==
  IF Opens(s) THEN acc[s] = s /\ Whole(t, s)
  ELSE acc[s] = Unset /\ \A i \in Blocks : t[s][i].type = "none"

Shape ==
  /\ pc5 \in {"off", "load", "auth", "read", "print", "failed"}
  /\ sector5 \in 0 .. NSectors /\ k \in 1 .. Len(KEYS)
  /\ letter5 \in Letters /\ left5 \subseteq Blocks
  /\ cardKey \in [Sectors -> [Letters -> KeyValues]]
  /\ pc5 = "off" => sector5 = 0 /\ k = 1
  /\ pc5 \in {"auth", "read"} => sector5 < NSectors
  /\ pc5 = "read" => left5 # {} /\ KEYS[k] = cardKey[sector5][letter5]
  /\ pc5 = "print" => sector5 = NSectors
  /\ pc5 \in {"off", "load"} \/ (pc5 = "auth" /\ letter5 = "b") => ~key_found

Tables ==
  /\ card \in Table /\ Honest(card) /\ Ahead(card, sector5)
  /\ access \in [Sectors -> Sectors \union {Unset, OfGarbage}]
  /\ \A s \in Sectors : access[s] \in {s, Unset, OfGarbage}
  /\ AheadUnset(access, sector5)

(* With nothing refused, the sectors before this one are done, the keys     *)
(* before this one do not open this one, and after key B it is known        *)
(* whether that opened it, which then has been read whole.                  *)
Tried ==
  /\ \A s \in Sectors : s < sector5 => Done(card, access, s)
  /\ sector5 < NSectors => \A j \in 1 .. k - 1, l \in Letters : KEYS[j] # cardKey[sector5][l]
  /\ pc5 = "auth" /\ letter5 = "a" =>
       IF key_found THEN KEYS[k] = cardKey[sector5]["b"] /\ Whole(card, sector5)
       ELSE KEYS[k] # cardKey[sector5]["b"]
  /\ pc5 = "read" => \A i \in Blocks \ left5 : card[sector5][i].type \in Letters

FiveInv == Shape /\ Tables /\ (~refused5 => Tried)

USE DEF Sectors, Blocks, Letters

LEMMA Sizes == NSectors \in Nat \ {0} /\ Len(KEYS) \in Nat \ {0}
BY SizeAssumption, KeyAssumption, EmptySeq

LEMMA SameNames ==
  /\ Five!Sectors = Sectors /\ Five!Blocks = Blocks /\ Five!Letters = Letters
  /\ Five!Places = Sectors \X Blocks
BY DEF Five!Sectors, Five!Blocks, Five!Letters, Five!Places

LEMMA GarbageCell == Garbage \in Cell /\ Garbage.type = "garbage" /\ Unset \notin Sectors
BY SizeAssumption DEF Garbage, Five!Garbage, Cell, Unset, Five!Unset

(* Of a sector that is left alone the same can be said. *)
LEMMA DoneKept ==
  ASSUME UNCHANGED cardKey, NEW s \in Sectors, Done(card, access, s), access'[s] = access[s],
         \A i \in Blocks : card'[s][i] = card[s][i]
  PROVE  Done(card, access, s)'
<1>1. Opens(s)' <=> Opens(s)
  BY DEF Opens
<1>2. CASE Opens(s)
  BY <1>1, <1>2 DEF Done, Whole
<1>3. CASE ~Opens(s)
  BY <1>1, <1>3 DEF Done
<1> QED
  BY <1>2, <1>3

-----------------------------------------------------------------------------
(* The end of a sector.                                                     *)

(* One that a key has opened.                                               *)
LEMMA AccessedKeeps ==
  ASSUME FiveInv, sector5 < NSectors, UNCHANGED cardKey,
         NEW t \in Table, Honest(t), Ahead(t, sector5),
         \A s \in Sectors : s < sector5 => t[s] = card[s],
         Five!Accessed(t), letter5' \in Letters, left5' \subseteq Blocks,
         ~refused5' => ~refused5 /\ Opens(sector5) /\ Whole(t, sector5)
  PROVE  FiveInv'
<1> USE Sizes
<1>0. sector5 \in Sectors /\ 3 \in Blocks
  BY DEF FiveInv, Shape
<1>1. /\ card' = t /\ sector5' = sector5 + 1 /\ k' = 1 /\ pc5' = "load" /\ key_found' = FALSE
  BY DEF Five!Accessed, Five!NextSector
<1>2. PICK v : /\ access' = [access EXCEPT ![sector5] = v]
               /\ v = IF t[sector5][3] = Garbage THEN OfGarbage ELSE t[sector5][3].data[1]
  BY DEF Five!Accessed, Garbage, OfGarbage
<1>3. /\ v \in {sector5, OfGarbage}
      /\ Whole(t, sector5) => v = sector5
  <2>1. t[sector5][3].type \in {"garbage"} \union Letters
    BY <1>0 DEF Ahead, Table, Cell
  <2>2. CASE t[sector5][3].type = "garbage"
    BY <1>0, <1>2, <2>2 DEF Honest, Whole
  <2>3. CASE t[sector5][3].type \in Letters
    <3>1. t[sector5][3].data[1] = sector5
      BY <1>0, <2>3 DEF Honest
    <3>2. t[sector5][3] # Garbage
      BY <2>3, GarbageCell
    <3> QED
      BY <1>2, <3>1, <3>2
  <2> QED
    BY <2>1, <2>2, <2>3
<1>4. \A s \in Sectors : access'[s] = IF s = sector5 THEN v ELSE access[s]
  BY <1>0, <1>2 DEF FiveInv, Tables
<1>5. Shape'
  BY <1>0, <1>1 DEF FiveInv, Shape
<1>6. Tables'
  <2>1. access' \in [Sectors -> Sectors \union {Unset, OfGarbage}]
    BY <1>0, <1>2, <1>3 DEF FiveInv, Tables
  <2>2. \A s \in Sectors : access'[s] \in {s, Unset, OfGarbage}
    BY <1>3, <1>4 DEF FiveInv, Tables
  <2>3. AheadUnset(access', sector5')
    BY <1>0, <1>1, <1>4 DEF FiveInv, Tables, AheadUnset
  <2>4. Ahead(t, sector5')
    BY <1>0, <1>1 DEF Ahead
  <2> QED
    BY <1>1, <2>1, <2>2, <2>3, <2>4 DEF Tables, Honest
<1>7. ASSUME ~refused5' PROVE Tried'
  <2>1. \A s \in Sectors : s < sector5 => Done(card, access, s)'
    <3> SUFFICES ASSUME NEW s \in Sectors, s < sector5 PROVE Done(card, access, s)'
      OBVIOUS
    <3>1. Done(card, access, s)
      BY <1>7 DEF FiveInv, Tried
    <3>2. access'[s] = access[s] /\ card'[s] = card[s]
      BY <1>0, <1>1, <1>4
    <3> QED
      BY <3>1, <3>2, DoneKept
  <2>2. Opens(sector5) /\ Whole(t, sector5) /\ access'[sector5] = sector5
    BY <1>0, <1>3, <1>4, <1>7
  <2>3. \A s \in Sectors : s = sector5 => Done(card, access, s)'
    BY <1>1, <2>2 DEF Done, Opens, Whole
  <2>4. \A s \in Sectors : s < sector5' => Done(card, access, s)'
    BY <1>0, <1>1, <2>1, <2>3
  <2> QED
    BY <1>1, <2>4 DEF Tried
<1> QED
  BY <1>5, <1>6, <1>7 DEF FiveInv

(* One that this key has not opened: the next key, or none is left.         *)
LEMMA NextKeyKeeps ==
  ASSUME FiveInv, sector5 < NSectors, UNCHANGED cardKey, ~key_found,
         Five!NextKey, letter5' \in Letters, left5' \subseteq Blocks,
         ~refused5' => ~refused5 /\ \A l \in Letters : KEYS[k] # cardKey[sector5][l]
  PROVE  FiveInv'
<1> USE Sizes
<1>0. sector5 \in Sectors /\ access' = access
  BY DEF FiveInv, Shape, Five!NextKey
<1>1. CASE k < Len(KEYS)
  <2>1. k' = k + 1 /\ pc5' = "load" /\ UNCHANGED <<sector5, key_found, card>>
    BY <1>1 DEF Five!NextKey
  <2>2. Shape'
    BY <1>0, <1>1, <2>1 DEF FiveInv, Shape
  <2>3. Tables'
    BY <1>0, <2>1 DEF FiveInv, Tables, Honest, Ahead, AheadUnset
  <2>4. ASSUME ~refused5' PROVE Tried'
    <3>1. \A j \in 1 .. k, l \in Letters : KEYS[j] # cardKey[sector5][l]
      BY <1>0, <2>4 DEF FiveInv, Shape, Tried
    <3>2. \A s \in Sectors : s < sector5 => Done(card, access, s)'
      BY <1>0, <2>1, <2>4, DoneKept DEF FiveInv, Tried
    <3> QED
      BY <1>0, <2>1, <3>1, <3>2 DEF FiveInv, Shape, Tried
  <2> QED
    BY <2>2, <2>3, <2>4 DEF FiveInv
<1>2. CASE k = Len(KEYS)
  <2>1. /\ card' = Five!Unreadable(sector5)
        /\ sector5' = sector5 + 1 /\ k' = 1 /\ pc5' = "load" /\ key_found' = FALSE
    BY <1>2 DEF Five!NextKey, Five!NextSector
  <2> DEFINE none(i) == [card[sector5][i] EXCEPT !.type = "none"]
  <2>2. card' = [card EXCEPT ![sector5] = [i \in Blocks |-> none(i)]]
    BY <2>1 DEF Five!Unreadable, Five!Blocks
  <2>3. \A i \in Blocks : none(i) \in Cell /\ none(i).type = "none"
    <3>1. \A i \in Blocks : card[sector5][i] \in Cell
      BY <1>0 DEF FiveInv, Tables, Table
    <3> QED
      BY <3>1 DEF Cell
  <2> HIDE DEF none
  <2>4. card' \in Table
    BY <1>0, <2>2, <2>3 DEF FiveInv, Tables, Table
  <2>5. \A s \in Sectors, i \in Blocks : card'[s][i] = IF s = sector5 THEN none(i) ELSE card[s][i]
    BY <1>0, <2>2 DEF FiveInv, Tables, Table
  <2>6. Shape'
    BY <1>0, <2>1 DEF FiveInv, Shape
  <2>7. Tables'
    <3>1. Honest(card)'
      BY <2>3, <2>5, SMTT(30) DEF FiveInv, Tables, Honest
    <3>2. Ahead(card, sector5)' /\ AheadUnset(access, sector5)'
      BY <1>0, <2>1, <2>5, SMTT(30) DEF FiveInv, Tables, Ahead, AheadUnset
    <3> QED
      BY <1>0, <2>4, <3>1, <3>2 DEF FiveInv, Tables
  <2>8. ASSUME ~refused5' PROVE Tried'
    <3>1. \A s \in Sectors : s < sector5 => Done(card, access, s)'
      BY <1>0, <2>5, <2>8, DoneKept DEF FiveInv, Tried
    <3>2. ~Opens(sector5)
      BY <1>0, <1>2, <2>8 DEF FiveInv, Tried, Opens
    <3>3. access[sector5] = Unset
      BY <1>0 DEF FiveInv, Shape, Tables, AheadUnset
    <3>4. \A s \in Sectors : s = sector5 => Done(card, access, s)'
      BY <1>0, <2>3, <2>5, <3>2, <3>3 DEF Done, Opens
    <3> QED
      BY <1>0, <2>1, <3>1, <3>4 DEF Tried
  <2> QED
    BY <2>6, <2>7, <2>8 DEF FiveInv
<1> QED
  BY <1>1, <1>2 DEF FiveInv, Shape

-----------------------------------------------------------------------------
(* The steps of example-05.                                                 *)

(* Those that leave the table alone, and the sector.                        *)
LEMMA SameTable ==
  ASSUME FiveInv, UNCHANGED <<cardKey, card, access, sector5, k>>, Shape',
         pc5' \notin {"auth", "read"} \/ (pc5' = "auth" /\ letter5' = "b"),
         ~refused5' => ~refused5
  PROVE  FiveInv'
<1>1. Tables'
  BY DEF FiveInv, Tables, Honest, Ahead, AheadUnset
<1>2. ASSUME ~refused5' PROVE Tried'
  <2>1. \A s \in Sectors : s < sector5 => Done(card, access, s)'
    BY <1>2, DoneKept DEF FiveInv, Tried
  <2> QED
    BY <1>2, <2>1 DEF FiveInv, Tried
<1> QED
  BY <1>1, <1>2 DEF FiveInv

LEMMA QuietSteps == FiveInv /\ (Five!Start \/ Five!Printing \/ Five!Lost) => FiveInv'
<1> SUFFICES ASSUME FiveInv, Five!Start \/ Five!Printing \/ Five!Lost PROVE FiveInv'
  OBVIOUS
<1>1. /\ UNCHANGED <<cardKey, sector5, k, letter5, left5, key_found, card, access, refused5>>
      /\ \/ pc5 = "off" /\ pc5' \in {"load", "failed"}
         \/ pc5 = "load" /\ sector5 = NSectors /\ pc5' = "print"
         \/ pc5' = "failed"
  BY DEF Five!Start, Five!Printing, Five!Lost
<1>2. Shape'
  BY <1>1, Sizes DEF FiveInv, Shape
<1> QED
  BY <1>1, <1>2, SameTable

LEMMA LoadFive == FiveInv /\ Five!Load => FiveInv'
<1> SUFFICES ASSUME FiveInv, Five!Load PROVE FiveInv'
  OBVIOUS
<1>0. /\ pc5 = "load" /\ sector5 < NSectors /\ letter5' = "b"
      /\ cardKey' = cardKey /\ left5' = left5 /\ ~key_found
  BY DEF Five!Load, FiveInv, Shape
<1>1. CASE pc5' = "auth" /\ UNCHANGED <<sector5, k, key_found, card, access, refused5>>
  <2>1. Shape'
    BY <1>0, <1>1, Sizes DEF FiveInv, Shape
  <2> QED
    BY <1>0, <1>1, <2>1, SameTable
<1>2. CASE Five!NextKey /\ refused5' = TRUE
  BY <1>0, <1>2, NextKeyKeeps DEF FiveInv, Shape
<1> QED
  BY <1>1, <1>2 DEF Five!Load

LEMMA AuthFive == FiveInv /\ Five!Auth => FiveInv'
<1> SUFFICES ASSUME FiveInv, Five!Auth PROVE FiveInv'
  OBVIOUS
<1>0. pc5 = "auth" /\ sector5 \in Sectors /\ sector5 < NSectors /\ cardKey' = cardKey
  BY Sizes DEF Five!Auth, FiveInv, Shape
<1>1. CASE /\ KEYS[k] = cardKey[sector5][letter5] /\ pc5' = "read" /\ left5' = Blocks
           /\ UNCHANGED <<sector5, k, letter5, key_found, card, access, refused5>>
  <2>1. Shape'
    BY <1>0, <1>1, Sizes DEF FiveInv, Shape
  <2>2. Tables'
    BY <1>0, <1>1 DEF FiveInv, Tables, Honest, Ahead, AheadUnset
  <2>3. ASSUME ~refused5' PROVE Tried'
    <3>1. \A s \in Sectors : s < sector5 => Done(card, access, s)'
      BY <1>0, <1>1, <2>3, DoneKept DEF FiveInv, Tried
    <3> QED
      BY <1>0, <1>1, <2>3, <3>1 DEF FiveInv, Tried
  <2> QED
    BY <2>1, <2>2, <2>3 DEF FiveInv
<1>2. CASE /\ letter5 = "b" /\ letter5' = "a" /\ (~refused5' => ~refused5 /\ KEYS[k] # cardKey[sector5]["b"])
           /\ UNCHANGED <<pc5, sector5, k, key_found, card, access, left5>>
  <2>1. Shape' /\ ~key_found'
    BY <1>0, <1>2, Sizes DEF FiveInv, Shape
  <2>2. Tables'
    BY <1>0, <1>2 DEF FiveInv, Tables, Honest, Ahead, AheadUnset
  <2>3. ASSUME ~refused5' PROVE Tried'
    <3>1. \A s \in Sectors : s < sector5 => Done(card, access, s)'
      BY <1>0, <1>2, <2>3, DoneKept DEF FiveInv, Tried
    <3> QED
      BY <1>0, <1>2, <2>1, <2>3, <3>1 DEF FiveInv, Tried
  <2> QED
    BY <2>1, <2>2, <2>3 DEF FiveInv
<1>3. CASE /\ letter5 = "a" /\ letter5' = "a" /\ left5' = left5
           /\ (~refused5' => ~refused5 /\ KEYS[k] # cardKey[sector5]["a"])
           /\ Five!AfterKey(key_found, card)
  <2>1. CASE key_found
    <3>1. Five!Accessed(card)
      BY <1>3, <2>1 DEF Five!AfterKey
    <3>2. ~refused5' => ~refused5 /\ Opens(sector5) /\ Whole(card, sector5)
      BY <1>0, <1>3, <2>1 DEF FiveInv, Shape, Tried, Opens
    <3> QED
      BY <1>0, <1>3, <3>1, <3>2, AccessedKeeps DEF FiveInv, Shape, Tables
  <2>2. CASE ~key_found
    <3>1. Five!NextKey
      BY <1>3, <2>2 DEF Five!AfterKey
    <3>2. ~refused5' => ~refused5 /\ \A l \in Letters : KEYS[k] # cardKey[sector5][l]
      BY <1>0, <1>3, <2>2 DEF FiveInv, Tried
    <3> QED
      BY <1>0, <1>3, <2>2, <3>1, <3>2, NextKeyKeeps DEF FiveInv, Shape
  <2> QED
    BY <2>1, <2>2
<1> QED
  BY <1>0, <1>1, <1>2, <1>3 DEF Five!Auth, Five!Blocks, FiveInv, Shape

(* The block that is read next. *)
LEMMA NextBlock == FiveInv /\ pc5 = "read" => Five!Min(left5) \in left5
BY FirstLeft DEF FiveInv, Shape, Min, Five!Min

(* After a block, with the table as it is then: either one block more was   *)
(* read, or nothing was and that was refused.                               *)
LEMMA GoKeeps ==
  ASSUME FiveInv, pc5 = "read", UNCHANGED cardKey,
         NEW t \in Table, Honest(t), Ahead(t, sector5),
         \A s \in Sectors : s < sector5 => t[s] = card[s],
         NEW found, Five!Go(found, t),
         \/ /\ found /\ refused5' = refused5
            /\ t[sector5][Five!Min(left5)].type \in Letters
            /\ \A i \in Blocks \ {Five!Min(left5)} : t[sector5][i] = card[sector5][i]
         \/ refused5' /\ t = card /\ found = key_found
  PROVE  FiveInv'
<1>0. /\ sector5 \in Sectors /\ sector5 < NSectors
      /\ left5 \subseteq Blocks /\ letter5 \in Letters /\ KEYS[k] = cardKey[sector5][letter5]
  BY Sizes DEF FiveInv, Shape
<1> DEFINE m == Five!Min(left5)
<1>1. /\ m \in left5 /\ left5' = left5 \ {m}
      /\ letter5' = IF left5' = {} THEN "a" ELSE letter5
  BY NextBlock DEF Five!Go
<1>2. ~refused5' => ~refused5 /\ found /\ \A i \in Blocks \ left5' : t[sector5][i].type \in Letters
  BY <1>0, <1>1 DEF FiveInv, Tried
<1> HIDE DEF m
<1>3. CASE left5' = {} /\ letter5 = "a"
  <2>1. Five!AfterKey(found, t)
    BY <1>3 DEF Five!Go
  <2>2. CASE found
    <3>1. Five!Accessed(t)
      BY <2>1, <2>2 DEF Five!AfterKey
    <3>2. ~refused5' => ~refused5 /\ Opens(sector5) /\ Whole(t, sector5)
      BY <1>0, <1>2, <1>3 DEF Whole, Opens, FiveInv, Shape
    <3> QED
      BY <1>0, <1>1, <3>1, <3>2, AccessedKeeps
  <2>3. CASE ~found
    <3>1. Five!NextKey /\ ~key_found /\ refused5'
      BY <2>1, <2>3 DEF Five!AfterKey
    <3> QED
      BY <1>0, <1>1, <3>1, NextKeyKeeps
  <2> QED
    BY <2>2, <2>3
<1>4. CASE ~(left5' = {} /\ letter5 = "a")
  <2>1. /\ key_found' = found /\ card' = t /\ UNCHANGED <<sector5, k, access>>
        /\ pc5' = IF left5' = {} THEN "auth" ELSE "read"
    BY <1>4 DEF Five!Go
  <2>2. Shape'
    BY <1>0, <1>1, <1>4, <2>1 DEF FiveInv, Shape
  <2>3. Tables'
    BY <2>1 DEF FiveInv, Tables, Honest, Ahead, AheadUnset
  <2>4. ASSUME ~refused5' PROVE Tried'
    <3>1. \A s \in Sectors : s < sector5 => Done(card, access, s)'
      BY <1>2, <2>1, <2>4, DoneKept DEF FiveInv, Tried
    <3>2. pc5' = "auth" => letter5 = "b" /\ found /\ Whole(t, sector5)
      BY <1>0, <1>2, <1>4, <2>1, <2>4 DEF Whole
    <3> QED
      BY <1>0, <1>2, <2>1, <2>4, <3>1, <3>2 DEF FiveInv, Tried, Whole
  <2> QED
    BY <2>2, <2>3, <2>4 DEF FiveInv
<1> QED
  BY <1>3, <1>4

LEMMA ReadFive == FiveInv /\ Five!Read => FiveInv'
<1> SUFFICES ASSUME FiveInv, Five!Read PROVE FiveInv'
  OBVIOUS
<1> DEFINE m == Five!Min(left5)
           new == [type |-> letter5, key |-> KEYS[k], data |-> <<sector5, m>>]
           t == [card EXCEPT ![sector5][m] = new]
<1>0. /\ pc5 = "read" /\ sector5 \in Sectors /\ cardKey' = cardKey
      /\ letter5 \in Letters /\ m \in Blocks /\ KEYS[k] = cardKey[sector5][letter5]
  BY NextBlock, Sizes DEF FiveInv, Shape, Five!Read
<1>1. CASE Five!Go(TRUE, t) /\ refused5' = refused5
  <2>1. /\ new \in Cell /\ new.type = letter5
        /\ new.data = <<sector5, m>> /\ new.key = cardKey[sector5][letter5]
    BY <1>0 DEF Cell, FiveInv, Shape
  <2> HIDE DEF new
  <2>2. t \in Table
    BY <1>0, <2>1 DEF FiveInv, Tables, Table
  <2>3. \A s \in Sectors, i \in Blocks :
          t[s][i] = IF s = sector5 /\ i = m THEN new ELSE card[s][i]
    BY <1>0 DEF FiveInv, Tables, Table
  <2>4. \A s \in Sectors : s < sector5 => t[s] = card[s]
    BY <1>0 DEF FiveInv, Tables, Table
  <2> HIDE DEF t, m
  <2>5. Honest(t) /\ Ahead(t, sector5)
    <3>1. Honest(card) /\ Ahead(card, sector5)
      BY DEF FiveInv, Tables
    <3> SUFFICES ASSUME NEW s \in Sectors, NEW i \in Blocks
                 PROVE  /\ t[s][i].type \in Letters =>
                             t[s][i].data = <<s, i>> /\ t[s][i].key = cardKey[s][t[s][i].type]
                        /\ t[s][i].type = "garbage" => t[s][i] = Garbage
                        /\ s >= sector5 => t[s][i].type # "none"
      BY DEF Honest, Ahead
    <3>2. CASE s = sector5 /\ i = m
      BY <1>0, <2>1, <2>3, <3>2
    <3>3. CASE ~(s = sector5 /\ i = m)
      <4>1. t[s][i] = card[s][i]
        BY <2>3, <3>3
      <4> QED
        BY <3>1, <4>1 DEF Honest, Ahead
    <3> QED
      BY <3>2, <3>3
  <2>6. t[sector5][m].type \in Letters /\ \A i \in Blocks \ {m} : t[sector5][i] = card[sector5][i]
    BY <1>0, <2>1, <2>3
  <2> QED
    BY <1>0, <1>1, <2>2, <2>4, <2>5, <2>6, GoKeeps DEF m
<1>2. CASE Five!Go(key_found, card) /\ refused5' = TRUE
  BY <1>0, <1>2, GoKeeps DEF FiveInv, Tables
<1>3. CASE /\ pc5' = "failed" /\ refused5' = TRUE
           /\ UNCHANGED <<sector5, k, letter5, left5, key_found, card, access>>
  <2>1. Shape'
    BY <1>0, <1>3 DEF FiveInv, Shape
  <2> QED
    BY <1>0, <1>3, <2>1, SameTable
<1> QED
  BY <1>1, <1>2, <1>3 DEF Five!Read

-----------------------------------------------------------------------------
(* The two programs.                                                        *)

(* DumpInv holds until the first has ended; its place in the card is one.   *)
BothInv ==
  /\ FiveInv
  /\ open \in {<< >>} \union Sectors \X Letters
  /\ pc5 = "off" => DumpInv
  /\ pc5 # "off" => pc \in {"print", "failed"}

LEMMA InitBoth == BothInit => BothInv
<1> SUFFICES ASSUME BothInit PROVE BothInv
  OBVIOUS
<1>0. Init /\ pc5 = "off" /\ Five!Fresh /\ open = << >> /\ cardKey \in [Sectors -> [Letters -> KeyValues]]
  BY DEF BothInit, Init
<1>1. card = [s \in Sectors |-> [i \in Blocks |-> Garbage]]
  BY <1>0 DEF Five!Fresh, Five!Sectors, Five!Blocks, Garbage
<1>2. access = [s \in Sectors |-> Unset]
  BY <1>0 DEF Five!Fresh, Five!Sectors, Unset
<1>3. Shape
  BY <1>0, Sizes DEF Five!Fresh, Shape
<1>4. Tables
  BY <1>0, <1>1, <1>2, <1>3, GarbageCell DEF Tables, Table, Honest, Ahead, AheadUnset
<1>5. Tried
  BY <1>0, Sizes DEF Tried, Five!Fresh
<1> QED
  BY <1>0, <1>3, <1>4, <1>5, DumpInit DEF BothInv, FiveInv

(* What the first does makes no difference to the second. *)
LEMMA FirstStep == BothInv /\ (Step \/ Lost) /\ UNCHANGED five => BothInv'
<1> SUFFICES ASSUME BothInv, Step \/ Lost, UNCHANGED five PROVE BothInv'
  OBVIOUS
<1>1. cardKey' = cardKey /\ pc \notin {"print", "failed"}
  BY DEF Step, Lost, ReadLine, OpenCard, Sector, PrintDump, Load, Auth, Read, Fill, cardVars
<1>2. pc5 = "off" /\ DumpInv
  BY <1>1 DEF BothInv
<1>3. DumpInv'
  BY <1>2, DumpStep DEF Next
<1>4. pc5' = "off" /\ open' \in {<< >>} \union Sectors \X Letters
  BY <1>2, <1>3 DEF five, DumpInv, TypeOK
<1>5. FiveInv'
  <2>1. UNCHANGED <<card, access, sector5, k, letter5, left5, key_found, refused5>>
    BY DEF five
  <2>2. Shape'
    BY <1>1, <1>2, <1>4, <2>1 DEF BothInv, FiveInv, Shape
  <2> QED
    BY <1>1, <1>4, <2>1, <2>2, SameTable DEF BothInv
<1> QED
  BY <1>3, <1>4, <1>5 DEF BothInv

LEMMA FiveStep ==
  BothInv /\ (StartFive \/ ((Five!Load \/ Five!Auth \/ Five!Read \/ Five!Printing \/ Five!Lost) /\ UNCHANGED own))
    => BothInv'
<1>1. ASSUME BothInv, StartFive PROVE BothInv'
  <2>1. Five!Start /\ pc \in {"print", "failed"} /\ pc' = pc
    BY <1>1 DEF StartFive
  <2>2. open' = open /\ pc5' # "off"
    BY <2>1 DEF Five!Start
  <2> QED
    BY <1>1, <2>1, <2>2, QuietSteps DEF BothInv
<1>2. ASSUME BothInv, Five!Load \/ Five!Auth \/ Five!Read \/ Five!Printing \/ Five!Lost, UNCHANGED own
      PROVE  BothInv'
  <2>1. pc5 # "off" /\ pc' = pc
    BY <1>2 DEF Five!Load, Five!Auth, Five!Read, Five!Printing, Five!Lost, own
  <2>2. pc5' # "off"
    BY <1>2 DEF Five!Load, Five!Auth, Five!Read, Five!Printing, Five!Lost, Five!NextKey, Five!NextSector,
                Five!AfterKey, Five!Accessed, Five!Go
  <2>3. open' \in {<< >>} \union Sectors \X Letters
    <3>1. letter5 \in Letters /\ (pc5 = "auth" => sector5 \in Sectors)
      BY <1>2, Sizes DEF BothInv, FiveInv, Shape
    <3>2. open' \in {open, << >>} \/ (pc5 = "auth" /\ open' = <<sector5, letter5>>)
      BY <1>2 DEF Five!Load, Five!Auth, Five!Read, Five!Printing, Five!Lost
    <3> QED
      BY <1>2, <3>1, <3>2 DEF BothInv
  <2>4. FiveInv'
    BY <1>2, QuietSteps, LoadFive, AuthFive, ReadFive DEF BothInv
  <2> QED
    BY <1>2, <2>1, <2>2, <2>3, <2>4 DEF BothInv
<1> QED
  BY <1>1, <1>2

LEMMA BothStepKeeps == BothInv /\ [BothNext]_allVars => BothInv'
<1>1. ASSUME BothInv, UNCHANGED allVars PROVE BothInv'
  <2>1. UNCHANGED <<vars, cardKey, open, pc, card, access, sector5, k, letter5, left5, key_found, refused5, pc5>>
    BY <1>1 DEF allVars, five, vars, cardVars
  <2>2. DumpInv => DumpInv'
    BY <2>1, DumpStep
  <2>3. Shape'
    BY <1>1, <2>1 DEF BothInv, FiveInv, Shape
  <2>4. Tables'
    BY <1>1, <2>1 DEF BothInv, FiveInv, Tables, Honest, Ahead, AheadUnset
  <2>5. Tried => Tried'
    BY <2>1 DEF Tried, Done, Whole, Opens
  <2> QED
    BY <1>1, <2>1, <2>2, <2>3, <2>4, <2>5 DEF BothInv, FiveInv
<1> QED
  BY <1>1, FirstStep, FiveStep DEF BothNext, BothStep

(* Its flags are truth values. *)
Flags == key_found \in BOOLEAN /\ refused5 \in BOOLEAN

LEMMA FlagsKept == Flags /\ [BothNext]_allVars => Flags'
<1> SUFFICES ASSUME Flags, [BothNext]_allVars PROVE Flags'
  OBVIOUS
<1>1. CASE UNCHANGED <<key_found, refused5>>
  BY <1>1 DEF Flags
<1>2. ASSUME Five!NextKey \/ (\E t : Five!Accessed(t)) PROVE key_found' \in BOOLEAN
  BY <1>2 DEF Five!NextKey, Five!Accessed, Five!NextSector, Flags
<1>3. ASSUME NEW f \in BOOLEAN, NEW t, Five!AfterKey(f, t) PROVE key_found' \in BOOLEAN
  BY <1>2, <1>3 DEF Five!AfterKey
<1>4. CASE Five!Load
  BY <1>2, <1>4 DEF Five!Load, Flags
<1>5. CASE Five!Auth
  <2>1. refused5' \in BOOLEAN
    BY <1>5 DEF Five!Auth, Flags
  <2>2. key_found' \in BOOLEAN
    BY <1>3, <1>5 DEF Five!Auth, Flags
  <2> QED
    BY <2>1, <2>2 DEF Flags
<1>6. CASE Five!Read
  <2>1. ASSUME NEW f \in BOOLEAN, NEW t, Five!Go(f, t) PROVE key_found' \in BOOLEAN
    BY <1>3, <2>1 DEF Five!Go
  <2> QED
    BY <1>6, <2>1 DEF Five!Read, Flags
<1> QED
  BY <1>1, <1>4, <1>5, <1>6
  DEF BothNext, BothStep, StartFive, Five!Start, Five!Printing, Five!Lost, five, allVars

(* What example-05 prints of a block it has read there with that key, and   *)
(* if nothing was refused it has read all that its keys open: none of it is *)
(* left over in memory it has not initialized.                              *)
THEOREM NothingLeftOver == BothSpec => []TableIsRead
<1>1. BothInv /\ Flags => TableIsRead
  <2> SUFFICES ASSUME BothInv, Flags PROVE TableIsRead
    OBVIOUS
  <2>1. Five!ShownWithItsKey
    BY DEF BothInv, FiveInv, Tables, Honest, Five!ShownWithItsKey, Five!Sectors, Five!Blocks,
           Five!Letters, Unset, OfGarbage
  <2>2. Five!NoGarbage
    <3> SUFFICES ASSUME pc5 = "print", ~refused5, NEW s \in Sectors
                 PROVE  IF Opens(s) THEN access[s] = s /\ \A i \in Blocks : card[s][i].type \in Letters
                        ELSE access[s] = Unset /\ \A i \in Blocks : card[s][i].type = "none"
      BY DEF Five!NoGarbage, Opens, Five!Sectors, Five!Blocks, Five!Letters, Unset
    <3>1. s < sector5
      BY Sizes DEF BothInv, FiveInv, Shape
    <3>2. Done(card, access, s)
      BY <3>1 DEF BothInv, FiveInv, Tried
    <3> QED
      BY <3>2 DEF Done, Whole
  <2>3. Five!TypeOK
    <3>1. ASSUME NEW s \in Sectors, NEW i \in Blocks
          PROVE  \/ card[s][i] = Garbage \/ card[s][i].type = "none"
                 \/ card[s][i].type \in Letters /\ card[s][i].key \in KeyValues
                    /\ card[s][i].data \in Sectors \X Blocks
      <4>1. card[s][i].type \in {"garbage", "none"} \union Letters
        BY DEF BothInv, FiveInv, Tables, Table, Cell
      <4>2. CASE card[s][i].type \in Letters
        <5>1. card[s][i].data = <<s, i>> /\ card[s][i].key = cardKey[s][card[s][i].type]
          BY <4>2 DEF BothInv, FiveInv, Tables, Honest
        <5>2. cardKey[s][card[s][i].type] \in KeyValues
          BY <4>2 DEF BothInv, FiveInv, Shape
        <5> QED
          BY <4>2, <5>1, <5>2
      <4> QED
        BY <4>1, <4>2 DEF BothInv, FiveInv, Tables, Honest
    <3> QED
      BY <3>1, SameNames DEF Five!TypeOK, BothInv, FiveInv, Shape, Tables, Flags, Garbage, Unset, OfGarbage
  <2> QED
    BY <2>1, <2>2, <2>3 DEF TableIsRead
<1>2. BothInit => Flags
  BY DEF BothInit, Five!Fresh, Flags
<1> QED
  BY <1>1, <1>2, InitBoth, BothStepKeeps, FlagsKept, PTL DEF BothSpec
=============================================================================
