------------------------------ MODULE MifareDump ------------------------------
(* dump-mifare-card (example-utils): it reads a file of sector keys, then  *)
(* every sector of a MIFARE 1K card with them, and prints each block with  *)
(* the key that opened it and its access bits.  Every command to the card  *)
(* is one step, and so is every line of the file.                          *)
EXTENDS Integers, Sequences, FiniteSets, FiniteSetsExt

CONSTANTS
  NSectors,     \* 16
  KeyValues,
  TrailerBits,  \* the access bits a sector of the card may have
  NoKey,        \* "-" in the file
  Lines,        \* what a line of the file may say: see Line, or Malformed
  Malformed,    \* a line of another format
  Missing,      \* in keys: the file has no line for the sector
  MaxLines      \* bound: the lines of the file

Sectors == 0 .. NSectors - 1
Blocks == 0 .. 3                   \* of a sector; the last one is its trailer
Letters == {"a", "b"}
Line == [sector : Nat, key : [Letters -> KeyValues \union {NoKey}], use : [Blocks -> Letters]]
Bits == [C1 : BOOLEAN, C2 : BOOLEAN, C3 : BOOLEAN]
Access == [set : BOOLEAN, bits : Bits]

ASSUME SizeAssumption == NSectors \in Nat \ {0} /\ NoKey \notin KeyValues /\ MaxLines \in Nat
ASSUME BitsAssumption == TrailerBits \subseteq Bits
ASSUME LineAssumption == Lines \subseteq Line \union {Malformed}

VARIABLES
  file,      \* the lines not yet read
  keys,      \* sector -> its line, or Missing
  cardKey,   \* card: sector -> letter -> key
  cardBits,  \* card: sector -> the access bits in its trailer
  open,      \* card: the sector and letter it is authenticated for, or << >>
  pc, sector,
  letter,    \* the key in use
  left,      \* the blocks still to read with it
  shown,     \* sector -> block -> [key, data, access], the vector card
  refused    \* history: has the card or the reader refused a command it could do

cardVars == <<cardKey, cardBits>>
vars == <<file, keys, cardVars, open, pc, sector, letter, left, shown, refused>>

NoBits == [C1 |-> FALSE, C2 |-> FALSE, C3 |-> FALSE]
Unread == [key |-> "none", data |-> << >>, access |-> [set |-> FALSE, bits |-> NoBits]]

TypeOK ==
  /\ keys \in [Sectors -> Lines \union {Missing}]
  /\ open \in {<< >>} \union Sectors \X Letters
  /\ pc \in {"keys", "sector", "load", "auth", "read", "fill", "print", "failed"}
  /\ sector \in 0 .. NSectors
  /\ letter \in Letters /\ left \subseteq Blocks
  /\ shown \in [Sectors -> [Blocks -> [key : Letters \union {"none"},
                                        data : {<< >>} \union Sectors \X Blocks,
                                        access : Access]]]

Init ==
  /\ file \in UNION {[1 .. n -> Lines] : n \in 0 .. MaxLines}
  /\ keys = [s \in Sectors |-> Missing]
  /\ cardKey \in [Sectors -> [Letters -> KeyValues]]
  /\ cardBits \in [Sectors -> TrailerBits]
  /\ open = << >>
  /\ pc = "keys" /\ sector = 0 /\ letter = "a" /\ left = {}
  /\ shown = [s \in Sectors |-> [i \in Blocks |-> Unread]]
  /\ refused = FALSE

-----------------------------------------------------------------------------
(* Slips a change of the program could make, for the properties to catch.  *)
Retry(ok) == IF ok THEN left \ {Min(left)} ELSE left      \* of Rest
ReadOn(ok) == {Min(left) + 1}                             \* of Rest
SkipTrailer(s, k) ==                                      \* of BlocksOf
  {i \in Blocks \ {3} : keys[s].use[i] = k}
LastTrailer(s) == IF s = 0 THEN 0 ELSE s - 1              \* of TrailerSector

(* read_keys: every block of a sector is read with a key the line names. *)
Valid(l) == l # Malformed /\ \A i \in Blocks : l.key[l.use[i]] # NoKey

(* The next line of the file.  A sector named twice gets the later line; a *)
(* number no sector has is stored too, and never looked up.                *)
ReadLine ==
  /\ pc = "keys" /\ file # << >>
  /\ file' = Tail(file)
  /\ \/ /\ Valid(Head(file))
        /\ keys' = [s \in Sectors |-> IF s = Head(file).sector THEN Head(file) ELSE keys[s]]
        /\ UNCHANGED pc
     \/ /\ ~Valid(Head(file))
        /\ pc' = "failed"
        /\ UNCHANGED keys
  /\ UNCHANGED <<cardVars, open, sector, letter, left, shown, refused>>

(* Then the reader and the card: a wait, the ATR and its two features.     *)
OpenCard ==
  /\ pc = "keys" /\ file = << >>
  /\ pc' \in {"sector", "failed"}
  /\ UNCHANGED <<file, keys, cardVars, open, sector, letter, left, shown, refused>>

-----------------------------------------------------------------------------
(* read_mifare_1k.                                                         *)

BlocksOf(s, k) == {i \in Blocks : keys[s].use[i] = k}

NextSector == sector' = sector + 1 /\ pc' = "sector"

UseKey(k) == pc' = "load" /\ letter' = k /\ left' = BlocksOf(sector, k)

(* Nothing is known of a sector's blocks when it begins; without a key     *)
(* nothing can be.                                                         *)
Sector ==
  /\ pc = "sector" /\ sector < NSectors
  /\ shown' = [shown EXCEPT ![sector] = [i \in Blocks |-> Unread]]
  /\ \/ /\ keys[sector] = Missing
        /\ NextSector
        /\ UNCHANGED <<letter, left>>
     \/ /\ keys[sector] # Missing
        /\ UseKey(IF BlocksOf(sector, "a") # {} THEN "a" ELSE "b")
        /\ UNCHANGED sector
  /\ UNCHANGED <<file, keys, cardVars, open, refused>>

PrintDump ==
  /\ pc = "sector" /\ sector = NSectors
  /\ pc' = "print"
  /\ UNCHANGED <<file, keys, cardVars, open, sector, letter, left, shown, refused>>

(* Load Keys: whatever is wrong with it, the rest of the sector is skipped. *)
Load ==
  /\ pc = "load"
  /\ \/ pc' = "auth" /\ UNCHANGED <<sector, refused>>
     \/ NextSector /\ refused' = TRUE
  /\ UNCHANGED <<file, keys, cardVars, open, letter, left, shown>>

(* General Authenticate: the card opens the sector for its own key only,   *)
(* and closes what was open otherwise.                                     *)
Opened(s, k) == IF keys[s].key[k] = cardKey[s][k] THEN <<s, k>> ELSE << >>

Auth ==
  /\ pc = "auth"
  /\ \/ /\ open' = Opened(sector, letter)
        /\ \/ open' # << >> /\ pc' = "read" /\ UNCHANGED sector
           \/ open' = << >> /\ NextSector
        /\ UNCHANGED refused
     \/ /\ open' = << >> /\ refused' = TRUE
        /\ NextSector
  /\ UNCHANGED <<file, keys, cardVars, letter, left, shown>>

(* A slip of what follows: the second key is never tried. *)
SameSession ==                                            \* of AfterKey
  IF letter = "a" /\ BlocksOf(sector, "b") # {}
  THEN pc' = "read" /\ letter' = "b" /\ left' = BlocksOf(sector, "b")
  ELSE pc' = "fill" /\ left' = {} /\ UNCHANGED letter

(* After the last block of a key: the other key, or the access bits.       *)
AfterKey ==
  IF letter = "a" /\ BlocksOf(sector, "b") # {}
  THEN UseKey("b")
  ELSE pc' = "fill" /\ left' = {} /\ UNCHANGED letter

Rest(ok) == left \ {Min(left)}

(* Read Binary of the next block, in their order: the card gives it if the *)
(* sector is open, for whatever key.  A refused read is passed over; the   *)
(* card may have closed the sector with it.                                *)
Read ==
  /\ pc = "read"
  /\ \E ok \in BOOLEAN :
       /\ ok => open # << >> /\ open[1] = sector
       /\ shown' = IF ok THEN [shown EXCEPT ![sector][Min(left)] =
                                 [@ EXCEPT !.key = letter, !.data = <<sector, Min(left)>>]]
                   ELSE shown
       /\ open' \in IF ok THEN {open} ELSE {open, << >>}
       /\ refused' = (refused \/ ~ok)
       /\ IF Rest(ok) = {} THEN AfterKey
          ELSE left' = Rest(ok) /\ UNCHANGED <<pc, letter>>
  /\ UNCHANGED <<file, keys, cardVars, sector>>

(* C1 and C3 come from the same bits of byte 7, C2 from byte 8. *)
ShownBits(b) == [C1 |-> b.C1, C2 |-> b.C2, C3 |-> b.C1]

TrailerSector(s) == s

Fill ==
  /\ pc = "fill"
  /\ LET t == shown[TrailerSector(sector)][3] IN
     shown' = IF t.key = "none" THEN shown
              ELSE [shown EXCEPT ![sector] =
                      [i \in Blocks |-> [@[i] EXCEPT !.access =
                        [set |-> TRUE, bits |-> ShownBits(cardBits[t.data[1]])]]]]
  /\ NextSector
  /\ UNCHANGED <<file, keys, cardVars, open, letter, left, refused>>

(* A PC/SC error, as when the card is taken away, ends the program before  *)
(* it has printed anything.                                                *)
Lost ==
  /\ pc \in {"load", "auth", "read"}
  /\ pc' = "failed"
  /\ UNCHANGED <<file, keys, cardVars, open, sector, letter, left, shown, refused>>

Step == ReadLine \/ OpenCard \/ Sector \/ PrintDump \/ Load \/ Auth \/ Read \/ Fill

Next == Step \/ Lost

Spec == Init /\ [][Next]_vars
-----------------------------------------------------------------------------
(* Properties.                                                             *)

(* A block printed with a key was read with that key, which is the card's, *)
(* in its own sector, and it is the key the file names for the block.      *)
ShownWithItsKey == \A s \in Sectors, i \in Blocks :
  LET b == shown[s][i] IN
  b.key # "none" => /\ b.data = <<s, i>>
                    /\ keys[s].use[i] = b.key
                    /\ keys[s].key[b.key] = cardKey[s][b.key]

(* Access bits are printed only for a sector whose trailer was read, and   *)
(* are not those of another sector, as far as they are read at all: C3     *)
(* repeats C1 and says nothing.                                            *)
AccessOfSector == \A s \in Sectors, i \in Blocks :
  LET a == shown[s][i].access IN
  a.set => shown[s][3].key # "none" /\ a.bits.C1 = cardBits[s].C1 /\ a.bits.C2 = cardBits[s].C2

(* With nothing refused, every block whose keys are right is printed: the  *)
(* blocks of key A in any case, those of key B unless key A was tried and  *)
(* wrong.                                                                  *)
Right(s, k) == keys[s].key[k] = cardKey[s][k]
AllShown == pc = "print" /\ ~refused =>
  \A s \in {q \in Sectors : keys[q] # Missing}, i \in Blocks :
    /\ Right(s, keys[s].use[i])
    /\ keys[s].use[i] = "b" => BlocksOf(s, "a") = {} \/ Right(s, "a")
    => shown[s][i].key = keys[s].use[i]

(* "fill access bits if they are available" (dump-mifare-card.cpp:408): a  *)
(* printed dump has the access bits of every trailer that was read.        *)
AccessIfAvailable == pc = "print" =>
  \A s \in Sectors : shown[s][3].key # "none" => \A i \in Blocks : shown[s][i].access.set
=============================================================================
