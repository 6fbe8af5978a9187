------------------------------ MODULE SectorDump ------------------------------
(* example-05: it tries a few known keys on every sector of a MIFARE 1K     *)
(* card, as key B and then as key A, reads the blocks each opens, and       *)
(* prints them all.  Its table of blocks is a local variable that nothing   *)
(* initializes but the reads.  Every command to the card is one step.       *)
EXTENDS Integers, Sequences, FiniteSetsExt

CONSTANTS
  NSectors,   \* 16
  KeyValues,
  KEYS        \* the keys it tries, in their order

Sectors == 0 .. NSectors - 1
Blocks == 0 .. 3               \* of a sector; the last one is its trailer
Letters == {"a", "b"}
Places == Sectors \X Blocks

VARIABLES
  cardKey,    \* card: sector -> letter -> key
  open,       \* card: the sector and letter it is authenticated for, or << >>
  pc,
  sector, k,  \* the loops over the sectors and the keys
  letter,     \* the key in use
  left,       \* the blocks still to read with it
  key_found,
  card,       \* the table: sector -> block -> [type, key, data]
  access,     \* sector -> whose trailer its access bits are of
  refused     \* history: has the card or the reader refused a command it could do

own == <<pc, sector, k, letter, left, key_found, card, access, refused>>
vars == <<cardKey, open, own>>

(* What the stack held: not what any command gave. *)
Garbage == [type |-> "garbage", key |-> "garbage", data |-> << >>]
OfGarbage == -1
Unset == -2

TypeOK ==
  /\ open \in {<< >>} \union Sectors \X Letters
  /\ pc \in {"off", "load", "auth", "read", "print", "failed"}
  /\ sector \in 0 .. NSectors /\ k \in 1 .. Len(KEYS)
  /\ letter \in Letters /\ left \subseteq Blocks
  /\ key_found \in BOOLEAN /\ refused \in BOOLEAN
  /\ \A s \in Sectors, i \in Blocks : LET b == card[s][i] IN
       \/ b = Garbage
       \/ b.type = "none"
       \/ b.type \in Letters /\ b.key \in KeyValues /\ b.data \in Places
  /\ access \in [Sectors -> Sectors \union {Unset, OfGarbage}]

Fresh ==
  /\ sector = 0 /\ k = 1
  /\ letter = "b" /\ left = {}
  /\ key_found = FALSE
  /\ card = [s \in Sectors |-> [i \in Blocks |-> Garbage]]
  /\ access = [s \in Sectors |-> Unset]
  /\ refused = FALSE

Init ==
  /\ cardKey \in [Sectors -> [Letters -> KeyValues]]
  /\ open = << >>
  /\ pc = "off"
  /\ Fresh

(* The reader, the card, and the two features of its ATR. *)
Start ==
  /\ pc = "off"
  /\ pc' \in {"load", "failed"}
  /\ UNCHANGED <<cardKey, open, sector, k, letter, left, key_found, card, access, refused>>

-----------------------------------------------------------------------------
(* A slip of Unreadable: only the trailer is said not to be read.          *)
TypesOfTrailer(s) == [card EXCEPT ![s][3].type = "none"]

-----------------------------------------------------------------------------
(* No key opened the sector. *)
Unreadable(s) == [card EXCEPT ![s] = [i \in Blocks |-> [@[i] EXCEPT !.type = "none"]]]

NextSector == sector' = sector + 1 /\ k' = 1 /\ key_found' = FALSE /\ pc' = "load"

(* The next key, or no key is left for the sector. *)
NextKey ==
  /\ IF k < Len(KEYS)
     THEN k' = k + 1 /\ pc' = "load" /\ UNCHANGED <<sector, key_found, card>>
     ELSE card' = Unreadable(sector) /\ NextSector
  /\ UNCHANGED access

(* The access bits, from the trailer as it is in the table. *)
Accessed(table) ==
  /\ access' = [access EXCEPT ![sector] =
       IF table[sector][3] = Garbage THEN OfGarbage ELSE table[sector][3].data[1]]
  /\ card' = table
  /\ NextSector

(* The end of a key, read with as key B and then as key A. *)
AfterKey(found, table) == IF found THEN Accessed(table) ELSE NextKey

(* Load Keys; if it is refused, the next key. *)
Load ==
  /\ pc = "load" /\ sector < NSectors
  /\ letter' = "b"
  /\ \/ pc' = "auth" /\ UNCHANGED <<sector, k, key_found, card, access, refused>>
     \/ NextKey /\ refused' = TRUE
  /\ UNCHANGED <<cardKey, open, left>>

(* General Authenticate, as key B and, after it, as key A. *)
Auth ==
  /\ pc = "auth"
  /\ \/ /\ KEYS[k] = cardKey[sector][letter]
        /\ open' = <<sector, letter>>
        /\ pc' = "read" /\ left' = Blocks
        /\ UNCHANGED <<sector, k, letter, key_found, card, access, refused>>
     \/ /\ open' = << >>
        /\ refused' = (refused \/ KEYS[k] = cardKey[sector][letter])
        /\ letter' = "a"
        /\ IF letter = "b" THEN UNCHANGED <<pc, sector, k, key_found, card, access>>
           ELSE AfterKey(key_found, card)
        /\ UNCHANGED left
  /\ UNCHANGED cardKey

(* On to the next block; after the last, key A follows key B. *)
Go(found, table) ==
  /\ left' = left \ {Min(left)}
  /\ letter' = IF left' = {} THEN "a" ELSE letter
  /\ IF left' = {} /\ letter = "a" THEN AfterKey(found, table)
     ELSE /\ key_found' = found /\ card' = table
          /\ pc' = IF left' = {} THEN "auth" ELSE "read"
          /\ UNCHANGED <<sector, k, access>>

(* Read Binary of the next block, which the card gives if the sector is    *)
(* open.  The first block refused under key B ends the program; under key  *)
(* A it is passed over.                                                    *)
Read ==
  /\ pc = "read"
  /\ \/ /\ open # << >> /\ open[1] = sector
        /\ Go(TRUE,
              [card EXCEPT ![sector][Min(left)] =
                 [type |-> letter, key |-> KEYS[k], data |-> <<sector, Min(left)>>]])
        /\ UNCHANGED <<open, refused>>
     \/ /\ open' \in {open, << >>}
        /\ refused' = TRUE
        /\ IF letter = "a" THEN Go(key_found, card)
           ELSE pc' = "failed" /\ UNCHANGED <<sector, k, letter, left, key_found, card, access>>
  /\ UNCHANGED cardKey

Printing ==
  /\ pc = "load" /\ sector = NSectors
  /\ pc' = "print"
  /\ UNCHANGED <<cardKey, open, sector, k, letter, left, key_found, card, access, refused>>

(* A PC/SC error, which nobody catches. *)
Lost ==
  /\ pc \in {"load", "auth", "read"} /\ sector < NSectors
  /\ pc' = "failed"
  /\ UNCHANGED <<cardKey, open, sector, k, letter, left, key_found, card, access, refused>>

Step == Start \/ Load \/ Auth \/ Read \/ Printing
Next == Step \/ Lost

Spec == Init /\ [][Next]_vars

-----------------------------------------------------------------------------
(* Properties.                                                             *)

(* A block in the table with a key was read at its own place with that     *)
(* key, which is the card's; access bits are those of the same sector,     *)
(* unless they are made of a trailer that was never read.                  *)
ShownWithItsKey == \A s \in Sectors :
  /\ \A i \in Blocks : card[s][i].type \in Letters =>
       card[s][i].data = <<s, i>> /\ card[s][i].key = cardKey[s][card[s][i].type]
  /\ access[s] \in {s, Unset, OfGarbage}

(* With nothing refused, nothing printed is left over from the stack: a    *)
(* sector that one of the keys opens is read whole, and no other sector    *)
(* is said to be read.                                                     *)
NoGarbage == pc = "print" /\ ~refused => \A s \in Sectors :
  IF \E j \in 1 .. Len(KEYS), l \in Letters : KEYS[j] = cardKey[s][l]
  THEN access[s] = s /\ \A i \in Blocks : card[s][i].type \in Letters
  ELSE access[s] = Unset /\ \A i \in Blocks : card[s][i].type = "none"
=============================================================================
