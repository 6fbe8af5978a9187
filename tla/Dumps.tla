-------------------------------- MODULE Dumps --------------------------------
(* The two programs that dump a MIFARE 1K card, run one after the other on  *)
(* a card that stays on the reader: dump-mifare-card first, and example-05  *)
(* when it has ended.  They share the card, with whatever sector the first  *)
(* one left open; the memory of a program that has ended is gone.           *)
EXTENDS MifareDump

CONSTANTS
  KEYS,      \* the keys example-05 tries
  CardKeys   \* the keys the card may have

ASSUME KeyAssumption == KEYS \in Seq(KeyValues) \ {<< >>}
ASSUME CardAssumption == CardKeys \subseteq KeyValues

VARIABLES pc5, sector5, k, letter5, left5, key_found, card, access, refused5

Five == INSTANCE SectorDump WITH
  pc <- pc5, sector <- sector5, letter <- letter5, left <- left5, refused <- refused5

five == <<pc5, sector5, k, letter5, left5, key_found, card, access, refused5>>
allVars == <<vars, five>>

BothInit ==
  /\ Init
  /\ cardKey \in [Sectors -> [Letters -> CardKeys]]
  /\ pc5 = "off" /\ Five!Fresh

-----------------------------------------------------------------------------
own == <<file, keys, cardBits, pc, sector, letter, left, shown, refused>>

(* The first program has ended, and the second finds the card and its two  *)
(* features, or does not.                                                  *)
StartFive ==
  /\ pc \in {"print", "failed"}
  /\ Five!Start
  /\ file' = << >> /\ keys' = [s \in Sectors |-> Missing]
  /\ sector' = 0 /\ letter' = "a" /\ left' = {}
  /\ shown' = [s \in Sectors |-> [i \in Blocks |-> Unread]]
  /\ refused' = FALSE
  /\ UNCHANGED <<cardBits, pc>>

BothStep ==
  \/ Step /\ UNCHANGED five
  \/ StartFive
  \/ (Five!Load \/ Five!Auth \/ Five!Read \/ Five!Printing) /\ UNCHANGED own

BothNext ==
  \/ BothStep
  \/ Lost /\ UNCHANGED five
  \/ Five!Lost /\ UNCHANGED own

BothSpec == BothInit /\ [][BothNext]_allVars /\ WF_allVars(BothStep)

-----------------------------------------------------------------------------
(* Properties.                                                             *)

(* The table of example-05 is of its type; what it says of a block is what *)
(* was read there with that key; and when nothing was refused, nothing is  *)
(* printed of it that no read or authentication gave (its memory is not    *)
(* initialized), whatever the program before it left open.                 *)
TableIsRead == Five!TypeOK /\ Five!ShownWithItsKey /\ Five!NoGarbage

(* Both programs come to an end, whatever the card refuses. *)
BothEnd == <>(pc5 \in {"print", "failed"})
=============================================================================
