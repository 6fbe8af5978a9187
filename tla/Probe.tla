--------------------------------- MODULE Probe ---------------------------------
(* example-08: it sends a card the SELECT command of every application it  *)
(* knows and shows the tags of each answer.  The answer is taken apart by  *)
(* BerTlv, step by step; the command is written as text and read back by   *)
(* parse_apdu.                                                             *)
EXTENDS BerTlv

CONSTANTS
  Lists,     \* the lists the program may be built with: sequences of
             \* [bar, aid], is there a "|", and the characters before it
  Cards,     \* cards: functions from the names of their applications,
             \* sequences of bytes, to what each answers with status 9000
  Junk       \* in an answer: it encodes nothing

(* Characters: the digits 0 to 15, a space, and the others. *)
SPACE == 16
Characters == 0 .. 17

(* An answer has its bytes; the elements they encode, or Junk; and whether *)
(* they are the beginning of an encoding only.  The length of an AID is    *)
(* sent in one byte.                                                       *)
ASSUME ListAssumption ==
  Lists \subseteq Seq([bar : BOOLEAN, aid : {s \in Seq(Characters) : Len(s) < 2 * BYTE}])
ASSUME CardAssumption == \A c \in Cards : \A a \in DOMAIN c :
  /\ a \in Seq(Byte) \ {<< >>} /\ Len(a) < BYTE
  /\ c[a].bytes \in Seq(Byte) /\ c[a].cut \in BOOLEAN
  /\ c[a].elements # Junk => \E x \in Encodings :
       /\ c[a].elements = x.elements /\ IsPrefix(c[a].bytes, x.bytes)
       /\ ~c[a].cut => c[a].bytes = x.bytes

VARIABLES
  KNOWN_APPLICATIONS,
  card,      \* the card: its applications and their answers
  selected,  \* card: the application selected last, or << >>
  refused,   \* history: has the card refused to select one of its own
  pc, k,     \* k: the entry in hand
  found,     \* history: the entries reported as found
  printed    \* what is shown of the last one: tags, or "nothing", "no FCI"

cardVars == <<card, selected, refused>>
vars == <<KNOWN_APPLICATIONS, tlvVars, cardVars, pc, k, found, printed>>

Nothing == [tags |-> << >>, what |-> "nothing"]
NoFci == [tags |-> << >>, what |-> "no FCI"]

TypeOK ==
  /\ TlvTypeOK
  /\ selected \in DOMAIN card \union {<< >>}
  /\ pc \in {"next", "parse", "end", "failed"}
  /\ k \in 1 .. Len(KNOWN_APPLICATIONS) + 1
  /\ found \subseteq 1 .. k
  /\ printed.tags \in Seq(Seq(Byte))
  /\ printed.what \in {"nothing", "no FCI", "FCI"}

Init ==
  /\ TlvInit
  /\ KNOWN_APPLICATIONS \in Lists
  /\ card \in Cards
  /\ selected = << >> /\ refused = FALSE
  /\ pc = "next" /\ k = 1
  /\ found = {} /\ printed = Nothing

-----------------------------------------------------------------------------
(* Slips a change of the program could make, for the properties to catch.  *)
CountDigits(aid) == Len(aid) % BYTE                       \* of SizeOf

-----------------------------------------------------------------------------
(* parse_apdu: pairs of digits, with spaces between them; at anything      *)
(* else it throws.                                                         *)
Throws == -1
Between(c) == c = SPACE
parse_apdu(text) ==
  LET from[i \in 1 .. Len(text) + 2] ==
        IF i > Len(text) THEN << >>
        ELSE IF Between(text[i]) THEN from[i + 1]
        ELSE IF i = Len(text) \/ text[i] >= SPACE \/ text[i + 1] >= SPACE THEN <<Throws>>
        ELSE <<16 * text[i] + text[i + 1]>> \o from[i + 2]
  IN  from[1]

(* select_app_apdu: "00  A4  04 00 ", the size in two digits, and the AID. *)
SizeOf(aid) == (Len(aid) \div 2) % BYTE
SelectText(aid) ==
  <<0, 0, SPACE, SPACE, 10, 4, SPACE, SPACE, 0, 4, SPACE, 0, 0, SPACE>>
  \o <<SizeOf(aid) \div 16, SizeOf(aid) % 16, SPACE>> \o aid
select_app_apdu(aid) == parse_apdu(SelectText(aid))
CanSelect(aid) == Len(aid) % 2 = 0 /\ Throws \notin Range(select_app_apdu(aid))

(* The applications a SELECT command is for: those whose name begins with  *)
(* the one it gives.                                                       *)
Meant(command) ==
  {a \in DOMAIN card : \E n \in 0 .. Len(a) : command = <<0, 164, 4, 0, n>> \o SubSeq(a, 1, n)}

NextEntry == k' = k + 1 /\ pc' = "next"

Entry == KNOWN_APPLICATIONS[k]
More == pc = "next" /\ k <= Len(KNOWN_APPLICATIONS)

Skip ==
  /\ More /\ ~Entry.bar
  /\ NextEntry
  /\ UNCHANGED <<KNOWN_APPLICATIONS, tlvVars, cardVars, found, printed>>

(* A text that is no command ends the program with an exception.           *)
BadEntry ==
  /\ More /\ Entry.bar /\ ~CanSelect(Entry.aid)
  /\ pc' = "failed"
  /\ UNCHANGED <<KNOWN_APPLICATIONS, tlvVars, cardVars, k, found, printed>>

(* Status 9000: what comes before it is taken apart. *)
Select ==
  /\ More /\ Entry.bar /\ CanSelect(Entry.aid)
  /\ selected' \in Meant(select_app_apdu(Entry.aid))
  /\ Parse(card[selected'].bytes)
  /\ found' = found \union {k}
  /\ printed' = Nothing
  /\ pc' = "parse"
  /\ UNCHANGED <<KNOWN_APPLICATIONS, card, refused, k>>

(* Any other status, for which the card need not have a reason. *)
NotSelected ==
  /\ More /\ Entry.bar /\ CanSelect(Entry.aid)
  /\ refused' = (refused \/ Meant(select_app_apdu(Entry.aid)) # {})
  /\ NextEntry
  /\ UNCHANGED <<KNOWN_APPLICATIONS, tlvVars, card, selected, found, printed>>

ParseStep ==
  /\ pc = "parse" /\ TlvStep
  /\ UNCHANGED <<KNOWN_APPLICATIONS, cardVars, pc, k, found, printed>>

(* Nobody catches what BerTlv throws. *)
ParseThrows ==
  /\ pc = "parse" /\ outcome = "throws"
  /\ pc' = "failed"
  /\ UNCHANGED <<KNOWN_APPLICATIONS, tlvVars, cardVars, k, found, printed>>

(* format_fci: the tags in the FCI template, 6F; without one, the answer   *)
(* is printed as it is.                                                    *)
TAG_EMV_FCI == <<111>>
Fci(c) == find_by_tag(c, TAG_EMV_FCI)
TagsIn(c) == [j \in 1 .. Len(c) |-> c[j].tag]
Shown(c) == IF Fci(c) = << >> THEN NoFci
            ELSE [tags |-> TagsIn(Fci(c)[1].children), what |-> "FCI"]

Format ==
  /\ pc = "parse" /\ outcome = "done"
  /\ printed' = Shown(Children)
  /\ NextEntry
  /\ UNCHANGED <<KNOWN_APPLICATIONS, tlvVars, cardVars, found>>

Finish ==
  /\ pc = "next" /\ k > Len(KNOWN_APPLICATIONS)
  /\ pc' = "end"
  /\ UNCHANGED <<KNOWN_APPLICATIONS, tlvVars, cardVars, k, found, printed>>

(* A PC/SC error is not caught either. *)
Lost ==
  /\ More /\ Entry.bar
  /\ pc' = "failed"
  /\ UNCHANGED <<KNOWN_APPLICATIONS, tlvVars, cardVars, k, found, printed>>

Step == Skip \/ BadEntry \/ Select \/ NotSelected \/ ParseStep \/ ParseThrows \/ Format \/ Finish

Next == Step \/ Lost

Spec == Init /\ [][Next]_vars

(* The program goes on, and the card answers. *)
FairSpec == Spec /\ WF_vars(Step)
-----------------------------------------------------------------------------
(* Properties.                                                             *)

(* What parse makes of the encoding of some elements is these elements,    *)
(* nested as they were and whatever form their lengths have.               *)
TreeIsWritten ==
  outcome = "done" /\ card[selected].elements # Junk /\ ~card[selected].cut =>
    Children = card[selected].elements

(* The bytes an AID stands for, and what is to be shown of some elements:  *)
(* what the first FCI among them has.                                      *)
Bytes(aid) == [j \in 1 .. Len(aid) \div 2 |-> 16 * aid[2 * j - 1] + aid[2 * j]]

Expected(e) ==
  LET fcis == {j \in 1 .. Len(e) : e[j].tag = <<111>>} IN
  IF fcis = {} THEN NoFci
  ELSE LET inside == e[Min(fcis)].children IN
       [tags |-> [i \in DOMAIN inside |-> inside[i].tag], what |-> "FCI"]

(* The tags shown for an entry are those of the FCI of an application the  *)
(* entry names, from the first one on; an answer cut short, of which       *)
(* substr hides the missing bytes, shows fewer of them but no others.      *)
ShownIsWritten == printed # Nothing =>
  LET written == card[selected] IN
  /\ IsPrefix(Bytes(KNOWN_APPLICATIONS[Max(found)].aid), selected)
  /\ written.elements # Junk =>
       IF written.cut THEN IsPrefix(printed.tags, Expected(written.elements).tags)
       ELSE printed = Expected(written.elements)

(* A probe that comes to its end, with nothing refused, has reported the   *)
(* entries that name an application of the card, and no others.            *)
ReportsTheCard == pc = "end" => LET there == {j \in 1 .. Len(KNOWN_APPLICATIONS) :
                      /\ KNOWN_APPLICATIONS[j].bar
                      /\ \E a \in DOMAIN card : IsPrefix(Bytes(KNOWN_APPLICATIONS[j].aid), a)} IN
  /\ found \subseteq there
  /\ ~refused => found = there

(* The probe comes to its end with any card and any answer, as long as no  *)
(* length sends the 16-bit position back to where it has been.             *)
Ends == <>(pc \in {"end", "failed"} \/ wrapped)
=============================================================================
