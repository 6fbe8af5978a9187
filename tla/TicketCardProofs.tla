-------------------------- MODULE TicketCardProofs --------------------------
(* What holds of TicketCard for any number of seats, readers and cards, and *)
(* any prices.  The first part assumes nothing about who shares a reader.   *)
EXTENDS TicketCard, TLAPS

(* A connection that works is a connection to a card on the reader: the    *)
(* one that was there breaks when the card is taken.                       *)
HandleSeesCard == \A s \in Seats : handle[s] = "valid" => Here(s) \in Cards

(* A program about to write the trailer has read the access bits, and as   *)
(* long as its connection works they are those of the card on its reader.  *)
ViewIsFresh == \A s \in Seats : pc[s] = "write_trailer" =>
  /\ view[s] \in AccessBits
  /\ handle[s] = "valid" => view[s] = trailer[Here(s)].access

TypeInv == TypeOK /\ HandleSeesCard /\ ViewIsFresh

(* How a process ends: nothing of it is left, and a reset by the service   *)
(* can only break connections.                                             *)
LEMMA ExitShape ==
  ASSUME TypeOK, NEW s \in Seats, NEW open \in BOOLEAN, Exit(s, open)
  PROVE  /\ pc' = [pc EXCEPT ![s] = "off"]
         /\ handle' \in [Seats -> {"none", "valid", "stale"}]
         /\ authed' \in [Readers -> BOOLEAN]
         /\ handle'[s] = "none"
         /\ \A t \in Seats : handle'[t] = "valid" => handle[t] = "valid"
  BY SeatAssumption, ZenonT(30) DEF TypeOK, Exit, Goto, Session

(* A program that goes on with the next card or gives up. *)
LEMMA RefusedShape ==
  ASSUME TypeOK, NEW s \in Seats, NEW l \in Labels,
         \E open \in BOOLEAN : Refused(s, l, open)
  PROVE  /\ pc' \in [Seats -> Labels]
         /\ pc'[s] \in {l, "off"}
         /\ \A t \in Seats \ {s} : pc'[t] = pc[t]
         /\ handle' \in [Seats -> {"none", "valid", "stale"}]
         /\ authed' \in [Readers -> BOOLEAN]
         /\ \A t \in Seats : handle'[t] = "valid" => handle[t] = "valid"
<1> PICK open \in BOOLEAN : Refused(s, l, open)
  OBVIOUS
<1>1. CASE Exit(s, open)
  BY <1>1, ExitShape DEF TypeOK, Labels
<1>2. CASE Proceed(s, l, open)
  BY <1>2, SeatAssumption DEF TypeOK, Proceed, Goto, Session
<1> QED
  BY <1>1, <1>2 DEF Refused

LEMMA InitTypeInv == Init => TypeInv
<1> SUFFICES ASSUME Init PROVE TypeInv
  OBVIOUS
<1>1. block \in [Cards -> Block]
  BY BlockAssumption DEF Init
<1>2. trailer \in [Cards -> Trailer]
  BY DEF Init, Trailer, Keys
<1>3. due \in [Cards -> UInt16]
  BY <1>1 DEF Init, Block
<1>4. /\ prog \in [Seats -> Programs] /\ pc \in [Seats -> Labels]
      /\ balance \in [Seats -> UInt16] /\ charged \in [Seats -> 0 .. 2]
  BY WidthAssumption DEF Init, Programs, Labels, UInt16
<1>5. TypeOK
  BY <1>1, <1>2, <1>3, <1>4 DEF Init, TypeOK
<1>6. HandleSeesCard /\ ViewIsFresh
  BY DEF Init, HandleSeesCard, ViewIsFresh
<1> QED
  BY <1>5, <1>6 DEF TypeInv

(* What it takes to keep TypeInv in a step that leaves the passengers'     *)
(* cards where they are and every trailer and every view as it was.        *)
LEMMA QuietStep ==
  ASSUME TypeInv,
         UNCHANGED <<inside, trailer, prog, view>>,
         pc' \in [Seats -> Labels],
         handle' \in [Seats -> {"none", "valid", "stale"}],
         authed' \in [Readers -> BOOLEAN],
         slot' \in [Readers -> Keys \union {"none"}],
         balance' \in [Seats -> UInt16],
         block' \in [Cards -> Block],
         due' \in [Cards -> UInt16],
         charged' \in [Seats -> 0 .. 2],
         \A t \in Seats : handle'[t] = "valid" => handle[t] = "valid" \/ Here(t) \in Cards,
         \A t \in Seats : pc'[t] = "write_trailer" =>
           pc[t] = "write_trailer" /\ (handle'[t] = "valid" => handle[t] = "valid")
  PROVE  TypeInv'
<1>1. TypeOK'
  BY DEF TypeInv, TypeOK
<1>2. HandleSeesCard' /\ ViewIsFresh'
  BY DEF TypeInv, HandleSeesCard, ViewIsFresh, Here
<1> QED
  BY <1>1, <1>2 DEF TypeInv

(* What the turnstile subtracts stays in 16 bits. *)
LEMMA Subtraction ==
  ASSUME NEW i \in UInt16, NEW j \in UInt16
  PROVE  /\ (i - j) % (UINT16_MAX + 1) \in UInt16
         /\ i >= j => i - j \in UInt16 /\ (i - j) % (UINT16_MAX + 1) = i - j
  BY WidthAssumption DEF UInt16

LEMMA DebitRange ==
  ASSUME NEW b, b.balance \in UInt16
  PROVE  Debit(b) \in UInt16
  BY FareAssumption, Subtraction DEF Debit

(* A write that reaches the card. *)
LEMMA WriteShape ==
  ASSUME TypeOK, NEW s \in Seats, WriteEffect(s)
  PROVE  /\ block' \in [Cards -> Block]
         /\ due' \in [Cards -> UInt16]
         /\ charged' \in [Seats -> 0 .. 2]
         /\ UNCHANGED trailer
<1>1. NewBlock(s) \in Block
  BY DEF TypeOK, NewBlock, Block
<1>2. ASSUME Here(s) \in Cards PROVE NewDue(s) \in UInt16
  <2>1. due[Here(s)] \in UInt16 /\ TICKET_PRICE \in UInt16 /\ INITIAL_BALANCE \in UInt16
    BY <1>2, FareAssumption DEF TypeOK
  <2>2. due[Here(s)] >= TICKET_PRICE => due[Here(s)] - TICKET_PRICE \in UInt16
    BY <2>1, Subtraction
  <2>3. 0 \in UInt16
    BY WidthAssumption DEF UInt16
  <2> QED
    BY <2>1, <2>2, <2>3 DEF NewDue
<1>3. block' \in [Cards -> Block] /\ due' \in [Cards -> UInt16]
  BY <1>1, <1>2 DEF TypeOK, WriteEffect
<1> QED
  BY <1>3 DEF TypeOK, WriteEffect

LEMMA TypeInvStep == TypeInv /\ [Next]_vars => TypeInv'
<1> SUFFICES ASSUME TypeInv, [Next]_vars PROVE TypeInv'
  OBVIOUS
<1>a. TypeOK
  BY DEF TypeInv
<1>1. ASSUME NEW r \in Readers, NEW c \in Cards, Insert(r, c) PROVE TypeInv'
  <2>1. TypeOK'
    BY <1>1, <1>a DEF Insert, TypeOK, cardVars, seatVars
  <2>2. HandleSeesCard' /\ ViewIsFresh'
    BY <1>1, CardAssumption DEF TypeInv, TypeOK, Insert, HandleSeesCard, ViewIsFresh, Here,
       cardVars, seatVars
  <2> QED
    BY <2>1, <2>2 DEF TypeInv
<1>2. ASSUME NEW r \in Readers, Remove(r) PROVE TypeInv'
  <2>1. TypeOK'
    BY <1>2, <1>a DEF Remove, TypeOK, cardVars, seatVars
  <2>2. HandleSeesCard' /\ ViewIsFresh'
    BY <1>2, SeatAssumption DEF TypeInv, TypeOK, Remove, HandleSeesCard, ViewIsFresh, Here,
       cardVars, seatVars
  <2> QED
    BY <2>1, <2>2 DEF TypeInv
<1>3. ASSUME NEW s \in Seats, NEW q \in Programs, Start(s, q) PROVE TypeInv'
  <2>1. TypeOK'
    <3>1. pc' \in [Seats -> Labels]
      BY <1>3, <1>a DEF Start, FirstStep, Goto, TypeOK, RemovePolls, Labels
    <3>2. 0 \in UInt16
      BY WidthAssumption DEF UInt16
    <3> QED
      BY <3>1, <3>2, <1>3, <1>a DEF Start, TypeOK, cardVars
  <2>2. HandleSeesCard' /\ ViewIsFresh'
    BY <1>3 DEF TypeInv, TypeOK, Start, FirstStep, Goto, HandleSeesCard, ViewIsFresh, Here,
       cardVars
  <2> QED
    BY <2>1, <2>2 DEF TypeInv
<1>4. ASSUME NEW s \in Seats, PollRemove(s) PROVE TypeInv'
  BY <1>4, <1>a, QuietStep DEF PollRemove, Goto, TypeOK, cardVars, seatVars,
     RemovePolls, RemoveWaits, CardSteps, Labels
<1>5. ASSUME NEW s \in Seats, WaitRemove(s) PROVE TypeInv'
  BY <1>5, <1>a, QuietStep DEF WaitRemove, Goto, TypeOK, cardVars, seatVars,
     RemovePolls, RemoveWaits, CardSteps, Labels
<1>6. ASSUME NEW s \in Seats, PollInsert(s) PROVE TypeInv'
  BY <1>6, <1>a, QuietStep DEF PollInsert, Goto, TypeOK, cardVars, seatVars,
     RemovePolls, RemoveWaits, CardSteps, Labels
<1>7. ASSUME NEW s \in Seats, WaitInsert(s) PROVE TypeInv'
  BY <1>7, <1>a, QuietStep DEF WaitInsert, Goto, TypeOK, cardVars, seatVars,
     RemovePolls, RemoveWaits, CardSteps, Labels
<1>8. ASSUME NEW s \in Seats, Connect(s) PROVE TypeInv'
  <2>1. CASE Here(s) # NoCard
    BY <2>1, <1>8, <1>a, SeatAssumption, QuietStep DEF Connect, Goto, TypeOK, Here,
       cardVars, seatVars, RemovePolls, RemoveWaits, CardSteps, Labels
  <2>2. CASE Here(s) = NoCard
    BY <2>2, <1>8, <1>a, SeatAssumption, ExitShape, QuietStep DEF Connect, TypeOK,
       cardVars, seatVars, Labels
  <2> QED
    BY <2>1, <2>2
<1>9. ASSUME NEW s \in Seats, Atr(s) PROVE TypeInv'
  <2>1. CASE Here(s) \in TicketCards
    BY <2>1, <1>9, <1>a, SeatAssumption, QuietStep DEF Atr, Proceed, Goto, Session, TypeOK,
       cardVars, seatVars, RemovePolls, RemoveWaits, CardSteps, Labels
  <2>2. CASE \E o \in BOOLEAN : Refused(s, "remove_poll", o)
    BY <2>2, <1>9, <1>a, SeatAssumption, RefusedShape, QuietStep DEF Atr, TypeOK,
       cardVars, seatVars, RemovePolls, RemoveWaits, CardSteps, Labels
  <2> QED
    <3>1. authed[ReaderOf[s]] \in BOOLEAN
      BY <1>a, SeatAssumption DEF TypeOK
    <3> QED
      BY <2>1, <2>2, <3>1, <1>9 DEF Atr
<1>10. ASSUME NEW s \in Seats, LoadKey(s) PROVE TypeInv'
  <2>1. CASE /\ \E o \in BOOLEAN : Refused(s, "remove_poll", o)
             /\ slot' = slot
    BY <2>1, <1>10, <1>a, SeatAssumption, RefusedShape, QuietStep DEF LoadKey, TypeOK,
       cardVars, seatVars, RemovePolls, RemoveWaits, CardSteps, Labels
  <2>2. CASE /\ slot' = [slot EXCEPT ![ReaderOf[s]] = EntryKey(prog[s])]
             /\ Proceed(s, "auth", authed[ReaderOf[s]])
    BY <2>2, <1>10, <1>a, SeatAssumption, QuietStep DEF LoadKey, Proceed, Goto, Session,
       EntryKey, Keys, TypeOK, cardVars, seatVars, RemovePolls, RemoveWaits, CardSteps, Labels
  <2> QED
    <3>1. authed[ReaderOf[s]] \in BOOLEAN
      BY <1>a, SeatAssumption DEF TypeOK
    <3> QED
      BY <2>1, <2>2, <3>1, <1>10 DEF LoadKey
<1>11. ASSUME NEW s \in Seats, Auth(s) PROVE TypeInv'
  <2>1. CASE \E o \in BOOLEAN : Refused(s, "remove_poll", o)
    BY <2>1, <1>11, <1>a, SeatAssumption, RefusedShape, QuietStep DEF Auth, TypeOK,
       cardVars, seatVars, RemovePolls, RemoveWaits, CardSteps, Labels
  <2>2. CASE Proceed(s, AfterAuth(prog[s]), TRUE)
    BY <2>2, <1>11, <1>a, SeatAssumption, QuietStep DEF Auth, Proceed, Goto, Session,
       AfterAuth, TypeOK, cardVars, seatVars, RemovePolls, RemoveWaits, CardSteps, Labels
  <2> QED
    BY <2>1, <2>2, <1>11 DEF Auth
<1>12. ASSUME NEW s \in Seats, Read(s) PROVE TypeInv'
  <2> DEFINE b == block[Here(s)]
  <2>1. Here(s) \in Cards /\ b.balance \in UInt16
    BY <1>12, <1>a DEF TypeInv, HandleSeesCard, TypeOK, Block, Read
  <2>2. balance' \in [Seats -> UInt16]
    <3>1. Debit(b) \in UInt16 /\ INITIAL_BALANCE \in UInt16
      BY <2>1, DebitRange, FareAssumption
    <3> QED
      BY <3>1, <2>1, <1>12, <1>a DEF Read, TypeOK
  <2>3. CASE \E o \in BOOLEAN : Refused(s, "remove_poll", o)
    BY <2>2, <2>3, <1>12, <1>a, SeatAssumption, RefusedShape, QuietStep DEF Read, TypeOK,
       cardVars, RemovePolls, RemoveWaits, CardSteps, Labels
  <2>4. CASE Exit(s, TRUE)
    BY <2>2, <2>4, <1>12, <1>a, SeatAssumption, ExitShape, QuietStep, ZenonT(30) DEF Read, TypeOK,
       cardVars, Labels
  <2>5. CASE \E l \in {"write", "remove_poll"} : Proceed(s, l, TRUE)
    BY <2>2, <2>5, <1>12, <1>a, SeatAssumption, QuietStep DEF Read, Proceed, Goto, Session,
       TypeOK, cardVars, RemovePolls, RemoveWaits, CardSteps, Labels
  <2> QED
    BY <2>3, <2>4, <2>5, <1>12 DEF Read
<1>13. ASSUME NEW s \in Seats, Write(s) PROVE TypeInv'
  <2>1. CASE /\ \E o \in BOOLEAN : Refused(s, "redo_poll", o)
             /\ UNCHANGED <<cardVars, charged>>
    BY <2>1, <1>13, <1>a, SeatAssumption, RefusedShape, QuietStep DEF Write, TypeOK,
       cardVars, seatVars, RemovePolls, RemoveWaits, CardSteps, Labels
  <2>2. CASE WriteEffect(s) /\ Proceed(s, AfterWrite(prog[s]), TRUE)
    BY <2>2, <1>13, <1>a, SeatAssumption, WriteShape, QuietStep DEF Write, Proceed, Goto,
       Session, AfterWrite, TypeOK, seatVars, RemovePolls, RemoveWaits, CardSteps, Labels
  <2>3. CASE WriteEffect(s) /\ \E o \in BOOLEAN : Refused(s, "redo_poll", o)
    BY <2>3, <1>13, <1>a, SeatAssumption, WriteShape, RefusedShape, QuietStep DEF Write, TypeOK,
       seatVars, RemovePolls, RemoveWaits, CardSteps, Labels
  <2> QED
    BY <2>1, <2>2, <2>3, <1>13 DEF Write
<1>14. ASSUME NEW s \in Seats, TornWrite(s) PROVE TypeInv'
  BY <1>14, <1>a, SeatAssumption, WriteShape, ExitShape, QuietStep, ZenonT(30) DEF TornWrite, TypeOK,
     seatVars, Labels
<1>15. ASSUME NEW s \in Seats, ReadTrailer(s) PROVE TypeInv'
  <2>1. CASE /\ \E o \in BOOLEAN : Refused(s, "remove_poll", o)
             /\ UNCHANGED view
    BY <2>1, <1>15, <1>a, SeatAssumption, RefusedShape, QuietStep DEF ReadTrailer, TypeOK,
       cardVars, RemovePolls, RemoveWaits, CardSteps, Labels
  <2>2. CASE /\ view' = [view EXCEPT ![s] = trailer[Here(s)].access]
             /\ Proceed(s, "write_trailer", TRUE)
    <3>1. Here(s) \in Cards /\ trailer[Here(s)].access \in AccessBits
      BY <1>15 DEF TypeInv, TypeOK, Trailer, HandleSeesCard, ReadTrailer
    <3>2. TypeOK'
      BY <3>1, <2>2, <1>15, <1>a, SeatAssumption DEF ReadTrailer, Proceed, Goto, Session,
         TypeOK, cardVars, RemovePolls, RemoveWaits, CardSteps, Labels
    <3>3. HandleSeesCard' /\ ViewIsFresh'
      BY <3>1, <2>2, <1>15, SeatAssumption DEF TypeInv, ReadTrailer, Proceed, Goto,
         TypeOK, HandleSeesCard, ViewIsFresh, Here, cardVars
    <3> QED
      BY <3>2, <3>3 DEF TypeInv
  <2> QED
    BY <2>1, <2>2, <1>15 DEF ReadTrailer
<1>16. ASSUME NEW s \in Seats, WriteTrailer(s) PROVE TypeInv'
  <2>1. PICK open \in BOOLEAN : Exit(s, open)
    BY <1>16 DEF WriteTrailer
  <2>2. CASE UNCHANGED trailer
    BY <2>1, <2>2, <1>16, <1>a, SeatAssumption, ExitShape, QuietStep DEF WriteTrailer, TypeOK,
       seatVars, Labels
  <2>3. CASE trailer' = [trailer EXCEPT ![Here(s)] = NewTrailer(s)]
    <3>1. NewTrailer(s) \in Trailer /\ NewTrailer(s).access = trailer[Here(s)].access
      BY <1>16 DEF TypeInv, ViewIsFresh, WriteTrailer, NewTrailer, NewKey, Trailer, Keys
    <3>2. \A c \in Cards : trailer'[c] \in Trailer /\ trailer'[c].access = trailer[c].access
      BY <3>1, <2>3, <1>a DEF TypeOK
    <3>3. trailer' \in [Cards -> Trailer]
      BY <3>2, <2>3, <1>a DEF TypeOK
    <3>4. TypeOK'
      BY <3>3, <2>1, <1>16, <1>a, ExitShape DEF WriteTrailer, TypeOK, seatVars, Labels
    <3>5. HandleSeesCard' /\ ViewIsFresh'
      BY <3>2, <2>1, <1>16, <1>a, ExitShape DEF TypeInv, WriteTrailer, TypeOK,
         HandleSeesCard, ViewIsFresh, Here, seatVars
    <3> QED
      BY <3>4, <3>5 DEF TypeInv
  <2> QED
    BY <2>2, <2>3, <1>16 DEF WriteTrailer
<1>17. ASSUME NEW s \in Seats, LostCard(s) PROVE TypeInv'
  BY <1>17, <1>a, SeatAssumption, ExitShape, QuietStep DEF LostCard, TypeOK, cardVars, seatVars,
     Labels
<1>18. ASSUME NEW s \in Seats, Crash(s) PROVE TypeInv'
  BY <1>18, <1>a, SeatAssumption, ExitShape, QuietStep DEF Crash, TypeOK, cardVars, seatVars,
     Labels
<1>19. CASE UNCHANGED vars
  BY <1>19, <1>a, QuietStep DEF vars, TypeOK
<1> QED
  BY <1>1, <1>2, <1>3, <1>4, <1>5, <1>6, <1>7, <1>8, <1>9, <1>10, <1>11, <1>12, <1>13, <1>14, <1>15, <1>16, <1>17, <1>18, <1>19 DEF Next, Step

(* The variables of the programs and the cards keep their types. *)
THEOREM TypeCorrect == Spec => []TypeOK
<1>1. TypeInv => TypeOK
  BY DEF TypeInv
<1> QED
  BY <1>1, InitTypeInv, TypeInvStep, PTL DEF Spec
-----------------------------------------------------------------------------
(* One fare for every stay of a card.                                      *)

BeforeDebit == {"insert_poll", "insert_wait", "connect", "atr", "load", "auth",
                "read", "write"}

(* A turnstile that may still debit has not done so since a card came.     *)
ChargeInv == \A s \in Seats :
  /\ charged[s] <= 1
  /\ Here(s) = NoCard => charged[s] = 0
  /\ prog[s] = "use" /\ pc[s] \in BeforeDebit => charged[s] = 0

(* A step that takes no fare keeps ChargeInv if the turnstile it moves     *)
(* gets ready for a card only when its reader is empty.                    *)
LEMMA NoFareStep ==
  ASSUME TypeInv, ChargeInv, UNCHANGED <<inside, prog, charged>>,
         NEW s \in Seats,
         \A t \in Seats \ {s} : pc'[t] = pc[t],
         pc'[s] \in BeforeDebit /\ prog[s] = "use" =>
           pc[s] \in BeforeDebit \/ Here(s) = NoCard
  PROVE  ChargeInv'
  BY DEF ChargeInv, Here

(* A step that may take one. *)
LEMMA FareStep ==
  ASSUME TypeInv, ChargeInv, UNCHANGED <<inside, prog>>,
         NEW s \in Seats, pc[s] = "write", WriteEffect(s),
         \A t \in Seats \ {s} : pc'[t] = pc[t],
         prog[s] = "use" => pc'[s] \notin BeforeDebit
  PROVE  ChargeInv'
<1>1. Here(s) # NoCard
  BY CardAssumption DEF TypeInv, HandleSeesCard, WriteEffect
<1>2. \A t \in Seats \ {s} : charged'[t] = charged[t]
  BY DEF TypeInv, TypeOK, WriteEffect
<1>3. prog[s] # "use" => charged'[s] = charged[s]
  BY DEF WriteEffect
<1>4. prog[s] = "use" => charged[s] = 0 /\ charged'[s] = 1
  BY DEF TypeInv, TypeOK, ChargeInv, BeforeDebit, WriteEffect
<1> QED
  BY <1>1, <1>2, <1>3, <1>4 DEF ChargeInv, Here

LEMMA ChargeStep == TypeInv /\ ChargeInv /\ [Next]_vars => ChargeInv'
<1> SUFFICES ASSUME TypeInv, ChargeInv, [Next]_vars PROVE ChargeInv'
  OBVIOUS
<1>a. TypeOK
  BY DEF TypeInv
<1>b. /\ {"remove_poll", "redo_poll"} \subseteq Labels
      /\ "remove_poll" \notin BeforeDebit /\ "redo_poll" \notin BeforeDebit
      /\ "off" \notin BeforeDebit
  BY DEF BeforeDebit, Labels, RemovePolls
<1>1. ASSUME NEW r \in Readers, NEW c \in Cards, Insert(r, c) PROVE ChargeInv'
  BY <1>1, <1>a, SeatAssumption, CardAssumption DEF Insert, ChargeInv, Here, TypeOK, seatVars
<1>2. ASSUME NEW r \in Readers, Remove(r) PROVE ChargeInv'
  BY <1>2, <1>a, SeatAssumption, CardAssumption DEF Remove, ChargeInv, Here, TypeOK, seatVars
<1>3. ASSUME NEW s \in Seats, NEW q \in Programs, Start(s, q) PROVE ChargeInv'
  BY <1>3, <1>a DEF Start, FirstStep, Goto, ChargeInv, Here, TypeOK, BeforeDebit
<1>4. ASSUME NEW s \in Seats, PollRemove(s) PROVE ChargeInv'
  BY <1>4, <1>a, NoFareStep DEF PollRemove, Goto, TypeOK, seatVars, BeforeDebit,
     RemovePolls, RemoveWaits
<1>5. ASSUME NEW s \in Seats, WaitRemove(s) PROVE ChargeInv'
  BY <1>5, <1>a, NoFareStep DEF WaitRemove, Goto, TypeOK, seatVars, BeforeDebit,
     RemovePolls, RemoveWaits
<1>6. ASSUME NEW s \in Seats, PollInsert(s) PROVE ChargeInv'
  BY <1>6, <1>a, NoFareStep DEF PollInsert, Goto, TypeOK, seatVars, BeforeDebit,
     RemovePolls, RemoveWaits
<1>7. ASSUME NEW s \in Seats, WaitInsert(s) PROVE ChargeInv'
  BY <1>7, <1>a, NoFareStep DEF WaitInsert, Goto, TypeOK, seatVars, BeforeDebit,
     RemovePolls, RemoveWaits
<1>8. ASSUME NEW s \in Seats, Connect(s) PROVE ChargeInv'
  BY <1>8, <1>a, NoFareStep DEF Connect, Goto, Exit, TypeOK, seatVars, BeforeDebit
<1>9. ASSUME NEW s \in Seats, Atr(s) PROVE ChargeInv'
  <2>1. CASE \E o \in BOOLEAN : Refused(s, "remove_poll", o)
    BY <2>1, <1>9, <1>a, <1>b, RefusedShape, NoFareStep DEF Atr, TypeOK, seatVars
  <2>2. CASE Proceed(s, "load", authed[ReaderOf[s]])
    BY <2>2, <1>9, <1>a, NoFareStep DEF Atr, Proceed, Goto, TypeOK, seatVars,
       BeforeDebit
  <2> QED
    <3>1. authed[ReaderOf[s]] \in BOOLEAN
      BY <1>a, SeatAssumption DEF TypeOK
    <3> QED
      BY <2>1, <2>2, <3>1, <1>9 DEF Atr
<1>10. ASSUME NEW s \in Seats, LoadKey(s) PROVE ChargeInv'
  <2>1. CASE \E o \in BOOLEAN : Refused(s, "remove_poll", o)
    BY <2>1, <1>10, <1>a, <1>b, RefusedShape, NoFareStep DEF LoadKey, TypeOK, seatVars
  <2>2. CASE Proceed(s, "auth", authed[ReaderOf[s]])
    BY <2>2, <1>10, <1>a, NoFareStep DEF LoadKey, Proceed, Goto, TypeOK, seatVars,
       BeforeDebit
  <2> QED
    <3>1. authed[ReaderOf[s]] \in BOOLEAN
      BY <1>a, SeatAssumption DEF TypeOK
    <3> QED
      BY <2>1, <2>2, <3>1, <1>10 DEF LoadKey
<1>11. ASSUME NEW s \in Seats, Auth(s) PROVE ChargeInv'
  <2>1. CASE \E o \in BOOLEAN : Refused(s, "remove_poll", o)
    BY <2>1, <1>11, <1>a, <1>b, RefusedShape, NoFareStep DEF Auth, TypeOK, seatVars
  <2>2. CASE Proceed(s, AfterAuth(prog[s]), TRUE)
    BY <2>2, <1>11, <1>a, NoFareStep DEF Auth, Proceed, Goto, TypeOK, seatVars,
       BeforeDebit, AfterAuth
  <2> QED
    <3>1. authed[ReaderOf[s]] \in BOOLEAN
      BY <1>a, SeatAssumption DEF TypeOK
    <3> QED
      BY <2>1, <2>2, <3>1, <1>11 DEF Auth
<1>12. ASSUME NEW s \in Seats, Read(s) PROVE ChargeInv'
  <2>1. CASE \E o \in BOOLEAN : Refused(s, "remove_poll", o)
    BY <2>1, <1>12, <1>a, <1>b, RefusedShape, NoFareStep DEF Read, TypeOK
  <2>2. CASE Exit(s, TRUE)
    BY <2>2, <1>12, <1>a, NoFareStep DEF Read, Exit, Goto, TypeOK, BeforeDebit
  <2>3. CASE \E l \in {"write", "remove_poll"} : Proceed(s, l, TRUE)
    BY <2>3, <1>12, <1>a, NoFareStep DEF Read, Proceed, Goto, TypeOK, BeforeDebit
  <2> QED
    BY <2>1, <2>2, <2>3, <1>12 DEF Read
<1>13. ASSUME NEW s \in Seats, Write(s) PROVE ChargeInv'
  <2>1. CASE /\ \E o \in BOOLEAN : Refused(s, "redo_poll", o)
             /\ UNCHANGED charged
    BY <2>1, <1>13, <1>a, <1>b, RefusedShape, NoFareStep DEF Write, TypeOK, seatVars
  <2>2. CASE WriteEffect(s) /\ Proceed(s, AfterWrite(prog[s]), TRUE)
    BY <2>2, <1>13, <1>a, FareStep DEF Write, Proceed, Goto, AfterWrite, TypeOK, seatVars,
       BeforeDebit
  <2>3. CASE WriteEffect(s) /\ \E o \in BOOLEAN : Refused(s, "redo_poll", o)
    BY <2>3, <1>13, <1>a, <1>b, RefusedShape, FareStep DEF Write, TypeOK, seatVars
  <2> QED
    BY <2>1, <2>2, <2>3, <1>13 DEF Write
<1>14. ASSUME NEW s \in Seats, TornWrite(s) PROVE ChargeInv'
  BY <1>14, <1>a, FareStep DEF TornWrite, Exit, Goto, TypeOK, seatVars, BeforeDebit
<1>15. ASSUME NEW s \in Seats, ReadTrailer(s) PROVE ChargeInv'
  <2>1. CASE \E o \in BOOLEAN : Refused(s, "remove_poll", o)
    BY <2>1, <1>15, <1>a, <1>b, RefusedShape, NoFareStep DEF ReadTrailer, TypeOK
  <2>2. CASE Proceed(s, "write_trailer", TRUE)
    BY <2>2, <1>15, <1>a, NoFareStep DEF ReadTrailer, Proceed, Goto, TypeOK, BeforeDebit
  <2> QED
    BY <2>1, <2>2, <1>15 DEF ReadTrailer
<1>16. ASSUME NEW s \in Seats, WriteTrailer(s) PROVE ChargeInv'
  BY <1>16, <1>a, NoFareStep DEF WriteTrailer, Exit, Goto, TypeOK, seatVars, BeforeDebit
<1>17. ASSUME NEW s \in Seats, LostCard(s) PROVE ChargeInv'
  BY <1>17, <1>a, NoFareStep DEF LostCard, Exit, Goto, TypeOK, seatVars, BeforeDebit
<1>18. ASSUME NEW s \in Seats, Crash(s) PROVE ChargeInv'
  BY <1>18, <1>a, NoFareStep DEF Crash, Exit, Goto, TypeOK, seatVars, BeforeDebit
<1>19. CASE UNCHANGED vars
  BY <1>19 DEF vars, ChargeInv, Here
<1> QED
  BY <1>1, <1>2, <1>3, <1>4, <1>5, <1>6, <1>7, <1>8, <1>9, <1>10, <1>11, <1>12, <1>13, <1>14, <1>15, <1>16, <1>17, <1>18, <1>19 DEF Next, Step

(* However programs fail and are started again, and whoever shares the     *)
(* reader: a seat takes at most one fare while a card stays.               *)
THEOREM OneFareAStay == Spec => []ChargedOnce
<1>1. Init => ChargeInv
  <2>1. ASSUME Init, NEW s \in Seats PROVE charged[s] = 0
    BY <2>1 DEF Init
  <2>2. 0 <= 1
    OBVIOUS
  <2> QED
    BY <2>1, <2>2 DEF ChargeInv
<1>2. ChargeInv => ChargedOnce
  BY DEF ChargeInv, ChargedOnce
<1> QED
  BY <1>1, <1>2, InitTypeInv, TypeInvStep, ChargeStep, PTL DEF Spec

-----------------------------------------------------------------------------
(* One action writes trailers. *)
LEMMA OnlyWriteTrailer ==
  ASSUME [Next]_vars, trailer' # trailer
  PROVE  \E s \in Seats : WriteTrailer(s)
<1>1. ASSUME NEW s \in Seats, Step(s) PROVE WriteTrailer(s) \/ UNCHANGED trailer
  BY <1>1 DEF Step, PollRemove, WaitRemove, PollInsert, WaitInsert, Connect, Atr, LoadKey,
     Auth, Read, Write, WriteEffect, ReadTrailer, LostCard, cardVars
<1>2. ASSUME NEW s \in Seats, TornWrite(s) \/ Crash(s) PROVE UNCHANGED trailer
  BY <1>2 DEF TornWrite, WriteEffect, Crash, cardVars
<1>3. ASSUME NEW r \in Readers, Remove(r) \/ \E d \in Cards : Insert(r, d)
      PROVE  UNCHANGED trailer
  BY <1>3 DEF Insert, Remove, cardVars
<1>4. ASSUME NEW s \in Seats, NEW q \in Programs, Start(s, q) PROVE UNCHANGED trailer
  BY <1>4 DEF Start, cardVars
<1>5. UNCHANGED vars => UNCHANGED trailer
  BY DEF vars
<1> QED
  BY <1>1, <1>2, <1>3, <1>4, <1>5 DEF Next

(* No program changes access bits: the step that writes a trailer writes   *)
(* the bits it read, and they are still those of the card on the reader.   *)
LEMMA AccessStep ==
  TypeInv /\ [Next]_vars => \A c \in Cards : trailer'[c].access = trailer[c].access
<1> SUFFICES ASSUME TypeInv, [Next]_vars, NEW c \in Cards, trailer' # trailer
             PROVE  trailer'[c].access = trailer[c].access
  OBVIOUS
<1>1. PICK s \in Seats : WriteTrailer(s)
  BY OnlyWriteTrailer
<1>2. trailer \in [Cards -> Trailer] /\ view[s] = trailer[Here(s)].access
  BY <1>1 DEF WriteTrailer, TypeInv, TypeOK, ViewIsFresh
<1>3. NewTrailer(s).access = view[s]
  BY DEF NewTrailer
<1>4. trailer' = [trailer EXCEPT ![Here(s)] = NewTrailer(s)]
  BY <1>1 DEF WriteTrailer
<1> QED
  BY <1>2, <1>3, <1>4

(* Whoever shares the reader, the access bits of a sector never change. *)
THEOREM AccessBitsStay == Spec => AccessBitsKept
<1>1. TypeInv /\ [Next]_vars => [\A c \in Cards : trailer'[c].access = trailer[c].access]_vars
  BY AccessStep
<1> QED
  BY <1>1, InitTypeInv, TypeInvStep, PTL DEF Spec, AccessBitsKept
-----------------------------------------------------------------------------
(* With a reader for every seat.  The invariant follows one program from   *)
(* the key it loads to the trailer it writes.                              *)

OneCardEach == \A q, r \in Readers : inside[q] = inside[r] /\ inside[q] # NoCard => q = r

(* The block a program leaves before it changes the keys. *)
Ready(q) == [balance |-> IF q = "activate" THEN INITIAL_BALANCE ELSE 0,
             rest |-> FALSE, last |-> FALSE]

(* The key in the reader is the program's own until it has been tried, and *)
(* the sector it got into has that key; what it is going to write follows  *)
(* from what the card holds; and once it turns to the trailer, the block   *)
(* is ready for the other key.                                             *)
SeatInv(s) ==
  /\ pc[s] = "auth" => slot[ReaderOf[s]] = EntryKey(prog[s])
  /\ pc[s] \in {"read", "write", "read_trailer", "write_trailer"} /\ handle[s] = "valid" =>
       trailer[Here(s)].keyA = EntryKey(prog[s])
  /\ prog[s] = "deactivate" => balance[s] = 0
  /\ pc[s] = "write" => /\ prog[s] # "balance"
                        /\ prog[s] = "activate" => balance[s] = INITIAL_BALANCE
  /\ pc[s] = "write" /\ prog[s] = "use" /\ handle[s] = "valid" =>
       /\ block[Here(s)].balance >= TICKET_PRICE
       /\ balance[s] = block[Here(s)].balance - TICKET_PRICE
  /\ pc[s] \in {"read_trailer", "write_trailer"} => prog[s] \in {"activate", "deactivate"}
  /\ pc[s] \in {"read_trailer", "write_trailer"} /\ handle[s] = "valid" =>
       block[Here(s)] = Ready(prog[s]) /\ due[Here(s)] = Ready(prog[s]).balance

FareInv == OneCardEach /\ FareKept /\ \A s \in Seats : SeatInv(s)

(* A step of seat s touches its own variables, its reader and the card on  *)
(* it; of the other seats it can only break the connections.               *)
Alone(s) ==
  /\ inside' = inside
  /\ prog' = prog
  /\ \A t \in Seats \ {s} :
       /\ pc'[t] = pc[t]
       /\ balance'[t] = balance[t]
       /\ handle'[t] = "valid" => handle[t] = "valid"
  /\ \A r \in Readers \ {ReaderOf[s]} : slot'[r] = slot[r]
  /\ \A c \in Cards \ {Here(s)} :
       block'[c] = block[c] /\ trailer'[c] = trailer[c] /\ due'[c] = due[c]

LEMMA Bystander ==
  ASSUME TypeInv, OneSeatPerReader, OneCardEach,
         NEW s \in Seats, Alone(s),
         NEW t \in Seats \ {s}, SeatInv(t)
  PROVE  SeatInv(t)'
<1>1. ReaderOf[t] \in Readers \ {ReaderOf[s]}
  BY SeatAssumption DEF OneSeatPerReader
<1>2. handle'[t] = "valid" => Here(t) \in Cards \ {Here(s)}
  BY <1>1, SeatAssumption, CardAssumption
     DEF TypeInv, HandleSeesCard, OneCardEach, Here, Alone
<1>3. /\ pc'[t] = pc[t] /\ balance'[t] = balance[t] /\ prog'[t] = prog[t]
      /\ handle'[t] = "valid" => handle[t] = "valid"
      /\ slot'[ReaderOf[t]] = slot[ReaderOf[t]]
      /\ Here(t)' = Here(t)
  BY <1>1 DEF Alone, Here
<1>4. handle'[t] = "valid" => /\ block'[Here(t)] = block[Here(t)]
                             /\ trailer'[Here(t)] = trailer[Here(t)]
                             /\ due'[Here(t)] = due[Here(t)]
  BY <1>2 DEF Alone
<1> QED
  BY <1>3, <1>4 DEF SeatInv, EntryKey, Ready

(* Wherever the program of seat s goes, the others stay where they are. *)
LEMMA OthersStay ==
  ASSUME TypeOK, NEW s \in Seats, NEW t \in Seats \ {s}, NEW l, NEW open,
         Exit(s, open) \/ Proceed(s, l, open) \/ Refused(s, l, open)
  PROVE  pc'[t] = pc[t] /\ (handle'[t] = "valid" => handle[t] = "valid")
<1>1. CASE Exit(s, open)
  BY <1>1 DEF TypeOK, Exit, Goto
<1>2. CASE Proceed(s, l, open)
  BY <1>2 DEF TypeOK, Proceed, Goto
<1> QED
  BY <1>1, <1>2 DEF Refused

LEMMA StepAlone ==
  ASSUME TypeOK, NEW s \in Seats, Step(s) \/ TornWrite(s) \/ Crash(s)
  PROVE  Alone(s)
<1> DEFINE Others == \A t \in Seats \ {s} :
                       pc'[t] = pc[t] /\ (handle'[t] = "valid" => handle[t] = "valid")
<1>1. CASE PollRemove(s)
  BY <1>1 DEF TypeOK, Alone, Goto, cardVars, seatVars, PollRemove
<1>2. CASE WaitRemove(s)
  BY <1>2 DEF TypeOK, Alone, Goto, cardVars, seatVars, WaitRemove
<1>3. CASE PollInsert(s)
  BY <1>3 DEF TypeOK, Alone, Goto, cardVars, seatVars, PollInsert
<1>4. CASE WaitInsert(s)
  BY <1>4 DEF TypeOK, Alone, Goto, cardVars, seatVars, WaitInsert
<1>5. CASE Connect(s)
  <2>1. Others
    BY <1>5, OthersStay DEF Connect, Goto, TypeOK
  <2> QED
    BY <2>1, <1>5 DEF TypeOK, Alone, cardVars, seatVars, Connect
<1>6. CASE Atr(s)
  <2>1. Others
    BY <1>6, OthersStay DEF Atr
  <2> QED
    BY <2>1, <1>6 DEF TypeOK, Alone, cardVars, seatVars, Atr
<1>7. CASE LoadKey(s)
  <2>1. Others
    BY <1>7, OthersStay DEF LoadKey
  <2> QED
    BY <2>1, <1>7 DEF TypeOK, Alone, cardVars, seatVars, LoadKey
<1>8. CASE Auth(s)
  <2>1. Others
    BY <1>8, OthersStay DEF Auth
  <2> QED
    BY <2>1, <1>8 DEF TypeOK, Alone, cardVars, seatVars, Auth
<1>9. CASE Read(s)
  <2>1. Others
    BY <1>9, OthersStay DEF Read
  <2> QED
    BY <2>1, <1>9, ZenonT(30) DEF TypeOK, Alone, cardVars, seatVars, Read
<1>10. CASE Write(s)
  <2>1. Others
    BY <1>10, OthersStay DEF Write
  <2> QED
    BY <2>1, <1>10 DEF TypeOK, Alone, cardVars, seatVars, Write, WriteEffect
<1>11. CASE TornWrite(s)
  <2>1. Others
    BY <1>11, OthersStay DEF TornWrite
  <2> QED
    BY <2>1, <1>11 DEF TypeOK, Alone, cardVars, seatVars, TornWrite, WriteEffect
<1>12. CASE ReadTrailer(s)
  <2>1. Others
    BY <1>12, OthersStay DEF ReadTrailer
  <2> QED
    BY <2>1, <1>12 DEF TypeOK, Alone, cardVars, seatVars, ReadTrailer
<1>13. CASE WriteTrailer(s)
  <2>1. Others
    BY <1>13, OthersStay DEF WriteTrailer
  <2> QED
    BY <2>1, <1>13 DEF TypeOK, Alone, cardVars, seatVars, WriteTrailer
<1>14. CASE LostCard(s)
  <2>1. Others
    BY <1>14, OthersStay DEF LostCard
  <2> QED
    BY <2>1, <1>14 DEF TypeOK, Alone, cardVars, seatVars, LostCard
<1>15. CASE Crash(s)
  <2>1. Others
    BY <1>15, OthersStay DEF Crash
  <2> QED
    BY <2>1, <1>15 DEF TypeOK, Alone, cardVars, seatVars, Crash
<1> QED
  BY <1>1, <1>2, <1>3, <1>4, <1>5, <1>6, <1>7, <1>8, <1>9, <1>10, <1>11, <1>12, <1>13, <1>14, <1>15 DEF Step
Busy == {"auth", "read", "write", "read_trailer", "write_trailer"}

(* A program that does not deal with the sector has little to keep. *)
LEMMA IdleSeat ==
  ASSUME TypeInv, NEW s \in Seats, SeatInv(s), prog' = prog, pc'[s] \notin Busy,
         balance'[s] = balance[s] \/ prog[s] # "deactivate"
  PROVE  SeatInv(s)'
  BY DEF SeatInv, Busy

(* Exit and a refusal leave it so. *)
LEMMA GoneSeat ==
  ASSUME TypeInv, NEW s \in Seats, NEW l \in Labels \ Busy, NEW open,
         Exit(s, open) \/ Refused(s, l, open)
  PROVE  pc'[s] \notin Busy
<1>1. CASE Exit(s, open)
  BY <1>1 DEF TypeInv, TypeOK, Exit, Goto, Busy
<1>2. CASE Proceed(s, l, open)
  BY <1>2 DEF TypeInv, TypeOK, Proceed, Goto
<1> QED
  BY <1>1, <1>2 DEF Refused

(* A step that leaves the cards' memories alone, seen by its own seat. *)
LEMMA OwnSeat ==
  ASSUME TypeInv, NEW s \in Seats, SeatInv(s),
         PollRemove(s) \/ WaitRemove(s) \/ PollInsert(s) \/ WaitInsert(s) \/ Connect(s)
         \/ Atr(s) \/ LoadKey(s) \/ Auth(s) \/ Read(s) \/ ReadTrailer(s)
         \/ LostCard(s) \/ Crash(s)
  PROVE  SeatInv(s)' /\ UNCHANGED <<block, trailer, due>>
<1>a. /\ {"remove_poll", "redo_poll"} \subseteq Labels \ Busy
      /\ "off" \notin Busy
  BY DEF Labels, RemovePolls, Busy
<1>b. TypeOK
  BY DEF TypeInv
<1>1. CASE PollRemove(s)
  BY <1>1, <1>b, IdleSeat DEF PollRemove, Goto, Busy, TypeOK, cardVars, seatVars
<1>2. CASE WaitRemove(s)
  BY <1>2, <1>b, IdleSeat DEF WaitRemove, Goto, Busy, TypeOK, cardVars, seatVars
<1>3. CASE PollInsert(s)
  BY <1>3, <1>b, IdleSeat DEF PollInsert, Goto, Busy, TypeOK, cardVars, seatVars
<1>4. CASE WaitInsert(s)
  BY <1>4, <1>b, IdleSeat DEF WaitInsert, Goto, Busy, TypeOK, cardVars, seatVars
<1>5. CASE Connect(s)
  <2>1. pc'[s] \notin Busy
    BY <1>5, <1>a, <1>b, GoneSeat DEF Connect, Goto, Busy, TypeOK
  <2> QED
    BY <2>1, <1>5, IdleSeat DEF Connect, cardVars, seatVars
<1>6. CASE Atr(s)
  <2>1. pc'[s] \notin Busy
    BY <1>6, <1>a, <1>b, GoneSeat DEF Atr, Proceed, Goto, Busy, TypeOK
  <2> QED
    BY <2>1, <1>6, IdleSeat DEF Atr, cardVars, seatVars
<1>7. CASE LoadKey(s)
  <2>1. CASE pc'[s] \notin Busy
    BY <2>1, <1>7, IdleSeat DEF LoadKey, cardVars, seatVars
  <2>2. CASE /\ slot' = [slot EXCEPT ![ReaderOf[s]] = EntryKey(prog[s])]
             /\ Proceed(s, "auth", authed[ReaderOf[s]])
    BY <2>2, <1>7, <1>b, SeatAssumption DEF LoadKey, Proceed, Goto, SeatInv, TypeOK, Here, cardVars, seatVars
  <2> QED
    BY <2>1, <2>2, <1>7, <1>a, GoneSeat DEF LoadKey
<1>8. CASE Auth(s)
  <2>1. CASE pc'[s] \notin Busy
    BY <2>1, <1>8, IdleSeat DEF Auth, cardVars, seatVars
  <2>2. CASE /\ slot[ReaderOf[s]] = trailer[Here(s)].keyA
             /\ Proceed(s, AfterAuth(prog[s]), TRUE)
    BY <2>2, <1>8, <1>b, SeatAssumption DEF Auth, AfterAuth, Proceed, Goto, SeatInv, TypeOK, Here, cardVars, seatVars
  <2> QED
    BY <2>1, <2>2, <1>8, <1>a, GoneSeat DEF Auth
<1>9. CASE Read(s)
  <2> DEFINE b == block[Here(s)]
  <2>0. UNCHANGED <<block, trailer, due, prog, inside>>
    BY <1>9 DEF Read, cardVars
  <2>1. CASE pc'[s] \notin Busy /\ (prog[s] # "deactivate" \/ UNCHANGED balance)
    BY <2>0, <2>1, IdleSeat
  <2>2. CASE /\ prog[s] = "use" /\ CanPay(b)
             /\ balance' = [balance EXCEPT ![s] = Debit(b)]
             /\ Proceed(s, "write", TRUE)
    <3>1. Here(s) \in Cards /\ b.balance \in UInt16
      BY <1>9 DEF TypeInv, TypeOK, HandleSeesCard, Block, Read
    <3>2. b.balance >= TICKET_PRICE /\ Debit(b) = b.balance - TICKET_PRICE
      BY <2>2, <3>1, FareAssumption, Subtraction DEF CanPay, Debit
    <3> QED
      BY <3>2, <2>0, <2>2, <1>b, <1>9 DEF Read, Proceed, Goto, SeatInv, TypeOK, Here
  <2>3. CASE /\ prog[s] = "activate"
             /\ balance' = [balance EXCEPT ![s] = INITIAL_BALANCE]
             /\ Proceed(s, "write", TRUE)
    BY <2>0, <2>3, <1>b, <1>9 DEF Read, Proceed, Goto, SeatInv, TypeOK, Here
  <2>4. CASE Proceed(s, "remove_poll", TRUE) /\ prog[s] = "use"
    BY <2>0, <2>4, <1>a, <1>b, IdleSeat DEF Proceed, Goto, TypeOK
  <2> QED
    <3>1. CASE Exit(s, TRUE) /\ (prog[s] # "deactivate" \/ UNCHANGED balance)
      BY <3>1, <2>1, <1>a, GoneSeat
    <3>2. CASE Refused(s, "remove_poll", FALSE) /\ UNCHANGED balance
      BY <3>2, <2>1, <1>a, GoneSeat
    <3> QED
      BY <3>1, <3>2, <2>2, <2>3, <2>4, <1>9 DEF Read
<1>10. CASE ReadTrailer(s)
  <2>1. CASE pc'[s] \notin Busy
    BY <2>1, <1>10, IdleSeat DEF ReadTrailer, cardVars
  <2>2. CASE Proceed(s, "write_trailer", TRUE)
    BY <2>2, <1>10, <1>b DEF ReadTrailer, Proceed, Goto, SeatInv, TypeOK, Here, cardVars
  <2> QED
    BY <2>1, <2>2, <1>10, <1>a, GoneSeat DEF ReadTrailer
<1>11. CASE LostCard(s)
  <2>1. pc'[s] \notin Busy
    BY <1>11, <1>a, GoneSeat DEF LostCard
  <2> QED
    BY <2>1, <1>11, IdleSeat DEF LostCard, cardVars, seatVars
<1>12. CASE Crash(s)
  <2>1. pc'[s] \notin Busy
    BY <1>12, <1>a, GoneSeat DEF Crash
  <2> QED
    BY <2>1, <1>12, IdleSeat DEF Crash, cardVars, seatVars
<1> QED
  BY <1>1, <1>2, <1>3, <1>4, <1>5, <1>6, <1>7, <1>8, <1>9, <1>10, <1>11, <1>12
(* The write of CARD_BLOCK, and the answer that may be lost.               *)
LEMMA BlockWrite ==
  ASSUME TypeInv, NEW s \in Seats, SeatInv(s), FareKept,
         pc[s] = "write", WriteEffect(s), UNCHANGED <<inside, prog, balance>>,
         \/ pc'[s] \notin Busy
         \/ pc'[s] = "read_trailer" /\ prog[s] # "use" /\ UNCHANGED handle
  PROVE  SeatInv(s)' /\ FareKept'
<1>1. Here(s) \in Cards /\ Here(s)' = Here(s)
  BY DEF TypeInv, HandleSeesCard, WriteEffect, Here
<1>2. /\ block'[Here(s)] = NewBlock(s) /\ due'[Here(s)] = NewDue(s)
      /\ \A c \in Cards \ {Here(s)} : block'[c] = block[c] /\ due'[c] = due[c]
      /\ trailer' = trailer
  BY <1>1 DEF TypeInv, TypeOK, WriteEffect
<1>3. trailer[Here(s)].keyA = EntryKey(prog[s]) /\ prog[s] \in Programs \ {"balance"}
  BY DEF SeatInv, WriteEffect, TypeInv, TypeOK
<1>4. CASE prog[s] = "use"
  <2>1. /\ balance[s] = block[Here(s)].balance - TICKET_PRICE
        /\ block[Here(s)].balance >= TICKET_PRICE
        /\ block[Here(s)].balance = due[Here(s)]
    BY <1>1, <1>3, <1>4 DEF SeatInv, FareKept, WriteEffect, EntryKey
  <2>2. NewBlock(s).balance = NewDue(s)
    BY <2>1, <1>4 DEF NewBlock, NewDue
  <2>3. FareKept'
    BY <2>2, <1>1, <1>2 DEF FareKept
  <2>4. SeatInv(s)'
    BY <1>4, IdleSeat
  <2> QED
    BY <2>3, <2>4
<1>5. CASE prog[s] # "use"
  <2>1. NewBlock(s) = Ready(prog[s]) /\ NewDue(s) = Ready(prog[s]).balance
    BY <1>3, <1>5 DEF SeatInv, NewBlock, NewDue, Ready, Programs
  <2>2. FareKept'
    <3>1. NewBlock(s).balance = NewDue(s)
      BY <2>1
    <3> QED
      BY <3>1, <1>1, <1>2 DEF FareKept
  <2>3. CASE pc'[s] \notin Busy
    BY <2>2, <2>3, IdleSeat
  <2>4. CASE pc'[s] = "read_trailer" /\ UNCHANGED handle
    BY <2>1, <2>2, <2>4, <1>1, <1>2, <1>3, <1>5 DEF SeatInv, Programs, WriteEffect, Ready, EntryKey
  <2> QED
    BY <2>3, <2>4, <1>5
<1> QED
  BY <1>4, <1>5

(* The keys change when the block is ready for them. *)
LEMMA TrailerWrite ==
  ASSUME TypeInv, NEW s \in Seats, SeatInv(s), FareKept, WriteTrailer(s)
  PROVE  /\ SeatInv(s)' /\ FareKept'
         /\ \A c \in Cards : trailer'[c].keyA # trailer[c].keyA =>
              /\ c = Here(s) /\ block[c] = Ready(prog[s])
              /\ trailer'[c].keyA = NewKey(prog[s])
              /\ prog[s] \in {"activate", "deactivate"}
<1>1. Here(s) \in Cards
  BY DEF TypeInv, HandleSeesCard, WriteTrailer
<1>2. /\ block[Here(s)] = Ready(prog[s]) /\ due[Here(s)] = Ready(prog[s]).balance
      /\ prog[s] \in {"activate", "deactivate"}
  BY DEF SeatInv, WriteTrailer
<1>3. /\ UNCHANGED <<inside, block, due, prog, balance>>
      /\ pc'[s] \notin Busy
  <2>1. pc'[s] = "off"
    BY DEF WriteTrailer, Exit, Goto, TypeInv, TypeOK
  <2> QED
    BY <2>1 DEF WriteTrailer, seatVars, Busy
<1>4. SeatInv(s)'
  BY <1>3, IdleSeat
<1>5. \A c \in Cards : trailer'[c] # trailer[c] =>
        c = Here(s) /\ trailer'[c].keyA = NewKey(prog[s])
  <2>1. NewTrailer(s).keyA = NewKey(prog[s]) /\ trailer \in [Cards -> Trailer]
    BY DEF NewTrailer, TypeInv, TypeOK
  <2>2. trailer' = trailer \/ trailer' = [trailer EXCEPT ![Here(s)] = NewTrailer(s)]
    BY DEF WriteTrailer
  <2> QED
    BY <1>1, <2>1, <2>2
<1>6. FareKept'
  BY <1>1, <1>2, <1>3, <1>5 DEF FareKept
<1> QED
  BY <1>2, <1>4, <1>5, <1>6

LEMMA FareInvStep ==
  OneSeatPerReader /\ TypeInv /\ FareInv /\ [Next]_vars => FareInv'
<1> SUFFICES ASSUME OneSeatPerReader, TypeInv, FareInv, [Next]_vars PROVE FareInv'
  OBVIOUS
<1>a. TypeOK /\ OneCardEach /\ FareKept /\ \A s \in Seats : SeatInv(s)
  BY DEF TypeInv, FareInv
<1>1. ASSUME NEW r \in Readers, NEW c \in Cards, Insert(r, c) PROVE FareInv'
  <2>1. OneCardEach'
    BY <1>1, <1>a, CardAssumption DEF Insert, OneCardEach, TypeOK
  <2>2. FareKept'
    BY <1>1, <1>a DEF Insert, FareKept, cardVars
  <2>3. ASSUME NEW s \in Seats PROVE SeatInv(s)'
    <3>1. handle[s] = "valid" => Here(s)' = Here(s)
      BY <1>1, <1>a, SeatAssumption, CardAssumption DEF Insert, Here, TypeInv, HandleSeesCard, TypeOK
    <3>2. SeatInv(s)
      BY <1>a
    <3>3. UNCHANGED <<slot, block, trailer, due, prog, balance, pc, handle>>
      BY <1>1 DEF Insert, cardVars, seatVars
    <3> QED
      BY <3>1, <3>2, <3>3 DEF SeatInv
  <2> QED
    BY <2>1, <2>2, <2>3 DEF FareInv
<1>2. ASSUME NEW r \in Readers, Remove(r) PROVE FareInv'
  <2>1. OneCardEach'
    BY <1>2, <1>a DEF Remove, OneCardEach, TypeOK
  <2>2. FareKept'
    BY <1>2, <1>a DEF Remove, FareKept, cardVars
  <2>3. ASSUME NEW s \in Seats PROVE SeatInv(s)'
    <3>1. handle'[s] = "valid" => handle[s] = "valid" /\ Here(s)' = Here(s)
      BY <1>2, <1>a, SeatAssumption DEF Remove, Here, TypeOK
    <3>2. SeatInv(s)
      BY <1>a
    <3>3. UNCHANGED <<slot, block, trailer, due, prog, balance, pc>>
      BY <1>2 DEF Remove, cardVars, seatVars
    <3> QED
      BY <3>1, <3>2, <3>3 DEF SeatInv
  <2> QED
    BY <2>1, <2>2, <2>3 DEF FareInv
<1>3. ASSUME NEW s \in Seats, NEW q \in Programs, Start(s, q) PROVE FareInv'
  <2>1. OneCardEach' /\ FareKept'
    BY <1>3, <1>a DEF Start, OneCardEach, FareKept, cardVars
  <2>2. ASSUME NEW t \in Seats, t # s PROVE SeatInv(t)'
    <3>1. /\ UNCHANGED <<inside, slot, block, trailer, due, handle>>
          /\ pc'[t] = pc[t] /\ prog'[t] = prog[t] /\ balance'[t] = balance[t]
      BY <2>2, <1>3, <1>a DEF Start, Goto, TypeOK, cardVars
    <3> QED
      BY <3>1, <1>a DEF SeatInv, Here
  <2>3. SeatInv(s)'
    BY <1>3, <1>a DEF Start, Goto, FirstStep, SeatInv, TypeOK
  <2> QED
    BY <2>1, <2>2, <2>3 DEF FareInv
<1>4. ASSUME NEW s \in Seats, Step(s) \/ TornWrite(s) \/ Crash(s) PROVE FareInv'
  <2>1. Alone(s)
    BY <1>4, <1>a, StepAlone
  <2>2. \A t \in Seats \ {s} : SeatInv(t)'
    BY <2>1, <1>a, Bystander
  <2>3. SeatInv(s)' /\ FareKept'
    <3>a. {"remove_poll", "redo_poll"} \subseteq Labels \ Busy /\ "off" \notin Busy
      BY DEF Labels, RemovePolls, Busy
    <3>1. CASE WriteTrailer(s)
      BY <3>1, <1>a, TrailerWrite
    <3>2. CASE Write(s)
      <4>1. CASE WriteEffect(s) /\ Proceed(s, AfterWrite(prog[s]), TRUE)
        BY <4>1, <3>2, <3>a, <1>a, BlockWrite DEF Write, Proceed, Goto, AfterWrite, TypeOK,
           seatVars
      <4>2. CASE Refused(s, "redo_poll", FALSE) /\ UNCHANGED cardVars
        <5>1. pc'[s] \notin Busy
          BY <4>2, <3>a, GoneSeat
        <5> QED
          BY <5>1, <4>2, <3>2, <1>a, IdleSeat DEF Write, FareKept, seatVars, cardVars
      <4>3. CASE Refused(s, "redo_poll", FALSE) /\ WriteEffect(s)
        <5>1. pc'[s] \notin Busy
          BY <4>3, <3>a, GoneSeat
        <5> QED
          BY <5>1, <4>3, <3>2, <1>a, BlockWrite DEF Write, seatVars
      <4> QED
        BY <4>1, <4>2, <4>3, <3>2 DEF Write, cardVars
    <3>3. CASE TornWrite(s)
      <4>1. pc'[s] \notin Busy
        BY <3>3, <3>a, GoneSeat DEF TornWrite
      <4> QED
        BY <4>1, <3>3, <1>a, BlockWrite DEF TornWrite, seatVars
    <3>4. CASE ~(WriteTrailer(s) \/ Write(s) \/ TornWrite(s))
      <4>1. SeatInv(s)' /\ UNCHANGED <<block, trailer, due>>
        BY <3>4, <1>4, <1>a, OwnSeat DEF Step
      <4> QED
        BY <4>1, <1>a DEF FareKept
    <3> QED
      BY <3>1, <3>2, <3>3, <3>4
  <2>4. OneCardEach'
    BY <2>1, <1>a DEF Alone, OneCardEach
  <2> QED
    BY <2>2, <2>3, <2>4 DEF FareInv
<1>5. CASE UNCHANGED vars
  BY <1>5, <1>a DEF vars, FareInv, OneCardEach, FareKept, SeatInv, Here
<1> QED
  BY <1>1, <1>2, <1>3, <1>4, <1>5 DEF Next

LEMMA InitFareInv == Init => FareInv
<1> SUFFICES ASSUME Init PROVE FareInv
  OBVIOUS
<1>1. OneCardEach /\ FareKept
  BY DEF Init, OneCardEach, FareKept
<1>2. \A s \in Seats : SeatInv(s)
  BY DEF Init, SeatInv
<1> QED
  BY <1>1, <1>2 DEF FareInv

(* With a reader for every seat, an activated card holds what was put on   *)
(* it less its fares, through lost answers, crashes and swapped cards.     *)
THEOREM FaresAreKept == OneSeatPerReader => (Spec => []FareKept)
<1> SUFFICES ASSUME OneSeatPerReader PROVE Spec => []FareKept
  OBVIOUS
<1>1. TypeInv /\ FareInv /\ [Next]_vars => FareInv'
  BY FareInvStep
<1>2. FareInv => FareKept
  BY DEF FareInv
<1> QED
  BY <1>1, <1>2, InitTypeInv, TypeInvStep, InitFareInv, PTL DEF Spec
(* A card changes its keys only when its block is ready for the programs   *)
(* of the other key.                                                       *)
LEMMA RekeyStep ==
  ASSUME OneSeatPerReader, TypeInv, FareInv, [Next]_vars, NEW c \in Cards,
         trailer'[c].keyA # trailer[c].keyA
  PROVE  block[c] = [balance |-> IF trailer'[c].keyA = "active" THEN INITIAL_BALANCE ELSE 0,
                     rest |-> FALSE, last |-> FALSE]
<1>1. trailer' # trailer
  OBVIOUS
<1>2. PICK s \in Seats : WriteTrailer(s)
  BY <1>1, OnlyWriteTrailer
<1>3. /\ block[c] = Ready(prog[s])
      /\ trailer'[c].keyA = NewKey(prog[s])
  BY <1>2, TrailerWrite DEF FareInv
<1> QED
  BY <1>3 DEF Ready, NewKey

THEOREM RekeyInOrder == OneSeatPerReader => (Spec => RekeyOrder)
<1> SUFFICES ASSUME OneSeatPerReader PROVE Spec => RekeyOrder
  OBVIOUS
<1> DEFINE Ordered == \A c \in Cards :
  trailer'[c].keyA # trailer[c].keyA =>
    block[c] = [balance |-> IF trailer'[c].keyA = "active" THEN INITIAL_BALANCE ELSE 0,
                rest |-> FALSE, last |-> FALSE]
<1>1. TypeInv /\ FareInv /\ [Next]_vars => FareInv'
  BY FareInvStep
<1>2. TypeInv /\ FareInv /\ [Next]_vars => [Ordered]_vars
  BY RekeyStep
<1> QED
  BY <1>1, <1>2, InitTypeInv, TypeInvStep, InitFareInv, PTL DEF Spec, RekeyOrder

-----------------------------------------------------------------------------
(* A card torn away between the two writes of tcard-activate.              *)

WriteLabels == {"write", "read_trailer", "write_trailer"}

(* No step brings a program to its writes with such a card. *)
LEMMA NoNewWriter ==
  ASSUME OneSeatPerReader, TypeInv, FareInv, [Next]_vars, NEW c \in Cards, Stranded(c),
         NEW t \in Seats, handle'[t] = "valid", Here(t)' = c, pc'[t] \in WriteLabels
  PROVE  FALSE
<1> USE DEF WriteLabels
<1>a. TypeOK /\ SeatInv(t)
  BY DEF TypeInv, FareInv
<1>b. ~(handle[t] = "valid" /\ Here(t) = c /\ pc[t] \in WriteLabels)
  BY DEF Stranded, Writing
<1>1. CASE \E r \in Readers : Remove(r)
  BY <1>1, <1>a, <1>b, SeatAssumption DEF Remove, TypeOK, Here, seatVars
<1>2. CASE \E r \in Readers, d \in Cards : Insert(r, d)
  <2>1. handle[t] = "valid" /\ pc[t] \in WriteLabels
    BY <1>2 DEF Insert
  <2>2. Here(t)' = Here(t)
    BY <1>2, <2>1, <1>a, SeatAssumption, CardAssumption
       DEF Insert, Here, TypeInv, HandleSeesCard, TypeOK
  <2> QED
    BY <2>1, <2>2, <1>b
<1>3. CASE \E s \in Seats, q \in Programs : Start(s, q)
  BY <1>3, <1>a, <1>b DEF Start, Goto, FirstStep, TypeOK, Here
<1>4. ASSUME NEW s \in Seats, s # t, Step(s) \/ TornWrite(s) \/ Crash(s) PROVE FALSE
  BY <1>4, <1>a, <1>b, StepAlone DEF Alone, Here
<1>5. CASE Step(t) \/ TornWrite(t) \/ Crash(t)
  <2>a. Here(t) = c /\ prog' = prog
    BY <1>5, <1>a, StepAlone DEF Alone, Here
  <2>b. pc[t] \notin WriteLabels \/ handle[t] # "valid"
    BY <2>a, <1>b
  <2>1. CASE Auth(t)
    <3>1. /\ prog[t] = "deactivate"
          /\ slot[ReaderOf[t]] = trailer[c].keyA
      <4>1. CASE Exit(t, FALSE)
        BY <4>1, <1>a DEF Exit, Goto, TypeOK
      <4>2. CASE Proceed(t, "remove_poll", FALSE)
        BY <4>2, <1>a DEF Proceed, Goto, TypeOK
      <4> QED
        BY <4>1, <4>2, <2>1, <2>a, <1>a DEF Auth, Refused, AfterAuth, Proceed, Goto, TypeOK
    <3>2. slot[ReaderOf[t]] = "active"
      BY <3>1, <2>1, <1>a DEF Auth, SeatInv, EntryKey
    <3> QED
      BY <3>1, <3>2 DEF Stranded
  <2>2. CASE Read(t)
    <3>1. (prog[t] = "activate" /\ LooksBlank(block[c])) \/ prog[t] = "use"
      <4>1. CASE \E o : Exit(t, o)
        BY <4>1, <1>a DEF Exit, Goto, TypeOK
      <4>2. CASE \E o : Proceed(t, "remove_poll", o)
        BY <4>2, <1>a DEF Proceed, Goto, TypeOK
      <4> QED
        BY <4>1, <4>2, <2>2, <2>a DEF Read, Refused
    <3>2. trailer[c].keyA = EntryKey(prog[t])
      BY <2>2, <2>a, <1>a DEF Read, SeatInv
    <3> QED
      BY <3>1, <3>2 DEF Stranded, EntryKey
  <2>3. CASE Write(t) \/ TornWrite(t) \/ ReadTrailer(t) \/ WriteTrailer(t)
    BY <2>3, <2>b DEF Write, TornWrite, WriteEffect, ReadTrailer, WriteTrailer
  <2>c. "off" \notin Busy /\ "remove_poll" \in Labels \ Busy
    BY DEF Busy, Labels, RemovePolls
  <2>d. pc'[t] \in Busy
    BY DEF Busy
  <2>4. CASE PollRemove(t) \/ WaitRemove(t) \/ PollInsert(t) \/ WaitInsert(t)
    BY <2>4, <1>a DEF PollRemove, WaitRemove, PollInsert, WaitInsert, Goto, TypeOK
  <2>5. CASE Connect(t) \/ LostCard(t) \/ Crash(t)
    <3>1. CASE Goto(t, "atr")
      BY <3>1, <1>a DEF Goto, TypeOK
    <3>2. CASE \E o : Exit(t, o)
      BY <3>2, <2>c, <2>d, GoneSeat
    <3> QED
      BY <2>5, <3>1, <3>2 DEF Connect, LostCard, Crash
  <2>6. CASE Atr(t) \/ LoadKey(t)
    <3>1. CASE \E o : Refused(t, "remove_poll", o)
      BY <3>1, <2>c, <2>d, GoneSeat
    <3>2. CASE \E l \in {"load", "auth"}, o \in BOOLEAN : Proceed(t, l, o)
      BY <3>2, <1>a DEF Proceed, Goto, TypeOK
    <3>3. authed[ReaderOf[t]] \in BOOLEAN
      BY <1>a, SeatAssumption DEF TypeOK
    <3> QED
      BY <2>6, <3>1, <3>2, <3>3 DEF Atr, LoadKey
  <2> QED
    BY <1>5, <2>1, <2>2, <2>3, <2>4, <2>5, <2>6 DEF Step
<1>6. CASE UNCHANGED vars
  BY <1>6, <1>b DEF vars, Here
<1> QED
  BY <1>1, <1>2, <1>3, <1>4, <1>5, <1>6 DEF Next
(* Nor does a step write its memory. *)
LEMMA StrandedUntouched ==
  ASSUME OneSeatPerReader, TypeInv, FareInv, [Next]_vars, NEW c \in Cards, Stranded(c)
  PROVE  block'[c] = block[c] /\ trailer'[c] = trailer[c]
<1>a. TypeOK
  BY DEF TypeInv
<1>1. ASSUME NEW s \in Seats, Step(s) \/ TornWrite(s) \/ Crash(s)
      PROVE  block'[c] = block[c] /\ trailer'[c] = trailer[c]
  <2>1. CASE c # Here(s)
    BY <1>1, <1>a, <2>1, StepAlone DEF Alone
  <2>2. CASE c = Here(s)
    <3>1. handle[s] # "valid" \/ pc[s] \notin WriteLabels
      BY <2>2 DEF Stranded, Writing, WriteLabels
    <3>2. ~(WriteTrailer(s) \/ (WriteEffect(s) /\ pc[s] = "write"))
      BY <3>1 DEF WriteTrailer, WriteEffect, WriteLabels
    <3>3. ~TornWrite(s) /\ (Write(s) => UNCHANGED <<block, trailer>>)
      BY <3>2 DEF TornWrite, Write, cardVars
    <3> QED
      BY <3>2, <3>3, <1>1 DEF Step, PollRemove, WaitRemove, PollInsert, WaitInsert, Connect,
         Atr, LoadKey, Auth, Read, ReadTrailer, LostCard, Crash, cardVars
  <2> QED
    BY <2>1, <2>2
<1>2. ASSUME NEW r \in Readers, Remove(r) \/ \E d \in Cards : Insert(r, d)
      PROVE  UNCHANGED <<block, trailer>>
  BY <1>2 DEF Insert, Remove, cardVars
<1>3. ASSUME NEW s \in Seats, NEW q \in Programs, Start(s, q)
      PROVE  UNCHANGED <<block, trailer>>
  BY <1>3 DEF Start, cardVars
<1> QED
  BY <1>1, <1>2, <1>3 DEF Next, vars

(* None of the four programs ever gets a stranded card back into use. *)
THEOREM StrandedCardsStay == OneSeatPerReader => (Spec => StrandedForGood)
<1> SUFFICES ASSUME OneSeatPerReader PROVE Spec => StrandedForGood
  OBVIOUS
<1> DEFINE Stays == \A c \in Cards : Stranded(c) =>
  /\ Stranded(c)'
  /\ block'[c] = block[c] /\ trailer'[c] = trailer[c]
<1>1. TypeInv /\ FareInv /\ [Next]_vars => FareInv'
  BY FareInvStep
<1>2. ASSUME TypeInv, FareInv, [Next]_vars, NEW c \in Cards, Stranded(c)
      PROVE  Stranded(c)' /\ block'[c] = block[c] /\ trailer'[c] = trailer[c]
  <2>1. block'[c] = block[c] /\ trailer'[c] = trailer[c]
    BY <1>2, StrandedUntouched
  <2>2. ~Writing(c)'
    BY <1>2, NoNewWriter DEF Writing, WriteLabels
  <2> QED
    BY <2>1, <2>2, <1>2 DEF Stranded, LooksBlank
<1>3. TypeInv /\ FareInv /\ [Next]_vars => [Stays]_vars
  BY <1>2
<1> QED
  BY <1>1, <1>3, InitTypeInv, TypeInvStep, InitFareInv, PTL DEF Spec, StrandedForGood
=============================================================================
