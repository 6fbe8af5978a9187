------------------------------ MODULE TicketCard ------------------------------
(***************************************************************************)
(* The transport-card programs of example-06: tcard-activate,              *)
(* tcard-deactivate, tcard-balance and the turnstile tcard-use, run        *)
(* against MIFARE Classic cards that passengers put on readers and take    *)
(* away at any moment.                                                     *)
(*                                                                         *)
(* A seat is a place (a shell on a workstation) where one of the four      *)
(* programs runs at a time, on the reader ReaderOf[seat].  Two seats may   *)
(* share a reader: the library connects with SCARD_SHARE_SHARED and opens  *)
(* no transaction.  Every call into PC/SC is one step; what a program      *)
(* computes between two calls belongs to the step of the call before.      *)
(***************************************************************************)
EXTENDS Integers

CONSTANTS
  Seats, Readers, ReaderOf,
  Cards,            \* every card a passenger may present
  TicketCards,      \* those whose ATR names a contactless MIFARE 1K card
  NoCard,           \* what a reader holds when it holds no card
  AccessBits,       \* the values bytes 6..9 of a sector trailer may have
  FactoryBlocks,    \* what CARD_BLOCK may hold on a card never activated
  INITIAL_BALANCE, TICKET_PRICE,
  UINT16_MAX        \* the largest uint16_t: 65535

ASSUME SeatAssumption == ReaderOf \in [Seats -> Readers]
ASSUME CardAssumption == TicketCards \subseteq Cards /\ NoCard \notin Cards

Programs == {"activate", "deactivate", "balance", "use"}
Keys == {"default", "active"}
UInt16 == 0 .. UINT16_MAX

(* CARD_BLOCK as the programs look at it: bytes 0-1 are the balance, rest  *)
(* tells whether one of the bytes 2..14 is set, last whether byte 15 is.   *)
Block == [balance : UInt16, rest : BOOLEAN, last : BOOLEAN]
Trailer == [keyA : Keys, access : AccessBits, keyB : Keys]

ASSUME WidthAssumption == UINT16_MAX \in Nat
ASSUME FareAssumption ==
  /\ INITIAL_BALANCE \in UInt16
  /\ TICKET_PRICE \in UInt16
ASSUME BlockAssumption == FactoryBlocks \subseteq Block

(* The program counters.  A wait of the library is a query (poll) and the  *)
(* call that blocks until the reader's state changes (wait); redo is the   *)
(* extra wait tcard-use makes when its write was refused.                  *)
RemovePolls == {"redo_poll", "remove_poll"}
RemoveWaits == {"redo_wait", "remove_wait"}
CardSteps == {"atr", "load", "auth", "read", "write", "read_trailer", "write_trailer"}
Labels == {"off", "insert_poll", "insert_wait", "connect"}
            \union RemovePolls \union RemoveWaits \union CardSteps

VARIABLES
  inside,    \* reader -> the card on it
  slot,      \* reader -> the key in its volatile location 0
  authed,    \* reader -> is the sector open to whoever talks to the card
  block,     \* card -> CARD_BLOCK
  trailer,   \* card -> the trailer of CARD_SECTOR
  prog, pc,  \* seat -> program and where it is
  handle,    \* seat -> SCARDHANDLE: "none", "valid" or "stale"
  balance,   \* seat -> the local variable of that name
  view,      \* seat -> the access bits in the local variable trailer
  due,       \* history: card -> the balance its fares add up to
  charged    \* history: seat -> fares its programs took from the card now there

cardVars == <<block, trailer, due>>
seatVars == <<prog, balance, view>>
vars == <<inside, slot, authed, block, trailer, prog, pc, handle, balance, view,
          due, charged>>

TypeOK ==
  /\ inside \in [Readers -> Cards \union {NoCard}]
  /\ slot \in [Readers -> Keys \union {"none"}]
  /\ authed \in [Readers -> BOOLEAN]
  /\ block \in [Cards -> Block]
  /\ trailer \in [Cards -> Trailer]
  /\ prog \in [Seats -> Programs]
  /\ pc \in [Seats -> Labels]
  /\ handle \in [Seats -> {"none", "valid", "stale"}]
  /\ balance \in [Seats -> UInt16]
  /\ view \in [Seats -> AccessBits \union {"none"}]
  /\ due \in [Cards -> UInt16]
  /\ charged \in [Seats -> 0 .. 2]

Init ==
  /\ inside = [r \in Readers |-> NoCard]
  /\ slot = [r \in Readers |-> "none"]
  /\ authed = [r \in Readers |-> FALSE]
  /\ block \in [Cards -> FactoryBlocks]
  /\ trailer \in [Cards -> [keyA : {"default"}, access : AccessBits, keyB : {"default"}]]
  /\ prog = [s \in Seats |-> "balance"]
  /\ pc = [s \in Seats |-> "off"]
  /\ handle = [s \in Seats |-> "none"]
  /\ balance = [s \in Seats |-> 0]
  /\ view = [s \in Seats |-> "none"]
  /\ due = [c \in Cards |-> block[c].balance]
  /\ charged = [s \in Seats |-> 0]

-----------------------------------------------------------------------------
(* The passengers.                                                         *)

(* A card is put on a reader that has none. *)
Insert(r, c) ==
  /\ inside[r] = NoCard
  /\ \A q \in Readers : inside[q] # c
  /\ inside' = [inside EXCEPT ![r] = c]
  /\ UNCHANGED <<slot, authed, cardVars, seatVars, pc, handle, charged>>

(* A card is taken away: it loses power, and with it the open sector, and  *)
(* every connection to it fails from now on with SCARD_W_REMOVED_CARD.     *)
Remove(r) ==
  /\ inside[r] # NoCard
  /\ inside' = [inside EXCEPT ![r] = NoCard]
  /\ authed' = [authed EXCEPT ![r] = FALSE]
  /\ handle' = [s \in Seats |-> IF ReaderOf[s] = r /\ handle[s] = "valid"
                                THEN "stale" ELSE handle[s]]
  /\ charged' = [s \in Seats |-> IF ReaderOf[s] = r THEN 0 ELSE charged[s]]
  /\ UNCHANGED <<slot, cardVars, seatVars, pc>>

-----------------------------------------------------------------------------
(* The programs.                                                           *)

Here(s) == inside[ReaderOf[s]]
Goto(s, l) == pc' = [pc EXCEPT ![s] = l]
Session(s, open) == authed' = [authed EXCEPT ![ReaderOf[s]] = open]

(* Slips a change of these programs could make.  No definition uses them;  *)
(* the properties below must fail when one replaces what it is a slip of.  *)
StartAnywhere(q) == "insert_poll"                             \* of FirstStep
TrustOldBalance(q) ==                                        \* of AfterAuth
  IF q \in {"deactivate", "use"} THEN "write" ELSE "read"
TrailerFirst(q) == IF q = "deactivate" THEN "read_trailer" ELSE "read" \* of AfterAuth
NoBlankCheck(q) ==                                           \* of AfterAuth
  IF q \in {"activate", "deactivate"} THEN "write" ELSE "read"
SkipReadTrailer(q) ==                                        \* of AfterWrite
  IF q = "use" THEN "remove_poll" ELSE "write_trailer"
CanAlmostPay(b) == b.balance + 1 >= TICKET_PRICE              \* of CanPay
TemplateTrailer(s) == [keyA |-> IF prog[s] = "activate" THEN "active" ELSE "default",
                       access |-> CHOOSE a \in AccessBits : TRUE,
                       keyB |-> "default"]                    \* of NewTrailer
WaitWithoutTest(s) ==                                         \* of PollRemove
  /\ pc[s] \in RemovePolls
  /\ Goto(s, IF pc[s] = "redo_poll" THEN "redo_wait" ELSE "remove_wait")
  /\ UNCHANGED <<inside, slot, authed, cardVars, seatVars, handle, charged>>

(* The key a program loads to get into the sector, and the key it leaves.  *)
EntryKey(q) == IF q = "activate" THEN "default" ELSE "active"
NewKey(q) == IF q = "activate" THEN "active" ELSE "default"

(* The end of a process.  Its destructor or the service releases the       *)
(* context and, as the service chooses, resets the card it is connected    *)
(* to; a reset closes the sector and breaks every other connection to it.  *)
Exit(s, open) ==
  /\ Goto(s, "off")
  /\ \/ /\ handle' = [handle EXCEPT ![s] = "none"]
        /\ Session(s, open)
     \/ /\ handle[s] = "valid"
        /\ handle' = [t \in Seats |->
             IF t = s THEN "none"
             ELSE IF ReaderOf[t] = ReaderOf[s] /\ handle[t] = "valid"
                  THEN "stale" ELSE handle[t]]
        /\ Session(s, FALSE)

(* Stay in the program: at label l, the connection as it is. *)
Proceed(s, l, open) == Goto(s, l) /\ Session(s, open) /\ UNCHANGED handle

(* A status other than 0x9000: tcard-use goes on with the next card, the   *)
(* other programs give up.                                                 *)
Refused(s, l, open) == IF prog[s] = "use" THEN Proceed(s, l, open) ELSE Exit(s, open)

(* tcard-use starts by waiting until no card is on the reader, the others  *)
(* by waiting for a card.                                                  *)
FirstStep(q) == IF q = "use" THEN "remove_poll" ELSE "insert_poll"

Start(s, q) ==
  /\ pc[s] = "off"
  /\ prog' = [prog EXCEPT ![s] = q]
  /\ balance' = [balance EXCEPT ![s] = 0]
  /\ view' = [view EXCEPT ![s] = "none"]
  /\ Goto(s, FirstStep(q))
  /\ UNCHANGED <<inside, slot, authed, cardVars, handle, charged>>

(* wait_for_card_remove, first call: it returns the state at once. *)
PollRemove(s) ==
  /\ pc[s] \in RemovePolls
  /\ Goto(s, IF Here(s) # NoCard
             THEN IF pc[s] = "redo_poll" THEN "redo_wait" ELSE "remove_wait"
             ELSE IF pc[s] = "redo_poll" THEN "remove_poll" ELSE "insert_poll")
  /\ UNCHANGED <<inside, slot, authed, cardVars, seatVars, handle, charged>>

(* wait_for_card_remove, second call: it was told a card is there and      *)
(* returns when that is no longer so.  Then the first call again.          *)
WaitRemove(s) ==
  /\ pc[s] \in RemoveWaits
  /\ Here(s) = NoCard
  /\ Goto(s, IF pc[s] = "redo_wait" THEN "redo_poll" ELSE "remove_poll")
  /\ UNCHANGED <<inside, slot, authed, cardVars, seatVars, handle, charged>>

(* wait_for_reader_card, the two calls of its loop. *)
PollInsert(s) ==
  /\ pc[s] = "insert_poll"
  /\ Goto(s, IF Here(s) # NoCard THEN "connect" ELSE "insert_wait")
  /\ UNCHANGED <<inside, slot, authed, cardVars, seatVars, handle, charged>>

WaitInsert(s) ==
  /\ pc[s] = "insert_wait"
  /\ Here(s) # NoCard
  /\ Goto(s, "insert_poll")
  /\ UNCHANGED <<inside, slot, authed, cardVars, seatVars, handle, charged>>

(* wait_for_reader_card, SCardConnect: the card seen may be gone again, or *)
(* be another one.                                                         *)
Connect(s) ==
  /\ pc[s] = "connect"
  /\ IF Here(s) # NoCard
     THEN /\ Goto(s, "atr")
          /\ handle' = [handle EXCEPT ![s] = "valid"]
          /\ UNCHANGED authed
     ELSE Exit(s, authed[ReaderOf[s]])
  /\ UNCHANGED <<inside, slot, cardVars, seatVars, charged>>

(* Connection::atr, ATRParser::load and the two checkFeature tests. *)
Atr(s) ==
  /\ pc[s] = "atr" /\ handle[s] = "valid"
  /\ IF Here(s) \in TicketCards
     THEN Proceed(s, "load", authed[ReaderOf[s]])
     ELSE Refused(s, "remove_poll", authed[ReaderOf[s]])
  /\ UNCHANGED <<inside, slot, cardVars, seatVars, charged>>

(* Load Keys: the reader keeps the key, for whoever authenticates next. *)
LoadKey(s) ==
  /\ pc[s] = "load" /\ handle[s] = "valid"
  /\ \/ /\ slot' = [slot EXCEPT ![ReaderOf[s]] = EntryKey(prog[s])]
        /\ Proceed(s, "auth", authed[ReaderOf[s]])
     \/ /\ slot' = slot
        /\ Refused(s, "remove_poll", authed[ReaderOf[s]])
  /\ UNCHANGED <<inside, cardVars, seatVars, charged>>

(* tcard-deactivate does not read the block it is about to clear. *)
AfterAuth(q) == IF q = "deactivate" THEN "write" ELSE "read"

(* General Authenticate with the key in the reader's slot as Key A: the    *)
(* sector opens only for its own key, and a failure closes it.             *)
Auth(s) ==
  /\ pc[s] = "auth" /\ handle[s] = "valid"
  /\ \/ /\ slot[ReaderOf[s]] = trailer[Here(s)].keyA
        /\ Proceed(s, AfterAuth(prog[s]), TRUE)
     \/ Refused(s, "remove_poll", FALSE)
  /\ UNCHANGED <<inside, slot, cardVars, seatVars, charged>>

(* tcard-activate accepts a block whose bytes 0..14 are zero. *)
LooksBlank(b) == b.balance = 0 /\ ~b.rest

CanPay(b) == b.balance >= TICKET_PRICE
Debit(b) == (b.balance - TICKET_PRICE) % (UINT16_MAX + 1)

(* Read Binary of CARD_BLOCK, and what each program makes of it: the       *)
(* balance it is going to write, or the end of its dealing with this card. *)
Read(s) ==
  /\ pc[s] = "read" /\ handle[s] = "valid"
  /\ \/ /\ authed[ReaderOf[s]]
        /\ LET b == block[Here(s)] IN
           \/ /\ prog[s] = "use" /\ CanPay(b)
              /\ balance' = [balance EXCEPT ![s] = Debit(b)]
              /\ Proceed(s, "write", TRUE)
           \/ /\ prog[s] = "use" /\ ~CanPay(b)
              /\ balance' = [balance EXCEPT ![s] = b.balance]
              /\ Proceed(s, "remove_poll", TRUE)
           \/ /\ prog[s] = "balance"
              /\ balance' = [balance EXCEPT ![s] = b.balance]
              /\ Exit(s, TRUE)
           \/ /\ prog[s] = "activate" /\ LooksBlank(b)
              /\ balance' = [balance EXCEPT ![s] = INITIAL_BALANCE]
              /\ Proceed(s, "write", TRUE)
           \/ /\ prog[s] = "activate" /\ ~LooksBlank(b)
              /\ UNCHANGED balance
              /\ Exit(s, TRUE)
     \/ /\ UNCHANGED balance
        /\ Refused(s, "remove_poll", FALSE)
  /\ UNCHANGED <<inside, slot, cardVars, prog, view, charged>>

(* What a program's Update Binary leaves in CARD_BLOCK: 16 zero bytes with *)
(* its balance in the first two (deactivate never set one).                *)
NewBlock(s) == [balance |-> balance[s], rest |-> FALSE, last |-> FALSE]

(* History: what a write means for the passenger.  charged counts to 2,    *)
(* which stands for "more than once".                                      *)
NewDue(s) ==
  IF prog[s] = "use"
  THEN IF due[Here(s)] >= TICKET_PRICE THEN due[Here(s)] - TICKET_PRICE ELSE 0
  ELSE IF prog[s] = "activate" THEN INITIAL_BALANCE ELSE 0

WriteEffect(s) ==
  /\ handle[s] = "valid"
  /\ authed[ReaderOf[s]]
  /\ block' = [block EXCEPT ![Here(s)] = NewBlock(s)]
  /\ due' = [due EXCEPT ![Here(s)] = NewDue(s)]
  /\ charged' = IF prog[s] = "use" /\ charged[s] < 2
                THEN [charged EXCEPT ![s] = charged[s] + 1] ELSE charged
  /\ UNCHANGED trailer

AfterWrite(q) == IF q = "use" THEN "remove_poll" ELSE "read_trailer"

(* Update Binary of CARD_BLOCK: done, or refused, which leaves open        *)
(* whether it was done,                                                    *)
Write(s) ==
  /\ pc[s] = "write" /\ handle[s] = "valid"
  /\ \/ /\ WriteEffect(s)
        /\ Proceed(s, AfterWrite(prog[s]), TRUE)
     \/ /\ WriteEffect(s) \/ UNCHANGED <<cardVars, charged>>
        /\ Refused(s, "redo_poll", FALSE)
  /\ UNCHANGED <<inside, slot, seatVars>>

(* or done with the answer lost: the program ends with an exception.       *)
TornWrite(s) ==
  /\ pc[s] = "write"
  /\ WriteEffect(s)
  /\ Exit(s, TRUE)
  /\ UNCHANGED <<inside, slot, seatVars>>

(* Read Binary of the sector trailer.  A card answers zeros for Key A, and *)
(* both keys are replaced, so only the access bits are kept.               *)
ReadTrailer(s) ==
  /\ pc[s] = "read_trailer" /\ handle[s] = "valid"
  /\ \/ /\ authed[ReaderOf[s]]
        /\ view' = [view EXCEPT ![s] = trailer[Here(s)].access]
        /\ Proceed(s, "write_trailer", TRUE)
     \/ /\ UNCHANGED view
        /\ Refused(s, "remove_poll", FALSE)
  /\ UNCHANGED <<inside, slot, cardVars, prog, balance, charged>>

(* The trailer it builds: both keys new, the access bits as read. *)
NewTrailer(s) == [keyA |-> NewKey(prog[s]), access |-> view[s], keyB |-> NewKey(prog[s])]

(* Update Binary of the sector trailer; the program ends whatever happens. *)
WriteTrailer(s) ==
  /\ pc[s] = "write_trailer" /\ handle[s] = "valid"
  /\ \/ /\ authed[ReaderOf[s]]
        /\ trailer' = [trailer EXCEPT ![Here(s)] = NewTrailer(s)]
        /\ Exit(s, TRUE)
     \/ /\ UNCHANGED trailer
        /\ Exit(s, FALSE)
  /\ UNCHANGED <<inside, slot, block, due, seatVars, charged>>

(* SCardStatus or SCardTransmit on a card that was removed or reset: a     *)
(* PCSCError, which ends each of the programs.                             *)
LostCard(s) ==
  /\ pc[s] \in CardSteps /\ handle[s] = "stale"
  /\ Exit(s, authed[ReaderOf[s]])
  /\ UNCHANGED <<inside, slot, cardVars, seatVars, charged>>

(* The process is interrupted (the only way to stop tcard-use), or a call  *)
(* fails with any other PC/SC error before the card acts on it.            *)
Crash(s) ==
  /\ pc[s] # "off"
  /\ Exit(s, authed[ReaderOf[s]])
  /\ UNCHANGED <<inside, slot, cardVars, seatVars, charged>>

Step(s) ==
  \/ PollRemove(s) \/ WaitRemove(s) \/ PollInsert(s) \/ WaitInsert(s)
  \/ Connect(s) \/ Atr(s) \/ LoadKey(s) \/ Auth(s) \/ Read(s) \/ Write(s)
  \/ ReadTrailer(s) \/ WriteTrailer(s) \/ LostCard(s)

Next ==
  \/ \E r \in Readers : Remove(r)
  \/ \E r \in Readers, c \in Cards : Insert(r, c)
  \/ \E s \in Seats, q \in Programs : Start(s, q)
  \/ \E s \in Seats : Step(s)
  \/ \E s \in Seats : TornWrite(s)
  \/ \E s \in Seats : Crash(s)

Spec == Init /\ [][Next]_vars

(* A running program takes its next step whenever PC/SC lets it: the calls *)
(* answer, and the blocking one answers when the reader's state differs    *)
(* from the state it was given.  Nobody has to start a program, to present *)
(* a card or to take it away.                                              *)
FairSpec == Spec /\ \A s \in Seats : WF_vars(Step(s))
-----------------------------------------------------------------------------
(* Properties.                                                             *)

(* A turnstile takes at most one fare each time a card is put on its       *)
(* reader, however often tcard-use fails, is killed and is started again   *)
(* before the card is taken away: what its wait_for_card_remove calls are  *)
(* for.                                                                    *)
ChargedOnce == \A s \in Seats : charged[s] <= 1

(* The next three need a reader for every seat: with no transaction, two   *)
(* programs on one reader undo each other's work.                          *)
OneSeatPerReader == \A s, t \in Seats : ReaderOf[s] = ReaderOf[t] => s = t

(* The balance stored on an activated card is what was put on it less the  *)
(* fares taken, through lost answers, crashes, swapped cards and restarts. *)
FareKept == \A c \in Cards :
  trailer[c].keyA = "active" => block[c].balance = due[c]

(* A card changes its key only when its block is ready for the programs of *)
(* the other key: the full initial balance before it becomes usable, an    *)
(* all-zero block before it goes back.  This is why both programs write    *)
(* the block first and the trailer last.                                   *)
RekeyOrder == [][\A c \in Cards :
  trailer'[c].keyA # trailer[c].keyA =>
    block[c] = [balance |-> IF trailer'[c].keyA = "active" THEN INITIAL_BALANCE ELSE 0,
                rest |-> FALSE, last |-> FALSE]]_vars

(* Is some program past the checks and about to write card c? *)
Writing(c) == \E s \in Seats :
  /\ handle[s] = "valid" /\ Here(s) = c
  /\ pc[s] \in {"write", "read_trailer", "write_trailer"}

(* A card torn away between the two writes of tcard-activate, which keeps  *)
(* the factory key and has a block that is not blank. *)
Stranded(c) == trailer[c].keyA = "default" /\ ~LooksBlank(block[c]) /\ ~Writing(c)

(* None of the four programs ever gets such a card back into use:          *)
(* tcard-activate finds its block not blank, the others its key wrong.     *)
StrandedForGood == [][\A c \in Cards : Stranded(c) =>
  /\ Stranded(c)'
  /\ block'[c] = block[c] /\ trailer'[c] = trailer[c]]_vars

(* No program changes the access bits of a sector, whoever else uses the   *)
(* reader: the trailer is written back with the bits read from this card.  *)
AccessBitsKept == [][\A c \in Cards : trailer'[c].access = trailer[c].access]_vars

(* The turnstile keeps up with the passengers: once the reader is empty it *)
(* gets ready for the next card, and it deals with a card that stays.      *)
TurnstileKeepsUp == \A s \in Seats :
  /\ (prog[s] = "use" /\ Here(s) = NoCard) ~>
       (prog[s] # "use" \/ pc[s] \in {"insert_wait", "off"} \/ Here(s) # NoCard)
  /\ (prog[s] = "use" /\ pc[s] = "insert_wait" /\ Here(s) # NoCard) ~>
       (pc[s] \in {"remove_wait", "redo_wait", "off"} \/ Here(s) = NoCard)

(* "read block CARD_BLOCK and check it contains only zeroes"               *)
(* (tcard-activate.cpp:105): when the activation is about to write the     *)
(* block, it holds zeros only.                                             *)
OnlyZeroes == \A s \in Seats :
  prog[s] = "activate" /\ pc[s] = "write" /\ handle[s] = "valid" =>
    block[Here(s)] = [balance |-> 0, rest |-> FALSE, last |-> FALSE]
=============================================================================
