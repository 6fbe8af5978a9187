------------------------------ MODULE Connection ------------------------------
(* xpcsc::Connection (libxpcsc/src/connection.cpp) as a program uses it:   *)
(* the context it owns at the PC/SC service, the list of readers, the two  *)
(* waits and the connections it hands out as Reader objects.  Each call to *)
(* the service is one step; readers come and go, cards too, and another    *)
(* process uses the cards, between any two of them.                        *)
EXTENDS Integers, SequencesExt

CONSTANTS
  Readers,      \* the readers a user may attach
  NameOf,       \* reader -> its name, a sequence of characters
  NUL,          \* the character that ends a name
  Contexts,     \* contexts the service can give
  Handles,      \* bound: the connections the service allows
  None          \* neither a context nor a reader

ASSUME NameAssumption ==
  /\ \A r \in Readers : LET name == NameOf[r] IN
       name \in Seq(Range(name)) /\ Len(name) > 0 /\ NUL \notin Range(name)
  /\ \A r, q \in Readers : NameOf[r] = NameOf[q] => r = q
ASSUME ReaderAssumption == IsFiniteSet(Readers)
ASSUME NoneAssumption == None \notin Contexts \union Readers

CardStates == {"empty", "present", "inuse"}
Results == {"none", "done", "not_ready", "no_service", "no_memory", "no_readers",
            "unknown_reader", "reader_unavailable", "insufficient_buffer",
            "no_smartcard", "removed_card", "invalid_handle", "internal_error"}

(* The codes after which handle_pcsc_response_code releases the context.   *)
Fatal == {"no_service", "no_memory", "no_readers", "reader_unavailable", "internal_error"}

(* Those any call may end with at any time. *)
Failure == {"no_service", "internal_error"}

VARIABLES
  attached,  \* the readers plugged in
  card,      \* reader -> what SCardGetStatusChange says of its slot
  live,      \* service: contexts given to this process and not released
  context,   \* Connection: the one it owns, or None
  open,      \* service: connection -> its context, or None
  reader,    \* service: connection -> its reader, or None
  held,      \* the connections the program has Reader objects of
  call,      \* what the program is in: [fn, r, seen, size]
  names,     \* the list readers() has just returned
  result     \* how the last call ended; "none" while one is under way

envVars == <<attached, card>>
handleVars == <<open, reader, held>>
vars == <<envVars, live, context, handleVars, call, names, result>>

Idle == [fn |-> "idle", r |-> None, seen |-> "none", size |-> 0]

TypeOK ==
  /\ attached \subseteq Readers
  /\ card \in [Readers -> CardStates]
  /\ live \subseteq Contexts
  /\ context \in Contexts \union {None}
  /\ open \in [Handles -> Contexts \union {None}]
  /\ reader \in [Handles -> Readers \union {None}]
  /\ held \subseteq Handles
  /\ call.fn \in {"idle", "fetch", "poll_in", "wait_in", "connect", "poll_out", "wait_out"}
  /\ call.r \in Readers \union {None}
  /\ call.seen \in CardStates \union {"none"}
  /\ result \in Results

Init ==
  /\ attached \in SUBSET Readers
  /\ card = [r \in Readers |-> "empty"]
  /\ live = {}
  /\ context = None
  /\ open = [h \in Handles |-> None]
  /\ reader = [h \in Handles |-> None]
  /\ held = {}
  /\ call = Idle
  /\ names = << >>
  /\ result = "none"

-----------------------------------------------------------------------------
(* Readers and cards.                                                      *)

Closed(hs) == /\ open' = [h \in Handles |-> IF h \in hs THEN None ELSE open[h]]
              /\ reader' = [h \in Handles |-> IF h \in hs THEN None ELSE reader[h]]

Attach(r) ==
  /\ r \notin attached
  /\ attached' = attached \union {r}
  /\ UNCHANGED <<card, live, context, handleVars, call, names, result>>

Detach(r) ==
  /\ r \in attached
  /\ attached' = attached \ {r}
  /\ card' = [card EXCEPT ![r] = "empty"]
  /\ UNCHANGED <<live, context, handleVars, call, names, result>>

(* A card comes or goes, or another process connects or disconnects: the   *)
(* state bits change.                                                      *)
Slot(r) ==
  /\ r \in attached
  /\ \E c \in CardStates \ {card[r]} : card' = [card EXCEPT ![r] = c]
  /\ UNCHANGED <<attached, live, context, handleVars, call, names, result>>

-----------------------------------------------------------------------------
(* Slips a change of connection.cpp could make, for the properties to      *)
(* catch; no definition uses them.                                         *)
Unchecked(c) == TRUE                                      \* of Ready
KeepContext(code) == UNCHANGED <<live, context, open, reader>>    \* of Cleanup
ForgetToClear(code) ==                                    \* of Cleanup
  /\ live' = live \ {context}
  /\ UNCHANGED <<context, open, reader>>
StayOnNul(e) == e                                         \* of AfterName
KnowEmpty(c) == "empty"                                   \* of Known
StayUnaware(c) == "unaware"                               \* of Known

(* CONTEXT_READY_CHECK *)
Ready(c) == c # None

(* release_context: the service closes the connections of the context.     *)
release_context ==
  /\ live' = live \ {context}
  /\ context' = None
  /\ Closed({h \in Handles : open[h] # None /\ open[h] = context})

(* What handle_pcsc_response_code does before it throws. *)
Cleanup(code) == IF code \in Fatal THEN release_context
                 ELSE UNCHANGED <<live, context, open, reader>>

(* The call of the program ends with an exception, or returns. *)
Throw(code) ==
  /\ Cleanup(code)
  /\ call' = Idle
  /\ result' = code
  /\ names' = << >>
  /\ UNCHANGED held

Return ==
  /\ call' = Idle
  /\ result' = "done"

-----------------------------------------------------------------------------
(* init: the programs call it on an object that owns no context.           *)
init ==
  /\ call = Idle /\ context = None
  /\ \/ /\ \E c \in Contexts \ live : live' = live \union {c} /\ context' = c
        /\ Return
        /\ names' = << >>
        /\ UNCHANGED handleVars
     \/ \E code \in Failure \union {"no_memory"} : Throw(code)
  /\ UNCHANGED envVars

(* The calls that start with CONTEXT_READY_CHECK. *)
Start(fn, r, size) ==
  IF Ready(context)
  THEN /\ call' = [fn |-> fn, r |-> r, seen |-> "none", size |-> size]
       /\ result' = "none" /\ names' = << >>
       /\ UNCHANGED <<live, context, handleVars>>
  ELSE /\ result' = "not_ready" /\ names' = << >>
       /\ UNCHANGED <<live, context, handleVars, call>>

(* The names of the readers rs as SCardListReaders packs them: each with a *)
(* NUL after it, and one more at the end.                                  *)
Packed(rs) == FlattenSeq([k \in 1 .. Len(rs) |-> Append(NameOf[rs[k]], NUL)]) \o <<NUL>>
SizeOf(rs) == Len(Packed(SetToSeq(rs)))

(* The loop of readers() that takes the buffer apart. *)
NulFrom(buf, j) ==
  CHOOSE k \in j .. Len(buf) : buf[k] = NUL /\ \A i \in j .. k - 1 : buf[i] # NUL
AfterName(e) == e + 1
Unpacked(buf) ==
  LET names_[j \in 1 .. Len(buf) + 1] ==
        IF j >= Len(buf) THEN << >>
        ELSE <<SubSeq(buf, j, NulFrom(buf, j) - 1)>> \o names_[AfterName(NulFrom(buf, j + 1))]
  IN  names_[1]

(* readers(): how large is the list? *)
readers ==
  /\ call = Idle
  /\ \/ Start("fetch", None, SizeOf(attached))
     \/ Ready(context) /\ attached = {} /\ Throw("no_readers")
     \/ Ready(context) /\ \E code \in Failure : Throw(code)
  /\ UNCHANGED envVars

(* And the list itself, which is another one if a reader came or went: it  *)
(* may be longer than the buffer, or shorter.                              *)
Fetch ==
  /\ call.fn = "fetch"
  /\ \/ /\ SizeOf(attached) <= call.size
        /\ names' = Unpacked(Packed(SetToSeq(attached)))
        /\ Return
        /\ UNCHANGED <<live, context, handleVars>>
     \/ SizeOf(attached) > call.size /\ Throw("insufficient_buffer")
     \/ attached = {} /\ Throw("no_readers")
     \/ \E code \in Failure : Throw(code)
  /\ UNCHANGED envVars

wait_for_reader_card(r) ==
  /\ call = Idle
  /\ Start("poll_in", r, 0)
  /\ UNCHANGED envVars

wait_for_card_remove(r) ==
  /\ call = Idle
  /\ Start("poll_out", r, 0)
  /\ UNCHANGED envVars

(* The state transmitted to the second SCardGetStatusChange: the one just  *)
(* read, without the count of events.                                      *)
Known(c) == c

(* The first SCardGetStatusChange of a turn of the loop, which answers at  *)
(* once.                                                                   *)
Poll ==
  /\ call.fn \in {"poll_in", "poll_out"}
  /\ \/ /\ call.r \in attached
        /\ \/ /\ call.fn = "poll_in" /\ card[call.r] # "empty"
              /\ call' = [call EXCEPT !.fn = "connect"]
              /\ UNCHANGED result
           \/ /\ call.fn = "poll_out" /\ card[call.r] = "empty"
              /\ Return
           \/ /\ (call.fn = "poll_in") = (card[call.r] = "empty")
              /\ call' = [call EXCEPT !.fn = IF @ = "poll_in" THEN "wait_in" ELSE "wait_out",
                                      !.seen = Known(card[call.r])]
              /\ UNCHANGED result
        /\ UNCHANGED <<live, context, handleVars, names>>
     \/ call.r \notin attached /\ Throw("unknown_reader")
     \/ \E code \in Failure : Throw(code)
  /\ UNCHANGED envVars

(* The second one answers when the state is not the one given; then the    *)
(* loop starts again.                                                      *)
Changed ==
  /\ call.fn \in {"wait_in", "wait_out"}
  /\ call.r \notin attached \/ card[call.r] # call.seen
  /\ call' = [call EXCEPT !.fn = IF @ = "wait_in" THEN "poll_in" ELSE "poll_out",
                          !.seen = "none"]
  /\ UNCHANGED <<envVars, live, context, handleVars, names, result>>

Interrupted ==
  /\ call.fn \in {"wait_in", "wait_out"}
  /\ \E code \in Failure : Throw(code)
  /\ UNCHANGED envVars

(* SCardConnect, after the card was seen.  With the protocols the programs *)
(* ask for, the active one is T=0 or T=1.                                  *)
Connect ==
  /\ call.fn = "connect"
  /\ \/ /\ call.r \in attached /\ card[call.r] # "empty"
        /\ \E h \in Handles \ held :
             /\ open[h] = None
             /\ open' = [open EXCEPT ![h] = context]
             /\ reader' = [reader EXCEPT ![h] = call.r]
             /\ held' = held \union {h}
        /\ Return
        /\ UNCHANGED <<live, context, names>>
     \/ (\A h \in Handles : open[h] # None) /\ Throw("no_memory")
     \/ call.r \in attached /\ card[call.r] = "empty" /\ Throw("no_smartcard")
     \/ call.r \notin attached /\ Throw("reader_unavailable")
     \/ \E code \in Failure : Throw(code)
  /\ UNCHANGED envVars

(* atr and transmit: SCardStatus or SCardTransmit on a Reader object.      *)
Use(h) ==
  /\ call = Idle /\ h \in held
  /\ \/ /\ open[h] # None /\ reader[h] \in attached /\ card[reader[h]] # "empty"
        /\ Return
        /\ names' = << >>
        /\ UNCHANGED <<live, context, handleVars>>
     \/ open[h] = None /\ Throw("invalid_handle")
     \/ open[h] # None /\ reader[h] \in attached /\ Throw("removed_card")
     \/ open[h] # None /\ reader[h] \notin attached /\ Throw("reader_unavailable")
     \/ \E code \in Failure : Throw(code)
  /\ UNCHANGED envVars

disconnect_card(h) ==
  /\ call = Idle /\ h \in held
  /\ \/ /\ open[h] # None
        /\ Closed({h})
        /\ Return
        /\ names' = << >>
        /\ UNCHANGED <<live, context, held>>
     \/ open[h] = None /\ Throw("invalid_handle")
     \/ \E code \in Failure : Throw(code)
  /\ UNCHANGED envVars

(* The program lets go of a Reader object, which closes nothing (tcard-use *)
(* does for every card).                                                   *)
Drop(h) ==
  /\ call = Idle /\ h \in held
  /\ held' = held \ {h}
  /\ result' = "none" /\ names' = << >>
  /\ UNCHANGED <<envVars, live, context, open, reader, call>>

(* The destructor; the program may then make another object. *)
Destroy ==
  /\ call = Idle
  /\ release_context
  /\ result' = "none" /\ names' = << >>
  /\ UNCHANGED <<envVars, held, call>>

(* The users and the other processes. *)
Environment == \E r \in Readers : Attach(r) \/ Detach(r) \/ Slot(r)

(* The program, in the calls it makes and in those under way. *)
Program ==
  \/ \E r \in Readers : wait_for_reader_card(r) \/ wait_for_card_remove(r)
  \/ \E h \in Handles : Use(h) \/ disconnect_card(h) \/ Drop(h)
  \/ init \/ readers \/ Destroy
  \/ Fetch \/ Poll \/ Changed \/ Interrupted \/ Connect

Next == Environment \/ Program

Spec == Init /\ [][Next]_vars
-----------------------------------------------------------------------------
(* Properties.                                                             *)

(* The object owns the one context the service holds for it, none is left  *)
(* behind by an error, and every connection that is open goes through it.  *)
OwnsContext ==
  /\ live = IF context = None THEN {} ELSE {context}
  /\ \A h \in Handles : open[h] \in {None, context}

(* "perform cleanup in case of fatal errors" (connection.cpp:410): after a *)
(* fatal error nothing is open and no call of the library is under way.    *)
CleanAfterFatal == result \in Fatal /\ call = Idle =>
  context = None /\ live = {} /\ \A h \in Handles : open[h] = None

(* No call passes a context to the service that it does not have. *)
CallsHaveContext == call # Idle => context \in live

(* readers() returns the readers of one moment, each once, though the list *)
(* may change between its two calls.                                       *)
ListIsSnapshot == [][call.fn = "fetch" /\ result' = "done" /\ call' = Idle =>
  /\ Range(names') = {NameOf[r] : r \in attached}
  /\ Len(names') = Cardinality(attached)]_vars

(* What a wait is for has come to hold. *)
WaitOver ==
  \/ call.fn \in {"poll_in", "wait_in", "connect"} /\ card[call.r] # "empty"
  \/ call.fn \in {"poll_out", "wait_out"} /\ card[call.r] = "empty"
=============================================================================
