------------------------------- MODULE Transmit -------------------------------
(* Connection::transmit (libxpcsc/src/connection.cpp): one command to a    *)
(* card, and the GET RESPONSE commands that fetch the rest of a reply when *)
(* the card answers 61xx.  Every SCardTransmit is one step.                *)
(*                                                                         *)
(* The applications in Apps are connected to the same card; the card keeps *)
(* the rest of one reply, that of the last command, whoever sent it.       *)
EXTENDS Integers, Sequences

CONSTANTS
  Apps,
  Commands,
  MaxData,      \* bound: the longest reply
  BYTE          \* how many values a byte has: 256

ASSUME SizeAssumption == MaxData \in Nat /\ BYTE \in Nat \ {0, 1}

(* A reply as the card has it: its bytes, numbered, and how it ends: 9000, *)
(* a warning (62xx, 63xx), or an error, which has no data.                 *)
Bytes == Commands \X (1 .. MaxData)
Data(c, n) == [k \in 1 .. n |-> <<c, k>>]
Statuses == {"none", "ok", "warning", "error"}
Error == [data |-> << >>, sw |-> "error"]
Nothing == [data |-> << >>, sw |-> "none"]
Replies == [data : {Data(c, n) : c \in Commands, n \in 0 .. MaxData}, sw : {"ok", "warning"}]
             \union {Error}

VARIABLES
  rest,       \* card: what it has still to say, or Nothing
  pc,         \* app -> "idle", "sent" (the command) or "more" (got 61xx)
  xx,         \* app -> the second byte of that status
  collector,  \* app -> what transmit has collected
  out,        \* app -> the caller's response
  reply       \* history: app -> what the card means to answer

vars == <<rest, pc, xx, collector, out, reply>>

TypeOK ==
  /\ rest \in [data : Seq(Bytes), sw : Statuses]
  /\ pc \in [Apps -> {"idle", "sent", "more"}]
  /\ xx \in [Apps -> 0 .. BYTE - 1]
  /\ reply \in [Apps -> Replies]
  /\ collector \in [Apps -> Seq(Bytes)]
  /\ out \in [Apps -> [data : Seq(Bytes), sw : Statuses]]

Init ==
  /\ rest = Nothing
  /\ pc = [a \in Apps |-> "idle"]
  /\ xx = [a \in Apps |-> 0]
  /\ collector = [a \in Apps |-> << >>]
  /\ out = [a \in Apps |-> Nothing]
  /\ reply = [a \in Apps |-> Error]

-----------------------------------------------------------------------------
(* Slips a change of transmit could make.  No definition uses them; the    *)
(* properties below must fail when one replaces what it is a slip of.      *)
ForgetFirst(before, d) == d                               \* of Joined
AskForStatusToo(n) == (n + 2) % BYTE                      \* of Le
MoreUnlessDone(sw) == sw # "ok"                           \* of IsMore
KeepStatus(before, d) == before \o d \o <<"SW1", "SW2">>    \* of Joined

(* The card says in xx how many bytes are left; 0 is for BYTE or more.     *)
Announce(n) == IF n >= BYTE THEN 0 ELSE n

(* The size transmit asks for: it takes 0 for the largest byte.            *)
Le(n) == IF n = 0 THEN BYTE - 1 ELSE n

Joined(before, d) == before \o d

IsMore(sw) == sw = "more"

(* The card says the first k bytes of r, and keeps the rest.               *)
Said(r, k) == SubSeq(r.data, 1, k)
Kept(r, k) == [data |-> SubSeq(r.data, k + 1, Len(r.data)), sw |-> r.sw]
Ends(r, k) == k = Len(r.data)

(* transmit gets data d with a status, having collected before: more to    *)
(* fetch, the end of the reply, or any other status, with which it returns *)
(* what it got last.                                                       *)
Receive(a, before, d, sw) ==
  /\ IF IsMore(sw)
     THEN /\ collector' = [collector EXCEPT ![a] = Joined(before, d)]
          /\ pc' = [pc EXCEPT ![a] = "more"]
          /\ UNCHANGED out
     ELSE /\ collector' = [collector EXCEPT ![a] = << >>]
          /\ pc' = [pc EXCEPT ![a] = "idle"]
          /\ out' = [out EXCEPT ![a] =
               [data |-> IF sw = "ok" THEN Joined(before, d) ELSE d, sw |-> sw]]

(* The card says k bytes of r to application a. *)
Speak(a, before, r, k) ==
  IF Ends(r, k)
  THEN /\ rest' = Nothing
       /\ xx' = [xx EXCEPT ![a] = 0]
       /\ Receive(a, before, Said(r, k), r.sw)
  ELSE /\ rest' = Kept(r, k)
       /\ xx' = [xx EXCEPT ![a] = Announce(Len(r.data) - k)]
       /\ Receive(a, before, Said(r, k), "more")

(* transmit is called; the card is going to answer r. *)
Call(a) ==
  /\ pc[a] = "idle"
  /\ \E r \in Replies : reply' = [reply EXCEPT ![a] = r]
  /\ pc' = [pc EXCEPT ![a] = "sent"]
  /\ UNCHANGED <<rest, xx, collector, out>>

(* The first SCardTransmit.  Whatever the card kept for somebody is gone.  *)
FirstReply(a) ==
  /\ pc[a] = "sent"
  /\ \E k \in 0 .. Len(reply[a].data) : k <= BYTE /\ Speak(a, << >>, reply[a], k)
  /\ UNCHANGED reply

(* GET RESPONSE: the card gives at least one byte and no more than asked   *)
(* for, if it has something to give;                                       *)
GetResponse(a) ==
  /\ pc[a] = "more"
  /\ rest # Nothing
  /\ \E k \in 1 .. Len(rest.data) : k <= Le(xx[a]) /\ Speak(a, collector[a], rest, k)
  /\ UNCHANGED reply

(* otherwise, or when it cannot go on, it gives an error.                  *)
GetError(a) ==
  /\ pc[a] = "more"
  /\ rest' = Nothing
  /\ UNCHANGED <<xx, reply>>
  /\ Receive(a, collector[a], << >>, "error")

(* A PC/SC error, or a response shorter than a status: an exception, and   *)
(* the card may or may not have handled the command.                       *)
Fail(a) ==
  /\ pc[a] # "idle"
  /\ pc' = [pc EXCEPT ![a] = "idle"]
  /\ collector' = [collector EXCEPT ![a] = << >>]
  /\ rest' \in {rest, Nothing}
  /\ UNCHANGED <<xx, out, reply>>

Transmitting(a) == FirstReply(a) \/ GetResponse(a) \/ GetError(a)

Next == \E a \in Apps : Call(a) \/ Transmitting(a) \/ Fail(a)

Spec == Init /\ [][Next]_vars

(* SCardTransmit answers: the loop goes on.  Nobody has to call transmit.  *)
FairSpec == Spec /\ \A a \in Apps : WF_vars(Transmitting(a))
-----------------------------------------------------------------------------
(* Properties, for one application: without a transaction the chain of GET *)
(* RESPONSE commands of one is cut by a command of another.                *)

(* transmit keeps the promise of Exchange: whatever the card announces and *)
(* however it cuts its reply, 9000 comes with the whole reply in order.    *)
Promise == INSTANCE Exchange WITH asking <- [a \in Apps |-> pc[a] # "idle"]
ImplementsExchange == Promise!Spec

(* It never asks for more bytes than the card has, which a card is free to *)
(* refuse: not even when the card announces 0 for a full byte.             *)
AsksNoMore == \A a \in Apps : pc[a] = "more" => Le(xx[a]) \in 1 .. Len(rest.data)

(* The do-while loop ends, as every GET RESPONSE that is not the last one  *)
(* brings at least a byte.                                                 *)
Answered == \A a \in Apps : pc[a] # "idle" ~> pc[a] = "idle"

(* "something happened, return just status code" (connection.cpp:239): the *)
(* answer to a chain that ends otherwise than with 9000 has no data.       *)
JustStatus == [][\A a \in Apps :
  pc[a] = "more" /\ out'[a] # out[a] /\ out'[a].sw # "ok" => out'[a].data = << >>]_vars
=============================================================================
