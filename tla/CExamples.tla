------------------------------ MODULE CExamples ------------------------------
(* example-01 to example-04: C programs that call the PC/SC service one     *)
(* call after another.  The first lists the readers; the others wait for a  *)
(* card in the first reader and ask for its ATR, its UID, or a block.  Each *)
(* call is one step, with what the program does after it to the next call;  *)
(* the calls that clean up after an error are steps of their own.           *)
EXTENDS Integers, Sequences

CONSTANTS
  Examples,   \* those that are run, a subset of 1 .. 4
  SizeOf(_),  \* the bytes of a list of readers, which is 1 for an empty one
  NoReader

VARIABLES
  attached,   \* the readers plugged in
  card,       \* reader -> the state of its slot
  example,    \* the program
  at,         \* the call it makes next, "exit", or "gone"
  size,       \* readers_size
  reader_name,
  sent,       \* the commands answered, but for one it gives up on
  ctx,        \* service: its context is open
  conn,       \* and a connection it has not disconnected
  exit        \* the program's exit code

own == <<example, at, size, reader_name, sent, ctx, conn, exit>>

TypeOK ==
  /\ example \in 1 .. 4
  /\ at \in {"establish", "size", "list", "wait", "connect", "use", "disconnect", "release", "exit", "gone"}
  /\ sent \in 0 .. 3
  /\ ctx \in BOOLEAN /\ conn \in BOOLEAN
  /\ exit \in 0 .. 2

Fresh ==
  /\ example \in Examples
  /\ at = "establish"
  /\ size = 0 /\ reader_name = NoReader /\ sent = 0
  /\ ctx = FALSE /\ conn = FALSE
  /\ exit = 0

(* The commands: none but SCardStatus, Get UID, or the three for a block.   *)
Commands == [e \in 1 .. 4 |-> IF e = 4 THEN 3 ELSE 1]

-----------------------------------------------------------------------------
(* What the program calls next, after an answer and after an error; what    *)
(* main returns is settled by the first call that fails.                    *)
Then(next) == at' = next /\ UNCHANGED exit
GiveUp(next) == at' = next /\ exit' = 1

SCardEstablishContext ==
  /\ at = "establish"
  /\ \/ Then("size") /\ ctx' = TRUE
     \/ GiveUp("exit") /\ UNCHANGED ctx
  /\ UNCHANGED <<example, size, reader_name, sent, conn>>

(* How large is the list?  Some services fail if it is empty. *)
ListSize ==
  /\ at = "size"
  /\ \/ Then("list") /\ size' = SizeOf(attached)
     \/ GiveUp("release") /\ UNCHANGED size
  /\ UNCHANGED <<example, reader_name, sent, ctx, conn>>

(* The list, which may have grown or shrunk.  Without a reader there is     *)
(* nothing to wait for, and nothing is released.                            *)
SCardListReaders ==
  /\ at = "list"
  /\ \/ /\ SizeOf(attached) <= size
        /\ size' = SizeOf(attached)
        /\ \/ example = 1 /\ Then("release") /\ UNCHANGED reader_name
           \/ example > 1 /\ size' > 1 /\ reader_name' \in attached /\ Then("wait")
           \/ example > 1 /\ size' <= 1 /\ at' = "exit" /\ exit' = 2 /\ UNCHANGED reader_name
     \/ GiveUp("release") /\ UNCHANGED <<size, reader_name>>
  /\ UNCHANGED <<example, sent, ctx, conn>>

(* One wait for a state that is not SCARD_STATE_EMPTY, the state of a       *)
(* reader that is gone included.                                            *)
Changed == reader_name \notin attached \/ card[reader_name] # "empty"

SCardGetStatusChange ==
  /\ at = "wait"
  /\ Changed
  /\ Then("connect")
  /\ UNCHANGED <<example, size, reader_name, sent, ctx, conn>>

(* The wait fails, which it need not do, however long it takes. *)
Interrupted ==
  /\ at = "wait"
  /\ GiveUp("release")
  /\ UNCHANGED <<example, size, reader_name, sent, ctx, conn>>

HasCard == reader_name \in attached /\ card[reader_name] # "empty"

SCardConnect ==
  /\ at = "connect"
  /\ \/ HasCard /\ Then("use") /\ conn' = TRUE
     \/ GiveUp("release") /\ UNCHANGED conn
  /\ UNCHANGED <<example, size, reader_name, sent, ctx>>

(* SCardStatus, or SCardTransmit of the next command.  What a card that     *)
(* refuses Get UID says is told and passed over.                            *)
Use ==
  /\ at = "use"
  /\ \/ /\ HasCard
        /\ sent' = sent + 1
        /\ Then(IF sent' = Commands[example] THEN "disconnect" ELSE "use")
     \/ GiveUp("disconnect") /\ UNCHANGED sent
  /\ UNCHANGED <<example, size, reader_name, ctx, conn>>

(* A slip of Refused: SCardDisconnect is forgotten. *)
SkipDisconnect ==
  /\ at = "use" /\ example = 4 /\ HasCard
  /\ GiveUp("release")
  /\ UNCHANGED <<example, size, reader_name, sent, ctx, conn>>

(* The card refuses a command of example-04, each of which it needs. *)
Refused ==
  /\ at = "use" /\ example = 4 /\ HasCard
  /\ GiveUp("disconnect")
  /\ UNCHANGED <<example, size, reader_name, sent, ctx, conn>>

(* At the end, where an error is one more to give up on, and on the way out *)
(* after one, where it is ignored.  Its context is released next either way.*)
SCardDisconnect ==
  /\ at = "disconnect"
  /\ conn' = FALSE
  /\ Then("release") \/ GiveUp("release")
  /\ UNCHANGED <<example, size, reader_name, sent, ctx>>

(* The service closes the connections of the context too.  It fails only if *)
(* there is no context any more.                                            *)
SCardReleaseContext ==
  /\ at = "release"
  /\ ctx' = FALSE /\ conn' = FALSE
  /\ Then("exit") \/ GiveUp("exit")
  /\ UNCHANGED <<example, size, reader_name, sent>>

(* The service answers a call, the blocking one when it can.                *)
Answer ==
  \/ SCardEstablishContext \/ ListSize \/ SCardListReaders \/ SCardGetStatusChange
  \/ SCardConnect \/ Use \/ Refused \/ SCardDisconnect \/ SCardReleaseContext

Step == (Answer \/ Interrupted) /\ UNCHANGED <<attached, card>>

(* With a card in its reader, a program that waits for one goes on. *)
Waiting == at = "wait" /\ card[reader_name] # "empty"

-----------------------------------------------------------------------------
(* Properties.                                                              *)

(* Whichever call fails or is refused: the card is disconnected before the  *)
(* context it was connected through is released; a program that ends has    *)
(* given both back, but for the one that finds no reader (exit code 2); and *)
(* it returns 0 only after all its commands.                                *)
NothingLeft ==
  /\ conn => ctx
  /\ at = "release" => ctx /\ ~conn
  /\ at = "exit" /\ exit # 2 => ~ctx /\ ~conn
  /\ exit = 2 => size <= 1 /\ ~conn
  /\ at = "exit" /\ exit = 0 => sent = IF example = 1 THEN 0 ELSE Commands[example]
=============================================================================
