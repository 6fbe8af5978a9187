------------------------------ MODULE Processes ------------------------------
(* A C example, and after it a program that uses xpcsc::Connection, with    *)
(* the same readers and cards, which come and go all the time.              *)
EXTENDS Connection

CONSTANT Examples

ASSUME ExampleAssumption == Examples \subseteq 1 .. 4

VARIABLES example, at, size, reader_name, sent, ctx, conn, exit

C == INSTANCE CExamples WITH NoReader <- None

c == <<example, at, size, reader_name, sent, ctx, conn, exit>>
allVars == <<vars, c>>

BothInit == Init /\ C!Fresh

(* The C program is gone, and what it held with it: the service ends the    *)
(* contexts of a process that is no more.                                   *)
Gone ==
  /\ at = "exit"
  /\ at' = "gone"
  /\ example' = 1 /\ size' = 0 /\ reader_name' = None /\ sent' = 0
  /\ ctx' = FALSE /\ conn' = FALSE /\ exit' = 0
  /\ UNCHANGED vars

(* Then the library is used. *)
Later == at = "gone" /\ UNCHANGED c

First == C!Step /\ UNCHANGED <<live, context, handleVars, call, names, result>>

(* What the C program can count on: an answer, of the wait only when the    *)
(* state is not the one it was given.                                       *)
Answered == C!Answer /\ UNCHANGED vars

BothNext ==
  \/ First
  \/ Environment /\ UNCHANGED c
  \/ Gone
  \/ Later /\ Program

(* The service answers a call that can be answered; for the waits, once     *)
(* the state is not the one they were given.                                *)
BothSpec ==
  /\ BothInit /\ [][BothNext]_allVars
  /\ WF_allVars(Answered)
  /\ WF_allVars(Later /\ Fetch) /\ WF_allVars(Later /\ Poll)
  /\ WF_allVars(Later /\ Changed) /\ WF_allVars(Later /\ Connect)

-----------------------------------------------------------------------------
(* Properties.                                                              *)

(* The C program is in a state of its type, and leaves nothing at the       *)
(* service, whichever call fails and whatever readers and cards do; it      *)
(* disconnects its card before it releases the context.                     *)
NothingLeft == C!TypeOK /\ C!NothingLeft

(* A wait during which its condition comes to hold for good ends, in either *)
(* program: no change of state gets lost between the two calls of the loop. *)
BothWaitsEnd == []<>~(WaitOver \/ C!Waiting)
=============================================================================
