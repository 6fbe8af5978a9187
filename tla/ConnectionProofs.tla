--------------------------- MODULE ConnectionProofs ---------------------------
(* Theorems about Connection, for any readers, contexts and connections,    *)
(* and that a C program before it makes no difference to it.                *)
EXTENDS Processes, FiniteSetTheorems, SequenceLemmas

CallNames == {"idle", "fetch", "poll_in", "wait_in", "connect", "poll_out", "wait_out"}

(* The invariants are inductive together, once call is known to be a        *)
(* record: each error path relies on the service holding no more than the   *)
(* object's context.                                                        *)
Calls(n) == [fn : CallNames, r : Readers \union {None}, seen : CardStates \union {"none"}, size : {n}]
CallShape == call \in Calls(call.size)

ConnInv == TypeOK /\ CallShape /\ OwnsContext /\ CleanAfterFatal /\ CallsHaveContext

-----------------------------------------------------------------------------
(* What the parts of the actions preserve.                                  *)

LEMMA Released ==
  ASSUME ConnInv, release_context
  PROVE  /\ context' = None /\ live' = {}
         /\ open' \in [Handles -> {None}]
         /\ reader' \in [Handles -> Readers \union {None}]
<1>1. context' = None /\ live' = {}
  BY DEF ConnInv, OwnsContext, release_context
<1>2. /\ open' = [h \in Handles |-> IF open[h] # None /\ open[h] = context THEN None ELSE open[h]]
      /\ reader' = [h \in Handles |-> IF open[h] # None /\ open[h] = context THEN None ELSE reader[h]]
  BY DEF release_context, Closed
<1>3. \A h \in Handles : open[h] \in {None, context}
  BY DEF ConnInv, OwnsContext
<1> QED
  BY <1>1, <1>2, <1>3 DEF ConnInv, TypeOK

LEMMA Thrown ==
  ASSUME ConnInv, NEW code \in Results, Throw(code), UNCHANGED envVars
  PROVE  ConnInv'
<1> USE DEF ConnInv
<1>0. call' = Idle /\ result' = code /\ held' = held /\ attached' = attached /\ card' = card
  BY DEF Throw, envVars
<1>1. CASE code \in Fatal
  <2>1. release_context
    BY <1>1 DEF Throw, Cleanup
  <2>2. TypeOK'
    BY <1>0, <2>1, Released DEF TypeOK, Idle
  <2> QED
    BY <1>0, <2>1, <2>2, Released DEF CallShape, Calls, CallNames, OwnsContext, CleanAfterFatal, CallsHaveContext, Idle
<1>2. CASE code \notin Fatal
  <2>1. UNCHANGED <<live, context, open, reader>>
    BY <1>2 DEF Throw, Cleanup
  <2> QED
    BY <1>0, <1>2, <2>1
    DEF TypeOK, CallShape, Calls, CallNames, OwnsContext, CleanAfterFatal, CallsHaveContext, Idle
<1> QED
  BY <1>1, <1>2

LEMMA Started ==
  ASSUME ConnInv, call = Idle, UNCHANGED envVars,
         NEW fn \in CallNames \ {"idle"}, NEW r \in Readers \union {None}, NEW n,
         Start(fn, r, n)
  PROVE  ConnInv'
<1> USE DEF ConnInv
<1>0. UNCHANGED <<attached, card, live, context, open, reader, held>>
  BY DEF Start, envVars, handleVars
<1>1. CASE Ready(context)
  <2>1. call' = [fn |-> fn, r |-> r, seen |-> "none", size |-> n] /\ result' = "none"
    BY <1>1 DEF Start
  <2>2. TypeOK'
    BY <1>0, <2>1 DEF TypeOK, CallNames, Results
  <2>3. CallShape'
    BY <2>1 DEF CallShape, Calls, CallNames
  <2>4. context \in live
    BY <1>1 DEF Ready, OwnsContext
  <2> QED
    BY <1>0, <2>1, <2>2, <2>3, <2>4 DEF OwnsContext, CleanAfterFatal, CallsHaveContext, Fatal
<1>2. CASE ~Ready(context)
  <2>1. call' = call /\ result' = "not_ready"
    BY <1>2 DEF Start
  <2> QED
    BY <1>0, <2>1
    DEF TypeOK, CallShape, Calls, CallNames, OwnsContext, CleanAfterFatal, CallsHaveContext, Fatal, Results
<1> QED
  BY <1>1, <1>2

(* A call that returns without a change at the service. *)
LEMMA Returned ==
  ASSUME ConnInv, call' = Idle, result' \in {"done", "none"},
         UNCHANGED <<attached, card, live, context, open, reader>>, held' \subseteq Handles
  PROVE  ConnInv'
BY DEF ConnInv, TypeOK, CallShape, Calls, CallNames, OwnsContext, CleanAfterFatal, CallsHaveContext, Idle, Fatal, Results

(* A call that goes on, at another place. *)
LEMMA GoesOn ==
  ASSUME ConnInv, call # Idle, NEW fn \in CallNames \ {"idle"}, NEW seen \in CardStates \union {"none"},
         call' = [call EXCEPT !.fn = fn, !.seen = seen], result' = result,
         UNCHANGED <<attached, card, live, context, open, reader, held>>
  PROVE  ConnInv'
<1> USE DEF ConnInv
<1>1. call' \in Calls(call.size) /\ call'.fn = fn
  BY DEF CallShape, Calls
<1>2. CallShape' /\ call' # Idle
  BY <1>1 DEF CallShape, Calls, Idle, CallNames
<1>3. TypeOK'
  BY <1>1 DEF TypeOK, Calls, CallNames
<1> QED
  BY <1>2, <1>3 DEF OwnsContext, CleanAfterFatal, CallsHaveContext

-----------------------------------------------------------------------------
(* The steps.                                                               *)

LEMMA InitConn == Init => ConnInv
BY DEF Init, ConnInv, TypeOK, CallShape, Calls, CallNames, OwnsContext, CleanAfterFatal, CallsHaveContext, Idle,
       CardStates, Results, Fatal

LEMMA EnvironmentKeeps == ConnInv /\ Environment => ConnInv'
<1> SUFFICES ASSUME ConnInv, NEW r \in Readers, Attach(r) \/ Detach(r) \/ Slot(r)
             PROVE  ConnInv'
  BY DEF Environment
<1>1. UNCHANGED <<live, context, open, reader, held, call, result>>
  BY DEF Attach, Detach, Slot, handleVars
<1>2. attached' \subseteq Readers /\ card' \in [Readers -> CardStates]
  BY DEF ConnInv, TypeOK, Attach, Detach, Slot, CardStates
<1> QED
  BY <1>1, <1>2 DEF ConnInv, TypeOK, CallShape, Calls, CallNames, OwnsContext, CleanAfterFatal, CallsHaveContext

LEMMA InitCallKeeps == ConnInv /\ init => ConnInv'
<1> SUFFICES ASSUME ConnInv, init PROVE ConnInv'
  OBVIOUS
<1>1. ASSUME NEW code \in Failure \union {"no_memory"}, Throw(code) PROVE ConnInv'
  BY <1>1, Thrown DEF init, Results, Failure
<1>2. ASSUME NEW x \in Contexts, live' = live \union {x}, context' = x,
             Return, UNCHANGED handleVars
      PROVE  ConnInv'
  <2> USE <1>2 DEF ConnInv
  <2>1. live = {} /\ \A h \in Handles : open[h] = None
    BY DEF init, OwnsContext
  <2>2. x # None /\ live' = {x}
    BY <2>1, NoneAssumption
  <2>3. call' = Idle /\ result' = "done" /\ UNCHANGED <<attached, card, open, reader, held>>
    BY DEF init, Return, envVars, handleVars
  <2>4. TypeOK' /\ CallShape'
    BY <2>2, <2>3 DEF TypeOK, CallShape, Calls, CallNames, Idle, Results
  <2> QED
    BY <2>1, <2>2, <2>3, <2>4 DEF OwnsContext, CleanAfterFatal, CallsHaveContext, Fatal
<1> QED
  BY <1>1, <1>2 DEF init

LEMMA ReadersKeeps == ConnInv /\ (readers \/ Fetch) => ConnInv'
<1>1. ASSUME ConnInv, readers PROVE ConnInv'
  <2>1. CASE Start("fetch", None, SizeOf(attached))
    BY <1>1, <2>1, Started DEF readers, CallNames
  <2>2. ASSUME NEW code \in Failure \union {"no_readers"}, Throw(code) PROVE ConnInv'
    BY <1>1, <2>2, Thrown DEF readers, Results, Failure
  <2> QED
    BY <1>1, <2>1, <2>2 DEF readers
<1>2. ASSUME ConnInv, Fetch PROVE ConnInv'
  <2>1. CASE Return /\ UNCHANGED <<live, context, handleVars>>
    BY <1>2, <2>1, Returned DEF Fetch, Return, envVars, handleVars, ConnInv, TypeOK
  <2>2. ASSUME NEW code \in Failure \union {"insufficient_buffer", "no_readers"}, Throw(code)
        PROVE  ConnInv'
    BY <1>2, <2>2, Thrown DEF Fetch, Results, Failure
  <2> QED
    BY <1>2, <2>1, <2>2 DEF Fetch
<1> QED
  BY <1>1, <1>2

LEMMA WaitKeeps ==
  ConnInv /\ (\E r \in Readers : wait_for_reader_card(r) \/ wait_for_card_remove(r)) => ConnInv'
<1> SUFFICES ASSUME ConnInv, NEW r \in Readers, wait_for_reader_card(r) \/ wait_for_card_remove(r)
             PROVE  ConnInv'
  OBVIOUS
<1>1. CASE wait_for_reader_card(r)
  BY <1>1, Started DEF wait_for_reader_card, CallNames
<1>2. CASE wait_for_card_remove(r)
  BY <1>2, Started DEF wait_for_card_remove, CallNames
<1> QED
  BY <1>1, <1>2

LEMMA PollKeeps == ConnInv /\ Poll => ConnInv'
<1> SUFFICES ASSUME ConnInv, Poll PROVE ConnInv'
  OBVIOUS
<1>0. call # Idle /\ UNCHANGED <<attached, card>>
  BY DEF Poll, Idle, envVars
<1>1. ASSUME NEW code \in Failure \union {"unknown_reader"}, Throw(code) PROVE ConnInv'
  BY <1>1, Thrown DEF Poll, Results, Failure
<1>2. ASSUME call.r \in attached, UNCHANGED <<live, context, handleVars, names>>,
             call' = [call EXCEPT !.fn = "connect"], UNCHANGED result
      PROVE  ConnInv'
  <2>1. call' = [call EXCEPT !.fn = "connect", !.seen = call.seen]
    BY <1>2 DEF ConnInv, CallShape
  <2> QED
    BY <1>0, <1>2, <2>1, GoesOn DEF handleVars, ConnInv, TypeOK, CallNames
<1>3. ASSUME UNCHANGED <<live, context, handleVars, names>>, Return PROVE ConnInv'
  BY <1>0, <1>3, Returned DEF handleVars, Return, ConnInv, TypeOK
<1>4. ASSUME call.r \in attached, UNCHANGED <<live, context, handleVars, names>>, UNCHANGED result,
             call' = [call EXCEPT !.fn = IF @ = "poll_in" THEN "wait_in" ELSE "wait_out",
                                  !.seen = Known(card[call.r])]
      PROVE  ConnInv'
  <2>1. PICK fn \in CallNames \ {"idle"} : fn = IF call.fn = "poll_in" THEN "wait_in" ELSE "wait_out"
    BY DEF CallNames
  <2>2. Known(card[call.r]) \in CardStates \union {"none"}
    BY <1>4 DEF ConnInv, TypeOK, Known
  <2>3. call' = [call EXCEPT !.fn = fn, !.seen = Known(card[call.r])]
    BY <1>4, <2>1
  <2> QED
    BY <1>0, <1>4, <2>2, <2>3, GoesOn DEF handleVars
<1> QED
  BY <1>1, <1>2, <1>3, <1>4 DEF Poll

LEMMA ChangedKeeps == ConnInv /\ (Changed \/ Interrupted) => ConnInv'
<1>1. ASSUME ConnInv, Changed PROVE ConnInv'
  <2>0. call # Idle /\ UNCHANGED <<attached, card, live, context, open, reader, held, result>>
    BY <1>1 DEF Changed, Idle, envVars, handleVars
  <2>1. PICK fn \in CallNames \ {"idle"} : fn = IF call.fn = "wait_in" THEN "poll_in" ELSE "poll_out"
    BY DEF CallNames
  <2>2. call' = [call EXCEPT !.fn = fn, !.seen = "none"]
    BY <1>1, <2>1 DEF Changed
  <2> QED
    BY <1>1, <2>0, <2>2, GoesOn
<1>2. ASSUME ConnInv, Interrupted PROVE ConnInv'
  BY <1>2, Thrown DEF Interrupted, Results, Failure
<1> QED
  BY <1>1, <1>2

LEMMA ConnectKeeps == ConnInv /\ Connect => ConnInv'
<1> SUFFICES ASSUME ConnInv, Connect PROVE ConnInv'
  OBVIOUS
<1>1. ASSUME NEW code \in Failure \union {"no_memory", "no_smartcard", "reader_unavailable"}, Throw(code)
      PROVE  ConnInv'
  BY <1>1, Thrown DEF Connect, Results, Failure
<1>2. ASSUME NEW h \in Handles, call.r \in attached,
             open' = [open EXCEPT ![h] = context], reader' = [reader EXCEPT ![h] = call.r],
             held' = held \union {h}, Return, UNCHANGED <<live, context, names>>
      PROVE  ConnInv'
  <2> USE <1>2 DEF ConnInv
  <2>0. call' = Idle /\ result' = "done" /\ UNCHANGED <<attached, card>>
    BY DEF Return, Connect, envVars
  <2>1. TypeOK' /\ CallShape'
    BY <2>0 DEF TypeOK, CallShape, Calls, CallNames, Idle, Results
  <2>2. \A g \in Handles : open'[g] = IF g = h THEN context ELSE open[g]
    BY DEF TypeOK
  <2> QED
    BY <2>0, <2>1, <2>2 DEF OwnsContext, CleanAfterFatal, CallsHaveContext, Fatal
<1> QED
  BY <1>1, <1>2 DEF Connect

LEMMA UseKeeps ==
  ConnInv /\ (\E h \in Handles : Use(h) \/ disconnect_card(h) \/ Drop(h)) => ConnInv'
<1> SUFFICES ASSUME ConnInv, NEW h \in Handles, Use(h) \/ disconnect_card(h) \/ Drop(h)
             PROVE  ConnInv'
  OBVIOUS
<1>1. CASE Use(h)
  <2>1. ASSUME NEW code \in Failure \union {"invalid_handle", "removed_card", "reader_unavailable"},
               Throw(code)
        PROVE  ConnInv'
    BY <1>1, <2>1, Thrown DEF Use, Results, Failure
  <2>2. CASE Return /\ UNCHANGED <<live, context, handleVars>>
    BY <1>1, <2>2, Returned DEF Use, Return, envVars, handleVars, ConnInv, TypeOK
  <2> QED
    BY <1>1, <2>1, <2>2 DEF Use
<1>2. CASE disconnect_card(h)
  <2>1. ASSUME NEW code \in Failure \union {"invalid_handle"}, Throw(code) PROVE ConnInv'
    BY <1>2, <2>1, Thrown DEF disconnect_card, Results, Failure
  <2>2. CASE Closed({h}) /\ Return /\ UNCHANGED <<live, context, held>>
    <3> USE <1>2, <2>2 DEF ConnInv
    <3>0. call' = Idle /\ result' = "done" /\ UNCHANGED <<attached, card>>
      BY DEF Return, disconnect_card, envVars
    <3>1. TypeOK' /\ CallShape'
      BY <3>0 DEF TypeOK, CallShape, Calls, CallNames, Idle, Results, Closed
    <3>2. \A g \in Handles : open'[g] \in {None, open[g]}
      BY DEF Closed, TypeOK
    <3> QED
      BY <3>0, <3>1, <3>2 DEF OwnsContext, CleanAfterFatal, CallsHaveContext, Fatal
  <2> QED
    BY <1>2, <2>1, <2>2 DEF disconnect_card
<1>3. CASE Drop(h)
  BY <1>3, Returned DEF Drop, envVars, ConnInv, TypeOK
<1> QED
  BY <1>1, <1>2, <1>3

LEMMA DestroyKeeps == ConnInv /\ Destroy => ConnInv'
<1> SUFFICES ASSUME ConnInv, Destroy PROVE ConnInv'
  OBVIOUS
<1>1. UNCHANGED <<attached, card, held, call>> /\ call = Idle /\ result' = "none"
  BY DEF Destroy, envVars
<1>2. release_context
  BY DEF Destroy
<1>3. TypeOK'
  BY <1>1, <1>2, Released DEF ConnInv, TypeOK, Results
<1> QED
  BY <1>1, <1>2, <1>3, Released
  DEF ConnInv, CallShape, Calls, CallNames, OwnsContext, CleanAfterFatal, CallsHaveContext, Fatal

LEMMA ConnStep == ConnInv /\ [Next]_vars => ConnInv'
<1> SUFFICES ASSUME ConnInv, [Next]_vars PROVE ConnInv'
  OBVIOUS
<1>1. CASE Next
  BY <1>1, EnvironmentKeeps, WaitKeeps, UseKeeps, InitCallKeeps, ReadersKeeps, DestroyKeeps,
     PollKeeps, ChangedKeeps, ConnectKeeps
  DEF Next, Program
<1>2. CASE UNCHANGED vars
  BY <1>2 DEF vars, envVars, handleVars, ConnInv, TypeOK, CallShape, Calls, CallNames, OwnsContext, CleanAfterFatal,
              CallsHaveContext
<1> QED
  BY <1>1, <1>2

LEMMA ConnHolds == Spec => []ConnInv
BY InitConn, ConnStep, PTL DEF Spec

-----------------------------------------------------------------------------
(* The type invariant. *)
THEOREM ConnTypes == Spec => []TypeOK
<1>1. ConnInv => TypeOK
  BY DEF ConnInv
<1> QED
  BY <1>1, ConnHolds, PTL

(* The service holds for the object what the object knows of: the one       *)
(* context it owns, and no connection of another one.                       *)
THEOREM ContextOwned == Spec => []OwnsContext
<1>1. ConnInv => OwnsContext
  BY DEF ConnInv
<1> QED
  BY <1>1, ConnHolds, PTL

(* After a fatal error nothing is left at the service.                      *)
THEOREM CleanedUp == Spec => []CleanAfterFatal
<1>1. ConnInv => CleanAfterFatal
  BY DEF ConnInv
<1> QED
  BY <1>1, ConnHolds, PTL

(* The service is never called with a context it does not hold.             *)
THEOREM ContextHeld == Spec => []CallsHaveContext
<1>1. ConnInv => CallsHaveContext
  BY DEF ConnInv
<1> QED
  BY <1>1, ConnHolds, PTL
-----------------------------------------------------------------------------
(* What is run after a C example is Connection: all of the above holds of   *)
(* the two together.                                                        *)
THEOREM LibraryAlone == BothSpec => Spec
<1>1. BothInit => Init
  BY DEF BothInit
<1>2. [BothNext]_allVars => [Next]_vars
  <2> SUFFICES ASSUME [BothNext]_allVars PROVE [Next]_vars
    OBVIOUS
  <2>1. CASE First
    BY <2>1 DEF First, C!Step, vars, envVars
  <2>2. CASE Environment \/ Gone \/ (Later /\ Program)
    BY <2>2 DEF Next, Gone
  <2>3. CASE UNCHANGED allVars
    BY <2>3 DEF allVars
  <2> QED
    BY <2>1, <2>2, <2>3 DEF BothNext
<1> QED
  BY <1>1, <1>2, PTL DEF BothSpec, Spec

-----------------------------------------------------------------------------
(* The C program before it.  Once a call has failed it only cleans up; it   *)
(* has commands left while it uses a card, and none when it takes leave     *)
(* without an error.  The first example never comes to a card.              *)
Places == {"establish", "size", "list", "wait", "connect", "use", "disconnect", "release", "exit", "gone"}

ExampleInv ==
  /\ example \in 1 .. 4 /\ at \in Places /\ sent \in 0 .. 3 /\ exit \in 0 .. 2
  /\ exit # 0 => at \in {"disconnect", "release", "exit"}
  /\ exit = 2 => at = "exit" /\ size <= 1
  /\ example = 1 => at \notin {"wait", "connect", "use", "disconnect"}
  /\ at \in {"establish", "size", "list", "wait", "connect"} => sent = 0
  /\ at = "use" => sent < C!Commands[example]
  /\ exit = 0 /\ at = "disconnect" => sent = C!Commands[example]
  /\ exit = 0 /\ at \in {"release", "exit"} => sent = IF example = 1 THEN 0 ELSE C!Commands[example]

LEMMA CommandsAre == /\ C!Commands \in [1 .. 4 -> 1 .. 3]
                     /\ C!Commands' = C!Commands
BY DEF C!Commands

LEMMA InitExample == BothInit => ExampleInv
BY CommandsAre, ExampleAssumption DEF BothInit, ExampleInv, Places, C!Fresh

(* The calls before there is a connection. *)
LEMMA EarlyCalls ==
  ASSUME ExampleInv,
         \/ C!SCardEstablishContext \/ C!ListSize \/ C!SCardListReaders
         \/ C!SCardGetStatusChange \/ C!Interrupted \/ C!SCardConnect
  PROVE  ExampleInv'
<1> USE CommandsAre DEF ExampleInv, Places, C!Then, C!GiveUp
<1>1. CASE C!SCardEstablishContext \/ C!ListSize
  BY <1>1 DEF C!SCardEstablishContext, C!ListSize
<1>2. CASE C!SCardListReaders
  BY <1>2 DEF C!SCardListReaders
<1>3. CASE C!SCardGetStatusChange \/ C!Interrupted
  BY <1>3 DEF C!SCardGetStatusChange, C!Interrupted
<1>4. CASE C!SCardConnect
  BY <1>4 DEF C!SCardConnect
<1> QED
  BY <1>1, <1>2, <1>3, <1>4

(* And those from then on. *)
LEMMA CardCalls ==
  ASSUME ExampleInv, C!Use \/ C!Refused \/ C!SCardDisconnect \/ C!SCardReleaseContext
  PROVE  ExampleInv'
<1> USE CommandsAre DEF ExampleInv, Places, C!Then, C!GiveUp
<1>1. CASE C!Use
  <2>1. at = "use" /\ UNCHANGED <<example, size>> /\ exit = 0 /\ example # 1
    BY <1>1 DEF C!Use
  <2>2. CASE at' = "disconnect" /\ exit' = 1 /\ sent' = sent
    BY <2>1, <2>2
  <2>3. CASE /\ sent' = sent + 1 /\ exit' = exit
             /\ at' = IF sent' = C!Commands[example] THEN "disconnect" ELSE "use"
    <3>1. sent' \in 1 .. C!Commands[example] /\ C!Commands[example] \in 1 .. 3
      BY <2>1, <2>3
    <3> QED
      BY <2>1, <2>3, <3>1
  <2> QED
    BY <1>1, <2>2, <2>3 DEF C!Use
<1>2. CASE C!Refused
  BY <1>2 DEF C!Refused
<1>3. CASE C!SCardDisconnect
  BY <1>3 DEF C!SCardDisconnect
<1>4. CASE C!SCardReleaseContext
  BY <1>4 DEF C!SCardReleaseContext
<1> QED
  BY <1>1, <1>2, <1>3, <1>4

LEMMA ExampleStep == ExampleInv /\ [BothNext]_allVars => ExampleInv'
<1> SUFFICES ASSUME ExampleInv, [BothNext]_allVars PROVE ExampleInv'
  OBVIOUS
<1>1. CASE UNCHANGED c
  BY <1>1, CommandsAre DEF c, ExampleInv
<1>2. CASE Gone
  BY <1>2, CommandsAre DEF Gone, ExampleInv, Places
<1>3. CASE First
  BY <1>3, EarlyCalls, CardCalls DEF First, C!Step, C!Answer
<1> QED
  BY <1>1, <1>2, <1>3 DEF BothNext, Later, allVars

(* It owns a context from its second call to its last, and a connection     *)
(* from "use" to SCardDisconnect, on whichever path; only one that found no *)
(* reader keeps its context.                                                *)
Owning == {"size", "list", "wait", "connect", "use", "disconnect", "release"}

Flags ==
  /\ ctx \in BOOLEAN /\ conn \in BOOLEAN
  /\ conn => at \in {"use", "disconnect"}
  /\ at \in Owning => ctx
  /\ at = "establish" => ~ctx
  /\ at = "exit" /\ exit # 2 => ~ctx

LEMMA FlagsStep == Flags /\ [BothNext]_allVars => Flags'
<1> SUFFICES ASSUME Flags, [BothNext]_allVars PROVE Flags'
  OBVIOUS
<1> USE DEF Flags, Owning, C!Then, C!GiveUp
<1>1. CASE UNCHANGED c
  BY <1>1 DEF c
<1>2. CASE Gone
  BY <1>2 DEF Gone
<1>3. CASE C!SCardEstablishContext
  <2>1. at = "establish" /\ ~conn /\ conn' = conn
    BY <1>3 DEF C!SCardEstablishContext
  <2>2. CASE at' = "size" /\ ctx' = TRUE
    BY <2>1, <2>2
  <2>3. CASE at' = "exit" /\ ctx' = ctx
    BY <2>1, <2>3
  <2> QED
    BY <1>3, <2>2, <2>3 DEF C!SCardEstablishContext
<1>4. CASE C!ListSize \/ C!SCardListReaders
  BY <1>4 DEF C!ListSize, C!SCardListReaders
<1>5. CASE C!SCardGetStatusChange \/ C!Interrupted
  BY <1>5 DEF C!SCardGetStatusChange, C!Interrupted
<1>6. CASE C!SCardConnect
  <2>1. at = "connect" /\ ctx' = ctx
    BY <1>6 DEF C!SCardConnect
  <2>2. CASE at' = "use" /\ conn' = TRUE
    BY <2>1, <2>2
  <2>3. CASE at' = "release" /\ conn' = conn
    BY <2>1, <2>3
  <2> QED
    BY <1>6, <2>2, <2>3 DEF C!SCardConnect
<1>7. CASE C!Use \/ C!Refused
  <2>1. at = "use" /\ at' \in {"use", "disconnect"} /\ UNCHANGED <<ctx, conn>>
    BY <1>7 DEF C!Use, C!Refused
  <2> QED
    BY <2>1
<1>8. CASE C!SCardDisconnect \/ C!SCardReleaseContext
  BY <1>8 DEF C!SCardDisconnect, C!SCardReleaseContext
<1> QED
  BY <1>1, <1>2, <1>3, <1>4, <1>5, <1>6, <1>7, <1>8
  DEF BothNext, First, C!Step, C!Answer, Later, allVars

(* Whichever call of a C program fails or is refused, its card is           *)
(* disconnected before its context is released, and both are given back     *)
(* when it ends, unless it found no reader; it returns 0 only after all its *)
(* commands.                                                                *)
THEOREM ExampleLeavesNothing == BothSpec => []NothingLeft
<1>1. ExampleInv /\ Flags => NothingLeft
  <2> SUFFICES ASSUME ExampleInv, Flags PROVE NothingLeft
    OBVIOUS
  <2>1. C!TypeOK
    BY DEF ExampleInv, Places, Flags, C!TypeOK
  <2>2. C!NothingLeft
    BY DEF ExampleInv, Flags, Owning, C!NothingLeft
  <2> QED
    BY <2>1, <2>2 DEF NothingLeft
<1>2. BothInit => Flags
  BY DEF BothInit, C!Fresh, Flags, Owning
<1> QED
  BY <1>1, <1>2, InitExample, ExampleStep, FlagsStep, PTL DEF BothSpec

-----------------------------------------------------------------------------
(* The list of readers.  The buffer ends in a NUL; the next one is found    *)
(* from any place on.                                                       *)
LEMMA NulIs ==
  ASSUME NEW T, NEW buf \in Seq(T), buf[Len(buf)] = NUL, NEW j \in 1 .. Len(buf)
  PROVE  /\ NulFrom(buf, j) \in j .. Len(buf)
         /\ \A k \in j .. Len(buf) :
              (buf[k] = NUL /\ \A i \in j .. k - 1 : buf[i] # NUL) => NulFrom(buf, j) = k
<1> DEFINE I == {k \in j .. Len(buf) : buf[k] = NUL}
           P(k) == buf[k] = NUL /\ \A i \in j .. k - 1 : buf[i] # NUL
<1>1. I \in SUBSET Nat /\ Len(buf) \in I
  OBVIOUS
<1>2. PICK m \in I : \A k \in I : m <= k
  <2> HIDE DEF I
  <2> QED
    BY <1>1, MinIs
<1>3. m \in j .. Len(buf) /\ P(m)
  BY <1>2
<1>4. NulFrom(buf, j) \in j .. Len(buf) /\ P(NulFrom(buf, j))
  BY <1>3, Zenon DEF NulFrom
<1>5. ASSUME NEW k \in j .. Len(buf), P(k), NEW l \in j .. Len(buf), P(l) PROVE k = l
  BY <1>5
<1> QED
  BY <1>4, <1>5

(* The recursion that takes the buffer apart has its equation.              *)
FromPlace(buf, g, j) ==
  IF j >= Len(buf) THEN << >>
  ELSE <<SubSeq(buf, j, NulFrom(buf, j) - 1)>> \o g[AfterName(NulFrom(buf, j + 1))]

LEMMA UnpackEquation ==
  ASSUME NEW T, NEW buf \in Seq(T), buf # << >>, buf[Len(buf)] = NUL
  PROVE  \E f : /\ Unpacked(buf) = f[1]
                /\ \A j \in 1 .. Len(buf) + 1 : f[j] = FromPlace(buf, f, j)
<1> DEFINE n == Len(buf) + 1
           Eq(g, m) == g = [j \in n - m .. n |->
                              IF j >= Len(buf) THEN << >>
                              ELSE <<SubSeq(buf, j, NulFrom(buf, j) - 1)>>
                                     \o g[AfterName(NulFrom(buf, j + 1))]]
           S == {m \in Nat : m <= Len(buf) => \E g : Eq(g, m)}
<1>0. ASSUME NEW g, NEW m \in Nat, Eq(g, m), NEW i \in n - m .. n PROVE g[i] = FromPlace(buf, g, i)
  <2> DEFINE gg == [j \in n - m .. n |-> FromPlace(buf, g, j)]
  <2>1. gg[i] = FromPlace(buf, g, i)
    OBVIOUS
  <2>2. gg = g
    BY <1>0, Zenon DEF FromPlace
  <2> QED
    BY <2>1, <2>2, Zenon
<1>1. 0 \in S
  <2> DEFINE g == [j \in n - 0 .. n |-> << >>]
  <2>1. \A j \in n - 0 .. n : j >= Len(buf)
    OBVIOUS
  <2>2. Eq(g, 0)
    BY <2>1
  <2>3. \E g1 : Eq(g1, 0)
    <3> HIDE DEF Eq, g
    <3> QED
      BY <2>2, Zenon
  <2> HIDE DEF Eq, g
  <2> QED
    BY <2>3
<1>2. ASSUME NEW m \in Nat, m \in S PROVE m + 1 \in S
  <2>0. SUFFICES ASSUME m + 1 <= Len(buf) PROVE \E g : Eq(g, m + 1)
    <3> HIDE DEF Eq
    <3> QED
      OBVIOUS
  <2>1. PICK g : Eq(g, m)
    <3> HIDE DEF Eq
    <3> QED
      BY <1>2, <2>0
  <2> DEFINE h == [j \in n - (m + 1) .. n |-> FromPlace(buf, g, j)]
  <2>2. ASSUME NEW i \in n - m .. n PROVE h[i] = g[i]
    <3>1. h[i] = FromPlace(buf, g, i)
      OBVIOUS
    <3>2. g[i] = FromPlace(buf, g, i)
      <4> HIDE DEF Eq
      <4> QED
        BY <1>0, <2>1
    <3> QED
      BY <3>1, <3>2, Zenon
  <2>3. ASSUME NEW j \in n - (m + 1) .. n PROVE FromPlace(buf, h, j) = FromPlace(buf, g, j)
    <3>0. CASE j >= Len(buf)
      <4> HIDE DEF h
      <4> QED
        BY <3>0 DEF FromPlace
    <3>1. CASE j < Len(buf)
      <4> DEFINE k == NulFrom(buf, j + 1)
      <4>1. j + 1 \in 1 .. Len(buf)
        BY <2>0, <3>1
      <4>2. k \in j + 1 .. Len(buf)
        BY <4>1, NulIs
      <4>3. k + 1 \in n - m .. n
        <5> HIDE DEF k
        <5> QED
          BY <4>2
      <4>4. h[AfterName(k)] = g[AfterName(k)]
        <5> HIDE DEF h, k
        <5> QED
          BY <2>2, <4>3 DEF AfterName
      <4> HIDE DEF h
      <4> QED
        BY <4>4 DEF FromPlace
    <3>2. j >= Len(buf) \/ j < Len(buf)
      OBVIOUS
    <3> QED
      BY <3>0, <3>1, <3>2
  <2>4. Eq(h, m + 1)
    <3>1. h = [j \in n - (m + 1) .. n |-> FromPlace(buf, h, j)]
      BY <2>3
    <3> QED
      BY <3>1, Zenon DEF FromPlace
  <2> HIDE DEF Eq, h
  <2> QED
    BY <2>4, Zenon
<1>3. \E g : Eq(g, Len(buf))
  <2>1. \A i \in Nat : i \in S
    <3> HIDE DEF S
    <3> QED
      BY <1>1, <1>2, ByInduction
  <2>2. Len(buf) \in Nat /\ Len(buf) <= Len(buf)
    OBVIOUS
  <2> HIDE DEF Eq
  <2> QED
    BY <2>1, <2>2
<1>4. n - Len(buf) = 1
  OBVIOUS
<1> DEFINE Ff == CHOOSE g : g = [j \in 1 .. Len(buf) + 1 |->
                              IF j >= Len(buf) THEN << >>
                              ELSE <<SubSeq(buf, j, NulFrom(buf, j) - 1)>>
                                     \o g[AfterName(NulFrom(buf, j + 1))]]
<1>5. Eq(Ff, Len(buf))
  BY <1>3, <1>4, Zenon
<1>6. Unpacked(buf) = Ff[1]
  BY Zenon DEF Unpacked
<1>7. \A i \in 1 .. n : Ff[i] = FromPlace(buf, Ff, i)
  <2>1. Len(buf) \in Nat
    OBVIOUS
  <2>2. \A i \in n - Len(buf) .. n : Ff[i] = FromPlace(buf, Ff, i)
    <3> HIDE DEF Ff, Eq, n
    <3> QED
      BY <1>0, <1>5, <2>1
  <2> HIDE DEF Ff, Eq
  <2> QED
    BY <1>4, <2>2
<1> QED
  <2> HIDE DEF Ff
  <2> QED
    BY <1>6, <1>7

(* The places of the names in the buffer: the k-th one begins after b[k-1]. *)
Chars == {NUL} \union UNION {Range(NameOf[r]) : r \in Readers}

PackPlaces(rs, buf, b) ==
  /\ b \in [0 .. Len(rs) -> Nat] /\ b[0] = 0 /\ b[Len(rs)] + 1 = Len(buf)
  /\ \A k \in 1 .. Len(rs) : LET name == NameOf[rs[k]] IN
       /\ b[k] = b[k - 1] + Len(name) + 1 /\ b[k] < Len(buf)
       /\ \A q \in 1 .. Len(name) : buf[b[k - 1] + q] = name[q]
       /\ buf[b[k]] = NUL

LEMMA NameIs ==
  ASSUME NEW r \in Readers
  PROVE  /\ NameOf[r] \in Seq(Chars) /\ Len(NameOf[r]) \in Nat /\ Len(NameOf[r]) >= 1
         /\ \A q \in 1 .. Len(NameOf[r]) : NameOf[r][q] # NUL
<1> DEFINE name == NameOf[r]
<1>1. name \in Seq(Range(name)) /\ Len(name) > 0 /\ NUL \notin Range(name)
  BY NameAssumption
<1>2. Range(name) \subseteq Chars
  BY DEF Chars
<1> HIDE DEF name
<1>3. DOMAIN name = 1 .. Len(name) /\ Len(name) \in Nat
  BY <1>1, LenProperties
<1>4. \A q \in 1 .. Len(name) : name[q] \in Range(name)
  BY <1>3 DEF Range
<1>5. \A q \in 1 .. Len(name) : name[q] \in Chars
  BY <1>2, <1>4
<1>6. name \in Seq(Chars)
  BY <1>1, <1>3, <1>5
<1> QED
  BY <1>1, <1>3, <1>4, <1>6 DEF name

LEMMA PackedPlaces ==
  ASSUME NEW rs \in Seq(Readers)
  PROVE  /\ Packed(rs) \in Seq(Chars) /\ Packed(rs)[Len(Packed(rs))] = NUL
         /\ Packed(rs) # << >>
         /\ \E b : PackPlaces(rs, Packed(rs), b)
<1> DEFINE n == Len(rs)
           s == [k \in 1 .. n |-> Append(NameOf[rs[k]], NUL)]
           f == FlattenSeq(s)
           buf == Packed(rs)
<1>1. NUL \in Chars
  BY DEF Chars
<1>2. ASSUME NEW k \in 1 .. n
      PROVE  LET name == NameOf[rs[k]] IN
             /\ s[k] \in Seq(Chars) /\ Len(s[k]) = Len(name) + 1 /\ Len(name) \in Nat
             /\ \A q \in 1 .. Len(name) : s[k][q] = name[q]
             /\ s[k][Len(name) + 1] = NUL
  <2> DEFINE name == NameOf[rs[k]]
  <2>1. rs[k] \in Readers
    BY ElementOfSeq
  <2>2. name \in Seq(Chars) /\ Len(name) \in Nat
    BY <2>1, NameIs
  <2>3. s[k] = Append(name, NUL)
    OBVIOUS
  <2> HIDE DEF name, s
  <2>4. /\ Append(name, NUL) \in Seq(Chars) /\ Len(Append(name, NUL)) = Len(name) + 1
        /\ \A q \in 1 .. Len(name) : Append(name, NUL)[q] = name[q]
        /\ Append(name, NUL)[Len(name) + 1] = NUL
    BY <1>1, <2>2, AppendProperties
  <2> QED
    BY <2>2, <2>3, <2>4 DEF name
<1>3. n \in Nat /\ s \in Seq(Seq(Chars)) /\ Len(s) = n
  BY <1>2
<1>4. buf = f \o <<NUL>>
  BY DEF Packed
<1> HIDE DEF s
<1>5. f \in Seq(Chars) /\ \E b : FlatPlaces(s, b)
  BY <1>3, Flat
<1>6. PICK b : FlatPlaces(s, b)
  BY <1>5
<1> HIDE DEF f, buf, n
<1>7. /\ buf \in Seq(Chars) /\ Len(buf) = Len(f) + 1 /\ Len(f) \in Nat
      /\ \A j \in 1 .. Len(f) : buf[j] = f[j]
      /\ buf[Len(f) + 1] = NUL
  <2>1. PICK u : u = <<NUL>>
    OBVIOUS
  <2>2. u \in Seq(Chars) /\ Len(u) = 1 /\ u[1] = NUL
    BY <1>1, <2>1
  <2>0. f \in Seq(Chars)
    BY <1>5
  <2>3. /\ f \o u \in Seq(Chars) /\ Len(f \o u) = Len(f) + Len(u)
        /\ Len(f) \in Nat
        /\ \A j \in 1 .. Len(f) : (f \o u)[j] = f[j]
        /\ \A j \in 1 .. Len(u) : (f \o u)[Len(f) + j] = u[j]
    <3> PICK g : g = f
      OBVIOUS
    <3>1. g \in Seq(Chars)
      BY <2>0
    <3> QED
      BY <2>2, <3>1, Joined
  <2>4. buf = f \o u
    BY <1>4, <2>1
  <2>5. 1 \in 1 .. 1
    OBVIOUS
  <2> QED
    BY <2>2, <2>3, <2>4, <2>5
<1>8. /\ b \in [0 .. n -> Nat] /\ b[0] = 0 /\ b[n] = Len(f)
      /\ \A k \in 1 .. n : b[k] = b[k - 1] + Len(s[k]) /\ b[k] <= Len(f)
      /\ \A k \in 1 .. n : \A q \in 1 .. Len(s[k]) : f[b[k - 1] + q] = s[k][q]
  BY <1>3, <1>6 DEF FlatPlaces, f
<1>9. ASSUME NEW k \in 1 .. n
      PROVE  LET name == NameOf[rs[k]] IN
             /\ b[k] = b[k - 1] + Len(name) + 1 /\ b[k] < Len(buf)
             /\ \A q \in 1 .. Len(name) : buf[b[k - 1] + q] = name[q]
             /\ buf[b[k]] = NUL
  <2> DEFINE name == NameOf[rs[k]]
  <2>1. /\ s[k] \in Seq(Chars) /\ Len(s[k]) = Len(name) + 1 /\ Len(name) \in Nat
        /\ \A q \in 1 .. Len(name) : s[k][q] = name[q]
        /\ s[k][Len(name) + 1] = NUL
    BY <1>2
  <2> HIDE DEF name
  <2>2. k - 1 \in 0 .. n /\ k \in 0 .. n
    BY <1>3
  <2>3. PICK p \in Nat, e \in Nat, m \in Nat : p = b[k - 1] /\ e = b[k] /\ m = Len(name)
    BY <1>8, <2>1, <2>2
  <2>4. e = p + m + 1 /\ e < Len(buf) /\ e <= Len(f)
    <3>1. e = p + Len(s[k]) /\ e <= Len(f)
      BY <1>8, <2>3
    <3>2. Len(s[k]) = m + 1
      BY <2>1, <2>3
    <3>3. Len(buf) = Len(f) + 1 /\ Len(f) \in Nat
      BY <1>7
    <3> QED
      BY <3>1, <3>2, <3>3
  <2>5. ASSUME NEW q \in 1 .. m + 1 PROVE buf[p + q] = s[k][q]
    <3>1. p + q \in 1 .. Len(f)
      <4>1. PICK l \in Nat : l = Len(f)
        BY <1>7
      <4>2. e = p + m + 1 /\ e <= l
        BY <2>4, <4>1
      <4>3. p + q \in 1 .. l
        BY <4>2
      <4> QED
        BY <4>1, <4>3
    <3>2. q \in 1 .. Len(s[k])
      BY <2>1, <2>3
    <3>3. f[b[k - 1] + q] = s[k][q]
      BY <1>8, <3>2
    <3> QED
      BY <1>7, <2>3, <3>1, <3>3
  <2>6. ASSUME NEW q \in 1 .. m PROVE buf[p + q] = name[q]
    <3>1. q \in 1 .. m + 1
      BY <2>3
    <3> QED
      BY <2>1, <2>3, <2>5, <3>1
  <2>7. buf[e] = NUL
    <3>1. m + 1 \in 1 .. m + 1 /\ p + (m + 1) = e
      <4>1. e = p + m + 1
        BY <2>4
      <4> QED
        BY <4>1
    <3>2. s[k][m + 1] = NUL
      BY <2>1, <2>3
    <3> QED
      BY <2>5, <3>1, <3>2
  <2> QED
    BY <2>3, <2>4, <2>6, <2>7 DEF name
<1>10. PackPlaces(rs, buf, b)
  BY <1>7, <1>8, <1>9 DEF PackPlaces, n
<1>11. buf # << >> /\ buf[Len(buf)] = NUL
  BY <1>7
<1> QED
  BY <1>7, <1>10, <1>11 DEF buf

(* readers() takes the names out of the buffer as they went in.             *)
LEMMA Unpacks ==
  ASSUME NEW rs \in Seq(Readers)
  PROVE  Unpacked(Packed(rs)) = [k \in 1 .. Len(rs) |-> NameOf[rs[k]]]
<1> DEFINE n == Len(rs)
           buf == Packed(rs)
           Rest(m) == [i \in 1 .. m |-> NameOf[rs[n - m + i]]]
<1>1. buf \in Seq(Chars) /\ buf # << >> /\ buf[Len(buf)] = NUL /\ \E b : PackPlaces(rs, buf, b)
  BY PackedPlaces
<1>2. PICK b : PackPlaces(rs, buf, b)
  BY <1>1
<1> HIDE DEF buf
<1>3. PICK f : /\ Unpacked(buf) = f[1]
               /\ \A j \in 1 .. Len(buf) + 1 : f[j] = FromPlace(buf, f, j)
  BY <1>1, UnpackEquation
<1>4. n \in Nat /\ Len(buf) \in Nat /\ \A k \in 1 .. n : rs[k] \in Readers
  BY <1>1, ElementOfSeq
<1> HIDE DEF n
<1>5. /\ b \in [0 .. n -> Nat] /\ b[0] = 0 /\ b[n] + 1 = Len(buf)
      /\ \A k \in 1 .. n : b[k] = b[k - 1] + Len(NameOf[rs[k]]) + 1 /\ b[k] < Len(buf)
      /\ \A k \in 1 .. n : \A q \in 1 .. Len(NameOf[rs[k]]) : buf[b[k - 1] + q] = NameOf[rs[k]][q]
      /\ \A k \in 1 .. n : buf[b[k]] = NUL
  BY <1>2 DEF PackPlaces, n
<1> DEFINE S == {m \in Nat : m <= n => f[b[n - m] + 1] = Rest(m)}
<1>6. 0 \in S
  <2>1. n - 0 = n /\ b[n] \in Nat
    BY <1>4, <1>5
  <2>2. b[n] + 1 \in 1 .. Len(buf) + 1 /\ b[n] + 1 >= Len(buf)
    BY <1>4, <1>5, <2>1
  <2>3. f[b[n] + 1] = << >>
    BY <1>3, <2>2 DEF FromPlace
  <2>4. Rest(0) = << >>
    OBVIOUS
  <2> HIDE DEF Rest
  <2> QED
    BY <2>1, <2>3, <2>4
<1>7. ASSUME NEW m \in Nat, m \in S PROVE m + 1 \in S
  <2> SUFFICES ASSUME m + 1 <= n PROVE f[b[n - (m + 1)] + 1] = Rest(m + 1)
    OBVIOUS
  <2> DEFINE k == n - m
             name == NameOf[rs[k]]
             l == b[k - 1]
  <2>1. k \in 1 .. n /\ n - (m + 1) = k - 1 /\ k \in 0 .. n /\ k - 1 \in 0 .. n
    BY <1>4
  <2>2. f[b[k] + 1] = Rest(m)
    BY <1>4, <1>7
  <2>3. name \in Seq(Chars) /\ Len(name) \in Nat /\ Len(name) >= 1
        /\ \A q \in 1 .. Len(name) : name[q] # NUL
    BY <1>4, <2>1, NameIs
  <2>4. ASSUME NEW i \in 1 .. m PROVE NameOf[rs[k + i]] \in Seq(Chars)
    <3>1. k + i \in 1 .. n
      BY <1>4
    <3> QED
      BY <1>4, <3>1, NameIs
  <2> HIDE DEF k, name
  <2>5. l \in Nat /\ b[k] = l + Len(name) + 1 /\ b[k] < Len(buf) /\ buf[b[k]] = NUL
        /\ \A q \in 1 .. Len(name) : buf[l + q] = name[q]
    BY <1>5, <2>1 DEF name
  <2> HIDE DEF l
  <2>6. ASSUME NEW j \in {l + 1, l + 2} PROVE NulFrom(buf, j) = b[k]
    <3>1. j \in 1 .. Len(buf) /\ b[k] \in j .. Len(buf)
      BY <1>4, <2>3, <2>5
    <3>2. ASSUME NEW i \in j .. b[k] - 1 PROVE buf[i] # NUL
      <4>1. i - l \in 1 .. Len(name) /\ l + (i - l) = i
        BY <1>4, <2>3, <2>5
      <4> QED
        BY <2>3, <2>5, <4>1
    <3> QED
      BY <1>1, <2>5, <3>1, <3>2, NulIs
  <2>7. f[l + 1] = <<SubSeq(buf, l + 1, b[k] - 1)>> \o f[b[k] + 1]
    <3>1. l + 1 \in 1 .. Len(buf) + 1 /\ ~(l + 1 >= Len(buf)) /\ (l + 1) + 1 = l + 2
      BY <1>4, <2>3, <2>5
    <3>2. f[l + 1] = FromPlace(buf, f, l + 1)
      BY <1>3, <3>1
    <3> QED
      BY <2>6, <3>1, <3>2 DEF FromPlace, AfterName
  <2>8. SubSeq(buf, l + 1, b[k] - 1) = name
    <3> DEFINE w == SubSeq(buf, l + 1, b[k] - 1)
    <3>1. l + 1 \in Int /\ b[k] - 1 \in Int /\ b[k] - 1 = l + Len(name) /\ l + 1 <= b[k] - 1
      BY <2>3, <2>5
    <3>2. \A i \in l + 1 .. b[k] - 1 : buf[i] \in Chars
      <4> SUFFICES ASSUME NEW i \in l + 1 .. b[k] - 1 PROVE buf[i] \in Chars
        OBVIOUS
      <4>1. i \in 1 .. Len(buf)
        BY <1>4, <2>5
      <4> QED
        BY <1>1, <4>1, ElementOfSeq
    <3>3. /\ w \in Seq(Chars) /\ Len(w) = (b[k] - 1) - (l + 1) + 1
          /\ \A i \in 1 .. (b[k] - 1) - (l + 1) + 1 : w[i] = buf[(l + 1) + i - 1]
      BY <3>1, <3>2, SubSeqProperties
    <3>4. (b[k] - 1) - (l + 1) + 1 = Len(name)
      BY <2>3, <2>5
    <3> HIDE DEF w
    <3>5. \A i \in 1 .. Len(name) : (l + 1) + i - 1 = l + i
      BY <2>5
    <3>6. Len(w) = Len(name) /\ \A i \in 1 .. Len(name) : w[i] = name[i]
      BY <2>5, <3>3, <3>4, <3>5
    <3> QED
      BY <2>3, <3>3, <3>6, SeqEqual DEF w
  <2>9. <<name>> \o Rest(m) = Rest(m + 1)
    <3> DEFINE u == Rest(m)
               v == Rest(m + 1)
               w == <<name>> \o u
    <3>1. u \in Seq(Seq(Chars)) /\ Len(u) = m /\ \A i \in 1 .. m : u[i] = NameOf[rs[k + i]]
      BY <2>4 DEF k
    <3>2. \A i \in 1 .. m + 1 : i = 1 \/ i - 1 \in 1 .. m
      OBVIOUS
    <3>3. ASSUME NEW i \in 1 .. m + 1
          PROVE  /\ i = 1 => v[i] = name
                 /\ i # 1 => v[i] = u[i - 1]
                 /\ v[i] \in Seq(Chars)
      <4>1. v[i] = NameOf[rs[n - (m + 1) + i]]
        OBVIOUS
      <4>2. n - (m + 1) + i = k + (i - 1) /\ (i = 1 => n - (m + 1) + i = k)
        BY <1>4 DEF k
      <4>3. k \in Int
        BY <1>4 DEF k
      <4> HIDE DEF u, v
      <4>4. CASE i = 1
        BY <2>3, <4>1, <4>2, <4>4 DEF name
      <4>5. CASE i # 1
        <5>1. i - 1 \in 1 .. m
          BY <4>5
        <5>2. NameOf[rs[k + (i - 1)]] \in Seq(Chars) /\ u[i - 1] = NameOf[rs[k + (i - 1)]]
          BY <2>4, <3>1, <5>1
        <5> QED
          BY <4>1, <4>2, <4>5, <5>2
      <4>6. i = 1 \/ i # 1
        OBVIOUS
      <4> QED
        BY <4>4, <4>5, <4>6
    <3>4. v \in Seq(Seq(Chars)) /\ Len(v) = m + 1
      <4>1. v = [i \in 1 .. m + 1 |-> v[i]]
        OBVIOUS
      <4> HIDE DEF v
      <4>2. v \in [1 .. m + 1 -> Seq(Chars)]
        BY <3>3, <4>1
      <4> QED
        BY <4>2
    <3> HIDE DEF u, v
    <3>5. /\ w \in Seq(Seq(Chars)) /\ Len(w) = 1 + Len(u) /\ w[1] = name
          /\ \A i \in 1 .. Len(u) : w[i + 1] = u[i]
      BY ONLY <2>3, <3>1, OneBefore
    <3> HIDE DEF w
    <3>6. \A i \in 1 .. m + 1 : w[i] = v[i]
      <4> SUFFICES ASSUME NEW i \in 1 .. m + 1 PROVE w[i] = v[i]
        OBVIOUS
      <4>1. CASE i = 1
        BY <3>3, <3>5, <4>1
      <4>2. CASE i # 1
        <5>1. i - 1 \in 1 .. m /\ (i - 1) + 1 = i
          BY <4>2
        <5>2. w[(i - 1) + 1] = u[i - 1]
          BY <3>1, <3>5, <5>1
        <5> QED
          BY <3>3, <4>2, <5>1, <5>2
      <4> QED
        BY <4>1, <4>2
    <3>7. Len(w) = Len(v)
      BY <3>1, <3>4, <3>5
    <3> QED
      BY <3>4, <3>5, <3>6, <3>7, SeqEqual DEF u, v, w
  <2> HIDE DEF Rest
  <2> QED
    BY <2>1, <2>2, <2>7, <2>8, <2>9 DEF l
<1>8. n \in S
  <2>1. \A m \in Nat : m \in S
    <3> HIDE DEF S
    <3> QED
      BY <1>6, <1>7, ByInduction
  <2> QED
    BY <1>4, <2>1
<1>9. f[1] = Rest(n)
  <2>1. n - n = 0 /\ b[0] + 1 = 1 /\ n <= n
    BY <1>4, <1>5
  <2> HIDE DEF Rest
  <2> QED
    BY <1>8, <2>1
<1>10. Rest(n) = [k \in 1 .. n |-> NameOf[rs[k]]]
  <2>1. \A k \in 1 .. n : n - n + k = k
    BY <1>4
  <2> QED
    BY <2>1
<1> QED
  BY <1>3, <1>9, <1>10 DEF n, buf

(* Readers in a sequence, each once.                                        *)
LEMMA EachOnce ==
  ASSUME NEW A \in SUBSET Readers
  PROVE  LET rs == SetToSeq(A) IN
         rs \in Seq(Readers) /\ Len(rs) = Cardinality(A) /\ Range(rs) = A
<1> DEFINE n == Cardinality(A)
<1>1. IsFiniteSet(A)
  BY ReaderAssumption, FS_Subset
<1>2. n \in Nat /\ ExistsBijection(1 .. n, A)
  BY <1>1, FS_CardinalityType
<1>3. \E f \in [1 .. n -> A] : IsInjective(f)
  BY <1>2 DEF ExistsBijection, Bijection, Injection
<1>4. SetToSeq(A) \in [1 .. n -> A] /\ IsInjective(SetToSeq(A))
  BY <1>3 DEF SetToSeq
<1>5. PICK rs : rs = SetToSeq(A)
  OBVIOUS
<1>6. rs \in Injection(1 .. n, A)
  BY <1>4, <1>5 DEF Injection
<1>7. Cardinality(1 .. n) = n
  <2>1. Cardinality(1 .. n) = IF 1 > n THEN 0 ELSE n - 1 + 1
    BY <1>2, FS_Interval
  <2> QED
    BY <1>2, <2>1
<1>8. rs \in Surjection(1 .. n, A)
  BY <1>1, <1>6, <1>7, FS_Injection
<1>9. rs \in [1 .. n -> A] /\ \A r \in A : \E k \in 1 .. n : rs[k] = r
  BY <1>8 DEF Surjection
<1> HIDE DEF n
<1>10. rs \in Seq(Readers) /\ Len(rs) = n
  BY <1>2, <1>9
<1>11. Range(rs) = A
  BY <1>9 DEF Range
<1> QED
  BY <1>5, <1>10, <1>11 DEF n

(* What readers() makes of the buffer is the readers of that moment.        *)
LEMMA ListIs ==
  ASSUME NEW A \in SUBSET Readers
  PROVE  LET list == Unpacked(Packed(SetToSeq(A))) IN
         Range(list) = {NameOf[r] : r \in A} /\ Len(list) = Cardinality(A)
<1>1. PICK rs : rs = SetToSeq(A)
  OBVIOUS
<1>2. rs \in Seq(Readers) /\ Len(rs) = Cardinality(A) /\ Range(rs) = A
  BY <1>1, EachOnce
<1>3. PICK list : list = Unpacked(Packed(SetToSeq(A)))
  OBVIOUS
<1>4. list = [k \in 1 .. Len(rs) |-> NameOf[rs[k]]]
  BY <1>1, <1>2, <1>3, Unpacks
<1>5. Len(rs) \in Nat /\ DOMAIN rs = 1 .. Len(rs)
  BY <1>2
<1>6. Len(list) = Len(rs)
  BY <1>4, <1>5
<1>7. DOMAIN list = 1 .. Len(rs) /\ \A k \in 1 .. Len(rs) : list[k] = NameOf[rs[k]]
  BY <1>4
<1>8. Range(list) = {NameOf[r] : r \in A}
  BY <1>2, <1>5, <1>7 DEF Range
<1> QED
  BY <1>2, <1>3, <1>6, <1>8

(* readers() returns the readers of one moment, each once, though they come *)
(* and go between its two calls to the service: of the two answers, the     *)
(* second is the one returned, or neither.                                  *)
THEOREM ListOfOneMoment == Spec => ListIsSnapshot
<1> DEFINE Snapshot == call.fn = "fetch" /\ result' = "done" /\ call' = Idle =>
             /\ Range(names') = {NameOf[r] : r \in attached}
             /\ Len(names') = Cardinality(attached)
<1>1. TypeOK /\ [Next]_vars => [Snapshot]_vars
  <2> SUFFICES ASSUME TypeOK, [Next]_vars, call.fn = "fetch", result' = "done", call' = Idle
               PROVE  /\ Range(names') = {NameOf[r] : r \in attached}
                      /\ Len(names') = Cardinality(attached)
    OBVIOUS
  <2>1. call # Idle /\ call' # call
    BY DEF Idle
  <2>2. Next
    BY <2>1 DEF vars
  <2>3. ~Environment
    BY <2>1 DEF Environment, Attach, Detach, Slot
  <2>4. Fetch
    BY <2>1, <2>2, <2>3 DEF Next, Program, wait_for_reader_card, wait_for_card_remove, Use,
                            disconnect_card, Drop, init, readers, Destroy, Poll, Changed,
                            Interrupted, Connect
  <2>5. names' = Unpacked(Packed(SetToSeq(attached)))
    BY <2>4 DEF Fetch, Throw, Failure
  <2>6. attached \in SUBSET Readers
    BY DEF TypeOK
  <2>7. PICK A : A = attached
    OBVIOUS
  <2> QED
    BY <2>5, <2>6, <2>7, ListIs
<1> QED
  BY <1>1, ConnTypes, PTL DEF Spec, ListIsSnapshot
===============================================================================
