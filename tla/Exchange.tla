------------------------------- MODULE Exchange -------------------------------
(* What a caller of Connection::transmit relies on: it asks a card one     *)
(* question at a time and gets either an answer or an exception.  An       *)
(* answer with a success status holds the whole reply; any other status    *)
(* comes with a piece of the reply at most; an exception leaves the        *)
(* caller's response as it was.                                            *)
EXTENDS Integers, Sequences

CONSTANTS Apps, Replies

VARIABLES
  asking,  \* app -> is it waiting for an answer
  reply,   \* app -> what the card means to answer
  out      \* app -> the response the caller sees

Init ==
  /\ asking = [a \in Apps |-> FALSE]
  /\ reply \in [Apps -> Replies]
  /\ out = [a \in Apps |-> [data |-> << >>, sw |-> "none"]]

(* Answers that do not pretend to be whole. *)
Partial(r) == [data : {SubSeq(r.data, i, j) : i \in 1 .. Len(r.data) + 1, j \in 0 .. Len(r.data)},
               sw : {"warning", "error"}]

Ask(a) ==
  /\ ~asking[a]
  /\ asking' = [asking EXCEPT ![a] = TRUE]
  /\ \E r \in Replies : reply' = [reply EXCEPT ![a] = r]
  /\ UNCHANGED out

Answer(a) ==
  /\ asking[a]
  /\ asking' = [asking EXCEPT ![a] = FALSE]
  /\ \E r \in {reply[a]} \union Partial(reply[a]) : out' = [out EXCEPT ![a] = r]
  /\ UNCHANGED reply

Fail(a) ==
  /\ asking[a]
  /\ asking' = [asking EXCEPT ![a] = FALSE]
  /\ UNCHANGED <<reply, out>>

Next == \E a \in Apps : Ask(a) \/ Answer(a) \/ Fail(a)

Spec == Init /\ [][Next]_<<asking, reply, out>>
=============================================================================
