---------------------------- MODULE TransmitProofs ----------------------------
(* Theorems about Transmit, for any replies and a byte of any size: its     *)
(* types, that it never asks for more than the card has, and that it keeps  *)
(* the promise of Exchange.                                                 *)
EXTENDS Transmit, SequenceTheorems, TLAPS

Answers == [data : Seq(Bytes), sw : Statuses]

-----------------------------------------------------------------------------
(* Replies and their pieces.                                                *)

LEMMA ReplyShape ==
  ASSUME NEW r \in Replies
  PROVE  /\ r.data \in Seq(Bytes) /\ Len(r.data) \in Nat
         /\ r.sw \in {"ok", "warning", "error"}
         /\ r.sw = "error" => r.data = << >>
         /\ r = [data |-> r.data, sw |-> r.sw]
<1>1. \A c \in Commands, n \in 0 .. MaxData : Data(c, n) \in Seq(Bytes)
  <2> SUFFICES ASSUME NEW c \in Commands, NEW n \in 0 .. MaxData PROVE Data(c, n) \in Seq(Bytes)
    OBVIOUS
  <2>1. \A k \in 1 .. n : <<c, k>> \in Bytes
    BY SizeAssumption DEF Bytes
  <2>2. Data(c, n) \in [1 .. n -> Bytes] /\ n \in Nat
    BY <2>1, SizeAssumption DEF Data
  <2> QED
    BY <2>2, SMT
<1>2. r.data \in Seq(Bytes) /\ r.sw \in {"ok", "warning", "error"}
      /\ (r.sw = "error" => r.data = << >>) /\ r = [data |-> r.data, sw |-> r.sw]
  <2>1. CASE r = Error
    BY <2>1, EmptySeq DEF Error
  <2>2. CASE r \in [data : {Data(c, n) : c \in Commands, n \in 0 .. MaxData}, sw : {"ok", "warning"}]
    <3>1. r.data \in {Data(c, n) : c \in Commands, n \in 0 .. MaxData} /\ r.sw \in {"ok", "warning"}
          /\ r = [data |-> r.data, sw |-> r.sw]
      BY <2>2
    <3>2. PICK c \in Commands, n \in 0 .. MaxData : r.data = Data(c, n)
      BY <3>1
    <3> QED
      BY <1>1, <3>1, <3>2
  <2> QED
    BY <2>1, <2>2 DEF Replies
<1> QED
  BY <1>2, LenProperties

LEMMA Pieces ==
  ASSUME NEW d \in Seq(Bytes), NEW i \in 1 .. Len(d) + 1, NEW j \in 0 .. Len(d)
  PROVE  /\ SubSeq(d, i, j) \in Seq(Bytes)
         /\ Len(SubSeq(d, i, j)) = IF i <= j THEN j - i + 1 ELSE 0
<1>1. Len(d) \in Nat
  BY LenProperties
<1>2. i \in Int /\ j \in Int /\ \A n \in i .. j : d[n] \in Bytes
  BY <1>1, ElementOfSeq
<1> QED
  BY <1>2, SubSeqProperties

(* The card says k of the bytes it has left after p, and both the bytes     *)
(* said so far and those still left are again of the whole reply.           *)
LEMMA NextPiece ==
  ASSUME NEW r \in Answers, NEW p \in 0 .. Len(r.data), NEW k \in 1 .. Len(r.data) - p
  PROVE  /\ Len(Kept(r, p).data) = Len(r.data) - p
         /\ Said(Kept(r, p), k) = SubSeq(r.data, p + 1, p + k)
         /\ Joined(Said(r, p), Said(Kept(r, p), k)) = Said(r, p + k)
         /\ k < Len(r.data) - p => Kept(Kept(r, p), k) = Kept(r, p + k)
<1> DEFINE d == r.data
           L == Len(d)
<1>0. d \in Seq(Bytes) /\ L \in Nat
  BY LenProperties DEF Answers
<1>1. p \in 0 .. L /\ k \in 1 .. L - p /\ p + 1 \in 1 .. L /\ L \in 1 .. L
  BY <1>0
<1>a. p \in Nat /\ k \in Nat /\ p + k <= L
  BY <1>0, <1>1
<1> HIDE DEF d, L
<1>2. Len(SubSeq(d, p + 1, L)) = L - p
  BY <1>0, <1>1, Pieces
<1>3. SubSeq(SubSeq(d, p + 1, L), 1, k) = SubSeq(d, p + 1, p + k)
  <2>1. 1 \in 1 .. L - (p + 1) + 1 /\ k \in 1 .. L - (p + 1) + 1
    BY <1>0, <1>1
  <2>2. p + 1 + 1 - 1 = p + 1 /\ p + 1 + k - 1 = p + k
    BY <1>0, <1>1
  <2>3. SubSeq(SubSeq(d, p + 1, L), 1, k) = SubSeq(d, p + 1 + 1 - 1, p + 1 + k - 1)
    BY <1>0, <1>1, <2>1, SubSeqOfSubSeq
  <2> QED
    BY <2>2, <2>3
<1>4. SubSeq(d, 1, p) \o SubSeq(d, p + 1, p + k) = SubSeq(d, 1, p + k)
  <2>1. 1 \in 1 .. L + 1 /\ p \in 1 - 1 .. L /\ p + k \in p .. L
    BY <1>0, <1>1
  <2> QED
    BY <1>0, <2>1, ConcatAdjacentSubSeq
<1>5. ASSUME k < L - p
      PROVE  SubSeq(SubSeq(d, p + 1, L), k + 1, L - p) = SubSeq(d, p + k + 1, L)
  <2>1. k + 1 \in 1 .. L - (p + 1) + 1 /\ L - p \in 1 .. L - (p + 1) + 1
    BY <1>0, <1>1, <1>5
  <2>2. p + 1 + (k + 1) - 1 = p + k + 1 /\ p + 1 + (L - p) - 1 = L
    BY <1>0, <1>a
  <2>3. SubSeq(SubSeq(d, p + 1, L), k + 1, L - p) = SubSeq(d, p + 1 + (k + 1) - 1, p + 1 + (L - p) - 1)
    BY <1>0, <1>1, <2>1, SubSeqOfSubSeq
  <2> QED
    BY <2>2, <2>3
<1> QED
  BY <1>2, <1>3, <1>4, <1>5 DEF Said, Kept, Joined, d, L

-----------------------------------------------------------------------------
(* The type invariant, for any number of applications.                      *)

LEMMA ReceiveType ==
  ASSUME TypeOK, NEW a \in Apps, NEW before \in Seq(Bytes), NEW d \in Seq(Bytes),
         NEW sw \in Statuses \union {"more"}, Receive(a, before, d, sw)
  PROVE  /\ collector' \in [Apps -> Seq(Bytes)]
         /\ pc' \in [Apps -> {"idle", "sent", "more"}]
         /\ out' \in [Apps -> Answers]
<1>1. before \o d \in Seq(Bytes) /\ << >> \in Seq(Bytes)
  BY ConcatProperties, EmptySeq
<1>2. CASE sw = "more"
  BY <1>1, <1>2 DEF Receive, TypeOK, Joined, IsMore, Answers
<1>3. CASE sw # "more"
  <2>1. [data |-> IF sw = "ok" THEN Joined(before, d) ELSE d, sw |-> sw] \in Answers
    BY <1>1, <1>3 DEF Joined, Answers
  <2>2. /\ collector' = [collector EXCEPT ![a] = << >>]
        /\ pc' = [pc EXCEPT ![a] = "idle"]
        /\ out' = [out EXCEPT ![a] = [data |-> IF sw = "ok" THEN Joined(before, d) ELSE d, sw |-> sw]]
    BY <1>3 DEF Receive, IsMore
  <2>3. out \in [Apps -> Answers]
    BY DEF TypeOK, Answers
  <2> QED
    BY <1>1, <2>1, <2>2, <2>3 DEF TypeOK
<1> QED
  BY <1>2, <1>3

LEMMA AnnounceType ==
  ASSUME NEW n \in Nat
  PROVE  Announce(n) \in 0 .. BYTE - 1
BY SizeAssumption DEF Announce

LEMMA SpeakType ==
  ASSUME TypeOK, NEW a \in Apps, NEW before \in Seq(Bytes), NEW r \in Answers,
         NEW k \in 0 .. Len(r.data), Speak(a, before, r, k)
  PROVE  /\ rest' \in Answers
         /\ xx' \in [Apps -> 0 .. BYTE - 1]
         /\ collector' \in [Apps -> Seq(Bytes)]
         /\ pc' \in [Apps -> {"idle", "sent", "more"}]
         /\ out' \in [Apps -> Answers]
<1>0. r.data \in Seq(Bytes) /\ r.sw \in Statuses /\ Len(r.data) \in Nat
  BY LenProperties DEF Answers
<1>1. Said(r, k) \in Seq(Bytes)
  BY <1>0, Pieces DEF Said
<1>2. CASE Ends(r, k)
  <2>1. Nothing \in Answers /\ 0 \in 0 .. BYTE - 1
    BY EmptySeq, SizeAssumption DEF Nothing, Answers, Statuses
  <2> QED
    BY <1>0, <1>1, <1>2, <2>1, ReceiveType DEF Speak, TypeOK
<1>3. CASE ~Ends(r, k)
  <2>1. k + 1 \in 1 .. Len(r.data) + 1 /\ Len(r.data) \in 0 .. Len(r.data) /\ Len(r.data) - k \in Nat
    BY <1>0
  <2>2. Kept(r, k) \in Answers
    BY <1>0, <2>1, Pieces DEF Kept, Answers
  <2> QED
    BY <1>0, <1>1, <1>3, <2>1, <2>2, ReceiveType, AnnounceType, ZenonT(30) DEF Speak, TypeOK
<1> QED
  BY <1>2, <1>3

LEMMA TransmitTypeInit == Init => TypeOK
BY EmptySeq, SizeAssumption DEF Init, TypeOK, Nothing, Statuses, Replies

LEMMA TransmitTypeStep == TypeOK /\ [Next]_vars => TypeOK'
<1> SUFFICES ASSUME TypeOK, [Next]_vars PROVE TypeOK'
  OBVIOUS
<1>1. ASSUME NEW a \in Apps, Call(a) PROVE TypeOK'
  BY <1>1 DEF Call, TypeOK
<1>2. ASSUME NEW a \in Apps, FirstReply(a) PROVE TypeOK'
  <2>1. reply[a] \in Replies /\ reply[a] \in Answers
    BY ReplyShape DEF TypeOK, Answers, Statuses
  <2> QED
    BY <1>2, <2>1, SpeakType, EmptySeq DEF FirstReply, TypeOK, Answers
<1>3. ASSUME NEW a \in Apps, GetResponse(a) PROVE TypeOK'
  <2>1. rest \in Answers /\ collector[a] \in Seq(Bytes) /\ Len(rest.data) \in Nat
    BY LenProperties DEF TypeOK, Answers
  <2>2. PICK k \in 0 .. Len(rest.data) : Speak(a, collector[a], rest, k)
    BY <1>3, <2>1 DEF GetResponse
  <2> QED
    BY <1>3, <2>1, <2>2, SpeakType DEF GetResponse, TypeOK, Answers
<1>4. ASSUME NEW a \in Apps, GetError(a) PROVE TypeOK'
  <2>1. << >> \in Seq(Bytes) /\ "error" \in Statuses /\ Nothing \in Answers
    BY EmptySeq DEF Nothing, Answers, Statuses
  <2>2. collector[a] \in Seq(Bytes) /\ Receive(a, collector[a], << >>, "error")
    BY <1>4 DEF GetError, TypeOK
  <2>3. /\ collector' \in [Apps -> Seq(Bytes)]
        /\ pc' \in [Apps -> {"idle", "sent", "more"}]
        /\ out' \in [Apps -> Answers]
    BY <2>1, <2>2, ReceiveType
  <2>4. rest' = Nothing /\ UNCHANGED <<xx, reply>>
    BY <1>4 DEF GetError
  <2> QED
    BY <2>1, <2>3, <2>4 DEF TypeOK, Answers
<1>5. ASSUME NEW a \in Apps, Fail(a) PROVE TypeOK'
  <2>1. << >> \in Seq(Bytes) /\ Nothing \in Answers
    BY EmptySeq DEF Nothing, Answers, Statuses
  <2>2. collector' \in [Apps -> Seq(Bytes)] /\ pc' \in [Apps -> {"idle", "sent", "more"}]
    BY <1>5, <2>1 DEF Fail, TypeOK
  <2>3. rest' \in Answers /\ UNCHANGED <<xx, out, reply>>
    BY <1>5, <2>1 DEF Fail, TypeOK, Answers
  <2> QED
    BY <2>2, <2>3 DEF TypeOK, Answers
<1>6. CASE UNCHANGED vars
  BY <1>6 DEF vars, TypeOK
<1> QED
  BY <1>1, <1>2, <1>3, <1>4, <1>5, <1>6 DEF Next, Transmitting

(* Whatever pieces the replies come in, and however many applications       *)
(* interrupt each other, responses are made of the cards' bytes alone.      *)
THEOREM TransmitTypes == Spec => []TypeOK
BY TransmitTypeInit, TransmitTypeStep, PTL DEF Spec
-----------------------------------------------------------------------------
(* One application on the card.                                             *)

OneApp == \A a, b \in Apps : a = b

(* Between two commands, what was collected is the beginning of the reply,  *)
(* the card holds the rest of it, and the byte it has announced says how    *)
(* much that is.                                                            *)
Chain(a, p) ==
  /\ collector[a] = Said(reply[a], p)
  /\ rest = Kept(reply[a], p)
  /\ xx[a] = Announce(Len(reply[a].data) - p)

ChainInv == \A a \in Apps : pc[a] = "more" => \E p \in 0 .. Len(reply[a].data) - 1 : Chain(a, p)

TransmitInv == TypeOK /\ ChainInv

(* An answer: what the caller may see of reply r. *)
Seen(r) == {r} \union Promise!Partial(r)

LEMMA ReceiveMore ==
  ASSUME TypeOK, NEW a \in Apps, NEW before, NEW d, Receive(a, before, d, "more")
  PROVE  /\ pc' = [pc EXCEPT ![a] = "more"] /\ out' = out
         /\ collector'[a] = Joined(before, d)
BY DEF Receive, IsMore, TypeOK

LEMMA ReceiveLast ==
  ASSUME TypeOK, NEW a \in Apps, NEW before, NEW d, NEW sw \in Statuses, Receive(a, before, d, sw)
  PROVE  /\ pc' = [pc EXCEPT ![a] = "idle"]
         /\ out' = [out EXCEPT ![a] = [data |-> IF sw = "ok" THEN Joined(before, d) ELSE d, sw |-> sw]]
<1>1. ~IsMore(sw)
  BY DEF IsMore, Statuses
<1> QED
  BY <1>1 DEF Receive

(* A step of the chain: the card says k bytes after p, in whole or in part. *)
LEMMA SpeakChain ==
  ASSUME OneApp, TypeOK, NEW a \in Apps, reply' = reply,
         NEW r \in Answers, NEW before, NEW p \in 0 .. Len(reply[a].data), NEW k \in Nat,
         p + k <= Len(reply[a].data),
         ~Ends(r, k), Speak(a, before, r, k),
         Joined(before, Said(r, k)) = Said(reply[a], p + k),
         Kept(r, k) = Kept(reply[a], p + k),
         Len(r.data) = Len(reply[a].data) - p
  PROVE  ChainInv' /\ pc' = [pc EXCEPT ![a] = "more"] /\ out' = out
<1>1. Receive(a, before, Said(r, k), "more") /\ rest' = Kept(r, k)
      /\ xx' = [xx EXCEPT ![a] = Announce(Len(r.data) - k)]
  BY DEF Speak
<1>2. pc' = [pc EXCEPT ![a] = "more"] /\ out' = out /\ collector'[a] = Said(reply[a], p + k)
  BY <1>1, ReceiveMore
<1>3. Len(reply[a].data) \in Nat /\ p + k \in 0 .. Len(reply[a].data) - 1
  <2>1. Len(reply[a].data) \in Nat
    BY ReplyShape DEF TypeOK
  <2> QED
    BY <2>1 DEF Ends
<1>4. Len(r.data) - k = Len(reply[a].data) - (p + k)
  BY <1>3
<1>5. xx'[a] = Announce(Len(reply[a].data) - (p + k))
  BY <1>1, <1>4 DEF TypeOK
<1>6. Chain(a, p + k)'
  BY <1>1, <1>2, <1>5 DEF Chain, Said, Kept, Announce
<1>7. \A b \in Apps : b = a
  BY DEF OneApp
<1> QED
  BY <1>2, <1>3, <1>6, <1>7 DEF ChainInv

LEMMA SeenWhole ==
  ASSUME NEW r \in Replies
  PROVE  [data |-> r.data, sw |-> r.sw] \in Seen(r)
BY ReplyShape DEF Seen

LEMMA SeenPart ==
  ASSUME NEW r \in Replies, NEW sw \in {"warning", "error"},
         NEW i \in 1 .. Len(r.data) + 1, NEW j \in 0 .. Len(r.data)
  PROVE  [data |-> SubSeq(r.data, i, j), sw |-> sw] \in Seen(r)
BY DEF Seen, Promise!Partial

(* Each step of transmit keeps the chain, and answers only what may be      *)
(* seen, as the step of Exchange that goes with it.                         *)
Still(a) == pc'[a] # "idle" /\ out' = out
Answering(a) == pc' = [pc EXCEPT ![a] = "idle"] /\ \E r \in Seen(reply[a]) : out' = [out EXCEPT ![a] = r]

LEMMA FirstStep ==
  ASSUME OneApp, TransmitInv, NEW a \in Apps, FirstReply(a)
  PROVE  ChainInv' /\ (Still(a) \/ Answering(a))
<1> DEFINE r == reply[a]
<1>0. /\ r \in Replies /\ r \in Answers /\ r.data \in Seq(Bytes) /\ Len(r.data) \in Nat
      /\ r.sw \in {"ok", "warning", "error"} /\ r.sw \in Statuses
      /\ (r.sw = "error" => r.data = << >>) /\ r = [data |-> r.data, sw |-> r.sw]
  BY ReplyShape DEF TransmitInv, TypeOK, Answers, Statuses
<1>1. PICK k \in 0 .. Len(r.data) : Speak(a, << >>, r, k)
  BY DEF FirstReply
<1>2. reply' = reply /\ TypeOK /\ \A b \in Apps : b = a
  BY DEF FirstReply, TransmitInv, OneApp
<1>3. Said(r, k) \in Seq(Bytes) /\ Joined(<< >>, Said(r, k)) = Said(r, k)
  BY <1>0, <1>1, Pieces, ConcatEmptySeq DEF Said, Joined
<1>4. CASE Ends(r, k)
  <2>1. Said(r, k) = r.data
    BY <1>0, <1>4, SubSeqFull DEF Said, Ends
  <2>2. Receive(a, << >>, r.data, r.sw)
    BY <1>1, <1>4, <2>1 DEF Speak
  <2>3. /\ pc' = [pc EXCEPT ![a] = "idle"]
        /\ out' = [out EXCEPT ![a] = [data |-> IF r.sw = "ok" THEN Joined(<< >>, r.data) ELSE r.data,
                                       sw |-> r.sw]]
    BY <1>0, <1>2, <2>2, ReceiveLast
  <2>4. out' = [out EXCEPT ![a] = r]
    BY <1>0, <1>3, <2>1, <2>3
  <2>5. ChainInv'
    BY <1>2, <2>3 DEF ChainInv, TypeOK
  <2> QED
    BY <1>0, <2>3, <2>4, <2>5 DEF Answering, Seen
<1>5. CASE ~Ends(r, k)
  <2>1. /\ 0 \in 0 .. Len(r.data) /\ k \in Nat /\ 0 + k <= Len(r.data) /\ 0 + k = k
        /\ Len(r.data) = Len(r.data) - 0
    BY <1>0, <1>1
  <2>2. ChainInv' /\ pc' = [pc EXCEPT ![a] = "more"] /\ out' = out
    BY <1>0, <1>1, <1>2, <1>3, <1>5, <2>1, SpeakChain
  <2> QED
    BY <1>2, <2>2 DEF Still, TypeOK
<1> QED
  BY <1>4, <1>5

LEMMA MoreStep ==
  ASSUME OneApp, TransmitInv, NEW a \in Apps, GetResponse(a)
  PROVE  ChainInv' /\ (Still(a) \/ Answering(a))
<1> DEFINE r == reply[a]
           L == Len(r.data)
<1>0. /\ r \in Replies /\ r \in Answers /\ r.data \in Seq(Bytes) /\ L \in Nat
      /\ r.sw \in {"ok", "warning", "error"} /\ r.sw \in Statuses
      /\ (r.sw = "error" => r.data = << >>) /\ r = [data |-> r.data, sw |-> r.sw]
  BY ReplyShape DEF TransmitInv, TypeOK, Answers, Statuses
<1>1. PICK p \in 0 .. L - 1 : Chain(a, p)
  BY DEF GetResponse, TransmitInv, ChainInv
<1>2. rest = Kept(r, p) /\ collector[a] = Said(r, p) /\ rest \in Answers
  BY <1>1 DEF Chain, TransmitInv, TypeOK, Answers
<1>3. Len(rest.data) = L - p /\ rest.sw = r.sw
  BY <1>0, <1>1, <1>2, Pieces DEF Kept
<1>4. PICK k \in 1 .. L - p : Speak(a, collector[a], rest, k)
  BY <1>3 DEF GetResponse
<1>5. /\ Said(rest, k) = SubSeq(r.data, p + 1, p + k)
      /\ Joined(collector[a], Said(rest, k)) = Said(r, p + k)
      /\ k < L - p => Kept(rest, k) = Kept(r, p + k)
  BY <1>0, <1>1, <1>2, <1>4, NextPiece
<1>6. reply' = reply /\ TypeOK /\ \A b \in Apps : b = a
  BY DEF GetResponse, TransmitInv, OneApp
<1>7. CASE Ends(rest, k)
  <2>1. p + k = L /\ p + 1 \in 1 .. L + 1 /\ L \in 0 .. L
    BY <1>0, <1>1, <1>3, <1>4, <1>7 DEF Ends
  <2>2. Said(rest, k) = SubSeq(r.data, p + 1, L) /\ Joined(collector[a], Said(rest, k)) = r.data
    BY <1>0, <1>5, <2>1, SubSeqFull DEF Said
  <2>3. Receive(a, collector[a], Said(rest, k), r.sw)
    BY <1>3, <1>4, <1>7 DEF Speak
  <2>4. /\ pc' = [pc EXCEPT ![a] = "idle"]
        /\ out' = [out EXCEPT ![a] =
             [data |-> IF r.sw = "ok" THEN Joined(collector[a], Said(rest, k)) ELSE Said(rest, k),
              sw |-> r.sw]]
    BY <1>0, <1>6, <2>3, ReceiveLast
  <2>5. ChainInv'
    BY <1>6, <2>4 DEF ChainInv, TypeOK
  <2>6. CASE r.sw = "ok"
    <3>1. out' = [out EXCEPT ![a] = r]
      BY <1>0, <2>2, <2>4, <2>6
    <3> QED
      BY <2>4, <2>5, <3>1 DEF Answering, Seen
  <2>7. CASE r.sw # "ok"
    <3>1. out' = [out EXCEPT ![a] = [data |-> SubSeq(r.data, p + 1, L), sw |-> r.sw]]
      BY <2>2, <2>4, <2>7
    <3>2. [data |-> SubSeq(r.data, p + 1, L), sw |-> r.sw] \in Seen(r)
      BY <1>0, <2>1, <2>7, SeenPart
    <3> QED
      BY <2>4, <2>5, <3>1, <3>2 DEF Answering
  <2> QED
    BY <2>6, <2>7
<1>8. CASE ~Ends(rest, k)
  <2>1. k < L - p /\ p \in 0 .. L /\ k \in Nat /\ p + k <= L
    BY <1>0, <1>1, <1>3, <1>4, <1>8 DEF Ends
  <2>2. ChainInv' /\ pc' = [pc EXCEPT ![a] = "more"] /\ out' = out
    BY <1>2, <1>3, <1>4, <1>5, <1>6, <1>8, <2>1, SpeakChain
  <2> QED
    BY <1>6, <2>2 DEF Still, TypeOK
<1> QED
  BY <1>7, <1>8

LEMMA ErrorStep ==
  ASSUME OneApp, TransmitInv, NEW a \in Apps, GetError(a)
  PROVE  ChainInv' /\ (Still(a) \/ Answering(a))
<1>1. Receive(a, collector[a], << >>, "error") /\ TypeOK /\ \A b \in Apps : b = a
  BY DEF GetError, TransmitInv, OneApp
<1>2. pc' = [pc EXCEPT ![a] = "idle"] /\ out' = [out EXCEPT ![a] = [data |-> << >>, sw |-> "error"]]
  BY <1>1, ReceiveLast DEF Statuses
<1>3. reply[a] \in Replies /\ Len(reply[a].data) \in Nat
  BY <1>1, ReplyShape DEF TypeOK
<1>4. SubSeq(reply[a].data, 1, 0) = << >> /\ 1 \in 1 .. Len(reply[a].data) + 1 /\ 0 \in 0 .. Len(reply[a].data)
  BY <1>3, SubSeqEmpty
<1>5. [data |-> << >>, sw |-> "error"] \in Seen(reply[a])
  BY <1>3, <1>4, SeenPart
<1>6. ChainInv'
  BY <1>1, <1>2 DEF ChainInv, TypeOK
<1> QED
  BY <1>2, <1>5, <1>6 DEF Answering

LEMMA ChainStep == OneApp /\ TransmitInv /\ [Next]_vars => ChainInv'
<1> SUFFICES ASSUME OneApp, TransmitInv, [Next]_vars PROVE ChainInv'
  OBVIOUS
<1>1. ASSUME NEW a \in Apps, Call(a) \/ Fail(a) PROVE ChainInv'
  <2>1. pc'[a] # "more" /\ \A b \in Apps : b = a
    BY <1>1 DEF Call, Fail, TransmitInv, TypeOK, OneApp
  <2> QED
    BY <2>1 DEF ChainInv
<1>2. CASE UNCHANGED vars
  BY <1>2 DEF vars, TransmitInv, ChainInv, Chain
<1> QED
  BY <1>1, <1>2, FirstStep, MoreStep, ErrorStep DEF Next, Transmitting

LEMMA TransmitInvHolds == OneApp => (Spec => []TransmitInv)
<1> SUFFICES ASSUME OneApp PROVE Spec => []TransmitInv
  OBVIOUS
<1>1. Init => TransmitInv
  BY TransmitTypeInit DEF Init, TransmitInv, ChainInv
<1>2. TransmitInv /\ [Next]_vars => TransmitInv'
  BY TransmitTypeStep, ChainStep DEF TransmitInv
<1> QED
  BY <1>1, <1>2, PTL DEF Spec

(* transmit asks the card for at least one byte and for no more than it     *)
(* has: a 0 for a full byte or more is asked as one less than that.         *)
THEOREM NeverTooMuch == OneApp => (Spec => []AsksNoMore)
<1> SUFFICES ASSUME OneApp PROVE Spec => []AsksNoMore
  OBVIOUS
<1>1. TransmitInv => AsksNoMore
  <2> SUFFICES ASSUME TransmitInv, NEW a \in Apps, pc[a] = "more"
               PROVE  Le(xx[a]) \in 1 .. Len(rest.data)
    BY DEF AsksNoMore
  <2>1. reply[a].data \in Seq(Bytes) /\ Len(reply[a].data) \in Nat
    BY ReplyShape DEF TransmitInv, TypeOK
  <2>2. PICK p \in 0 .. Len(reply[a].data) - 1 : Chain(a, p)
    BY DEF TransmitInv, ChainInv
  <2>3. Len(rest.data) = Len(reply[a].data) - p
    BY <2>1, <2>2, Pieces DEF Chain, Kept
  <2> QED
    BY <2>1, <2>2, <2>3, SizeAssumption DEF Chain, Announce, Le
<1> QED
  BY <1>1, TransmitInvHolds, PTL

(* However the card cuts its reply, a caller gets the whole of it with a    *)
(* success, or a piece of it with another status, or an exception.          *)
THEOREM PromiseKept == OneApp => (Spec => ImplementsExchange)
<1> SUFFICES ASSUME OneApp PROVE Spec => Promise!Spec
  BY DEF ImplementsExchange
<1>1. Init => Promise!Init
  <2>1. Error \in Replies
    BY DEF Replies
  <2>2. Init => reply \in [Apps -> Replies]
    BY <2>1 DEF Init
  <2>3. Init => [a \in Apps |-> pc[a] # "idle"] = [a \in Apps |-> FALSE]
    BY DEF Init
  <2> QED
    BY <2>2, <2>3 DEF Init, Promise!Init, Nothing
<1>2. TransmitInv /\ [Next]_vars => [Promise!Next]_<<[a \in Apps |-> pc[a] # "idle"], reply, out>>
  <2> SUFFICES ASSUME TransmitInv, [Next]_vars
               PROVE  [Promise!Next]_<<[a \in Apps |-> pc[a] # "idle"], reply, out>>
    OBVIOUS
  <2>0. /\ pc \in [Apps -> {"idle", "sent", "more"}] /\ out = [b \in Apps |-> out[b]]
        /\ reply = [b \in Apps |-> reply[b]]
    BY DEF TransmitInv, TypeOK
  <2>1. ASSUME NEW a \in Apps, Call(a) PROVE Promise!Ask(a)
    BY <2>0, <2>1 DEF Call, Promise!Ask
  <2>2. ASSUME NEW a \in Apps, Transmitting(a)
        PROVE  Promise!Answer(a) \/ UNCHANGED <<[b \in Apps |-> pc[b] # "idle"], reply, out>>
    <3>1. pc[a] # "idle" /\ reply' = reply /\ (Still(a) \/ Answering(a)) /\ \A b \in Apps : b = a
      BY <2>2, FirstStep, MoreStep, ErrorStep DEF Transmitting, FirstReply, GetResponse, GetError, OneApp
    <3>2. CASE Still(a)
      BY <3>1, <3>2 DEF Still
    <3>3. CASE Answering(a)
      BY <2>0, <3>1, <3>3 DEF Answering, Seen, Promise!Answer
    <3> QED
      BY <3>1, <3>2, <3>3
  <2>3. ASSUME NEW a \in Apps, Fail(a) PROVE Promise!Fail(a)
    BY <2>0, <2>3 DEF Fail, Promise!Fail
  <2>4. CASE UNCHANGED vars
    BY <2>4 DEF vars
  <2> QED
    BY <2>1, <2>2, <2>3, <2>4 DEF Next, Promise!Next
<1> QED
  BY <1>1, <1>2, TransmitInvHolds, PTL DEF Spec, Promise!Spec
=============================================================================
