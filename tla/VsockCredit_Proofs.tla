------------------------- MODULE VsockCredit_Proofs -------------------------
(***************************************************************************)
(* Both halves of the flow control, for every buffer size and any          *)
(* interleaving of a connection that carries fewer bytes than a u32        *)
(* counts: it never has more in flight than the peer has room for, and it  *)
(* resets a peer that keeps to the credit it was given only while a packet *)
(* is half read.                                                           *)
(*                                                                         *)
(* What makes SendsWithinCredit inductive: the peer's reading only goes    *)
(* forward, so every fwd_cnt on its way to the guest or recorded there is  *)
(* a lower bound of it, and the credit check made with an old value stays  *)
(* valid until the packet is submitted and counted.                        *)
(***************************************************************************)
EXTENDS VsockCredit, SequenceTheorems, TLAPS

Ops == {"rw", "update", "request"}
PacketSet == [op : Ops, len : Nat, fwd : Nat]

CreditType ==
    credit \in [peerFwd : Nat, fwd : Nat, reported : Nat, requested : BOOLEAN, tx : Nat]
PeerType == peer \in [tx : Nat, seen : Nat, unread : Nat, read : Nat, asked : BOOLEAN]
RxqType == rxq \in [packets : Seq(Nat), used : Nat, offset : Nat, stray : BOOLEAN]
RxType == rx \in [at : {"idle", "reply", "mark"}, fwd : Nat]
LenType == len \in Nat
SentType == sent \in Nat
WireType == toPeer \in Seq(PacketSet) /\ queued \in Seq(PacketSet)
InboundType == toGuest \in Seq(PacketSet)

Types == /\ CreditType /\ PeerType /\ RxqType /\ RxType
         /\ LenType /\ SentType /\ WireType /\ InboundType

\* Every fwd_cnt the guest has, or will get, is one the peer has reached.
CreditIsOld ==
    /\ credit.peerFwd <= peer.read
    /\ \A i \in DOMAIN toGuest : toGuest[i].fwd <= peer.read

\* tx_cnt is what was handed to the driver, but for the packet just submitted.
Counting == pc \in {"countDirect", "countQueued"}
TxIsSent == sent = credit.tx + (IF Counting THEN len ELSE 0)

\* The packet about to be submitted fits.
SubmitFits ==
    pc = "submit" => /\ sent + len <= peer.read + PeerBuf
                     /\ sent + len <= MaxSent

IInv == Types /\ CreditIsOld /\ TxIsSent /\ SubmitFits /\ sent <= MaxSent /\ SendsWithinCredit

-------------------------------------------------------------------------------
\* What the bounds and buffer sizes are.
LEMMA Sizes == /\ PeerBuf \in Nat /\ MaxSent \in Nat /\ W \in Nat \ {0}
               /\ RxBuf \in Nat /\ Lens \subseteq Nat
BY CreditAssumption

\* The counters are naturals.
LEMMA Fields ==
    ASSUME Types
    PROVE  /\ credit.tx \in Nat /\ credit.fwd \in Nat /\ credit.peerFwd \in Nat
           /\ peer.read \in Nat /\ len \in Nat /\ sent \in Nat
           /\ rxq.used \in Nat /\ rxq.offset \in Nat /\ rxq.packets \in Seq(Nat)
<1>1. credit.tx \in Nat /\ credit.fwd \in Nat /\ credit.peerFwd \in Nat
  BY DEF Types, CreditType
<1>2. peer.read \in Nat
  BY DEF Types, PeerType
<1>3. rxq.used \in Nat /\ rxq.offset \in Nat /\ rxq.packets \in Seq(Nat)
  BY DEF Types, RxqType
<1> QED
  BY <1>1, <1>2, <1>3 DEF Types, LenType, SentType

\* A counter sent as a u32 is at most its value.
LEMMA ModBounds ==
    ASSUME NEW a \in Nat, NEW b \in Nat \ {0}
    PROVE  a % b \in Nat /\ a % b <= a
OBVIOUS

\* The saturating operations stay in the naturals.
LEMMA CounterTypes ==
    ASSUME NEW a \in Nat, NEW b \in Nat
    PROVE  Monus(a, b) \in Nat /\ AddSaturating(a, b) \in Nat
BY Sizes DEF Monus, AddSaturating

\* try_recv copies a natural number of bytes.
LEMMA CopyLength ==
    ASSUME Types, Copy
    PROVE  \E n \in Nat : /\ credit' = [credit EXCEPT !.fwd = AddSaturating(@, n)]
                          /\ rxq' = AfterRead(n)
<1> DEFINE S == IF PartialReads /\ rxq.offset < len
                THEN 1..(len - rxq.offset) ELSE {Monus(len, rxq.offset)}
<1>1. S \subseteq Nat
  <2>1. len \in Nat /\ rxq.offset \in Nat
    BY Fields
  <2>2. 1..(len - rxq.offset) \subseteq Nat
    BY <2>1
  <2>3. Monus(len, rxq.offset) \in Nat
    BY <2>1, CounterTypes
  <2> QED
    BY <2>2, <2>3
<1>2. \E n \in S : /\ credit' = [credit EXCEPT !.fwd = AddSaturating(@, n)]
                   /\ rxq' = AfterRead(n)
  BY DEF Copy
<1> QED
  BY <1>1, <1>2

\* The oldest packet to the guest, and the packets behind it.
LEMMA HeadPacket ==
    ASSUME InboundType, toGuest # <<>>
    PROVE  /\ Head(toGuest) \in PacketSet /\ Head(toGuest).fwd \in Nat
           /\ Head(toGuest).len \in Nat
           /\ Head(toGuest) = toGuest[1] /\ 1 \in DOMAIN toGuest
           /\ Tail(toGuest) \in Seq(PacketSet)
           /\ \A i \in DOMAIN Tail(toGuest) :
                i + 1 \in DOMAIN toGuest /\ Tail(toGuest)[i] = toGuest[i + 1]
<1>1. /\ Head(toGuest) \in PacketSet
      /\ Head(toGuest) = toGuest[1] /\ 1 \in DOMAIN toGuest
      /\ Tail(toGuest) \in Seq(PacketSet)
      /\ \A i \in DOMAIN Tail(toGuest) :
           i + 1 \in DOMAIN toGuest /\ Tail(toGuest)[i] = toGuest[i + 1]
  BY DEF InboundType
<1> QED
  BY <1>1 DEF PacketSet

-------------------------------------------------------------------------------
(* The types, one part at a time.                                          *)

\* The connection's counters stay natural numbers.
LEMMA CreditTypeStep ==
    ASSUME Types, [Next]_vars
    PROVE  CreditType'
<1>1. CASE RxData \/ RxUpdate \/ RxRequest
  <2>1. toGuest # <<>> /\ credit' = WithCredit(Head(toGuest))
    BY <1>1 DEF RxData, RxUpdate, RxRequest, RxTakes
  <2>2. Head(toGuest).fwd \in Nat
    BY <2>1, HeadPacket DEF Types
  <2> QED
    BY <2>1, <2>2 DEF WithCredit, Types, CreditType
<1>2. CASE Count
  <2>1. AddSaturating(credit.tx, len) \in Nat
    BY Fields, CounterTypes
  <2> QED
    BY <1>2, <2>1 DEF Count, Types, CreditType
<1>3. CASE Copy
  <2>1. \A n \in Nat : AddSaturating(credit.fwd, n) \in Nat
    BY Fields, CounterTypes
  <2>2. PICK n \in Nat : credit' = [credit EXCEPT !.fwd = AddSaturating(@, n)]
    BY <1>3, CopyLength
  <2> QED
    BY <2>1, <2>2 DEF Types, CreditType
<1>4. CASE Mark \/ RxMark \/ TxMark
  BY <1>4 DEF Mark, RxMark, TxMark, Reported, Types, CreditType
<1>5. CASE MakeRequest \/ SendRequest
  BY <1>5 DEF MakeRequest, SendRequest, Types, CreditType
<1>6. CASE UNCHANGED credit
  BY <1>6 DEF Types, CreditType
<1>7. \/ RxData \/ RxUpdate \/ RxRequest \/ Count \/ Copy \/ Mark \/ RxMark \/ TxMark
      \/ MakeRequest \/ SendRequest \/ UNCHANGED credit
  BY DEF Next, AppStep, RxStep, vars, TrySend, Pop, Submit, CopyFails, LosesPacket, Update, SendUpdate,
         RxReply, TxDrain, PeerSend, PeerAsk, PeerTake, PeerRead, PeerFrame
<1> QED
  BY <1>1, <1>2, <1>3, <1>4, <1>5, <1>6, <1>7

\* So do the peer's, and its reading only goes forward.
LEMMA PeerTypeStep ==
    ASSUME Types, [Next]_vars
    PROVE  PeerType' /\ peer'.read >= peer.read
<1>1. PeerType
  BY DEF Types
<1>2. CASE PeerTake
  <2>1. Head(toPeer) \in PacketSet
    BY <1>2 DEF PeerTake, Types, WireType
  <2>2. Head(toPeer).fwd \in Nat /\ Head(toPeer).len \in Nat
    BY <2>1 DEF PacketSet
  <2>3. PICK b \in BOOLEAN :
          peer' = [peer EXCEPT !.seen = Head(toPeer).fwd,
                               !.unread = @ + Head(toPeer).len, !.asked = b]
    <3> DEFINE b == IF Head(toPeer).op = "update" THEN FALSE ELSE peer.asked
    <3>1. b \in BOOLEAN
      BY <1>1 DEF PeerType
    <3>2. peer' = [peer EXCEPT !.seen = Head(toPeer).fwd,
                               !.unread = @ + Head(toPeer).len, !.asked = b]
      BY <1>2 DEF PeerTake
    <3> QED
      BY <3>1, <3>2
  <2>4. peer.unread + Head(toPeer).len \in Nat
    BY <1>1, <2>2 DEF PeerType
  <2>5. peer' = [tx |-> peer.tx, seen |-> Head(toPeer).fwd,
                 unread |-> peer.unread + Head(toPeer).len,
                 read |-> peer.read, asked |-> b]
    BY <1>1, <2>3 DEF PeerType
  <2>6. PeerType'
    BY <1>1, <2>2, <2>4, <2>5 DEF PeerType
  <2>7. peer'.read = peer.read
    BY <2>5
  <2> QED
    BY <2>6, <2>7, Fields
<1>3. CASE PeerRead
  <2>1. peer' = [peer EXCEPT !.unread = @ - 1, !.read = @ + 1] /\ peer.unread > 0
    BY <1>3 DEF PeerRead
  <2>2. peer.unread - 1 \in Nat /\ peer.read + 1 \in Nat
    BY <1>1, <2>1 DEF PeerType
  <2>3. PeerType'
    BY <1>1, <2>1, <2>2 DEF PeerType
  <2>4. peer'.read = peer.read + 1
    BY <1>1, <2>1 DEF PeerType
  <2> QED
    BY <2>3, <2>4, Fields
<1>4. CASE PeerAsk
  <2>1. peer' = [peer EXCEPT !.asked = TRUE]
    BY <1>4 DEF PeerAsk
  <2>2. PeerType'
    BY <1>1, <2>1 DEF PeerType
  <2>3. peer'.read = peer.read
    BY <1>1, <2>1 DEF PeerType
  <2> QED
    BY <2>2, <2>3, Fields
<1>5. CASE \E n \in Lens : PeerSend(n)
  <2>1. PICK n \in Nat : peer' = [peer EXCEPT !.tx = @ + n]
    BY <1>5, Sizes DEF PeerSend
  <2>2. PeerType'
    BY <1>1, <2>1 DEF PeerType
  <2>3. peer'.read = peer.read
    BY <1>1, <2>1 DEF PeerType
  <2> QED
    BY <2>2, <2>3, Fields
<1>6. CASE UNCHANGED peer
  BY <1>1, <1>6, Fields DEF PeerType
<1>7. PeerTake \/ PeerRead \/ PeerAsk \/ (\E n \in Lens : PeerSend(n)) \/ UNCHANGED peer
  BY DEF Next, AppStep, RxStep, vars, TrySend, MakeRequest, SendRequest, Submit, Count,
         Mark, Pop, Copy, CopyFails, LosesPacket, Update, SendUpdate, RxData, RxUpdate, RxRequest,
         RxReply, RxMark, TxDrain, TxMark
<1> QED
  BY <1>2, <1>3, <1>4, <1>5, <1>6, <1>7

\* The length a call works on.
LEMMA LenTypeStep ==
    ASSUME Types, [Next]_vars
    PROVE  LenType'
<1>1. CASE \E n \in Lens : TrySend(n)
  <2>1. PICK n \in Nat : TrySend(n)
    BY <1>1, Sizes
  <2>2. Available \in Nat
    BY Sizes, Fields, CounterTypes DEF Available
  <2> QED
    BY <2>1, <2>2 DEF TrySend, Types, LenType
<1>2. CASE Pop
  BY <1>2, Fields DEF Pop, LenType
<1>3. CASE UNCHANGED len
  BY <1>3 DEF Types, LenType
<1>4. (\E n \in Lens : TrySend(n)) \/ Pop \/ UNCHANGED len
  BY DEF Next, AppStep, RxStep, vars, MakeRequest, SendRequest, Submit, Count, Mark,
         Copy, CopyFails, LosesPacket, Update, SendUpdate, RxData, RxUpdate, RxRequest, RxReply, RxMark,
         TxDrain, TxMark, PeerSend, PeerAsk, PeerTake, PeerRead, PeerFrame, appVars
<1> QED
  BY <1>1, <1>2, <1>3, <1>4

\* The receive queue keeps its types.
LEMMA RxqTypeStep ==
    ASSUME Types, [Next]_vars
    PROVE  RxqType'
<1>1. RxqType /\ rxq.stray \in BOOLEAN
  BY DEF Types, RxqType
<1>2. CASE Copy
  <2>1. PICK n \in Nat : rxq' = AfterRead(n)
    BY <1>2, CopyLength
  <2>2. Monus(rxq.used, len) \in Nat /\ len \in Nat /\ rxq.offset + n \in Nat
    <3>1. rxq.used \in Nat /\ len \in Nat /\ rxq.offset \in Nat
      BY Fields
    <3>2. Monus(rxq.used, len) \in Nat
      BY <3>1 DEF Monus
    <3>3. rxq.offset + n \in Nat
      BY <3>1
    <3> QED
      BY <3>1, <3>2, <3>3
  <2>3. <<len>> \o rxq.packets \in Seq(Nat)
    BY <2>2, Fields
  <2>4. CASE rxq.offset + n < len
    <3>1. rxq' = [rxq EXCEPT !.packets = <<len>> \o @, !.offset = @ + n]
      BY <2>1, <2>4 DEF AfterRead
    <3>2. rxq' = [packets |-> <<len>> \o rxq.packets, used |-> rxq.used,
                  offset |-> rxq.offset + n, stray |-> rxq.stray]
      BY <1>1, <3>1 DEF RxqType
    <3> QED
      BY <1>1, <2>2, <2>3, <3>2, Fields DEF RxqType
  <2>5. CASE ~(rxq.offset + n < len)
    <3>1. rxq' = [rxq EXCEPT !.used = Monus(@, len), !.offset = 0]
      BY <2>1, <2>5 DEF AfterRead
    <3> QED
      BY <1>1, <2>2, <3>1 DEF RxqType
  <2> QED
    BY <2>4, <2>5
<1>3. CASE Pop
  <2>1. rxq' = [rxq EXCEPT !.packets = Tail(@)] /\ rxq.packets # <<>>
    BY <1>3 DEF Pop
  <2>2. Tail(rxq.packets) \in Seq(Nat)
    BY <2>1, Fields
  <2> QED
    BY <1>1, <2>1, <2>2 DEF RxqType
<1>4. CASE RxData
  <2>1. Head(toGuest).len \in Nat
    BY <1>4, HeadPacket DEF RxData, RxTakes, Types
  <2>2. Append(rxq.packets, Head(toGuest).len) \in Seq(Nat)
    BY <2>1, Fields
  <2>3. rxq.used + Head(toGuest).len \in Nat
    BY <2>1, Fields
  <2>4. \/ UNCHANGED rxq
        \/ rxq' = [rxq EXCEPT !.used = rxq.used + Head(toGuest).len,
                              !.packets = Append(@, Head(toGuest).len)]
    BY <1>4 DEF RxData
  <2> QED
    BY <1>1, <2>2, <2>3, <2>4 DEF RxqType
<1>5. CASE UNCHANGED rxq \/ CopyFails
  BY <1>1, <1>5 DEF RxqType, CopyFails, LosesPacket
<1>6. Copy \/ Pop \/ RxData \/ UNCHANGED rxq \/ CopyFails
  BY DEF Next, AppStep, RxStep, vars, TrySend, MakeRequest, SendRequest, Submit, Count,
         Mark, CopyFails, LosesPacket, Update, SendUpdate, RxUpdate, RxRequest, RxReply, RxMark,
         TxDrain, TxMark, PeerSend, PeerAsk, PeerTake, PeerRead, PeerFrame
<1> QED
  BY <1>2, <1>3, <1>4, <1>5, <1>6

\* The header an RX reply carries.
LEMMA RxTypeStep ==
    ASSUME Types, [Next]_vars
    PROVE  RxType'
<1>1. RxType /\ credit.fwd \in Nat
  BY Fields DEF Types
<1>2. \/ UNCHANGED rx
      \/ rx' = [at |-> "reply", fwd |-> credit.fwd]
      \/ rx' = [rx EXCEPT !.at = "mark"] \/ rx' = [rx EXCEPT !.at = "idle"]
  BY DEF Next, AppStep, RxStep, vars, TrySend, MakeRequest, SendRequest, Submit, Count,
         Mark, Pop, Copy, CopyFails, LosesPacket, Update, SendUpdate, RxData, RxUpdate, RxRequest,
         RxReply, RxMark, TxDrain, TxMark, PeerSend, PeerAsk, PeerTake, PeerRead, PeerFrame
<1>3. CASE rx' = [at |-> "reply", fwd |-> credit.fwd]
  BY <1>1, <1>3 DEF RxType
<1>4. CASE rx' = [rx EXCEPT !.at = "mark"] \/ rx' = [rx EXCEPT !.at = "idle"]
  BY <1>1, <1>4 DEF RxType
<1> QED
  BY <1>1, <1>2, <1>3, <1>4 DEF RxType

\* A header built from the present or an earlier fwd_cnt has the packet type.
LEMMA SendsPacket ==
    ASSUME Types, NEW op \in Ops, NEW n \in Nat, NEW f \in Nat,
           Direct(Packet(op, n, f)) \/ Queue(Packet(op, n, f))
    PROVE  WireType'
<1>1. Packet(op, n, f) \in PacketSet
  BY DEF Packet, PacketSet
<1> DEFINE p == Packet(op, n, f)
<1>2. /\ toPeer' = Append(toPeer, p) \/ toPeer' = toPeer
      /\ queued' = Append(queued, p) \/ queued' = queued
  BY DEF Direct, Queue
<1> HIDE DEF p
<1>3. p \in PacketSet
  BY <1>1 DEF p
<1>4. toPeer' \in Seq(PacketSet)
  BY <1>2, <1>3 DEF Types, WireType
<1>5. queued' \in Seq(PacketSet)
  BY <1>2, <1>3 DEF Types, WireType
<1> QED
  BY <1>4, <1>5 DEF WireType

\* The queues towards the peer hold packets.
LEMMA WireTypeStep ==
    ASSUME Types, [Next]_vars
    PROVE  WireType'
<1>1. CASE SendRequest \/ SendUpdate \/ Submit \/ RxReply
  <2>1. rx.fwd \in Nat /\ credit.fwd \in Nat /\ len \in Nat
    BY Fields DEF Types, RxType
  <2>2. \/ UNCHANGED <<toPeer, queued>>
        \/ \E op \in Ops, n \in {0, len}, f \in {rx.fwd, credit.fwd} :
             Direct(Packet(op, n, f)) \/ Queue(Packet(op, n, f))
    <3>1. CASE SendRequest
      BY <3>1 DEF SendRequest, Fails, txVars, Ops
    <3>2. CASE SendUpdate
      BY <3>2 DEF SendUpdate, Fails, txVars, Ops
    <3>3. CASE Submit
      BY <3>3 DEF Submit, Ops
    <3>4. CASE RxReply
      BY <3>4 DEF RxReply, Fails, txVars, Ops
    <3> QED
      BY <1>1, <3>1, <3>2, <3>3, <3>4
  <2>3. CASE UNCHANGED <<toPeer, queued>>
    BY <2>3 DEF Types, WireType
  <2> QED
    BY <2>1, <2>2, <2>3, SendsPacket
<1>2. CASE TxDrain
  <2>1. PICK n \in 1..Len(queued) :
          /\ toPeer' = toPeer \o SubSeq(queued, 1, n)
          /\ queued' = SubSeq(queued, n + 1, Len(queued))
    BY <1>2 DEF TxDrain
  <2>2. SubSeq(queued, 1, n) \in Seq(PacketSet)
    BY DEF Types, WireType
  <2>3. SubSeq(queued, n + 1, Len(queued)) \in Seq(PacketSet)
    BY DEF Types, WireType
  <2> QED
    BY <2>1, <2>2, <2>3 DEF Types, WireType
<1>3. CASE PeerTake
  BY <1>3 DEF PeerTake, PeerFrame, Types, WireType
<1>4. CASE UNCHANGED <<toPeer, queued>>
  BY <1>4 DEF Types, WireType
<1>5. \/ SendRequest \/ SendUpdate \/ Submit \/ RxReply \/ TxDrain \/ PeerTake
      \/ UNCHANGED <<toPeer, queued>>
  BY DEF Next, AppStep, RxStep, vars, TrySend, MakeRequest, Count, Mark, Pop, Copy,
         CopyFails, LosesPacket, Update, RxData, RxUpdate, RxRequest, RxMark, TxMark, PeerSend, PeerAsk,
         PeerRead, PeerFrame, txVars
<1> QED
  BY <1>1, <1>2, <1>3, <1>4, <1>5

\* Every packet towards the guest carries a fwd_cnt the peer has reached.
LEMMA InboundStep ==
    ASSUME Types, CreditIsOld, [Next]_vars
    PROVE  InboundType' /\ \A i \in DOMAIN toGuest' : toGuest'[i].fwd <= peer.read
<1>1. CASE RxData \/ RxUpdate \/ RxRequest
  <2>1. toGuest # <<>> /\ toGuest' = Tail(toGuest)
    BY <1>1 DEF RxData, RxUpdate, RxRequest, RxTakes
  <2> QED
    BY <2>1, HeadPacket DEF Types, InboundType, CreditIsOld
<1>2. CASE \E op \in Ops, n \in Nat : FromPeer(op, n)
  <2>1. PICK op \in Ops, n \in Nat : FromPeer(op, n)
    BY <1>2
  <2> DEFINE p == Packet(op, n, peer.read % W)
  <2>2. peer.read % W \in Nat /\ peer.read % W <= peer.read
    BY ModBounds, Sizes, Fields
  <2>3. p \in PacketSet /\ p.fwd <= peer.read
    BY <2>2 DEF Packet, PacketSet
  <2>4. toGuest' = Append(toGuest, p)
    BY <2>1 DEF FromPeer
  <2> HIDE DEF p
  <2>5. /\ toGuest' \in Seq(PacketSet)
        /\ \A i \in DOMAIN toGuest' :
             toGuest'[i] = p \/ (i \in DOMAIN toGuest /\ toGuest'[i] = toGuest[i])
    BY <2>3, <2>4 DEF Types, InboundType
  <2> QED
    BY <2>3, <2>5 DEF CreditIsOld, InboundType
<1>3. CASE UNCHANGED toGuest
  BY <1>3 DEF Types, InboundType, CreditIsOld
<1>4. CASE (\E n \in Lens : PeerSend(n)) \/ PeerAsk \/ PeerTake
  <2>1. (\E op \in Ops, n \in Nat : FromPeer(op, n)) \/ UNCHANGED toGuest
    <3>1. CASE \E n \in Lens : PeerSend(n)
      BY <3>1, Sizes DEF PeerSend, Ops
    <3>2. CASE PeerAsk
      BY <3>2 DEF PeerAsk, Ops
    <3>3. CASE PeerTake
      BY <3>3 DEF PeerTake, Ops
    <3> QED
      BY <1>4, <3>1, <3>2, <3>3
  <2> QED
    BY <2>1, <1>2, <1>3
<1>5. \/ RxData \/ RxUpdate \/ RxRequest \/ (\E n \in Lens : PeerSend(n)) \/ PeerAsk
      \/ PeerTake \/ UNCHANGED toGuest
  BY DEF Next, AppStep, RxStep, vars, TrySend, MakeRequest, SendRequest, Submit, Count,
         Mark, Pop, Copy, CopyFails, LosesPacket, Update, SendUpdate, RxReply, RxMark, TxDrain, TxMark,
         PeerRead, PeerFrame
<1> QED
  BY <1>1, <1>3, <1>4, <1>5

\* What was sent only changes with a submission.
LEMMA SentStep ==
    ASSUME Types, [Next]_vars
    PROVE  SentType' /\ (Submit \/ sent' = sent)
<1>1. Submit \/ sent' = sent
  BY DEF Next, AppStep, RxStep, vars, TrySend, MakeRequest, SendRequest, Count, Mark, Pop,
         Copy, CopyFails, LosesPacket, Update, SendUpdate, RxData, RxUpdate, RxRequest, RxReply, RxMark,
         TxDrain, TxMark, PeerSend, PeerAsk, PeerTake, PeerRead, PeerFrame
<1> QED
  BY <1>1, Fields DEF Submit, SentType

\* Together: every step keeps the types.
LEMMA TypesStep ==
    ASSUME Types, CreditIsOld, [Next]_vars
    PROVE  Types'
BY CreditTypeStep, PeerTypeStep, LenTypeStep, RxqTypeStep, RxTypeStep, WireTypeStep,
   InboundStep, SentStep DEF Types

-------------------------------------------------------------------------------
(* The arithmetic.                                                         *)

\* The credit the connection has recorded stays one the peer has given.
LEMMA CreditIsOldStep ==
    ASSUME Types, CreditIsOld, [Next]_vars
    PROVE  CreditIsOld'
<1>1. credit'.peerFwd <= peer.read
  <2>1. CASE RxData \/ RxUpdate \/ RxRequest
    <3>1. toGuest # <<>> /\ credit' = WithCredit(Head(toGuest))
      BY <2>1 DEF RxData, RxUpdate, RxRequest, RxTakes
    <3>2. Head(toGuest).fwd <= peer.read
      BY <3>1, HeadPacket DEF CreditIsOld, Types
    <3>3. credit'.peerFwd = Head(toGuest).fwd
      BY <3>1 DEF WithCredit, Types, CreditType
    <3> QED
      BY <3>2, <3>3
  <2>2. CASE Count \/ Mark \/ RxMark \/ TxMark \/ MakeRequest \/ SendRequest
    <3>1. credit'.peerFwd = credit.peerFwd
      BY <2>2 DEF Count, Mark, RxMark, TxMark, Reported, MakeRequest, SendRequest, Types,
                  CreditType
    <3> QED
      BY <3>1 DEF CreditIsOld
  <2>3. CASE Copy
    <3>1. PICK n \in Nat : credit' = [credit EXCEPT !.fwd = AddSaturating(@, n)]
      BY <2>3, CopyLength
    <3> QED
      BY <3>1 DEF CreditIsOld, Types, CreditType
  <2>4. CASE UNCHANGED credit
    BY <2>4 DEF CreditIsOld
  <2>5. \/ RxData \/ RxUpdate \/ RxRequest \/ Count \/ Copy \/ Mark \/ RxMark \/ TxMark
        \/ MakeRequest \/ SendRequest \/ UNCHANGED credit
    BY DEF Next, AppStep, RxStep, vars, TrySend, Pop, Submit, CopyFails, LosesPacket, Update, SendUpdate,
           RxReply, TxDrain, PeerSend, PeerAsk, PeerTake, PeerRead, PeerFrame
  <2> QED
    BY <2>1, <2>2, <2>3, <2>4, <2>5
<1>2. \A i \in DOMAIN toGuest' : toGuest'[i].fwd <= peer.read
  BY InboundStep
<1>3. peer'.read >= peer.read /\ peer'.read \in Nat /\ credit'.peerFwd \in Nat
  BY PeerTypeStep, TypesStep, Fields DEF PeerType, Types, CreditType
<1>4. \A i \in DOMAIN toGuest' : toGuest'[i].fwd \in Nat
  <2>1. toGuest' \in Seq(PacketSet)
    BY InboundStep DEF InboundType
  <2>2. \A i \in DOMAIN toGuest' : toGuest'[i] \in PacketSet
    BY <2>1
  <2> QED
    BY <2>2 DEF PacketSet
<1> QED
  BY <1>1, <1>2, <1>3, <1>4, Fields DEF CreditIsOld

\* Only update_tx_cnt changes tx_cnt.
LEMMA TxSame ==
    ASSUME Types, [Next]_vars
    PROVE  Count \/ credit'.tx = credit.tx
<1>1. CASE RxData \/ RxUpdate \/ RxRequest
  <2>1. credit' = WithCredit(Head(toGuest))
    BY <1>1 DEF RxData, RxUpdate, RxRequest, RxTakes
  <2> QED
    BY <2>1 DEF WithCredit, Types, CreditType
<1>2. CASE Mark \/ RxMark \/ TxMark \/ MakeRequest \/ SendRequest
  BY <1>2 DEF Mark, RxMark, TxMark, Reported, MakeRequest, SendRequest, Types, CreditType
<1>3. CASE Copy
  <2>1. PICK n \in Nat : credit' = [credit EXCEPT !.fwd = AddSaturating(@, n)]
    BY <1>3, CopyLength
  <2> QED
    BY <2>1 DEF Types, CreditType
<1>4. \/ RxData \/ RxUpdate \/ RxRequest \/ Count \/ Copy \/ Mark \/ RxMark \/ TxMark
      \/ MakeRequest \/ SendRequest \/ UNCHANGED credit
  BY DEF Next, AppStep, RxStep, vars, TrySend, Pop, Submit, CopyFails, LosesPacket, Update, SendUpdate,
         RxReply, TxDrain, PeerSend, PeerAsk, PeerTake, PeerRead, PeerFrame
<1> QED
  BY <1>1, <1>2, <1>3, <1>4

\* A call that is about to submit or to count is not disturbed by another actor.
LEMMA PcSame ==
    ASSUME [Next]_vars
    PROVE  \/ \E n \in Lens : TrySend(n)
           \/ Submit \/ Count
           \/ pc' = pc /\ len' = len
           \/ ~Counting /\ pc' \notin {"submit", "countDirect", "countQueued"}
<1>1. CASE MakeRequest \/ SendRequest \/ Mark
  BY <1>1 DEF MakeRequest, SendRequest, Mark, Counting
<1>2. CASE Pop \/ Copy \/ CopyFails \/ Update \/ SendUpdate
  BY <1>2 DEF Pop, Copy, CopyFails, LosesPacket, Update, SendUpdate, Counting
<1>3. CASE UNCHANGED appVars
  BY <1>3 DEF appVars
<1>4. \/ \E n \in Lens : TrySend(n)
      \/ Submit \/ Count \/ MakeRequest \/ SendRequest \/ Mark
      \/ Pop \/ Copy \/ CopyFails \/ Update \/ SendUpdate \/ UNCHANGED appVars
  BY DEF Next, AppStep, RxStep, vars, RxData, RxUpdate, RxRequest, RxReply, RxMark,
         TxDrain, TxMark, PeerSend, PeerAsk, PeerTake, PeerRead, PeerFrame, appVars
<1> QED
  BY <1>1, <1>2, <1>3, <1>4

\* A length within the available credit stays within the peer's buffer.
LEMMA AvailableFits ==
    ASSUME Types, CreditIsOld, NEW n \in Nat, n <= Available, Available # 0
    PROVE  credit.tx + n <= peer.read + PeerBuf
<1>1. /\ PeerBuf \in Nat /\ credit.tx \in Nat /\ credit.peerFwd \in Nat
      /\ peer.read \in Nat /\ credit.peerFwd <= peer.read
  BY Sizes, Fields DEF CreditIsOld
<1> DEFINE a == PeerBuf
           b == credit.tx
           c == credit.peerFwd
<1>2. n <= Monus(a, Monus(b, c)) /\ Monus(a, Monus(b, c)) # 0
  BY DEF Available
<1> HIDE DEF a, b, c
<1>3. a \in Nat /\ b \in Nat /\ c \in Nat
  BY <1>1 DEF a, b, c
<1>4. b + n <= c + a
  BY <1>2, <1>3 DEF Monus
<1> QED
  BY <1>1, <1>4 DEF a, b, c

\* What is sent, counted and about to be submitted.
LEMMA SendingStep ==
    ASSUME MaxSent < W, IInv, [Next]_vars
    PROVE  (TxIsSent /\ SubmitFits /\ sent <= MaxSent /\ SendsWithinCredit)'
<1>1. /\ Types /\ CreditIsOld /\ TxIsSent /\ SubmitFits
      /\ sent <= MaxSent /\ sent <= peer.read + PeerBuf
  BY DEF IInv, SendsWithinCredit
<1>2. /\ credit.tx \in Nat /\ len \in Nat /\ sent \in Nat /\ peer.read \in Nat
      /\ MaxSent \in Nat /\ PeerBuf \in Nat /\ W \in Nat
  BY <1>1, Fields, Sizes
<1>3. /\ credit'.tx \in Nat /\ len' \in Nat /\ sent' \in Nat /\ peer'.read \in Nat
      /\ peer'.read >= peer.read
  BY <1>1, TypesStep, PeerTypeStep DEF Types, CreditType, LenType, SentType, PeerType
<1>4. CASE \E n \in Lens : TrySend(n)
  <2>1. PICK n \in Nat : TrySend(n)
    BY <1>4, Sizes
  <2>2. /\ pc = "idle" /\ sent + n <= MaxSent
        /\ sent' = sent /\ credit' = credit /\ peer' = peer
        /\ \/ pc' = "idle"
           \/ pc' = "request"
           \/ pc' = "submit" /\ Available # 0 /\ len' = IF n < Available THEN n ELSE Available
    BY <2>1 DEF TrySend
  <2>3. sent = credit.tx /\ TxIsSent'
    BY <1>1, <1>2, <2>2 DEF TxIsSent, Counting
  <2>4. ASSUME pc' = "submit"
        PROVE  sent' + len' <= peer'.read + PeerBuf /\ sent' + len' <= MaxSent
    <3>1. Available \in Nat
      BY <1>2, <1>1, Fields, CounterTypes DEF Available
    <3>2. Available # 0 /\ len' <= Available /\ len' <= n
      BY <2>2, <2>4, <3>1
    <3>3. credit.tx + len' <= peer.read + PeerBuf
      BY <1>1, <1>3, <3>2, AvailableFits
    <3> QED
      BY <1>2, <1>3, <2>2, <2>3, <3>2, <3>3
  <2> QED
    BY <1>1, <2>2, <2>3, <2>4 DEF SubmitFits, SendsWithinCredit
<1>5. CASE Submit
  <2>1. /\ pc = "submit" /\ pc' \in {"countDirect", "countQueued"}
        /\ sent' = sent + len /\ len' = len /\ credit' = credit /\ peer' = peer
    BY <1>5 DEF Submit
  <2>2. sent = credit.tx /\ sent + len <= peer.read + PeerBuf /\ sent + len <= MaxSent
    BY <1>1, <1>2, <2>1 DEF TxIsSent, SubmitFits, Counting
  <2> QED
    BY <1>2, <2>1, <2>2 DEF TxIsSent, SubmitFits, SendsWithinCredit, Counting
<1>6. CASE Count
  <2>1. /\ Counting /\ pc' \in {"mark", "idle"} /\ sent' = sent /\ peer' = peer
        /\ credit'.tx = AddSaturating(credit.tx, len)
    BY <1>1, <1>6 DEF Count, Counting, Types, CreditType
  <2>2. sent = credit.tx + len
    BY <1>1, <2>1 DEF TxIsSent
  <2>3. credit'.tx = sent
    BY <1>1, <1>2, <2>1, <2>2 DEF AddSaturating
  <2> QED
    BY <1>1, <1>2, <2>1, <2>3 DEF TxIsSent, SubmitFits, SendsWithinCredit, Counting
<1>7. CASE /\ ~Submit /\ ~Count
           /\ \/ pc' = pc /\ len' = len
              \/ ~Counting /\ pc' \notin {"submit", "countDirect", "countQueued"}
  <2>1. sent' = sent /\ credit'.tx = credit.tx
    BY <1>1, <1>7, SentStep, TxSame
  <2>2. TxIsSent'
    BY <1>1, <1>2, <1>7, <2>1 DEF TxIsSent, Counting
  <2>3. SubmitFits'
    BY <1>1, <1>2, <1>3, <1>7, <2>1 DEF SubmitFits
  <2> QED
    BY <1>1, <1>2, <1>3, <2>1, <2>2, <2>3 DEF SendsWithinCredit
<1> QED
  BY <1>4, <1>5, <1>6, <1>7, PcSame

\* A new connection has sent nothing.
LEMMA InitCredit == Init => IInv
<1> SUFFICES ASSUME Init PROVE IInv
  OBVIOUS
<1>1. CreditType /\ PeerType
  BY DEF Init, CreditType, PeerType
<1>2. RxqType /\ RxType
  BY DEF Init, RxqType, RxType
<1>3. LenType /\ SentType /\ WireType /\ InboundType
  BY DEF Init, LenType, SentType, WireType, InboundType
<1>4. CreditIsOld /\ TxIsSent /\ SubmitFits
  BY DEF Init, CreditIsOld, TxIsSent, SubmitFits, Counting
<1>5. sent <= MaxSent /\ SendsWithinCredit
  BY Sizes DEF Init, SendsWithinCredit
<1> QED
  BY <1>1, <1>2, <1>3, <1>4, <1>5 DEF IInv, Types

\* A connection that carries fewer bytes than a u32 counts never has more bytes
\* unread at the peer than the peer has room for, however late credit arrives and
\* however packets are queued.
THEOREM SenderKeepsToCredit ==
    ASSUME MaxSent < W
    PROVE  Spec => []SendsWithinCredit
<1>1. IInv /\ [Next]_vars => IInv'
  <2> SUFFICES ASSUME IInv, [Next]_vars PROVE IInv'
    OBVIOUS
  <2>1. Types /\ CreditIsOld
    BY DEF IInv
  <2>2. Types' /\ CreditIsOld'
    BY <2>1, TypesStep, CreditIsOldStep
  <2> QED
    BY <2>2, SendingStep DEF IInv
<1>2. IInv => SendsWithinCredit
  BY DEF IInv
<1> QED
  BY InitCredit, <1>1, <1>2, PTL DEF Spec

-------------------------------------------------------------------------------
(* The receiving half.  The bytes of a packet are, in turn, on their way,  *)
(* in the receive queue and given back as credit; a failed copy leaves     *)
(* them accounted for in the queue, and those of a packet that is half     *)
(* read are counted twice, as far as the offset.  So what the queue holds  *)
(* and what is still to come is the peer's sending less the credit given   *)
(* back, but for that offset, and every header the peer can have seen      *)
(* promised at most the credit given back.                                 *)

\* The numbers of q add up to t: f holds the sum of every prefix.
SumsTo(q, t) ==
    \E f \in [0..Len(q) -> Nat] :
        /\ f[0] = 0 /\ f[Len(q)] = t
        /\ \A i \in 1..Len(q) : f[i] = f[i - 1] + q[i]
        /\ \A i \in 0..Len(q), j \in 0..Len(q) : i <= j => f[i] <= f[j]

Lengths(q) == [i \in DOMAIN q |-> q[i].len]

\* The length of the packet being copied, or of the next to be.
InFront == IF pc = "copy" THEN len
           ELSE IF rxq.packets = <<>> THEN 0 ELSE Head(rxq.packets)

\* The queued packets, and the one being copied, are accounted for, and the
\* offset lies in the packet in front.
QueueFits ==
    /\ rxq.offset <= InFront
    /\ \E s \in Nat : /\ SumsTo(rxq.packets, s)
                      /\ s + (IF pc = "copy" THEN len ELSE 0) <= rxq.used

\* What the queue holds, was given back and is still to come, the peer has sent,
\* but for the bytes of the packet in front that were given back already.
BytesFromPeer ==
    \E t \in Nat : /\ SumsTo(Lengths(toGuest), t)
                   /\ rxq.used + credit.fwd + t <= peer.tx + rxq.offset

\* No header promises credit that was not given back.
PromisesKept ==
    /\ peer.seen <= credit.fwd /\ rx.fwd <= credit.fwd
    /\ \A i \in DOMAIN toPeer : toPeer[i].fwd <= credit.fwd
    /\ \A i \in DOMAIN queued : queued[i].fwd <= credit.fwd

PeerKeepsToCredit == peer.tx <= credit.fwd + RxBuf /\ peer.tx <= MaxReceived

\* A connection none of whose copies has failed halfway.
RInv == /\ Types /\ CreditIsOld
        /\ QueueFits /\ BytesFromPeer /\ PromisesKept /\ PeerKeepsToCredit

\* What holds of every connection: the offset a copy has left behind spoils the
\* accounts for good.
StrayInv == Types /\ CreditIsOld /\ (rxq.stray \/ RInv)

\* Sums of sequences: the empty one, one number more, and one number less.
LEMMA SumsToEmpty == SumsTo(<<>>, 0)
<1> DEFINE f == [i \in 0..0 |-> 0]
<1>1. f \in [0..Len(<<>>) -> Nat] /\ f[0] = 0 /\ f[Len(<<>>)] = 0
  OBVIOUS
<1>2. /\ \A i \in 1..Len(<<>>) : f[i] = f[i - 1] + <<>>[i]
      /\ \A i \in 0..Len(<<>>), j \in 0..Len(<<>>) : i <= j => f[i] <= f[j]
  OBVIOUS
<1> HIDE DEF f
<1> QED
  BY <1>1, <1>2 DEF SumsTo

LEMMA SumsToAppend ==
    ASSUME NEW q \in Seq(Nat), NEW t \in Nat, NEW n \in Nat, SumsTo(q, t)
    PROVE  SumsTo(Append(q, n), t + n)
<1> DEFINE r == Append(q, n)
<1>1. /\ Len(q) \in Nat /\ Len(r) = Len(q) + 1
      /\ \A i \in 1..Len(q) : r[i] = q[i]
      /\ r[Len(q) + 1] = n
  BY AppendProperties, LenProperties
<1>2. PICK f \in [0..Len(q) -> Nat] :
        /\ f[0] = 0 /\ f[Len(q)] = t
        /\ \A i \in 1..Len(q) : f[i] = f[i - 1] + q[i]
        /\ \A i \in 0..Len(q), j \in 0..Len(q) : i <= j => f[i] <= f[j]
  BY DEF SumsTo
<1>ends. f[0] = 0 /\ f[Len(q)] = t
  BY <1>2
<1>adds. \A i \in 1..Len(q) : f[i] = f[i - 1] + q[i]
  BY <1>2
<1>grows. \A i \in 0..Len(q), j \in 0..Len(q) : i <= j => f[i] <= f[j]
  BY <1>2
<1>nat. \A i \in 0..Len(q) : f[i] \in Nat
  OBVIOUS
<1> DEFINE g == [i \in 0..(Len(q) + 1) |-> IF i <= Len(q) THEN f[i] ELSE t + n]
<1> HIDE DEF r
<1>3. g \in [0..Len(r) -> Nat] /\ g[0] = 0 /\ g[Len(r)] = t + n
  BY <1>1, <1>ends, <1>nat
<1>4. ASSUME NEW i \in 1..Len(r) PROVE g[i] = g[i - 1] + r[i]
  <2>1. CASE i <= Len(q)
    <3>1. i \in 1..Len(q) /\ i - 1 \in 0..Len(q)
      BY <1>1, <2>1
    <3>2. g[i] = f[i] /\ g[i - 1] = f[i - 1]
      BY <1>1, <3>1
    <3>3. r[i] = q[i] /\ f[i] = f[i - 1] + q[i]
      BY <1>1, <1>adds, <3>1
    <3> HIDE DEF g
    <3> QED
      BY <3>2, <3>3
  <2>2. CASE i = Len(q) + 1
    <3>1. g[i] = t + n /\ g[i - 1] = f[Len(q)] /\ r[i] = n
      BY <1>1, <2>2
    <3> HIDE DEF g
    <3> QED
      BY <1>ends, <3>1
  <2> QED
    BY <1>1, <2>1, <2>2
<1>5. ASSUME NEW i \in 0..Len(r), NEW j \in 0..Len(r), i <= j PROVE g[i] <= g[j]
  <2>1. CASE j <= Len(q)
    <3>1. i \in 0..Len(q) /\ j \in 0..Len(q)
      BY <1>1, <1>5, <2>1
    <3>2. g[i] = f[i] /\ g[j] = f[j]
      BY <1>1, <3>1
    <3> HIDE DEF g
    <3> QED
      BY <1>5, <1>grows, <3>1, <3>2
  <2>2. CASE j = Len(q) + 1
    <3>1. ASSUME NEW k \in 0..Len(q) PROVE f[k] \in Nat /\ f[k] <= t
      <4>1. k <= Len(q) /\ Len(q) \in 0..Len(q)
        BY <1>1
      <4>2. f[k] <= f[Len(q)]
        BY <1>grows, <4>1
      <4> QED
        BY <1>ends, <1>nat, <4>2
    <3>2. g[j] = t + n
      BY <1>1, <2>2
    <3>3. CASE i <= Len(q)
      <4>1. i \in 0..Len(q) /\ g[i] = f[i]
        BY <1>1, <3>3
      <4> HIDE DEF g
      <4> QED
        BY <3>1, <3>2, <4>1
    <3>4. CASE i = Len(q) + 1
      <4> HIDE DEF g
      <4> QED
        BY <2>2, <3>2, <3>4
    <3> QED
      BY <1>1, <3>3, <3>4
  <2> QED
    BY <1>1, <2>1, <2>2
<1> HIDE DEF g
<1>6. SumsTo(r, t + n)
  BY <1>3, <1>4, <1>5 DEF SumsTo
<1> QED
  BY <1>6 DEF r

\* A number put in front is added: the sum of <<n>> \o q.
LEMMA SumsToCons ==
    ASSUME NEW q \in Seq(Nat), NEW t \in Nat, NEW n \in Nat, SumsTo(q, t)
    PROVE  SumsTo(<<n>> \o q, n + t)
<1> DEFINE r == <<n>> \o q
<1>1. /\ Len(q) \in Nat /\ Len(r) = Len(q) + 1 /\ r[1] = n
      /\ \A i \in 2..(Len(q) + 1) : r[i] = q[i - 1]
  <2>1. <<n>> \in Seq(Nat) /\ Len(<<n>>) = 1 /\ <<n>>[1] = n /\ Len(q) \in Nat
    BY LenProperties
  <2> QED
    BY <2>1, ConcatProperties
<1>2. PICK f \in [0..Len(q) -> Nat] :
        /\ f[0] = 0 /\ f[Len(q)] = t
        /\ \A i \in 1..Len(q) : f[i] = f[i - 1] + q[i]
        /\ \A i \in 0..Len(q), j \in 0..Len(q) : i <= j => f[i] <= f[j]
  BY DEF SumsTo
<1>ends. f[0] = 0 /\ f[Len(q)] = t
  BY <1>2
<1>adds. \A i \in 1..Len(q) : f[i] = f[i - 1] + q[i]
  BY <1>2
<1>grows. \A i \in 0..Len(q), j \in 0..Len(q) : i <= j => f[i] <= f[j]
  BY <1>2
<1>nat. \A i \in 0..Len(q) : f[i] \in Nat
  OBVIOUS
<1> DEFINE g == [i \in 0..(Len(q) + 1) |-> IF i = 0 THEN 0 ELSE n + f[i - 1]]
<1> HIDE DEF r
<1>3. g \in [0..Len(r) -> Nat] /\ g[0] = 0 /\ g[Len(r)] = n + t
  <2>1. \A i \in 0..(Len(q) + 1) : (IF i = 0 THEN 0 ELSE n + f[i - 1]) \in Nat
    <3>1. ASSUME NEW i \in 0..(Len(q) + 1), i # 0
          PROVE  n + f[i - 1] \in Nat
      <4>1. i - 1 \in 0..Len(q)
        BY <1>1, <3>1
      <4>2. f[i - 1] \in Nat
        BY <1>nat, <4>1
      <4> QED
        BY <4>2
    <3> QED
      BY <3>1
  <2>2. (Len(q) + 1) - 1 = Len(q) /\ Len(q) + 1 # 0
    BY <1>1
  <2> QED
    BY <1>1, <1>ends, <2>1, <2>2
<1>4. ASSUME NEW i \in 1..Len(r) PROVE g[i] = g[i - 1] + r[i]
  <2>1. CASE i = 1
    <3>1. g[1] = n + f[0] /\ g[0] = 0 /\ r[1] = n
      BY <1>1
    <3> HIDE DEF g
    <3> QED
      BY <1>ends, <2>1, <3>1
  <2>2. CASE i >= 2
    <3>1. PICK k \in 1..Len(q) : i = k + 1
      <4>1. i - 1 \in 1..Len(q) /\ i = (i - 1) + 1
        BY <1>1, <2>2
      <4> QED
        BY <4>1
    <3>2. k \in Nat /\ k - 1 \in 0..Len(q) /\ k + 1 \in 2..(Len(q) + 1)
          /\ (k + 1) - 1 = k
      BY <1>1
    <3>3. r[k + 1] = q[k]
      BY <1>1, <3>2
    <3>4. g[k + 1] = n + f[k] /\ g[k] = n + f[k - 1]
      BY <1>1, <3>2
    <3>5. f[k] = f[k - 1] + q[k] /\ f[k - 1] \in Nat /\ q[k] \in Nat
      BY <1>adds, <1>nat, <3>2, ElementOfSeq
    <3> HIDE DEF g
    <3> QED
      BY <3>1, <3>2, <3>3, <3>4, <3>5
  <2> QED
    BY <1>1, <2>1, <2>2
<1>5. ASSUME NEW i \in 0..Len(r), NEW j \in 0..Len(r), i <= j PROVE g[i] <= g[j]
  <2>1. CASE i = 0
    <3>1. g[j] \in Nat /\ g[0] = 0
      BY <1>3, <1>5
    <3> HIDE DEF g
    <3> QED
      BY <2>1, <3>1
  <2>2. CASE i >= 1
    <3>1. i - 1 \in 0..Len(q) /\ j - 1 \in 0..Len(q) /\ i - 1 <= j - 1
      BY <1>1, <1>5, <2>2
    <3>2. f[i - 1] <= f[j - 1] /\ f[i - 1] \in Nat /\ f[j - 1] \in Nat
      BY <1>grows, <1>nat, <3>1
    <3>3. g[i] = n + f[i - 1] /\ g[j] = n + f[j - 1]
      BY <1>1, <1>5, <2>2
    <3> HIDE DEF g
    <3> QED
      BY <3>2, <3>3
  <2> QED
    BY <1>1, <2>1, <2>2
<1> HIDE DEF g
<1>6. SumsTo(r, n + t)
  BY <1>3, <1>4, <1>5 DEF SumsTo
<1> QED
  BY <1>6 DEF r

LEMMA SumsToTail ==
    ASSUME NEW q \in Seq(Nat), q # <<>>, NEW t \in Nat, SumsTo(q, t)
    PROVE  Head(q) \in Nat /\ Head(q) <= t /\ SumsTo(Tail(q), t - Head(q))
<1> DEFINE r == Tail(q)
<1>1. /\ Len(q) \in Nat /\ Len(q) >= 1 /\ Len(r) = Len(q) - 1
      /\ \A i \in 1..(Len(q) - 1) : r[i] = q[i + 1]
      /\ Head(q) = q[1] /\ Head(q) \in Nat
  BY HeadTailProperties, LenProperties, EmptySeq
<1>2. PICK f \in [0..Len(q) -> Nat] :
        /\ f[0] = 0 /\ f[Len(q)] = t
        /\ \A i \in 1..Len(q) : f[i] = f[i - 1] + q[i]
        /\ \A i \in 0..Len(q), j \in 0..Len(q) : i <= j => f[i] <= f[j]
  BY DEF SumsTo
<1>ends. f[0] = 0 /\ f[Len(q)] = t
  BY <1>2
<1>adds. \A i \in 1..Len(q) : f[i] = f[i - 1] + q[i]
  BY <1>2
<1>grows. \A i \in 0..Len(q), j \in 0..Len(q) : i <= j => f[i] <= f[j]
  BY <1>2
<1>nat. \A i \in 0..Len(q) : f[i] \in Nat
  OBVIOUS
<1>3. f[1] = Head(q) /\ f[1] <= t
  <2>1. 1 \in 1..Len(q) /\ 1 \in 0..Len(q) /\ Len(q) \in 0..Len(q) /\ 1 <= Len(q)
    BY <1>1
  <2>2. f[1] = f[0] + q[1] /\ f[1] <= f[Len(q)]
    BY <1>adds, <1>grows, <2>1
  <2> QED
    BY <1>1, <1>ends, <2>2
<1> DEFINE g == [i \in 0..(Len(q) - 1) |-> f[i + 1] - f[1]]
<1> HIDE DEF r, g
<1>4. ASSUME NEW i \in 0..(Len(q) - 1)
      PROVE  f[i + 1] \in Nat /\ f[1] \in Nat /\ f[1] <= f[i + 1]
  <2>1. i + 1 \in 0..Len(q) /\ 1 \in 0..Len(q) /\ 1 <= i + 1
    BY <1>1
  <2> QED
    BY <1>grows, <1>nat, <2>1
<1> USE DEF g
<1>5. g \in [0..Len(r) -> Nat]
  <2>1. \A i \in 0..(Len(q) - 1) : f[i + 1] - f[1] \in Nat
    BY <1>4
  <2> QED
    BY <1>1, <2>1
<1>6. g[0] = 0 /\ g[Len(r)] = t - Head(q)
  <2>1. 0 \in 0..(Len(q) - 1) /\ Len(q) - 1 \in 0..(Len(q) - 1)
        /\ 0 + 1 = 1 /\ (Len(q) - 1) + 1 = Len(q)
    BY <1>1
  <2>2. g[0] = f[1] - f[1] /\ g[Len(q) - 1] = f[Len(q)] - f[1]
    BY <2>1
  <2> HIDE DEF g
  <2> QED
    BY <1>1, <1>3, <1>4, <1>ends, <2>1, <2>2
<1>7. ASSUME NEW i \in 1..Len(r) PROVE g[i] = g[i - 1] + r[i]
  <2>1. f[i + 1] = f[i] + q[i + 1]
    <3>1. i + 1 \in 1..Len(q) /\ (i + 1) - 1 = i
      BY <1>1
    <3>2. f[i + 1] = f[(i + 1) - 1] + q[i + 1]
      BY <1>adds, <3>1
    <3> QED
      BY <3>1, <3>2
  <2>2. g[i] = f[i + 1] - f[1] /\ g[i - 1] = f[i] - f[1]
    BY <1>1
  <2>3. q[i + 1] \in Nat /\ f[i] \in Nat /\ f[1] \in Nat
    <3>1. i + 1 \in 1..Len(q) /\ i \in 0..Len(q) /\ 1 \in 0..Len(q)
      BY <1>1
    <3> QED
      BY <3>1, ElementOfSeq
  <2> HIDE DEF g
  <2> QED
    BY <1>1, <2>1, <2>2, <2>3
<1>8. ASSUME NEW i \in 0..Len(r), NEW j \in 0..Len(r), i <= j PROVE g[i] <= g[j]
  <2>1. f[i + 1] <= f[j + 1]
    <3>1. i + 1 \in 0..Len(q) /\ j + 1 \in 0..Len(q) /\ i + 1 <= j + 1
      BY <1>1, <1>8
    <3> QED
      BY <1>grows, <3>1
  <2> QED
    BY <1>1, <1>4, <2>1
<1> HIDE DEF g
<1>9. SumsTo(r, t - Head(q))
  BY <1>5, <1>6, <1>7, <1>8 DEF SumsTo
<1> QED
  BY <1>1, <1>3, <1>9 DEF r

\* The lengths of the packets to the guest.
LEMMA LengthsAppend ==
    ASSUME NEW q \in Seq(PacketSet), NEW p \in PacketSet
    PROVE  /\ Lengths(q) \in Seq(Nat) /\ p.len \in Nat
           /\ Lengths(Append(q, p)) = Append(Lengths(q), p.len)
<1>1. \A x \in PacketSet : x.len \in Nat
  BY DEF PacketSet
<1>2. \A i \in DOMAIN q : q[i] \in PacketSet
  OBVIOUS
<1> QED
  BY <1>1, <1>2 DEF Lengths

LEMMA LengthsTail ==
    ASSUME NEW q \in Seq(PacketSet), q # <<>>
    PROVE  /\ Lengths(q) \in Seq(Nat) /\ Lengths(q) # <<>>
           /\ Head(Lengths(q)) = Head(q).len
           /\ Lengths(Tail(q)) = Tail(Lengths(q))
<1>1. \A x \in PacketSet : x.len \in Nat
  BY DEF PacketSet
<1>2. \A i \in DOMAIN q : q[i] \in PacketSet
  OBVIOUS
<1> QED
  BY <1>1, <1>2 DEF Lengths

-------------------------------------------------------------------------------
(* The steps of the receiving half.                                        *)

LEMMA Received ==
    ASSUME Types
    PROVE  /\ credit.fwd \in Nat /\ rxq.used \in Nat /\ rxq.packets \in Seq(Nat)
           /\ rxq.offset \in Nat /\ len \in Nat /\ peer.tx \in Nat /\ peer.seen \in Nat /\ rx.fwd \in Nat
           /\ toGuest \in Seq(PacketSet)
           /\ RxBuf \in Nat /\ MaxReceived \in Nat /\ W \in Nat \ {0}
<1>1. peer.tx \in Nat /\ peer.seen \in Nat
  BY DEF Types, PeerType
<1>2. rx.fwd \in Nat /\ toGuest \in Seq(PacketSet)
  BY DEF Types, RxType, InboundType
<1> QED
  BY <1>1, <1>2, Fields, CreditAssumption

\* The offset is part of what the queue accounts for.
LEMMA OffsetFits ==
    ASSUME RInv
    PROVE  rxq.offset <= rxq.used /\ (pc = "copy" => rxq.offset <= len /\ len <= rxq.used)
<1>1. /\ rxq.offset \in Nat /\ rxq.used \in Nat /\ len \in Nat /\ rxq.packets \in Seq(Nat)
  BY Received DEF RInv
<1>2. PICK s \in Nat : /\ SumsTo(rxq.packets, s)
                       /\ s + (IF pc = "copy" THEN len ELSE 0) <= rxq.used
  BY DEF RInv, QueueFits
<1>3. rxq.offset <= InFront
  BY DEF RInv, QueueFits
<1>4. CASE pc = "copy"
  BY <1>1, <1>2, <1>3, <1>4 DEF InFront
<1>5. CASE pc # "copy" /\ rxq.packets = <<>>
  BY <1>1, <1>3, <1>5 DEF InFront
<1>6. CASE pc # "copy" /\ rxq.packets # <<>>
  <2>1. Head(rxq.packets) \in Nat /\ Head(rxq.packets) <= s
    BY <1>1, <1>2, <1>6, SumsToTail
  <2>2. rxq.offset <= Head(rxq.packets)
    BY <1>3, <1>6 DEF InFront
  <2> QED
    BY <1>1, <1>2, <1>6, <2>1, <2>2
<1> QED
  BY <1>4, <1>5, <1>6

\* The bytes copied are given back, and no counter saturates; the queue stops
\* accounting for a packet with its last byte.
LEMMA CopyPart ==
    ASSUME MaxReceived < W, RInv, Copy
    PROVE  \E n \in Nat :
             /\ credit' = [credit EXCEPT !.fwd = credit.fwd + n]
             /\ \/ /\ rxq.offset + n < len
                   /\ rxq' = [rxq EXCEPT !.packets = <<len>> \o @, !.offset = @ + n]
                \/ /\ rxq.offset + n = len
                   /\ rxq' = [rxq EXCEPT !.used = rxq.used - len, !.offset = 0]
<1>1. /\ Types /\ rxq.offset \in Nat /\ len \in Nat /\ rxq.used \in Nat
      /\ credit.fwd \in Nat /\ peer.tx \in Nat /\ MaxReceived \in Nat /\ W \in Nat
  BY Received DEF RInv
<1>2. rxq.offset <= len /\ len <= rxq.used
  BY OffsetFits DEF Copy
<1> DEFINE S == IF PartialReads /\ rxq.offset < len
                THEN 1..(len - rxq.offset) ELSE {Monus(len, rxq.offset)}
<1>3. PICK n \in S : /\ credit' = [credit EXCEPT !.fwd = AddSaturating(@, n)]
                     /\ rxq' = AfterRead(n)
  BY DEF Copy
<1>4. Monus(len, rxq.offset) = len - rxq.offset
  BY <1>1, <1>2 DEF Monus
<1>5. n \in Nat /\ rxq.offset + n <= len
  BY <1>1, <1>2, <1>3, <1>4
<1> HIDE DEF S
<1>6. credit.fwd + n < W
  <2>1. PICK t \in Nat : rxq.used + credit.fwd + t <= peer.tx + rxq.offset
    BY DEF RInv, BytesFromPeer
  <2>2. peer.tx <= MaxReceived
    BY DEF RInv, PeerKeepsToCredit
  <2> QED
    BY <1>1, <1>2, <1>5, <2>1, <2>2
<1>7. credit' = [credit EXCEPT !.fwd = credit.fwd + n]
  <2>1. AddSaturating(credit.fwd, n) = credit.fwd + n
    BY <1>1, <1>5, <1>6 DEF AddSaturating
  <2> QED
    BY <1>3, <2>1
<1>8. CASE rxq.offset + n < len
  <2>1. rxq' = [rxq EXCEPT !.packets = <<len>> \o @, !.offset = @ + n]
    BY <1>3, <1>8 DEF AfterRead
  <2> QED
    BY <1>5, <1>7, <1>8, <2>1
<1>9. CASE rxq.offset + n = len
  <2>1. Monus(rxq.used, len) = rxq.used - len /\ ~(rxq.offset + n < len)
    BY <1>1, <1>2, <1>9 DEF Monus
  <2>2. rxq' = [rxq EXCEPT !.used = rxq.used - len, !.offset = 0]
    BY <1>3, <2>1 DEF AfterRead
  <2> QED
    BY <1>5, <1>7, <1>9, <2>2
<1>10. rxq.offset + n < len \/ rxq.offset + n = len
  BY <1>1, <1>5
<1> QED
  BY <1>8, <1>9, <1>10

\* Only a copy gives bytes back.
LEMMA FwdStep ==
    ASSUME MaxReceived < W, RInv, [Next]_vars
    PROVE  Copy \/ credit'.fwd = credit.fwd
<1>1. CASE RxData \/ RxUpdate \/ RxRequest
  <2>1. credit' = WithCredit(Head(toGuest))
    BY <1>1 DEF RxData, RxUpdate, RxRequest, RxTakes
  <2> QED
    BY <2>1 DEF WithCredit, RInv, Types, CreditType
<1>2. CASE Mark \/ RxMark \/ TxMark \/ MakeRequest \/ SendRequest \/ Count
  BY <1>2 DEF Mark, RxMark, TxMark, Reported, MakeRequest, SendRequest, Count, RInv, Types,
              CreditType
<1>3. \/ RxData \/ RxUpdate \/ RxRequest \/ Count \/ Copy \/ Mark \/ RxMark \/ TxMark
      \/ MakeRequest \/ SendRequest \/ UNCHANGED credit
  BY DEF Next, AppStep, RxStep, vars, TrySend, Pop, Submit, CopyFails, LosesPacket, Update, SendUpdate,
         RxReply, TxDrain, PeerSend, PeerAsk, PeerTake, PeerRead, PeerFrame
<1> QED
  BY <1>1, <1>2, <1>3

LEMMA FwdGrows ==
    ASSUME MaxReceived < W, RInv, [Next]_vars
    PROVE  credit'.fwd \in Nat /\ credit'.fwd >= credit.fwd
<1>1. credit.fwd \in Nat /\ len \in Nat
  BY Received DEF RInv
<1>2. CASE Copy
  <2>1. PICK n \in Nat : credit' = [credit EXCEPT !.fwd = credit.fwd + n]
    BY <1>2, CopyPart
  <2>2. credit'.fwd = credit.fwd + n
    BY <2>1 DEF RInv, Types, CreditType
  <2> QED
    BY <1>1, <2>2
<1> QED
  BY <1>1, <1>2, FwdStep

\* A payload within the credit exceeds the queue by no more than the offset; one
\* that is taken is accounted for, and one that is not leaves the queue alone.
LEMMA DataFits ==
    ASSUME MaxReceived < W, RInv, RxData
    PROVE  /\ toGuest # <<>> /\ toGuest' = Tail(toGuest)
           /\ rxq.used + Head(toGuest).len <= RxBuf + rxq.offset
           /\ \/ UNCHANGED rxq
              \/ rxq' = [rxq EXCEPT !.used = rxq.used + Head(toGuest).len,
                                    !.packets = Append(@, Head(toGuest).len)]
<1>1. toGuest # <<>> /\ toGuest' = Tail(toGuest)
  BY DEF RxData, RxTakes
<1>2. /\ rxq.used \in Nat /\ credit.fwd \in Nat /\ peer.tx \in Nat /\ RxBuf \in Nat
      /\ rxq.offset \in Nat /\ toGuest \in Seq(PacketSet)
  BY Received DEF RInv
<1>3. PICK t \in Nat : /\ SumsTo(Lengths(toGuest), t)
                       /\ rxq.used + credit.fwd + t <= peer.tx + rxq.offset
  BY DEF RInv, BytesFromPeer
<1>4. Head(toGuest).len \in Nat /\ Head(toGuest).len <= t
  BY <1>1, <1>2, <1>3, LengthsTail, SumsToTail
<1>5. peer.tx <= credit.fwd + RxBuf
  BY DEF RInv, PeerKeepsToCredit
<1>6. rxq.used + Head(toGuest).len <= RxBuf + rxq.offset
  <2>1. rxq.used + t <= RxBuf + rxq.offset
    <3>1. rxq.used + credit.fwd + t <= (credit.fwd + RxBuf) + rxq.offset
      BY <1>2, <1>3, <1>5
    <3> QED
      BY <1>2, <3>1
  <2> QED
    BY <1>2, <1>4, <2>1
<1> QED
  BY <1>1, <1>6 DEF RxData

\* What the receive queue accounts for.
LEMMA QueueStep ==
    ASSUME MaxReceived < W, RInv, [Next]_vars, ~rxq'.stray
    PROVE  QueueFits'
<1>1. /\ rxq.offset \in Nat /\ rxq.used \in Nat /\ rxq.packets \in Seq(Nat) /\ len \in Nat
      /\ rxq = [packets |-> rxq.packets, used |-> rxq.used, offset |-> rxq.offset,
                stray |-> rxq.stray]
  BY Received DEF RInv, Types, RxqType
<1>2. PICK s \in Nat : /\ SumsTo(rxq.packets, s)
                       /\ s + (IF pc = "copy" THEN len ELSE 0) <= rxq.used
  BY DEF RInv, QueueFits
<1>3. rxq.offset <= InFront /\ rxq.offset <= rxq.used
  BY OffsetFits DEF RInv, QueueFits
<1>4. /\ rxq'.packets \in Seq(Nat)
      /\ rxq'.packets # <<>> => Head(rxq'.packets) \in Nat
  <2>1. rxq'.packets \in Seq(Nat)
    BY TypesStep DEF RInv, Types, RxqType
  <2> QED
    BY <2>1
<1>5. CASE Copy
  <2>1. PICK n \in Nat :
             \/ /\ rxq.offset + n < len
                /\ rxq' = [rxq EXCEPT !.packets = <<len>> \o @, !.offset = @ + n]
             \/ /\ rxq.offset + n = len
                /\ rxq' = [rxq EXCEPT !.used = rxq.used - len, !.offset = 0]
    BY <1>5, CopyPart
  <2>2. pc = "copy" /\ pc' = "update" /\ len <= rxq.used
    BY <1>5, OffsetFits DEF Copy
  <2>3. CASE /\ rxq.offset + n < len
             /\ rxq' = [rxq EXCEPT !.packets = <<len>> \o @, !.offset = @ + n]
    <3>1. /\ rxq'.packets = <<len>> \o rxq.packets /\ rxq'.offset = rxq.offset + n
          /\ rxq'.used = rxq.used
      BY <1>1, <2>3
    <3>2. SumsTo(rxq'.packets, len + s)
      BY <1>1, <1>2, <3>1, SumsToCons
    <3>3. rxq'.packets # <<>> /\ Head(rxq'.packets) = len
      BY <1>1, <3>1
    <3>4. rxq'.offset <= InFront'
      <4>1. InFront' = len
        BY <2>2, <3>3 DEF InFront
      <4> QED
        BY <1>1, <2>3, <3>1, <4>1
    <3>5. /\ len + s \in Nat
          /\ (len + s) + (IF pc' = "copy" THEN len' ELSE 0) <= rxq'.used
      BY <1>1, <1>2, <2>2, <3>1
    <3> QED
      BY <3>2, <3>4, <3>5 DEF QueueFits
  <2>4. CASE rxq' = [rxq EXCEPT !.used = rxq.used - len, !.offset = 0]
    <3>1. /\ rxq'.packets = rxq.packets /\ rxq'.offset = 0
          /\ rxq'.used = rxq.used - len
      BY <1>1, <2>4
    <3>2. s + (IF pc' = "copy" THEN len' ELSE 0) <= rxq'.used
      BY <1>1, <1>2, <2>2, <3>1
    <3>3. rxq'.offset <= InFront'
      BY <1>4, <2>2, <3>1 DEF InFront
    <3> QED
      BY <1>2, <3>1, <3>2, <3>3 DEF QueueFits
  <2> QED
    BY <2>1, <2>3, <2>4
<1>6. CASE CopyFails
  <2>1. /\ pc = "copy" /\ pc' = "idle"
        /\ rxq' = [rxq EXCEPT !.stray = @ \/ rxq.offset > 0]
    BY <1>6 DEF CopyFails, LosesPacket
  <2>2. rxq'.packets = rxq.packets /\ rxq'.used = rxq.used /\ rxq'.offset = rxq.offset
    BY <1>1, <2>1
  <2>3. rxq.offset = 0
    <3>1. ~(rxq.offset > 0)
      BY <1>1, <2>1, Zenon
    <3> QED
      BY <1>1, <3>1
  <2>4. rxq'.offset <= InFront'
    BY <1>4, <2>1, <2>2, <2>3 DEF InFront
  <2>5. s + (IF pc' = "copy" THEN len' ELSE 0) <= rxq'.used
    BY <1>1, <1>2, <2>1, <2>2
  <2> QED
    BY <1>2, <2>2, <2>4, <2>5 DEF QueueFits
<1>7. CASE Pop
  <2>1. /\ pc = "idle" /\ pc' = "copy" /\ rxq.packets # <<>>
        /\ len' = Head(rxq.packets) /\ rxq' = [rxq EXCEPT !.packets = Tail(@)]
    BY <1>7 DEF Pop
  <2>2. /\ Head(rxq.packets) \in Nat /\ Head(rxq.packets) <= s
        /\ SumsTo(Tail(rxq.packets), s - Head(rxq.packets))
    BY <1>1, <1>2, <2>1, SumsToTail
  <2>3. /\ rxq'.packets = Tail(rxq.packets) /\ rxq'.offset = rxq.offset
        /\ rxq'.used = rxq.used
    BY <1>1, <2>1
  <2>4. /\ s - Head(rxq.packets) \in Nat
        /\ (s - Head(rxq.packets)) + (IF pc' = "copy" THEN len' ELSE 0) <= rxq'.used
    BY <1>1, <1>2, <2>1, <2>2, <2>3
  <2>5. rxq'.offset <= InFront'
    BY <1>3, <2>1, <2>3 DEF InFront
  <2> QED
    BY <2>2, <2>3, <2>4, <2>5 DEF QueueFits
<1>8. CASE RxData
  <2>1. /\ toGuest # <<>>
        /\ \/ UNCHANGED rxq
           \/ rxq' = [rxq EXCEPT !.used = rxq.used + Head(toGuest).len,
                                 !.packets = Append(@, Head(toGuest).len)]
    BY <1>8, DataFits
  <2>2. Head(toGuest).len \in Nat
    BY <2>1, HeadPacket DEF RInv, Types
  <2>3. SumsTo(Append(rxq.packets, Head(toGuest).len), s + Head(toGuest).len)
    BY <1>1, <1>2, <2>2, SumsToAppend
  <2>4. pc' = pc /\ len' = len
    BY <1>8 DEF RxData, appVars
  <2>5. CASE UNCHANGED rxq
    BY <1>2, <1>3, <2>4, <2>5 DEF QueueFits, InFront
  <2>6. CASE rxq' = [rxq EXCEPT !.used = rxq.used + Head(toGuest).len,
                                !.packets = Append(@, Head(toGuest).len)]
    <3>1. /\ rxq'.packets = Append(rxq.packets, Head(toGuest).len)
          /\ rxq'.offset = rxq.offset /\ rxq'.used = rxq.used + Head(toGuest).len
      BY <1>1, <2>6
    <3>2. /\ s + Head(toGuest).len \in Nat
          /\ (s + Head(toGuest).len) + (IF pc' = "copy" THEN len' ELSE 0) <= rxq'.used
      BY <1>1, <1>2, <2>2, <2>4, <3>1
    <3>3. rxq'.offset <= InFront'
      <4>1. CASE pc = "copy"
        BY <1>3, <2>4, <3>1, <4>1 DEF InFront
      <4>2. CASE pc # "copy" /\ rxq.packets = <<>>
        <5>1. rxq'.offset <= 0
          BY <1>3, <3>1, <4>2 DEF InFront
        <5> QED
          BY <1>1, <1>4, <2>4, <3>1, <4>2, <5>1 DEF InFront
      <4>3. CASE pc # "copy" /\ rxq.packets # <<>>
        <5>1. rxq'.packets # <<>> /\ Head(rxq'.packets) = Head(rxq.packets)
          BY <1>1, <2>2, <3>1, <4>3
        <5>2. rxq.offset <= Head(rxq.packets)
          BY <1>3, <4>3 DEF InFront
        <5> QED
          BY <2>4, <3>1, <4>3, <5>1, <5>2 DEF InFront
      <4> QED
        BY <4>1, <4>2, <4>3
    <3> QED
      BY <2>3, <3>1, <3>2, <3>3 DEF QueueFits
  <2> QED
    BY <2>1, <2>5, <2>6
<1>9. CASE UNCHANGED rxq /\ pc # "copy" /\ pc' # "copy"
  <2>1. InFront' = InFront
    BY <1>9 DEF InFront
  <2>2. s + (IF pc' = "copy" THEN len' ELSE 0) <= rxq'.used
    BY <1>1, <1>2, <1>9
  <2> QED
    BY <1>2, <1>3, <1>9, <2>1, <2>2 DEF QueueFits
<1>10. CASE UNCHANGED <<rxq, pc, len>>
  <2>1. InFront' = InFront
    BY <1>10 DEF InFront
  <2> QED
    BY <1>2, <1>3, <1>10, <2>1 DEF QueueFits
<1>11. \/ Copy \/ CopyFails \/ Pop \/ RxData \/ UNCHANGED <<rxq, pc, len>>
       \/ (UNCHANGED rxq /\ pc # "copy" /\ pc' # "copy")
  BY DEF Next, AppStep, RxStep, vars, TrySend, MakeRequest, SendRequest, Submit, Count,
         Mark, Update, SendUpdate, RxUpdate, RxRequest, RxReply, RxMark,
         TxDrain, TxMark, PeerSend, PeerAsk, PeerTake, PeerRead, PeerFrame, appVars
<1> QED
  BY <1>5, <1>6, <1>7, <1>8, <1>9, <1>10, <1>11

\* A header that is sent carries a promise made by now.
LEMMA PromisesStep ==
    ASSUME MaxReceived < W, RInv, [Next]_vars
    PROVE  PromisesKept'
<1> DEFINE F == credit.fwd
           Kept(q) == \A i \in DOMAIN q : q[i].fwd <= F
<1>1. /\ Types /\ F \in Nat /\ credit'.fwd \in Nat /\ credit'.fwd >= F
      /\ peer.seen \in Nat /\ rx.fwd \in Nat
      /\ toPeer \in Seq(PacketSet) /\ queued \in Seq(PacketSet)
  BY FwdGrows, Received DEF RInv, Types, WireType
<1>2. peer.seen <= F /\ rx.fwd <= F /\ Kept(toPeer) /\ Kept(queued)
  BY DEF RInv, PromisesKept
<1>3. Types'
  BY TypesStep DEF RInv
<1>4. Kept(toPeer') /\ Kept(queued')
  <2>1. ASSUME NEW op \in Ops, NEW n \in Nat, NEW f \in Nat, f <= F,
               Direct(Packet(op, n, f)) \/ Queue(Packet(op, n, f))
        PROVE  Kept(toPeer') /\ Kept(queued')
    <3>1. PICK p \in PacketSet : p = Packet(op, n, f) /\ p.fwd = f
      <4>1. Packet(op, n, f) \in PacketSet /\ Packet(op, n, f).fwd = f
        BY DEF Packet, PacketSet
      <4> QED
        BY <4>1
    <3>2. \A q \in Seq(PacketSet) : Kept(q) => Kept(Append(q, p))
      <4> SUFFICES ASSUME NEW q \in Seq(PacketSet), Kept(q),
                          NEW i \in DOMAIN Append(q, p)
                   PROVE  Append(q, p)[i].fwd <= F
        OBVIOUS
      <4>1. CASE i \in DOMAIN q
        BY <4>1
      <4>2. CASE i = Len(q) + 1
        BY <2>1, <3>1, <4>2
      <4> QED
        BY <4>1, <4>2
    <3>3. /\ toPeer' = Append(toPeer, p) \/ toPeer' = toPeer
          /\ queued' = Append(queued, p) \/ queued' = queued
      BY <2>1, <3>1 DEF Direct, Queue
    <3> HIDE DEF Kept
    <3> QED
      BY <1>1, <1>2, <3>2, <3>3
  <2>2. CASE SendRequest \/ SendUpdate \/ Submit \/ RxReply
    <3>1. \/ UNCHANGED <<toPeer, queued>>
          \/ \E op \in Ops, n \in {0, len}, f \in {rx.fwd, credit.fwd} :
               Direct(Packet(op, n, f)) \/ Queue(Packet(op, n, f))
      <4>1. CASE SendRequest
        BY <4>1 DEF SendRequest, Fails, txVars, Ops
      <4>2. CASE SendUpdate
        BY <4>2 DEF SendUpdate, Fails, txVars, Ops
      <4>3. CASE Submit
        BY <4>3 DEF Submit, Ops
      <4>4. CASE RxReply
        BY <4>4 DEF RxReply, Fails, txVars, Ops
      <4> QED
        BY <2>2, <4>1, <4>2, <4>3, <4>4
    <3>2. CASE UNCHANGED <<toPeer, queued>>
      BY <1>2, <3>2
    <3>3. CASE \E op \in Ops, n \in {0, len}, f \in {rx.fwd, credit.fwd} :
                 Direct(Packet(op, n, f)) \/ Queue(Packet(op, n, f))
      <4>1. PICK op \in Ops, n \in {0, len}, f \in {rx.fwd, credit.fwd} :
                   Direct(Packet(op, n, f)) \/ Queue(Packet(op, n, f))
        BY <3>3
      <4>2. n \in Nat /\ f \in Nat /\ f <= F
        BY <1>1, <1>2, <4>1, Fields
      <4> QED
        BY <2>1, <4>1, <4>2
    <3> QED
      BY <3>1, <3>2, <3>3
  <2>3. CASE TxDrain
    <3>1. PICK n \in 1..Len(queued) :
            /\ toPeer' = toPeer \o SubSeq(queued, 1, n)
            /\ queued' = SubSeq(queued, n + 1, Len(queued))
      BY <2>3 DEF TxDrain
    <3> DEFINE a == SubSeq(queued, 1, n)
               b == SubSeq(queued, n + 1, Len(queued))
    <3>2. /\ a \in Seq(PacketSet) /\ Len(a) = n /\ \A i \in 1..n : a[i] = queued[i]
          /\ Len(queued) \in Nat /\ n \in Nat /\ DOMAIN queued = 1..Len(queued)
      BY <1>1, SubSeqProperties, LenProperties
    <3>3. /\ b \in Seq(PacketSet) /\ Len(b) = Len(queued) - n
          /\ \A i \in 1..(Len(queued) - n) : b[i] = queued[n + i]
      BY <1>1, SubSeqProperties, LenProperties
    <3> HIDE DEF a, b
    <3>4. Kept(a)
      BY <1>2, <3>2
    <3>5. Kept(b)
      <4>1. \A i \in DOMAIN b : n + i \in DOMAIN queued /\ b[i] = queued[n + i]
        BY <3>2, <3>3
      <4> QED
        BY <1>2, <4>1
    <3>6. Kept(toPeer \o a)
      <4>1. \A i \in DOMAIN (toPeer \o a) :
                \/ i \in DOMAIN toPeer /\ (toPeer \o a)[i] = toPeer[i]
                \/ i - Len(toPeer) \in DOMAIN a /\ (toPeer \o a)[i] = a[i - Len(toPeer)]
        BY <1>1, <3>2
      <4> QED
        BY <1>2, <3>4, <4>1
    <3>7. toPeer' = toPeer \o a /\ queued' = b
      BY <3>1 DEF a, b
    <3> HIDE DEF Kept
    <3> QED
      BY <3>5, <3>6, <3>7, Zenon
  <2>4. CASE PeerTake
    <3>1. toPeer # <<>> /\ toPeer' = Tail(toPeer) /\ queued' = queued
      BY <2>4 DEF PeerTake, PeerFrame
    <3>2. \A i \in DOMAIN Tail(toPeer) :
             i + 1 \in DOMAIN toPeer /\ Tail(toPeer)[i] = toPeer[i + 1]
      BY <1>1, <3>1
    <3>3. Kept(Tail(toPeer))
      BY <1>2, <3>2
    <3> HIDE DEF Kept
    <3> QED
      BY <1>2, <3>1, <3>3, Zenon
  <2>5. CASE UNCHANGED <<toPeer, queued>>
    BY <1>2, <2>5
  <2>6. \/ SendRequest \/ SendUpdate \/ Submit \/ RxReply \/ TxDrain \/ PeerTake
        \/ UNCHANGED <<toPeer, queued>>
    BY DEF Next, AppStep, RxStep, vars, TrySend, MakeRequest, Count, Mark, Pop, Copy,
           CopyFails, LosesPacket, Update, RxData, RxUpdate, RxRequest, RxMark, TxMark, PeerSend,
           PeerAsk, PeerRead, PeerFrame, txVars
  <2> QED
    BY <2>2, <2>3, <2>4, <2>5, <2>6
<1>5. rx'.fwd <= F
  <2>1. \/ UNCHANGED rx
        \/ rx' = [at |-> "reply", fwd |-> credit.fwd]
        \/ rx' = [rx EXCEPT !.at = "mark"] \/ rx' = [rx EXCEPT !.at = "idle"]
    BY DEF Next, AppStep, RxStep, vars, TrySend, MakeRequest, SendRequest, Submit, Count,
           Mark, Pop, Copy, CopyFails, LosesPacket, Update, SendUpdate, RxData, RxUpdate, RxRequest,
           RxReply, RxMark, TxDrain, TxMark, PeerSend, PeerAsk, PeerTake, PeerRead, PeerFrame
  <2>2. \/ rx'.fwd = rx.fwd \/ rx'.fwd = credit.fwd
    BY <1>1, <2>1 DEF Types, RxType
  <2> QED
    BY <1>1, <1>2, <2>2
<1>6. peer'.seen <= F
  <2>1. CASE PeerTake
    <3>1. Head(toPeer).fwd <= F
      BY <1>1, <1>2, <2>1 DEF PeerTake
    <3>2. peer'.seen = Head(toPeer).fwd
      BY <1>1, <2>1 DEF PeerTake, Types, PeerType
    <3> QED
      BY <3>1, <3>2
  <2>2. CASE PeerRead \/ PeerAsk \/ (\E n \in Lens : PeerSend(n))
    <3>1. peer'.seen = peer.seen
      BY <1>1, <2>2 DEF PeerRead, PeerAsk, PeerSend, Types, PeerType
    <3> QED
      BY <1>2, <3>1
  <2>3. PeerTake \/ PeerRead \/ PeerAsk \/ (\E n \in Lens : PeerSend(n)) \/ UNCHANGED peer
    BY DEF Next, AppStep, RxStep, vars, TrySend, MakeRequest, SendRequest, Submit, Count,
           Mark, Pop, Copy, CopyFails, LosesPacket, Update, SendUpdate, RxData, RxUpdate, RxRequest,
           RxReply, RxMark, TxDrain, TxMark
  <2> QED
    BY <1>2, <2>1, <2>2, <2>3
<1>7. \A q \in Seq(PacketSet), i \in Nat : i \in DOMAIN q => q[i].fwd \in Nat
  <2>1. \A p \in PacketSet : p.fwd \in Nat
    BY DEF PacketSet
  <2> QED
    BY <2>1
<1>8. /\ \A i \in DOMAIN toPeer' : toPeer'[i].fwd \in Nat
      /\ \A i \in DOMAIN queued' : queued'[i].fwd \in Nat
  BY <1>3, <1>7 DEF Types, WireType
<1>9. rx'.fwd \in Nat /\ peer'.seen \in Nat
  BY <1>3 DEF Types, RxType, PeerType
<1> QED
  BY <1>1, <1>4, <1>5, <1>6, <1>8, <1>9 DEF PromisesKept

\* A difference of two counters below W does not wrap.
LEMMA NoWrap ==
    ASSUME NEW a \in Nat, NEW b \in Nat, b <= a, a < W
    PROVE  SubWrapping(a, b) = a - b
<1>1. W \in Nat \ {0} /\ b < W
  BY CreditAssumption
<1>2. b % W = b
  BY <1>1
<1>3. a + W - b = (a - b) + W /\ a - b \in 0..(W - 1)
  BY <1>1
<1>4. \A d \in 0..(W - 1) : (d + W) % W = d
  <2> SUFFICES ASSUME NEW d \in 0..(W - 1) PROVE (d + W) % W = d
    OBVIOUS
  <2> DEFINE q == (d + W) \div W
             m == (d + W) % W
  <2>1. q \in Int /\ m \in 0..(W - 1) /\ d + W = W * q + m
    BY <1>1
  <2> HIDE DEF q, m
  <2>2. q = 1
    <3>1. ASSUME q <= 0 PROVE FALSE
      <4>1. W * q <= 0
        BY <1>1, <2>1, <3>1
      <4> QED
        BY <1>1, <2>1, <4>1
    <3>2. ASSUME q >= 2 PROVE FALSE
      <4>1. W * q >= W * 2
        BY <1>1, <2>1, <3>2
      <4> QED
        BY <1>1, <2>1, <4>1
    <3> QED
      BY <2>1, <3>1, <3>2
  <2> QED
    BY <1>1, <2>1, <2>2 DEF m
<1> QED
  BY <1>2, <1>3, <1>4 DEF SubWrapping

\* The peer sends no more than the last header it saw left room for, and every
\* header it can have seen promised no more than has been given back.
LEMMA PeerSendStays ==
    ASSUME MaxReceived < W, RInv, NEW n \in Lens, PeerSend(n)
    PROVE  /\ peer'.tx = peer.tx + n /\ n \in Nat
           /\ peer.tx + n <= credit.fwd + RxBuf
           /\ peer.tx + n <= MaxReceived
<1>1. /\ Types /\ peer.tx \in Nat /\ peer.seen \in Nat /\ credit.fwd \in Nat
      /\ rxq.used \in Nat /\ RxBuf \in Nat /\ MaxReceived \in Nat /\ W \in Nat
      /\ n \in Nat /\ n > 0
  BY Received, CreditAssumption DEF RInv
<1>2. peer.seen <= credit.fwd /\ credit.fwd <= peer.tx /\ peer.tx <= MaxReceived
  <2>1. PICK t \in Nat : rxq.used + credit.fwd + t <= peer.tx + rxq.offset
    BY DEF RInv, BytesFromPeer
  <2>3. rxq.offset \in Nat /\ rxq.offset <= rxq.used
    BY Received, OffsetFits DEF RInv
  <2>2. peer.seen <= credit.fwd /\ peer.tx <= MaxReceived
    BY DEF RInv, PromisesKept, PeerKeepsToCredit
  <2> QED
    BY <1>1, <2>1, <2>2, <2>3
<1>3. SubWrapping(peer.tx, peer.seen) = peer.tx - peer.seen
  BY <1>1, <1>2, NoWrap
<1>4. n <= Monus(RxBuf, peer.tx - peer.seen)
  BY <1>3 DEF PeerSend, PeerRoom
<1>5. peer.tx + n <= credit.fwd + RxBuf
  BY <1>1, <1>2, <1>4 DEF Monus
<1>6. peer'.tx = peer.tx + n /\ peer.tx + n <= MaxReceived
  BY <1>1 DEF PeerSend, Types, PeerType
<1> QED
  BY <1>1, <1>5, <1>6

\* The peer has sent what it may, and what it sent is accounted for.
LEMMA PeerTxStep ==
    ASSUME [Next]_vars, Types
    PROVE  (\E n \in Lens : PeerSend(n)) \/ peer'.tx = peer.tx
<1>1. CASE PeerTake \/ PeerRead \/ PeerAsk
  BY <1>1 DEF PeerTake, PeerRead, PeerAsk, Types, PeerType
<1>2. PeerTake \/ PeerRead \/ PeerAsk \/ (\E n \in Lens : PeerSend(n)) \/ UNCHANGED peer
  BY DEF Next, AppStep, RxStep, vars, TrySend, MakeRequest, SendRequest, Submit, Count,
         Mark, Pop, Copy, CopyFails, LosesPacket, Update, SendUpdate, RxData, RxUpdate, RxRequest,
         RxReply, RxMark, TxDrain, TxMark
<1> QED
  BY <1>1, <1>2

LEMMA KeepsStep ==
    ASSUME MaxReceived < W, RInv, [Next]_vars
    PROVE  PeerKeepsToCredit'
<1>1. /\ Types /\ peer.tx \in Nat /\ credit.fwd \in Nat /\ RxBuf \in Nat
      /\ credit'.fwd \in Nat /\ credit'.fwd >= credit.fwd
  BY Received, FwdGrows DEF RInv
<1>2. peer.tx <= credit.fwd + RxBuf /\ peer.tx <= MaxReceived
  BY DEF RInv, PeerKeepsToCredit
<1>3. peer'.tx \in Nat /\ peer'.tx <= credit.fwd + RxBuf /\ peer'.tx <= MaxReceived
  BY <1>1, <1>2, PeerTxStep, PeerSendStays
<1> QED
  BY <1>1, <1>3 DEF PeerKeepsToCredit

\* A packet the peer appends adds its length to what is still to come.
LEMMA FromPeerAdds ==
    ASSUME Types, NEW op \in Ops, NEW n \in Nat, FromPeer(op, n),
           NEW t \in Nat, SumsTo(Lengths(toGuest), t)
    PROVE  SumsTo(Lengths(toGuest'), t + n)
<1>1. PICK p \in PacketSet : p = Packet(op, n, peer.read % W) /\ p.len = n
  <2>1. peer.read % W \in Nat
    BY ModBounds, Sizes, Fields
  <2>2. /\ Packet(op, n, peer.read % W) \in PacketSet
        /\ Packet(op, n, peer.read % W).len = n
    BY <2>1 DEF Packet, PacketSet
  <2> QED
    BY <2>2
<1>2. toGuest' = Append(toGuest, p) /\ toGuest \in Seq(PacketSet)
  BY <1>1 DEF FromPeer, Types, InboundType
<1>3. Lengths(toGuest) \in Seq(Nat) /\ Lengths(toGuest') = Append(Lengths(toGuest), n)
  BY <1>1, <1>2, LengthsAppend
<1>4. SumsTo(Append(Lengths(toGuest), n), t + n)
  BY <1>3, SumsToAppend
<1> QED
  BY <1>3, <1>4, Zenon

\* No byte the peer has sent is accounted for twice, but as far as the offset.
LEMMA BytesStep ==
    ASSUME MaxReceived < W, RInv, [Next]_vars
    PROVE  BytesFromPeer'
<1>1. /\ Types /\ rxq.used \in Nat /\ credit.fwd \in Nat /\ peer.tx \in Nat /\ len \in Nat
      /\ rxq = [packets |-> rxq.packets, used |-> rxq.used, offset |-> rxq.offset,
                stray |-> rxq.stray]
      /\ toGuest \in Seq(PacketSet) /\ rxq.offset \in Nat
  BY Received DEF RInv, Types, RxqType
<1>2. PICK t \in Nat : /\ SumsTo(Lengths(toGuest), t)
                       /\ rxq.used + credit.fwd + t <= peer.tx + rxq.offset
  BY DEF RInv, BytesFromPeer
<1> DEFINE Before == rxq.used + credit.fwd + t <= peer.tx + rxq.offset
           Counters == /\ rxq.used \in Nat /\ credit.fwd \in Nat /\ peer.tx \in Nat
                       /\ rxq.offset \in Nat /\ len \in Nat
<1>0. Counters /\ Before
  BY <1>1, <1>2
<1>3. CASE Copy
  <2>1. PICK n \in Nat :
             /\ credit' = [credit EXCEPT !.fwd = credit.fwd + n]
             /\ \/ /\ rxq.offset + n < len
                   /\ rxq' = [rxq EXCEPT !.packets = <<len>> \o @, !.offset = @ + n]
                \/ /\ rxq.offset + n = len
                   /\ rxq' = [rxq EXCEPT !.used = rxq.used - len, !.offset = 0]
    BY <1>3, CopyPart
  <2>2. credit'.fwd = credit.fwd + n /\ len <= rxq.used
    BY <1>1, <1>3, <2>1, OffsetFits DEF Types, CreditType, Copy
  <2>3. toGuest' = toGuest /\ peer' = peer
    BY <1>3 DEF Copy
  <2>4. \/ rxq'.used = rxq.used /\ rxq'.offset = rxq.offset + n
        \/ rxq.offset + n = len /\ rxq'.used = rxq.used - len /\ rxq'.offset = 0
    BY <1>1, <2>1
  <2>5. rxq'.used + credit'.fwd + t <= peer'.tx + rxq'.offset
    <3>1. peer'.tx = peer.tx
      BY <2>3
    <3>2. CASE rxq'.used = rxq.used /\ rxq'.offset = rxq.offset + n
      BY <1>0, <2>2, <3>1, <3>2
    <3>3. CASE rxq.offset + n = len /\ rxq'.used = rxq.used - len /\ rxq'.offset = 0
      BY <1>0, <2>2, <3>1, <3>3
    <3> QED
      BY <2>4, <3>2, <3>3
  <2> QED
    BY <1>2, <2>3, <2>5 DEF BytesFromPeer
<1>4. CASE RxData
  <2>1. /\ toGuest # <<>> /\ toGuest' = Tail(toGuest)
        /\ \/ UNCHANGED rxq
           \/ rxq' = [rxq EXCEPT !.used = rxq.used + Head(toGuest).len,
                                 !.packets = Append(@, Head(toGuest).len)]
    BY <1>4, DataFits
  <2>2. /\ rxq'.used = rxq.used \/ rxq'.used = rxq.used + Head(toGuest).len
        /\ rxq'.offset = rxq.offset
    BY <1>1, <2>1
  <2>3. credit'.fwd = credit.fwd
    <3>1. credit' = WithCredit(Head(toGuest))
      BY <1>4 DEF RxData, RxTakes
    <3> QED
      BY <1>1, <3>1 DEF WithCredit, Types, CreditType
  <2>4. /\ Head(toGuest).len \in Nat /\ Head(toGuest).len <= t
        /\ SumsTo(Tail(Lengths(toGuest)), t - Head(toGuest).len)
    BY <1>1, <1>2, <2>1, LengthsTail, SumsToTail
  <2>5. SumsTo(Lengths(toGuest'), t - Head(toGuest).len)
    <3>1. Lengths(toGuest') = Tail(Lengths(toGuest))
      BY <1>1, <2>1, LengthsTail
    <3> QED
      BY <2>4, <3>1, Zenon
  <2>6. peer' = peer
    BY <1>4 DEF RxData
  <2>7. /\ t - Head(toGuest).len \in Nat
        /\ rxq'.used + credit'.fwd + (t - Head(toGuest).len) <= peer'.tx + rxq'.offset
    <3>1. t - Head(toGuest).len \in Nat
      BY <2>4
    <3>2. rxq'.used <= rxq.used + Head(toGuest).len /\ rxq'.used \in Nat
      BY <1>0, <2>2, <2>4
    <3>3. rxq'.used + credit.fwd + (t - Head(toGuest).len) <= peer.tx + rxq.offset
      BY <1>0, <2>4, <3>1, <3>2
    <3> QED
      BY <2>2, <2>3, <2>6, <3>1, <3>3
  <2> QED
    BY <2>5, <2>7 DEF BytesFromPeer
<1>5. CASE RxUpdate \/ RxRequest
  <2>1. toGuest # <<>> /\ toGuest' = Tail(toGuest) /\ peer' = peer /\ rxq' = rxq
    BY <1>5 DEF RxUpdate, RxRequest, RxTakes
  <2>2. credit'.fwd = credit.fwd
    <3>1. credit' = WithCredit(Head(toGuest))
      BY <1>5 DEF RxUpdate, RxRequest, RxTakes
    <3> QED
      BY <1>1, <3>1 DEF WithCredit, Types, CreditType
  <2>3. /\ Head(toGuest).len \in Nat /\ Head(toGuest).len <= t
        /\ SumsTo(Tail(Lengths(toGuest)), t - Head(toGuest).len)
    BY <1>1, <1>2, <2>1, LengthsTail, SumsToTail
  <2>4. SumsTo(Lengths(toGuest'), t - Head(toGuest).len)
    <3>1. Lengths(toGuest') = Tail(Lengths(toGuest))
      BY <1>1, <2>1, LengthsTail
    <3> QED
      BY <2>3, <3>1, Zenon
  <2>5. /\ t - Head(toGuest).len \in Nat
        /\ rxq'.used + credit'.fwd + (t - Head(toGuest).len) <= peer'.tx + rxq'.offset
    <3>1. t - Head(toGuest).len \in Nat
      BY <2>3
    <3>2. rxq.used + credit.fwd + (t - Head(toGuest).len) <= peer.tx + rxq.offset
      BY <1>0, <2>3, <3>1
    <3> QED
      BY <2>1, <2>2, <3>1, <3>2
  <2> QED
    BY <2>4, <2>5 DEF BytesFromPeer
<1>6. CASE \E n \in Lens : PeerSend(n)
  <2>1. PICK n \in Lens : PeerSend(n)
    BY <1>6
  <2>2. peer'.tx = peer.tx + n /\ n \in Nat
    BY <2>1, PeerSendStays
  <2>3. FromPeer("rw", n) /\ rxq' = rxq /\ credit' = credit
    BY <2>1 DEF PeerSend, PeerFrame
  <2>4. SumsTo(Lengths(toGuest'), t + n)
    BY <1>1, <1>2, <2>2, <2>3, FromPeerAdds DEF Ops
  <2>5. t + n \in Nat /\ rxq'.used + credit'.fwd + (t + n) <= peer'.tx + rxq'.offset
    <3>1. rxq.used + credit.fwd + (t + n) <= (peer.tx + n) + rxq.offset
      BY <1>0, <2>2
    <3> QED
      BY <2>2, <2>3, <3>1
  <2> QED
    BY <2>4, <2>5 DEF BytesFromPeer
<1>7. CASE PeerAsk \/ PeerTake
  <2>1. rxq' = rxq /\ credit' = credit /\ peer'.tx = peer.tx
    BY <1>1, <1>7 DEF PeerAsk, PeerTake, PeerFrame, Types, PeerType
  <2>2. CASE \E op \in Ops : FromPeer(op, 0)
    <3>1. SumsTo(Lengths(toGuest'), t + 0)
      BY <1>1, <1>2, <2>2, FromPeerAdds
    <3>2. t + 0 \in Nat /\ rxq'.used + credit'.fwd + (t + 0) <= peer'.tx + rxq'.offset
      BY <1>1, <1>2, <2>1
    <3> QED
      BY <3>1, <3>2 DEF BytesFromPeer
  <2>3. CASE toGuest' = toGuest
    BY <1>2, <2>1, <2>3 DEF BytesFromPeer
  <2>4. (\E op \in Ops : FromPeer(op, 0)) \/ toGuest' = toGuest
    <3>1. CASE PeerAsk
      BY <3>1 DEF PeerAsk, Ops
    <3>2. CASE PeerTake
      BY <3>2 DEF PeerTake, Ops
    <3> QED
      BY <1>7, <3>1, <3>2
  <2> QED
    BY <2>2, <2>3, <2>4
<1>8. CASE /\ ~Copy /\ rxq'.used = rxq.used /\ rxq'.offset = rxq.offset
           /\ toGuest' = toGuest /\ peer'.tx = peer.tx
  <2>1. credit'.fwd = credit.fwd
    BY <1>8, FwdStep
  <2> QED
    BY <1>2, <1>8, <2>1 DEF BytesFromPeer
<1>9. CASE Pop \/ PeerRead \/ CopyFails
  <2>1. /\ rxq'.used = rxq.used /\ rxq'.offset = rxq.offset
        /\ toGuest' = toGuest /\ peer'.tx = peer.tx /\ credit' = credit
    BY <1>1, <1>9 DEF Pop, PeerRead, PeerFrame, CopyFails, LosesPacket, Types, PeerType
  <2> QED
    BY <1>2, <2>1 DEF BytesFromPeer
<1>10. \/ Copy \/ RxData \/ RxUpdate \/ RxRequest \/ (\E n \in Lens : PeerSend(n))
       \/ PeerAsk \/ PeerTake \/ PeerRead \/ Pop \/ CopyFails \/ UNCHANGED <<rxq, toGuest, peer>>
  BY DEF Next, AppStep, RxStep, vars, TrySend, MakeRequest, SendRequest, Submit, Count,
         Mark, Update, SendUpdate, RxReply, RxMark, TxDrain, TxMark
<1> QED
  BY <1>3, <1>4, <1>5, <1>6, <1>7, <1>8, <1>9, <1>10

\* A copy that has failed halfway is not forgotten.
LEMMA StrayStays ==
    ASSUME Types, [Next]_vars, ~rxq'.stray
    PROVE  ~rxq.stray
<1>1. rxq = [packets |-> rxq.packets, used |-> rxq.used, offset |-> rxq.offset,
             stray |-> rxq.stray] /\ rxq.stray \in BOOLEAN
  BY DEF Types, RxqType
<1>2. CASE Copy
  <2>1. PICK n \in Nat : rxq' = AfterRead(n)
    BY <1>2, CopyLength
  <2>2. rxq'.stray = rxq.stray
    BY <1>1, <2>1 DEF AfterRead
  <2> QED
    BY <2>2
<1>3. CASE Pop \/ RxData \/ CopyFails
  <2>1. rxq'.stray = rxq.stray \/ rxq'.stray = (rxq.stray \/ rxq.offset > 0)
    BY <1>1, <1>3 DEF Pop, RxData, CopyFails, LosesPacket
  <2> QED
    BY <1>1, <2>1
<1>4. Copy \/ Pop \/ RxData \/ CopyFails \/ UNCHANGED rxq
  BY DEF Next, AppStep, RxStep, vars, TrySend, MakeRequest, SendRequest, Submit, Count,
         Mark, Update, SendUpdate, RxUpdate, RxRequest, RxReply, RxMark,
         TxDrain, TxMark, PeerSend, PeerAsk, PeerTake, PeerRead, PeerFrame
<1> QED
  BY <1>2, <1>3, <1>4

\* Only a payload resets the connection.
LEMMA ResetStep ==
    ASSUME MaxReceived < W, StrayInv, [Next]_vars, ~reset, reset'
    PROVE  rxq.stray \/ rxq.used + Head(toGuest).len <= RxBuf + rxq.offset
<1>1. CASE RxData
  BY <1>1, DataFits DEF StrayInv
<1>2. RxData \/ reset' = reset
  BY DEF Next, AppStep, RxStep, vars, TrySend, MakeRequest, SendRequest, Submit, Count,
         Mark, Pop, Copy, CopyFails, LosesPacket, Update, SendUpdate, RxUpdate, RxRequest,
         RxReply, RxMark, TxDrain, TxMark, PeerSend, PeerAsk, PeerTake, PeerRead, PeerFrame
<1> QED
  BY <1>1, <1>2

\* A peer that keeps to the credit it was given is reset for overflowing the
\* receive queue only by a payload that exceeds it by no more than the bytes
\* already read of the packet in front, whatever the reader's buffers, the copies
\* that fail before their first byte, the headers overtaken and the updates lost,
\* on a connection that carries fewer bytes than a u32 counts.  So a reader that
\* takes whole packets never lets such a peer be reset.
THEOREM PeerIsResetOnlyMidPacket ==
    ASSUME MaxReceived < W
    PROVE  Spec => ResetOnlyMidPacket
<1>1. Init => StrayInv
  <2> SUFFICES ASSUME Init PROVE RInv
    BY DEF RInv, StrayInv
  <2>1. Types /\ CreditIsOld
    BY InitCredit DEF IInv
  <2>2. QueueFits
    BY SumsToEmpty DEF Init, QueueFits, InFront
  <2>3. BytesFromPeer
    <3>1. Lengths(<<>>) = <<>>
      BY DEF Lengths
    <3>2. SumsTo(Lengths(toGuest), 0)
      BY <3>1, SumsToEmpty DEF Init
    <3>3. rxq.used + credit.fwd + 0 <= peer.tx + rxq.offset
      BY DEF Init
    <3> QED
      BY <3>2, <3>3 DEF BytesFromPeer
  <2>4. PromisesKept /\ PeerKeepsToCredit
    BY CreditAssumption DEF Init, PromisesKept, PeerKeepsToCredit
  <2> QED
    BY <2>1, <2>2, <2>3, <2>4 DEF RInv
<1>2. StrayInv /\ [Next]_vars => StrayInv'
  <2> SUFFICES ASSUME StrayInv, [Next]_vars PROVE StrayInv'
    OBVIOUS
  <2>1. Types' /\ CreditIsOld'
    BY TypesStep, CreditIsOldStep DEF StrayInv
  <2>2. ASSUME ~rxq'.stray PROVE RInv'
    <3>1. RInv
      BY <2>2, StrayStays DEF StrayInv
    <3> QED
      BY <2>1, <2>2, <3>1, QueueStep, BytesStep, PromisesStep, KeepsStep DEF RInv
  <2> QED
    BY <2>1, <2>2 DEF StrayInv
<1>3. StrayInv /\ [Next]_vars =>
         (~reset /\ reset' => rxq.stray \/ rxq.used + Head(toGuest).len <= RxBuf + rxq.offset)
  BY ResetStep
<1> QED
  BY <1>1, <1>2, <1>3, PTL DEF Spec, ResetOnlyMidPacket
=============================================================================
