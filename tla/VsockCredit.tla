----------------------------- MODULE VsockCredit -----------------------------
(***************************************************************************)
(* Credit-based flow control of one established connection: CreditState    *)
(* and RxQueue of connection.rs, used by the application's thread          *)
(* (Connection::try_send and try_recv, one at a time under the socket's    *)
(* write lock), the RX taskless (process_rw_packet, process_credit_update, *)
(* process_credit_request) and the TX taskless that runs the completions   *)
(* of packets queued in software.  The peer keeps to the protocol.         *)
(*                                                                         *)
(* One action is one critical section of the connection's state lock or of *)
(* the TX lock, or one step between two of them.                           *)
(***************************************************************************)
EXTENDS Naturals, Sequences

CONSTANTS
    RxBuf,           \* DEFAULT_RX_BUF_SIZE, the buf_alloc of every header
    Threshold,       \* CREDIT_UPDATE_THRESHOLD
    PeerBuf,         \* the peer's buf_alloc
    W,               \* number of values of a u32 counter
    Lens,            \* payload lengths of the application and of the peer
    PartialReads,    \* whether a recv() buffer may be shorter than a packet
    CopyCanFail,     \* whether copying a packet to user space may fail
    SendCanFail,     \* whether send_packet may fail (no memory for the packet)
    Congested,       \* whether packets may be queued in software pending
    PeerAsks,        \* whether the peer sends CREDIT_REQUEST
    MaxSent,         \* bound: bytes the application sends
    MaxReceived      \* bound: bytes the peer sends

ASSUME CreditAssumption ==
    /\ {RxBuf, Threshold, PeerBuf, W, MaxSent, MaxReceived} \subseteq Nat \ {0}
    /\ Lens \subseteq Nat \ {0}
    /\ {PartialReads, CopyCanFail, SendCanFail, Congested, PeerAsks} \subseteq BOOLEAN

VARIABLES
    credit,          \* ConnectionState::credit
    rxq,             \* ConnectionState::rx_queue: packet lengths, bytes, offset;
                     \* stray is an observation: a copy that failed halfway has
                     \* left its read_offset to the next packet
    reset,           \* the RX taskless has reset the connection
    pc,              \* the step the thread inside try_send or try_recv takes next
    len,             \* payload_len of the send, or the packet try_recv has popped
    writer,          \* the sending thread: "none", "trying", "waiting"
    woken,           \* the Pollee was notified since the last try
    rx,              \* the RX taskless: step, fwd_cnt of the reply it has built
    queued,          \* this connection's packets in the software queue
    marks,           \* completions the TX taskless has still to run
    toPeer, toGuest, \* packets on their way, in order
    sent,            \* bytes handed to the driver since the connection began
    peer             \* the peer's counters

appVars == <<pc, len, writer>>
txVars == <<queued, marks, toPeer>>
vars == <<credit, rxq, reset, pc, len, writer, woken, rx, queued, marks,
          toPeer, toGuest, sent, peer>>

\* u32: saturating_sub, saturating_add, wrapping_sub.
Monus(a, b) == IF a > b THEN a - b ELSE 0
AddSaturating(a, b) == IF a + b < W THEN a + b ELSE W - 1
SubWrapping(a, b) == (a + W - (b % W)) % W

\* send_credit_available: peer_buf_alloc - (tx_cnt - peer_fwd_cnt), saturating.
Available == Monus(PeerBuf, Monus(credit.tx, credit.peerFwd))

\* A connection whose handshake has carried the peer's buf_alloc.
Init ==
    /\ credit = [peerFwd |-> 0, fwd |-> 0, reported |-> 0, requested |-> FALSE, tx |-> 0]
    /\ rxq = [packets |-> <<>>, used |-> 0, offset |-> 0, stray |-> FALSE]
    /\ reset = FALSE
    /\ pc = "idle" /\ len = 0 /\ writer = "none" /\ woken = FALSE
    /\ rx = [at |-> "idle", fwd |-> 0]
    /\ queued = <<>> /\ marks = 0 /\ toPeer = <<>> /\ toGuest = <<>>
    /\ sent = 0
    /\ peer = [tx |-> 0, seen |-> 0, unread |-> 0, read |-> 0, asked |-> FALSE]

-------------------------------------------------------------------------------
(* A packet of this connection goes into the virtqueue or into the         *)
(* software queue, in both cases with the header built before.             *)

Packet(op, n, f) == [op |-> op, len |-> n, fwd |-> f]
Direct(p) == toPeer' = Append(toPeer, p) /\ UNCHANGED <<queued, marks>>
Queue(p) == Congested /\ queued' = Append(queued, p) /\ UNCHANGED <<toPeer, marks>>
Fails == SendCanFail /\ UNCHANGED txVars

\* mark_credit_reported takes the present local_fwd_cnt, not the header's.
Reported == [credit EXCEPT !.reported = credit.fwd]

-------------------------------------------------------------------------------
(* Connection::try_send, called again by block_on after each notification. *)

Wants == writer = "none" \/ (writer = "waiting" /\ woken)

\* check_send_ready, then the payload length the peer has room for.
TrySend(n) ==
    /\ pc = "idle" /\ Wants /\ sent + n <= MaxSent
    /\ woken' = FALSE
    /\ IF reset
       THEN writer' = "none" /\ UNCHANGED <<pc, len>>
       ELSE /\ len' = IF n < Available THEN n ELSE Available
            /\ pc' = IF Available = 0 THEN "request" ELSE "submit"
            /\ writer' = "trying"
    /\ UNCHANGED <<credit, rxq, reset, rx, txVars, toGuest, sent, peer>>

\* make_credit_request_header_if_needed.
MakeRequest ==
    LET needed == Available = 0 /\ ~credit.requested IN
    /\ pc = "request"
    /\ credit' = [credit EXCEPT !.requested = @ \/ needed]
    /\ pc' = IF needed THEN "sendRequest" ELSE "idle"
    /\ writer' = IF needed THEN writer ELSE "waiting"
    /\ UNCHANGED <<rxq, reset, len, woken, rx, txVars, toGuest, sent, peer>>

\* CREDIT_REQUEST; a failed one is taken back, and the caller gets EAGAIN anyway.
SendRequest ==
    /\ pc = "sendRequest"
    /\ \/ Direct(Packet("request", 0, credit.fwd)) /\ pc' = "mark" /\ UNCHANGED credit
       \/ Queue(Packet("request", 0, credit.fwd)) /\ pc' = "idle" /\ UNCHANGED credit
       \/ Fails /\ pc' = "idle" /\ credit' = [credit EXCEPT !.requested = FALSE]
    /\ writer' = "waiting"
    /\ UNCHANGED <<rxq, reset, len, woken, rx, toGuest, sent, peer>>

\* make_header, prepare_send and submit_prepared (VsockTxQueue has the steps).
Submit ==
    /\ pc = "submit"
    /\ \/ Direct(Packet("rw", len, credit.fwd)) /\ pc' = "countDirect"
       \/ Queue(Packet("rw", len, credit.fwd)) /\ pc' = "countQueued"
    /\ sent' = sent + len
    /\ UNCHANGED <<credit, rxq, reset, len, writer, woken, rx, toGuest, peer>>

\* update_tx_cnt.
CountForgettingQueued ==                     \* mutant
    /\ pc \in {"countDirect", "countQueued"}
    /\ credit' = IF pc = "countDirect"
                 THEN [credit EXCEPT !.tx = AddSaturating(@, len)] ELSE credit
    /\ pc' = IF pc = "countDirect" THEN "mark" ELSE "idle"
    /\ writer' = "none"
    /\ UNCHANGED <<rxq, reset, len, woken, rx, txVars, toGuest, sent, peer>>
Count ==
    /\ pc \in {"countDirect", "countQueued"}
    /\ credit' = [credit EXCEPT !.tx = AddSaturating(@, len)]
    /\ pc' = IF pc = "countDirect" THEN "mark" ELSE "idle"
    /\ writer' = "none"
    /\ UNCHANGED <<rxq, reset, len, woken, rx, txVars, toGuest, sent, peer>>

Mark ==
    /\ pc = "mark"
    /\ credit' = Reported
    /\ pc' = "idle"
    /\ UNCHANGED <<rxq, reset, len, writer, woken, rx, txVars, toGuest, sent, peer>>

-------------------------------------------------------------------------------
(* Connection::try_recv: the packet is popped, copied without the lock,    *)
(* and put back in front if the user's buffer was too short.               *)

Pop ==
    /\ pc = "idle" /\ rxq.packets # <<>>
    /\ len' = Head(rxq.packets)
    /\ rxq' = [rxq EXCEPT !.packets = Tail(@)]
    /\ pc' = "copy"
    /\ UNCHANGED <<credit, reset, writer, woken, rx, txVars, toGuest, sent, peer>>

\* n bytes were copied; the space of a packet is given back with its last byte.
AfterRead(n) ==
    IF rxq.offset + n < len
    THEN [rxq EXCEPT !.packets = <<len>> \o @, !.offset = @ + n]
    ELSE [rxq EXCEPT !.used = Monus(@, len), !.offset = 0]

Copy ==
    /\ pc = "copy"
    /\ \E n \in IF PartialReads /\ rxq.offset < len
                THEN 1..(len - rxq.offset) ELSE {Monus(len, rxq.offset)} :
        /\ credit' = [credit EXCEPT !.fwd = AddSaturating(@, n)]
        /\ rxq' = AfterRead(n)
    /\ pc' = "update"
    /\ UNCHANGED <<reset, len, writer, woken, rx, txVars, toGuest, sent, peer>>

\* writer.write(..)? leaves with the packet: neither used_bytes nor read_offset
\* is put right.
LosesPacket ==
    /\ pc = "copy" /\ CopyCanFail
    /\ rxq' = [rxq EXCEPT !.stray = @ \/ rxq.offset > 0]
    /\ pc' = "idle"
    /\ UNCHANGED <<reset, len, writer, woken, rx, txVars, toGuest, sent, peer>>
CopyFailsCounting == LosesPacket /\ credit' = [credit EXCEPT !.fwd = AddSaturating(@, len)] \* mutant
CopyFails == LosesPacket /\ UNCHANGED credit

\* make_credit_update_header_if_needed.
Unreported == SubWrapping(credit.fwd, credit.reported)
Update ==
    /\ pc = "update"
    /\ pc' = IF Unreported < Threshold THEN "idle" ELSE "sendUpdate"
    /\ UNCHANGED <<credit, rxq, reset, len, writer, woken, rx, txVars, toGuest, sent, peer>>

SendUpdate ==
    /\ pc = "sendUpdate"
    /\ \/ Direct(Packet("update", 0, credit.fwd)) /\ pc' = "mark"
       \/ (Queue(Packet("update", 0, credit.fwd)) \/ Fails) /\ pc' = "idle"
    /\ UNCHANGED <<credit, rxq, reset, len, writer, woken, rx, toGuest, sent, peer>>

-------------------------------------------------------------------------------
(* The RX taskless.                                                        *)

\* on_credit_update, and the notification that follows it.
WithCreditStillPending(p) == [credit EXCEPT !.peerFwd = p.fwd]   \* mutant
WithCredit(p) == [credit EXCEPT !.peerFwd = p.fwd, !.requested = FALSE]
RxTakes(op) ==
    /\ rx.at = "idle" /\ ~reset /\ toGuest # <<>> /\ Head(toGuest).op = op
    /\ toGuest' = Tail(toGuest)
    /\ credit' = WithCredit(Head(toGuest))
    /\ woken' = TRUE

\* enqueue_rx_buffer; a payload that does not fit resets the connection.
RxData ==
    LET used == rxq.used + Head(toGuest).len IN
    /\ RxTakes("rw")
    /\ IF used > RxBuf
       THEN reset' = TRUE /\ UNCHANGED rxq
       ELSE /\ rxq' = [rxq EXCEPT !.used = used, !.packets = Append(@, Head(toGuest).len)]
            /\ UNCHANGED reset
    /\ UNCHANGED <<appVars, rx, txVars, sent, peer>>

RxUpdate ==
    /\ RxTakes("update")
    /\ UNCHANGED <<rxq, reset, appVars, rx, txVars, sent, peer>>

\* process_credit_request builds the reply's header under the lock and sends it
\* after the unlock.
RxRequest ==
    /\ RxTakes("request")
    /\ rx' = [at |-> "reply", fwd |-> credit.fwd]
    /\ UNCHANGED <<rxq, reset, appVars, txVars, sent, peer>>

RxReply ==
    /\ rx.at = "reply"
    /\ \/ Direct(Packet("update", 0, rx.fwd)) /\ rx' = [rx EXCEPT !.at = "mark"]
       \/ (Queue(Packet("update", 0, rx.fwd)) \/ Fails) /\ rx' = [rx EXCEPT !.at = "idle"]
    /\ UNCHANGED <<credit, rxq, reset, appVars, woken, toGuest, sent, peer>>

RxMark ==
    /\ rx.at = "mark"
    /\ credit' = Reported
    /\ rx' = [rx EXCEPT !.at = "idle"]
    /\ UNCHANGED <<rxq, reset, appVars, woken, txVars, toGuest, sent, peer>>

RxStep == RxData \/ RxUpdate \/ RxRequest \/ RxReply \/ RxMark

-------------------------------------------------------------------------------
(* The TX taskless: process_tx, then the completion of each packet.        *)

TxDrain ==
    /\ marks = 0
    /\ \E n \in 1..Len(queued) :
        /\ toPeer' = toPeer \o SubSeq(queued, 1, n)
        /\ queued' = SubSeq(queued, n + 1, Len(queued))
        /\ marks' = n
    /\ UNCHANGED <<credit, rxq, reset, appVars, woken, rx, toGuest, sent, peer>>

TxMark ==
    /\ marks > 0
    /\ marks' = marks - 1
    /\ credit' = Reported
    /\ UNCHANGED <<rxq, reset, appVars, woken, rx, queued, toPeer, toGuest, sent, peer>>

-------------------------------------------------------------------------------
(* The peer: it sends what the last header it saw leaves room for, reads,  *)
(* answers a CREDIT_REQUEST, and may ask for credit when it has none.      *)

PeerRoom == Monus(RxBuf, SubWrapping(peer.tx, peer.seen))
FromPeer(op, n) == toGuest' = Append(toGuest, Packet(op, n, peer.read % W))
PeerFrame == UNCHANGED <<credit, rxq, reset, appVars, woken, rx, queued, marks, sent>>

PeerSend(n) ==
    /\ n <= PeerRoom /\ peer.tx + n <= MaxReceived
    /\ FromPeer("rw", n)
    /\ peer' = [peer EXCEPT !.tx = @ + n]
    /\ PeerFrame /\ UNCHANGED toPeer

PeerAsk ==
    /\ PeerAsks /\ PeerRoom = 0 /\ ~peer.asked
    /\ FromPeer("request", 0)
    /\ peer' = [peer EXCEPT !.asked = TRUE]
    /\ PeerFrame /\ UNCHANGED toPeer

PeerTake ==
    LET p == Head(toPeer) IN
    /\ toPeer # <<>>
    /\ toPeer' = Tail(toPeer)
    /\ peer' = [peer EXCEPT !.seen = p.fwd, !.unread = @ + p.len,
                            !.asked = IF p.op = "update" THEN FALSE ELSE @]
    /\ IF p.op = "request" THEN FromPeer("update", 0) ELSE UNCHANGED toGuest
    /\ PeerFrame

PeerRead ==
    /\ peer.unread > 0
    /\ peer' = [peer EXCEPT !.unread = @ - 1, !.read = @ + 1]
    /\ PeerFrame /\ UNCHANGED <<toPeer, toGuest>>

-------------------------------------------------------------------------------
\* The steps of a call under way, and the retry of a blocked send.
AppStep ==
    \/ MakeRequest \/ SendRequest \/ Submit \/ Count \/ Mark
    \/ Copy \/ CopyFails \/ Update \/ SendUpdate
Retry == writer = "waiting" /\ \E n \in Lens : TrySend(n)

Next ==
    \/ \E n \in Lens : TrySend(n)
    \/ Pop \/ AppStep
    \/ RxStep \/ TxDrain \/ TxMark
    \/ \E n \in Lens : PeerSend(n)
    \/ PeerAsk \/ PeerTake \/ PeerRead

Spec == Init /\ [][Next]_vars

\* The tasklesses and the calls under way go on; a notified send is tried again;
\* the application reads what has arrived, and so does the peer.  Nobody is
\* obliged to send, nor the peer to ask for credit.
Fairness ==
    /\ WF_vars(AppStep) /\ WF_vars(Retry) /\ WF_vars(Pop)
    /\ WF_vars(RxStep) /\ WF_vars(TxDrain) /\ WF_vars(TxMark)
    /\ WF_vars(PeerTake) /\ WF_vars(PeerRead)

FairSpec == Spec /\ Fairness

-------------------------------------------------------------------------------
(* Properties.                                                             *)

\* The packets the receive queue holds, the one being copied included, are what
\* used_bytes accounts for, unless a failed copy has lost one.
TypeOK ==
    /\ credit \in [peerFwd : 0..(W - 1), fwd : 0..(W - 1), reported : 0..(W - 1),
                   requested : BOOLEAN, tx : 0..(W - 1)]
    /\ rxq.used <= RxBuf
    /\ \A i \in DOMAIN rxq.packets : rxq.packets[i] \in 1..rxq.used
    /\ reset \in BOOLEAN /\ woken \in BOOLEAN
    /\ pc \in {"idle", "request", "sendRequest", "submit", "countDirect",
               "countQueued", "mark", "copy", "update", "sendUpdate"}
    /\ writer \in {"none", "trying", "waiting"}
    /\ rx \in [at : {"idle", "reply", "mark"}, fwd : 0..(W - 1)]
    /\ marks \in Nat /\ sent \in Nat

\* What the guest has sent and the peer has not read fits the peer's buffer,
\* wherever it is: credit learnt from a late header, or counted after the packet
\* was submitted, never lets a sender go over.
SendsWithinCredit == sent <= peer.read + PeerBuf

\* A peer that keeps to the credit it was given is reset for overflowing the
\* receive queue only while the packet in front is half read, whose bytes were
\* given back as credit one by one and stay in used_bytes until the last: it is
\* over by no more than that offset.  A copy that fails halfway leaves the offset
\* behind for good, and after one nothing is said.
ResetOnlyMidPacket ==
    [][~reset /\ reset' =>
           rxq.stray \/ rxq.used + Head(toGuest).len <= RxBuf + rxq.offset]_vars

\* What 3.5 of 98-plan.md asks for and partial reads break: such a peer is never
\* reset.
HonestPeerNotReset == ~reset

\* A send blocked without credit goes on once its CREDIT_REQUEST is with the driver
\* or it has been notified: request, answer and notification work together although
\* both sides would otherwise be silent.  After a request that could not be sent
\* only a packet the peer sends unasked can wake it.
SenderResumes ==
    (writer = "waiting" /\ (credit.requested \/ woken)) ~> writer # "waiting"
==============================================================================
