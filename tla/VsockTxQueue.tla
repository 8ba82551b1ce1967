----------------------------- MODULE VsockTxQueue -----------------------------
(***************************************************************************)
(* The transmit path of the virtio-vsock driver (TxState, TxGuard and      *)
(* TxPendingGuard in device.rs) together with its callers: the data path   *)
(* Connection::try_send, which takes the TX lock twice (prepare_send, then *)
(* submit_prepared), and send_packet, which takes it once per control      *)
(* packet.                                                                 *)
(*                                                                         *)
(* One action is one critical section of the TX spin lock, or one step     *)
(* between two of them.  A packet of c is identified by (c, seq), seq      *)
(* counting the packets of c the driver has accepted, whoever sent them.   *)
(***************************************************************************)
EXTENDS Naturals, Sequences, FiniteSets

CONSTANTS
    Conn,            \* connections; each has one sender (the socket write lock)
    QueueSize,       \* VsockDevice::QUEUE_SIZE, descriptors of the TX virtqueue
    PendingBytes,    \* DEFAULT_PENDING_TX_BYTES, budget of one connection
    Lens,            \* payload lengths a send may ask for
    MaxSeq,          \* bound: packets accepted per connection
    BuildCanFail     \* whether building a packet may fail (no memory, bad buffer)

ASSUME TxAssumption ==
    /\ IsFiniteSet(Conn)
    /\ QueueSize \in Nat \ {0}
    /\ PendingBytes \in Nat
    /\ \A len \in Lens : len \in Nat /\ len > 0
    /\ MaxSeq \in Nat
    /\ BuildCanFail \in BOOLEAN

VARIABLES
    hw,              \* packets in the virtqueue that the device has not consumed
    used,            \* descriptors consumed by the device and not yet reclaimed
    pending,         \* TxState::pending, the software queue
    reserved,        \* TxState::reserved_descs
    wire,            \* packets the device has consumed, in order
    txTask,          \* the TX taskless is scheduled (schedule_tx)
    completions,     \* completions process_tx has collected and not yet run
    avail,           \* available_tx_bytes of each connection
    pc,              \* where the sender of each connection is
    want,            \* payload_len of the send in progress
    held,            \* bytes the send in progress has reserved and not handed over
    nextSeq,         \* packets of each connection accepted so far
    wclosed          \* the connection's local_write_closed flag

queueVars == <<hw, used, pending, reserved, wire>>
senderVars == <<pc, want, held>>
vars == <<hw, used, pending, reserved, wire, txTask, completions, avail,
          pc, want, held, nextSeq, wclosed>>

Kind == {"rw", "shutdown", "reply"}

\* bytes: what the packet's ReleasePendingBytes completion will give back; 0
\* when the packet has no such completion.
PacketSet == [conn : Conn, seq : Nat \ {0}, kind : Kind, bytes : Nat]

-------------------------------------------------------------------------------
(* TxGuard::free_descs once drain_used has reclaimed the used descriptors. *)

FreeDescsNoReserve == QueueSize - Len(hw)       \* mutant: reservations ignored
FreeDescs == IF Len(hw) + reserved >= QueueSize
             THEN 0 ELSE QueueSize - Len(hw) - reserved

NewPacket(c, k, b) == [conn |-> c, seq |-> nextSeq[c] + 1, kind |-> k, bytes |-> b]

Init ==
    /\ hw = <<>> /\ used = 0 /\ pending = <<>> /\ reserved = 0 /\ wire = <<>>
    /\ txTask = FALSE /\ completions = <<>>
    /\ avail = [c \in Conn |-> PendingBytes]
    /\ pc = [c \in Conn |-> "idle"]
    /\ want = [c \in Conn |-> 0]
    /\ held = [c \in Conn |-> 0]
    /\ nextSeq = [c \in Conn |-> 0]
    /\ wclosed = [c \in Conn |-> FALSE]

-------------------------------------------------------------------------------
(* Connection::try_send.  pc[c] names the step the sender takes next:      *)
(* "reserve" (software pending was chosen, no bytes reserved yet), "back"  *)
(* (a partial reservation to give back), "build" + the reservation kind,   *)
(* "submit" + the reservation kind.                                        *)

Direct(c) == pc[c] \in {"buildDirect", "submitDirect"}

\* drain_used, then prepare_send, under one TX lock.
PrepareSend(c, len) ==
    /\ pc[c] = "idle" /\ ~wclosed[c] /\ nextSeq[c] < MaxSeq
    /\ used' = 0
    /\ want' = [want EXCEPT ![c] = len]
    /\ \/ /\ FreeDescs >= 1
          /\ reserved' = reserved + 1
          /\ pc' = [pc EXCEPT ![c] = "buildDirect"]
       \/ /\ FreeDescs = 0
          /\ reserved' = reserved
          /\ pc' = [pc EXCEPT ![c] = "reserve"]
    /\ UNCHANGED <<hw, pending, wire, txTask, completions, avail, held, nextSeq, wclosed>>

\* reserve_tx_bytes: all, some or none of the bytes asked for.  With no byte
\* left the send returns EAGAIN.
Granted(c) == IF avail[c] < want[c] THEN avail[c] ELSE want[c]

AfterGrant(c) == IF Granted(c) = 0 THEN "idle"
                 ELSE IF Granted(c) = want[c] THEN "buildPending" ELSE "back"

ReserveTxBytes(c) ==
    /\ pc[c] = "reserve"
    /\ avail' = [avail EXCEPT ![c] = @ - Granted(c)]
    /\ held' = [held EXCEPT ![c] = Granted(c)]
    /\ pc' = [pc EXCEPT ![c] = AfterGrant(c)]
    /\ UNCHANGED <<queueVars, txTask, completions, want, nextSeq, wclosed>>

\* release_tx_bytes of a partial reservation; the send returns EAGAIN.
GiveBack(c) ==
    /\ pc[c] = "back"
    /\ avail' = [avail EXCEPT ![c] = @ + held[c]]
    /\ held' = [held EXCEPT ![c] = 0]
    /\ pc' = [pc EXCEPT ![c] = "idle"]
    /\ UNCHANGED <<queueVars, txTask, completions, want, nextSeq, wclosed>>

\* The payload is copied into a TxBuffer outside the lock.
BuildPacket(c) ==
    /\ pc[c] \in {"buildDirect", "buildPending"}
    /\ pc' = [pc EXCEPT ![c] = IF @ = "buildDirect" THEN "submitDirect"
                                                    ELSE "submitPending"]
    /\ UNCHANGED <<queueVars, txTask, completions, avail, want, held, nextSeq, wclosed>>

\* mutants of BuildFails: the pending bytes stay charged; the descriptor count
\* is dropped for a reservation that never took one.
BuildFailsLeaking(c) ==
    /\ BuildCanFail
    /\ pc[c] \in {"buildDirect", "buildPending"}
    /\ reserved' = IF pc[c] = "buildDirect" THEN reserved - 1 ELSE reserved
    /\ held' = [held EXCEPT ![c] = 0]
    /\ pc' = [pc EXCEPT ![c] = "idle"]
    /\ UNCHANGED <<hw, used, pending, wire, txTask, completions, avail, want, nextSeq, wclosed>>

BuildFailsCancelsAlways(c) ==
    /\ BuildCanFail
    /\ pc[c] \in {"buildDirect", "buildPending"}
    /\ reserved' = reserved - 1
    /\ avail' = [avail EXCEPT ![c] = @ + held[c]]
    /\ held' = [held EXCEPT ![c] = 0]
    /\ pc' = [pc EXCEPT ![c] = "idle"]
    /\ UNCHANGED <<hw, used, pending, wire, txTask, completions, want, nextSeq, wclosed>>

\* The copy fails: pending bytes are released, or cancel_prepared gives the
\* descriptor back.  Nothing looks at the software queue on this path.
BuildFails(c) ==
    /\ BuildCanFail
    /\ pc[c] \in {"buildDirect", "buildPending"}
    /\ reserved' = IF pc[c] = "buildDirect" THEN reserved - 1 ELSE reserved
    /\ avail' = [avail EXCEPT ![c] = @ + held[c]]
    /\ held' = [held EXCEPT ![c] = 0]
    /\ pc' = [pc EXCEPT ![c] = "idle"]
    /\ UNCHANGED <<hw, used, pending, wire, txTask, completions, want, nextSeq, wclosed>>

\* drain_used, then submit_prepared, under one TX lock.  A direct reservation
\* goes to the virtqueue whatever the software queue holds.
SubmitDirect(c) ==
    /\ pc[c] = "submitDirect"
    /\ used' = 0
    /\ reserved' = reserved - 1
    /\ hw' = Append(hw, NewPacket(c, "rw", 0))
    /\ nextSeq' = [nextSeq EXCEPT ![c] = @ + 1]
    /\ pc' = [pc EXCEPT ![c] = "idle"]
    /\ UNCHANGED <<pending, wire, txTask, completions, avail, want, held, wclosed>>

SubmitPending(c) ==
    /\ pc[c] = "submitPending"
    /\ used' = 0
    /\ pending' = Append(pending, NewPacket(c, "rw", held[c]))
    /\ held' = [held EXCEPT ![c] = 0]
    /\ nextSeq' = [nextSeq EXCEPT ![c] = @ + 1]
    /\ pc' = [pc EXCEPT ![c] = "idle"]
    /\ UNCHANGED <<hw, reserved, wire, txTask, completions, avail, want, wclosed>>

-------------------------------------------------------------------------------
(* VsockSpace::send_packet: drain_used, then try_send, or push_pending and *)
(* push_pending_tracked under the same lock.                               *)

TrySend(p) ==
    /\ used' = 0
    /\ nextSeq' = [nextSeq EXCEPT ![p.conn] = @ + 1]
    /\ \/ FreeDescs >= 1 /\ hw' = Append(hw, p) /\ UNCHANGED pending
       \/ FreeDescs = 0  /\ pending' = Append(pending, p) /\ UNCHANGED hw
    /\ UNCHANGED <<reserved, wire, txTask, completions, avail, senderVars>>

\* Connection::shutdown(SHUT_WR or SHUT_RDWR), in the sender's thread: the flag
\* first, then the SHUTDOWN packet, with the socket write lock held throughout.
SendShutdown(c) ==
    /\ pc[c] = "idle" /\ ~wclosed[c] /\ nextSeq[c] < MaxSeq
    /\ wclosed' = [wclosed EXCEPT ![c] = TRUE]
    /\ TrySend(NewPacket(c, "shutdown", 0))

\* A credit update or RST that the RX taskless sends for c, whatever c's own
\* sender is doing.
SendReply(c) ==
    /\ nextSeq[c] + (IF pc[c] = "idle" THEN 0 ELSE 1) < MaxSeq
    /\ TrySend(NewPacket(c, "reply", 0))
    /\ UNCHANGED wclosed

-------------------------------------------------------------------------------
(* The device and the TX taskless.                                         *)

\* The device consumes the oldest descriptor and raises its interrupt, whose
\* handler schedules the taskless.
DeviceConsume ==
    /\ hw # <<>>
    /\ wire' = Append(wire, Head(hw))
    /\ hw' = Tail(hw)
    /\ used' = used + 1
    /\ txTask' = TRUE
    /\ UNCHANGED <<pending, reserved, completions, avail, senderVars, nextSeq, wclosed>>

DrainableIfReclaimed ==       \* mutant: early return when nothing was reclaimed
    IF used = 0 THEN 0
    ELSE IF Len(pending) <= FreeDescs THEN Len(pending) ELSE FreeDescs

\* How many pending packets the loop of process_tx submits.
Drainable == IF Len(pending) <= FreeDescs THEN Len(pending) ELSE FreeDescs

AfterDrainSkippingOne(n) == SubSeq(pending, n + 2, Len(pending))   \* mutant
AfterDrain(n) == SubSeq(pending, n + 1, Len(pending))

\* process_tx up to the unlock: reclaim, then move pending packets to the
\* virtqueue while a descriptor is free, collecting their completions.
ProcessTx ==
    LET moved == SubSeq(pending, 1, Drainable) IN
    /\ txTask /\ completions = <<>>
    /\ txTask' = FALSE
    /\ used' = 0
    /\ hw' = hw \o moved
    /\ pending' = AfterDrain(Drainable)
    /\ completions' = moved
    /\ UNCHANGED <<reserved, wire, avail, senderVars, nextSeq, wclosed>>

\* After the unlock each completion runs and is dropped: release_tx_bytes.  A
\* control packet's completion gives back no bytes.
RunCompletion ==
    /\ completions # <<>>
    /\ avail' = [avail EXCEPT ![Head(completions).conn] = @ + Head(completions).bytes]
    /\ completions' = Tail(completions)
    /\ UNCHANGED <<queueVars, txTask, senderVars, nextSeq, wclosed>>

-------------------------------------------------------------------------------
SenderStep(c) ==
    \/ ReserveTxBytes(c) \/ GiveBack(c)
    \/ BuildPacket(c) \/ BuildFails(c)
    \/ SubmitDirect(c) \/ SubmitPending(c)

Next ==
    \/ \E c \in Conn :
          \/ \E len \in Lens : PrepareSend(c, len)
          \/ SenderStep(c)
          \/ SendShutdown(c)
          \/ SendReply(c)
    \/ DeviceConsume \/ ProcessTx \/ RunCompletion

Spec == Init /\ [][Next]_vars

(* A started send finishes (the thread is runnable and takes no lock that  *)
(* is held for ever), a scheduled taskless runs, and the device keeps      *)
(* consuming its queue.  Nobody is obliged to start a send.                *)
Fairness ==
    /\ \A c \in Conn : WF_vars(SenderStep(c))
    /\ WF_vars(DeviceConsume)
    /\ WF_vars(ProcessTx)
    /\ WF_vars(RunCompletion)

FairSpec == Spec /\ Fairness

-------------------------------------------------------------------------------
(* Properties.                                                             *)

\* Every packet in a queue of the driver is a whole packet of some connection, and
\* every counter a natural number: no reclaim or give-back goes below zero.
TypeOK ==
    /\ hw \in Seq(PacketSet) /\ pending \in Seq(PacketSet)
    /\ wire \in Seq(PacketSet) /\ completions \in Seq(PacketSet)
    /\ used \in Nat /\ reserved \in Nat
    /\ txTask \in BOOLEAN
    /\ avail \in [Conn -> Nat] /\ held \in [Conn -> Nat]
    /\ want \in [Conn -> Lens \cup {0}]
    /\ nextSeq \in [Conn -> Nat]
    /\ wclosed \in [Conn -> BOOLEAN]
    /\ pc \in [Conn -> {"idle", "reserve", "back", "buildDirect", "buildPending",
                        "submitDirect", "submitPending"}]

\* The descriptors in use and the ones promised to senders never exceed the
\* virtqueue, so no add_dma_buf of device.rs can fail its expect: a sender
\* that was told Direct before it dropped the lock still finds its descriptor.
DescriptorBudget == Len(hw) + used + reserved <= QueueSize

\* reserved_descs counts exactly the senders between prepare_send and
\* submit_prepared or cancel_prepared; a leak would shrink the queue for ever.
ReservedIsHeld == reserved = Cardinality({c \in Conn : Direct(c)})

\* Software-budget bytes of connection c charged to the packets of a queue.
BytesIn(s, c) ==
    LET sum[n \in 0..Len(s)] ==
            IF n = 0 THEN 0
            ELSE sum[n - 1] + (IF s[n].conn = c THEN s[n].bytes ELSE 0)
    IN  sum[Len(s)]

\* Every byte of a connection's software budget is in exactly one place: still
\* available, reserved by the send in progress, charged to a packet in the
\* software queue, or with a completion that has not run.
BudgetConserved ==
    \A c \in Conn :
        avail[c] + held[c] + BytesIn(pending, c) + BytesIn(completions, c)
            = PendingBytes

InSeq(s) == {<<s[i].conn, s[i].seq>> : i \in DOMAIN s}

\* The driver implements the exactly-once channel: accepted packets are those
\* it queues in software or hardware and those the device has taken.
Chan == INSTANCE TxChannel WITH
          Packet <- Conn \X (1..MaxSeq),
          accepted <- InSeq(pending) \cup InSeq(hw) \cup InSeq(wire),
          wire <- [i \in DOMAIN wire |-> <<wire[i].conn, wire[i].seq>>]
ExactlyOnce == Chan!ChanSpec

\* A packet that waits in software while the device still owns descriptors
\* leaves the software queue: the completion interrupt drains it.  The exception
\* is a descriptor promised to a sender that may yet cancel: cancel_prepared gives
\* it back without draining the software queue.
PendingDrainsWhileBusy ==
    \A c \in Conn, n \in 1..MaxSeq :
        (<<c, n>> \in InSeq(pending) /\ hw # <<>>)
            ~> (<<c, n>> \in InSeq(wire) \/ \E d \in Conn : pc[d] = "buildDirect")

\* Every packet whose send was reported successful is handed to the device.
AcceptedIsTransmitted ==
    \A c \in Conn, n \in 1..MaxSeq :
        (<<c, n>> \in InSeq(pending)) ~> (<<c, n>> \in InSeq(wire))
===============================================================================
