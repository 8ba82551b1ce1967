-------------------------- MODULE VsockTxQueue_Proofs --------------------------
(* TLAPS proofs about VsockTxQueue. *)
EXTENDS VsockTxQueue, FiniteSetTheorems, SequenceTheorems, WellFoundedInduction,
        TLAPS

Holders == {c \in Conn : Direct(c)}

\* The descriptor budget is inductive only with the meaning of reserved: a
\* sender that may still submit directly is counted, so the count is positive
\* when it is taken back.
IInv == TypeOK /\ DescriptorBudget /\ ReservedIsHeld

-------------------------------------------------------------------------------
\* There are finitely many senders, so finitely many hold a reservation.
LEMMA HoldersFinite == IsFiniteSet(Holders)
BY TxAssumption, FS_Subset DEF Holders

\* One sender starts to hold a reservation.
LEMMA HolderJoins ==
    ASSUME TypeOK, NEW c \in Conn, ~Direct(c),
           pc' = [pc EXCEPT ![c] = "buildDirect"]
    PROVE  Cardinality(Holders') = Cardinality(Holders) + 1
<1>1. Holders' = Holders \cup {c}
  BY DEF Holders, Direct, TypeOK
<1>2. c \notin Holders
  BY DEF Holders
<1> QED
  BY <1>1, <1>2, HoldersFinite, FS_AddElement

\* The sender stops holding one.
LEMMA HolderLeaves ==
    ASSUME TypeOK, NEW c \in Conn, Direct(c), pc' = [pc EXCEPT ![c] = "idle"]
    PROVE  /\ Cardinality(Holders') = Cardinality(Holders) - 1
           /\ Cardinality(Holders) > 0
<1>1. Holders' = Holders \ {c}
  BY DEF Holders, Direct, TypeOK
<1>2. c \in Holders
  BY DEF Holders
<1>3. Holders # {}
  BY <1>2
<1>4. Cardinality(Holders) \in Nat /\ Cardinality(Holders) # 0
  BY <1>3, HoldersFinite, FS_CardinalityType, FS_EmptySet
<1> QED
  BY <1>1, <1>2, <1>4, HoldersFinite, FS_RemoveElement

\* Any other step of a sender leaves the set alone.
LEMMA HoldersSame ==
    ASSUME TypeOK, NEW c \in Conn, NEW v,
           v \in {"buildDirect", "submitDirect"} <=> Direct(c),
           pc' = [pc EXCEPT ![c] = v]
    PROVE  Holders' = Holders
BY DEF Holders, Direct, TypeOK
-------------------------------------------------------------------------------

\* VsockDevice::init: nothing is queued, and no sender holds a reservation.
THEOREM InitIInv == Init => IInv
<1> SUFFICES ASSUME Init PROVE IInv
  OBVIOUS
<1>1. TypeOK
  <2>1. <<>> \in Seq(PacketSet)
    OBVIOUS
  <2>2. PendingBytes \in Nat
    BY TxAssumption
  <2> QED
    BY <2>1, <2>2 DEF Init, TypeOK
<1>2. DescriptorBudget
  BY TxAssumption DEF Init, DescriptorBudget
<1>3. {c \in Conn : Direct(c)} = {}
  BY DEF Init, Direct
<1>4. ReservedIsHeld
  BY <1>3, FS_EmptySet DEF Init, ReservedIsHeld
<1> QED
  BY <1>1, <1>2, <1>4 DEF IInv

\* A packet handed to the driver has the type of the queues.
LEMMA NewPacketType ==
    ASSUME TypeOK, NEW c \in Conn, NEW k \in Kind, NEW b \in Nat
    PROVE  NewPacket(c, k, b) \in PacketSet
BY DEF NewPacket, PacketSet, TypeOK

\* What the reservation count means once reclaiming is done.
LEMMA FreeDescsMeaning ==
    ASSUME TypeOK
    PROVE  /\ FreeDescs \in Nat
           /\ FreeDescs >= 1 => Len(hw) + reserved < QueueSize
           /\ Len(hw) + reserved <= QueueSize
                => FreeDescs = QueueSize - Len(hw) - reserved
<1>1. Len(hw) \in Nat /\ reserved \in Nat /\ QueueSize \in Nat
  BY TxAssumption DEF TypeOK
<1> QED
  BY <1>1 DEF FreeDescs

\* prepare_send promises a descriptor only while one is free.
LEMMA PrepareSendIInv ==
    ASSUME IInv, NEW c \in Conn, NEW len \in Lens, PrepareSend(c, len)
    PROVE  IInv'
<1> USE DEF IInv, PrepareSend
<1>1. Len(hw) \in Nat /\ reserved \in Nat /\ QueueSize \in Nat /\ used \in Nat
  BY TxAssumption DEF TypeOK
<1>2. TypeOK'
  <2>1. reserved' \in Nat /\ used' \in Nat
    BY <1>1
  <2>2. want' \in [Conn -> Lens \cup {0}]
    BY DEF TypeOK
  <2>3. pc' \in [Conn -> {"idle", "reserve", "back", "buildDirect", "buildPending",
                         "submitDirect", "submitPending"}]
    BY DEF TypeOK
  <2> QED
    BY <2>1, <2>2, <2>3 DEF TypeOK
<1>3. CASE FreeDescs >= 1
  <2>1. reserved' = reserved + 1 /\ pc' = [pc EXCEPT ![c] = "buildDirect"]
    BY <1>3
  <2>2. ReservedIsHeld'
    BY <2>1, HolderJoins DEF ReservedIsHeld, Holders, Direct
  <2>3. DescriptorBudget'
    BY <1>1, <1>3, <2>1, FreeDescsMeaning DEF DescriptorBudget
  <2> QED
    BY <1>2, <2>2, <2>3
<1>4. CASE FreeDescs = 0
  <2>1. reserved' = reserved /\ pc' = [pc EXCEPT ![c] = "reserve"]
    BY <1>4
  <2>2. ReservedIsHeld'
    BY <2>1, HoldersSame DEF ReservedIsHeld, Holders, Direct
  <2>3. DescriptorBudget'
    BY <1>1, <2>1 DEF DescriptorBudget
  <2> QED
    BY <1>2, <2>2, <2>3
<1> QED
  BY <1>3, <1>4

\* Steps between two critical sections change no descriptor and no packet.
LEMMA OutsideLockIInv ==
    ASSUME IInv, NEW c \in Conn, ReserveTxBytes(c) \/ GiveBack(c) \/ BuildPacket(c)
    PROVE  IInv'
<1> USE DEF IInv
<1>1. TypeOK'
  <2>1. CASE ReserveTxBytes(c)
    <3>1. avail[c] \in Nat /\ want[c] \in Nat
      <4>1. want[c] \in Lens \cup {0} /\ avail[c] \in Nat
        BY DEF TypeOK
      <4>2. \A len \in Lens : len \in Nat
        BY TxAssumption
      <4> QED
        BY <4>1, <4>2
    <3>2. Granted(c) \in Nat /\ avail[c] - Granted(c) \in Nat
      BY <3>1 DEF Granted
    <3>3. avail' \in [Conn -> Nat] /\ held' \in [Conn -> Nat]
      <4>1. /\ avail' = [avail EXCEPT ![c] = avail[c] - Granted(c)]
            /\ held' = [held EXCEPT ![c] = Granted(c)]
        BY <2>1 DEF ReserveTxBytes
      <4>2. avail \in [Conn -> Nat] /\ held \in [Conn -> Nat]
        BY DEF TypeOK
      <4> QED
        BY <3>2, <4>1, <4>2
    <3>4. AfterGrant(c) \in {"idle", "buildPending", "back"}
      BY DEF AfterGrant
    <3>5. pc' \in [Conn -> {"idle", "reserve", "back", "buildDirect", "buildPending",
                           "submitDirect", "submitPending"}]
      BY <2>1, <3>4 DEF ReserveTxBytes, TypeOK
    <3>6. UNCHANGED <<hw, used, pending, reserved, wire, txTask, completions, want,
                      nextSeq, wclosed>>
      BY <2>1 DEF ReserveTxBytes, queueVars
    <3> QED
      BY <3>3, <3>5, <3>6 DEF TypeOK
  <2>2. CASE GiveBack(c)
    BY <2>2 DEF GiveBack, TypeOK, queueVars
  <2>3. CASE BuildPacket(c)
    BY <2>3 DEF BuildPacket, TypeOK, queueVars
  <2> QED
    BY <2>1, <2>2, <2>3
<1>2. DescriptorBudget'
  BY DEF DescriptorBudget, ReserveTxBytes, GiveBack, BuildPacket, queueVars
<1>3. reserved' = reserved
  BY DEF ReserveTxBytes, GiveBack, BuildPacket, queueVars
<1>4. Holders' = Holders
  <2>1. CASE ReserveTxBytes(c)
    <3>1. AfterGrant(c) \notin {"buildDirect", "submitDirect"}
      BY DEF AfterGrant
    <3> QED
      BY <2>1, <3>1, HoldersSame DEF ReserveTxBytes, Direct
  <2>3. CASE GiveBack(c)
    BY <2>3, HoldersSame DEF GiveBack, Direct
  <2>2. CASE BuildPacket(c)
    <3>1. CASE pc[c] = "buildDirect"
      BY <2>2, <3>1, HoldersSame DEF BuildPacket, Direct
    <3>2. CASE pc[c] = "buildPending"
      BY <2>2, <3>2, HoldersSame DEF BuildPacket, Direct
    <3> QED
      BY <2>2, <3>1, <3>2 DEF BuildPacket
  <2> QED
    BY <2>1, <2>2, <2>3
<1>5. ReservedIsHeld'
  BY <1>3, <1>4 DEF ReservedIsHeld, Holders
<1> QED
  BY <1>1, <1>2, <1>5

\* cancel_prepared takes back exactly the reservation of its sender.
LEMMA BuildFailsIInv ==
    ASSUME IInv, NEW c \in Conn, BuildFails(c)
    PROVE  IInv'
<1> USE DEF IInv, BuildFails
<1>1. Len(hw) \in Nat /\ reserved \in Nat /\ QueueSize \in Nat /\ used \in Nat
  BY TxAssumption DEF TypeOK
<1>2. CASE pc[c] = "buildDirect"
  <2>1. Direct(c)
    BY <1>2 DEF Direct
  <2>2. reserved > 0 /\ Cardinality(Holders') = Cardinality(Holders) - 1
    BY <2>1, HolderLeaves DEF ReservedIsHeld, Holders
  <2>3. TypeOK'
    BY <1>1, <1>2, <2>2 DEF TypeOK
  <2>4. ReservedIsHeld' /\ DescriptorBudget'
    BY <1>1, <1>2, <2>2 DEF ReservedIsHeld, Holders, DescriptorBudget
  <2> QED
    BY <2>3, <2>4
<1>3. CASE pc[c] = "buildPending"
  <2>1. Holders' = Holders
    BY <1>3, HoldersSame DEF Direct
  <2>2. TypeOK'
    BY <1>1, <1>3 DEF TypeOK
  <2>3. ReservedIsHeld' /\ DescriptorBudget'
    BY <1>1, <1>3, <2>1 DEF ReservedIsHeld, Holders, DescriptorBudget
  <2> QED
    BY <2>2, <2>3
<1> QED
  BY <1>2, <1>3

\* submit_prepared turns a reservation into a descriptor in use.
LEMMA SubmitIInv ==
    ASSUME IInv, NEW c \in Conn, SubmitDirect(c) \/ SubmitPending(c)
    PROVE  IInv'
<1> USE DEF IInv
<1>1. Len(hw) \in Nat /\ reserved \in Nat /\ QueueSize \in Nat /\ used \in Nat
  BY TxAssumption DEF TypeOK
<1>2. CASE SubmitDirect(c)
  <2> USE <1>2 DEF SubmitDirect
  <2>1. reserved > 0 /\ Cardinality(Holders') = Cardinality(Holders) - 1
    BY HolderLeaves DEF ReservedIsHeld, Holders, Direct
  <2>2. NewPacket(c, "rw", 0) \in PacketSet
    BY NewPacketType DEF Kind
  <2>3. hw' \in Seq(PacketSet) /\ Len(hw') = Len(hw) + 1
    BY <2>2 DEF TypeOK
  <2>4. TypeOK'
    BY <1>1, <2>1, <2>3 DEF TypeOK
  <2>5. ReservedIsHeld' /\ DescriptorBudget'
    BY <1>1, <2>1, <2>3 DEF ReservedIsHeld, Holders, DescriptorBudget
  <2> QED
    BY <2>4, <2>5
<1>3. CASE SubmitPending(c)
  <2> USE <1>3 DEF SubmitPending
  <2>1. Holders' = Holders
    BY HoldersSame DEF Direct
  <2>2. NewPacket(c, "rw", held[c]) \in PacketSet
    BY NewPacketType DEF Kind, TypeOK
  <2>3. pending' \in Seq(PacketSet)
    BY <2>2 DEF TypeOK
  <2>4. TypeOK'
    BY <2>3 DEF TypeOK
  <2>5. ReservedIsHeld'
    BY <2>1 DEF ReservedIsHeld, Holders
  <2>6. DescriptorBudget'
    BY <1>1 DEF DescriptorBudget
  <2> QED
    BY <2>4, <2>5, <2>6
<1> QED
  BY <1>2, <1>3

\* A control packet takes a descriptor no sender was promised.
LEMMA TrySendIInv ==
    ASSUME IInv, NEW p \in PacketSet, TrySend(p),
           wclosed' \in [Conn -> BOOLEAN]
    PROVE  IInv'
<1> USE DEF IInv, TrySend, senderVars
<1>1. Len(hw) \in Nat /\ reserved \in Nat /\ QueueSize \in Nat /\ used \in Nat
  BY TxAssumption DEF TypeOK
<1>2. nextSeq' \in [Conn -> Nat]
  BY DEF TypeOK, PacketSet
<1>3. ReservedIsHeld'
  BY DEF ReservedIsHeld, Direct
<1>4. CASE FreeDescs >= 1 /\ hw' = Append(hw, p) /\ UNCHANGED pending
  <2>1. hw' \in Seq(PacketSet) /\ Len(hw') = Len(hw) + 1
    BY <1>4 DEF TypeOK
  <2>2. Len(hw) + reserved < QueueSize
    BY <1>4, FreeDescsMeaning
  <2>3. TypeOK'
    <3>1. UNCHANGED <<pending, reserved, wire, txTask, completions, avail, pc, want, held>>
      BY <1>4
    <3> QED
      BY <1>2, <2>1, <3>1 DEF TypeOK
  <2>4. DescriptorBudget'
    BY <1>1, <2>1, <2>2 DEF DescriptorBudget
  <2> QED
    BY <1>3, <2>3, <2>4
<1>5. CASE FreeDescs = 0 /\ pending' = Append(pending, p) /\ UNCHANGED hw
  <2>1. pending' \in Seq(PacketSet)
    BY <1>5 DEF TypeOK
  <2>2. TypeOK'
    BY <1>2, <1>5, <2>1 DEF TypeOK
  <2>3. DescriptorBudget'
    BY <1>1, <1>5 DEF DescriptorBudget
  <2> QED
    BY <1>3, <2>2, <2>3
<1> QED
  BY <1>4, <1>5

\* So SHUTDOWN and the replies of the RX taskless keep the invariant.
LEMMA ControlIInv ==
    ASSUME IInv, NEW c \in Conn, SendShutdown(c) \/ SendReply(c)
    PROVE  IInv'
<1>1. NewPacket(c, "shutdown", 0) \in PacketSet /\ NewPacket(c, "reply", 0) \in PacketSet
  BY NewPacketType DEF Kind, IInv
<1>2. wclosed' \in [Conn -> BOOLEAN]
  BY DEF SendShutdown, SendReply, IInv, TypeOK
<1> QED
  BY <1>1, <1>2, TrySendIInv DEF SendShutdown, SendReply

\* A consumed descriptor stays counted until it is reclaimed.
LEMMA DeviceConsumeIInv ==
    ASSUME IInv, DeviceConsume
    PROVE  IInv'
<1> USE DEF IInv, DeviceConsume, senderVars
<1>1. Len(hw) \in Nat /\ reserved \in Nat /\ QueueSize \in Nat /\ used \in Nat
  BY TxAssumption DEF TypeOK
<1>2. /\ Head(hw) \in PacketSet /\ Tail(hw) \in Seq(PacketSet)
      /\ Len(Tail(hw)) = Len(hw) - 1
  BY DEF TypeOK
<1>3. TypeOK'
  BY <1>1, <1>2 DEF TypeOK
<1>4. ReservedIsHeld' /\ DescriptorBudget'
  BY <1>1, <1>2 DEF ReservedIsHeld, Direct, DescriptorBudget
<1> QED
  BY <1>3, <1>4

\* process_tx reclaims before it moves pending packets to the virtqueue.
LEMMA ProcessTxIInv ==
    ASSUME IInv, ProcessTx
    PROVE  IInv'
<1> USE DEF IInv, ProcessTx, senderVars
<1> DEFINE moved == SubSeq(pending, 1, Drainable)
<1>1. Len(hw) \in Nat /\ reserved \in Nat /\ QueueSize \in Nat /\ used \in Nat
  BY TxAssumption DEF TypeOK
<1>2. Drainable \in 0..Len(pending) /\ Drainable <= FreeDescs
  BY FreeDescsMeaning DEF Drainable, TypeOK
<1>3. FreeDescs = QueueSize - Len(hw) - reserved
  BY <1>1, FreeDescsMeaning DEF DescriptorBudget
<1>4. moved \in Seq(PacketSet) /\ Len(moved) = Drainable
  BY <1>2, SubSeqProperties DEF TypeOK
<1>5. AfterDrain(Drainable) \in Seq(PacketSet)
  BY <1>2, SubSeqProperties DEF AfterDrain, TypeOK
<1>6. hw' \in Seq(PacketSet) /\ Len(hw') = Len(hw) + Drainable
  BY <1>4, ConcatProperties DEF TypeOK
<1>7. TypeOK'
  BY <1>4, <1>5, <1>6 DEF TypeOK
<1>8. ReservedIsHeld'
  BY DEF ReservedIsHeld, Direct
<1>9. DescriptorBudget'
  BY <1>1, <1>2, <1>3, <1>6 DEF DescriptorBudget
<1> QED
  BY <1>7, <1>8, <1>9

\* A completion gives back bytes, never a descriptor.
LEMMA RunCompletionIInv ==
    ASSUME IInv, RunCompletion
    PROVE  IInv'
<1> USE DEF IInv, RunCompletion, senderVars, queueVars
<1>1. Head(completions) \in PacketSet /\ Tail(completions) \in Seq(PacketSet)
  BY DEF TypeOK
<1>2. Head(completions).conn \in Conn /\ Head(completions).bytes \in Nat
  BY <1>1 DEF PacketSet
<1>3. TypeOK'
  <2>1. avail' \in [Conn -> Nat]
    BY <1>2 DEF TypeOK
  <2> QED
    BY <1>1, <2>1 DEF TypeOK
<1>4. ReservedIsHeld' /\ DescriptorBudget'
  BY DEF ReservedIsHeld, Direct, DescriptorBudget
<1> QED
  BY <1>3, <1>4
-------------------------------------------------------------------------------

\* Every critical section of the TX lock, and every step between two, keeps
\* the invariant.
THEOREM StepIInv == IInv /\ [Next]_vars => IInv'
<1> SUFFICES ASSUME IInv, [Next]_vars PROVE IInv'
  OBVIOUS
<1>1. ASSUME NEW c \in Conn, NEW len \in Lens, PrepareSend(c, len) PROVE IInv'
  BY <1>1, PrepareSendIInv
<1>2. ASSUME NEW c \in Conn, SenderStep(c) PROVE IInv'
  BY <1>2, OutsideLockIInv, BuildFailsIInv, SubmitIInv DEF SenderStep
<1>3. ASSUME NEW c \in Conn, SendShutdown(c) \/ SendReply(c) PROVE IInv'
  BY <1>3, ControlIInv
<1>4. CASE DeviceConsume \/ ProcessTx \/ RunCompletion
  BY <1>4, DeviceConsumeIInv, ProcessTxIInv, RunCompletionIInv
<1>5. CASE UNCHANGED vars
  BY <1>5 DEF vars, IInv, TypeOK, DescriptorBudget, ReservedIsHeld, Direct
<1> QED
  BY <1>1, <1>2, <1>3, <1>4, <1>5 DEF Next

\* The strengthened invariant holds in every reachable state.
THEOREM SpecIInv == Spec => []IInv
<1> QED
  BY InitIInv, StepIInv, PTL DEF Spec

\* The state variables keep their types, for every queue size and any number
\* of connections.
THEOREM TypeCorrect == Spec => []TypeOK
<1>1. IInv => TypeOK
  BY DEF IInv
<1> QED
  BY SpecIInv, <1>1, PTL

\* However prepare, submit, control sends and completions interleave, the
\* virtqueue never holds or owes more than QueueSize descriptors: the expects
\* around add_dma_buf in device.rs cannot fire.
THEOREM DescriptorsNeverOvercommitted == Spec => []DescriptorBudget
<1>1. IInv => DescriptorBudget
  BY DEF IInv
<1> QED
  BY SpecIInv, <1>1, PTL

\* No reservation is lost or counted twice, whatever sends fail in between.
THEOREM ReservationsAreExact == Spec => []ReservedIsHeld
<1>1. IInv => ReservedIsHeld
  BY DEF IInv
<1> QED
  BY SpecIInv, <1>1, PTL
-------------------------------------------------------------------------------
(* The exactly-once channel.  The refinement of TxChannel needs to know    *)
(* that the three queues never hold one packet twice between them, and     *)
(* that a sender keeps room for the packet it is about to submit.          *)

Id(p) == <<p.conn, p.seq>>

\* No packet is twice in a queue.
EachOnce(s) == \A i, j \in DOMAIN s : Id(s[i]) = Id(s[j]) => i = j

Accepted == InSeq(pending) \cup InSeq(hw) \cup InSeq(wire)

\* Every packet the driver has taken carries a number it has given out.
Numbered == \A x \in Accepted : x[2] <= nextSeq[x[1]]

Apart ==
    /\ InSeq(pending) \cap InSeq(hw) = {}
    /\ InSeq(pending) \cap InSeq(wire) = {}
    /\ InSeq(hw) \cap InSeq(wire) = {}

QueuedOnce == EachOnce(pending) /\ EachOnce(hw) /\ Apart /\ Numbered

\* A send past prepare_send will still number one packet.
Room == \A c \in Conn : nextSeq[c] + (IF pc[c] = "idle" THEN 0 ELSE 1) <= MaxSeq

OnceInv == IInv /\ QueuedOnce /\ Room

\* What appending a packet does to the set of packets and to their uniqueness.
LEMMA InSeqAppend ==
    ASSUME NEW s \in Seq(PacketSet), NEW p \in PacketSet
    PROVE  /\ InSeq(Append(s, p)) = InSeq(s) \cup {Id(p)}
           /\ EachOnce(s) /\ Id(p) \notin InSeq(s) => EachOnce(Append(s, p))
<1> DEFINE t == Append(s, p)
<1>1. /\ Len(s) \in Nat /\ DOMAIN s = 1..Len(s) /\ DOMAIN t = 1..(Len(s) + 1)
      /\ \A i \in 1..Len(s) : t[i] = s[i]
      /\ t[Len(s) + 1] = p
  BY AppendProperties, LenProperties
<1> HIDE DEF t
<1>2. InSeq(t) = InSeq(s) \cup {Id(p)}
  BY <1>1 DEF InSeq, Id
<1>3. ASSUME EachOnce(s), Id(p) \notin InSeq(s) PROVE EachOnce(t)
  <2> SUFFICES ASSUME NEW i \in DOMAIN t, NEW j \in DOMAIN t, Id(t[i]) = Id(t[j])
               PROVE  i = j
    BY DEF EachOnce
  <2>1. \A k \in DOMAIN s : Id(s[k]) # Id(p)
    BY <1>3 DEF InSeq, Id
  <2>2. CASE i \in DOMAIN s /\ j \in DOMAIN s
    BY <1>1, <1>3, <2>2 DEF EachOnce
  <2>3. CASE i = Len(s) + 1 \/ j = Len(s) + 1
    BY <1>1, <2>1, <2>3
  <2> QED
    BY <1>1, <2>2, <2>3
<1> QED
  BY <1>2, <1>3 DEF t

\* What removing the oldest packet does.
LEMMA InSeqTail ==
    ASSUME NEW s \in Seq(PacketSet), s # <<>>
    PROVE  /\ InSeq(s) = InSeq(Tail(s)) \cup {Id(Head(s))}
           /\ EachOnce(s) => EachOnce(Tail(s)) /\ Id(Head(s)) \notin InSeq(Tail(s))
<1> DEFINE t == Tail(s)
<1>1. /\ Len(s) \in Nat /\ Len(s) >= 1 /\ DOMAIN s = 1..Len(s)
      /\ DOMAIN t = 1..(Len(s) - 1) /\ Head(s) = s[1]
      /\ \A i \in 1..(Len(s) - 1) : t[i] = s[i + 1]
  BY HeadTailProperties, LenProperties
<1> HIDE DEF t
<1>2. \A i \in DOMAIN s : i = 1 \/ (i - 1 \in DOMAIN t /\ t[i - 1] = s[i])
  BY <1>1
<1>3. \A i \in DOMAIN t : i + 1 \in DOMAIN s /\ t[i] = s[i + 1]
  BY <1>1
<1>4. 1 \in DOMAIN s
  BY <1>1
<1>5. InSeq(s) = InSeq(t) \cup {Id(Head(s))}
  <2>1. ASSUME NEW x \in InSeq(s) PROVE x \in InSeq(t) \cup {Id(Head(s))}
    <3>1. PICK i \in DOMAIN s : x = Id(s[i])
      BY DEF InSeq, Id
    <3> QED
      BY <1>1, <1>2, <3>1 DEF InSeq, Id
  <2>2. ASSUME NEW x \in InSeq(t) PROVE x \in InSeq(s)
    BY <1>3 DEF InSeq
  <2>3. Id(Head(s)) \in InSeq(s)
    BY <1>1, <1>4 DEF InSeq, Id
  <2> QED
    BY <2>1, <2>2, <2>3
<1>6. ASSUME EachOnce(s) PROVE EachOnce(t)
  <2> SUFFICES ASSUME NEW i \in DOMAIN t, NEW j \in DOMAIN t, Id(t[i]) = Id(t[j])
               PROVE  i = j
    BY DEF EachOnce
  <2>1. i + 1 = j + 1
    BY <1>3, <1>6 DEF EachOnce
  <2> QED
    BY <1>1, <2>1
<1>7. ASSUME EachOnce(s), Id(Head(s)) \in InSeq(t) PROVE FALSE
  <2>1. PICK i \in DOMAIN t : Id(Head(s)) = Id(t[i])
    BY <1>7 DEF InSeq, Id
  <2>2. i + 1 = 1
    BY <1>1, <1>3, <1>4, <1>7, <2>1 DEF EachOnce
  <2> QED
    BY <1>1, <2>2
<1> QED
  BY <1>5, <1>6, <1>7 DEF t

\* Draining n packets of a queue: the two parts hold what the queue held, and
\* nothing in common when it held every packet once.
LEMMA InSeqSplit ==
    ASSUME NEW s \in Seq(PacketSet), NEW n \in 0..Len(s)
    PROVE  LET a == SubSeq(s, 1, n)
               b == SubSeq(s, n + 1, Len(s))
           IN  /\ a \in Seq(PacketSet) /\ b \in Seq(PacketSet)
               /\ InSeq(s) = InSeq(a) \cup InSeq(b)
               /\ EachOnce(s) => /\ EachOnce(a) /\ EachOnce(b)
                                 /\ InSeq(a) \cap InSeq(b) = {}
<1> DEFINE a == SubSeq(s, 1, n)
           b == SubSeq(s, n + 1, Len(s))
<1>1. Len(s) \in Nat /\ n \in Nat /\ n <= Len(s) /\ DOMAIN s = 1..Len(s)
  BY LenProperties
<1>2. /\ a \in Seq(PacketSet) /\ DOMAIN a = 1..n
      /\ \A i \in 1..n : a[i] = s[i]
  BY <1>1, SubSeqProperties, LenProperties
<1>3. /\ b \in Seq(PacketSet) /\ DOMAIN b = 1..(Len(s) - n)
      /\ \A i \in 1..(Len(s) - n) : b[i] = s[n + i]
  BY <1>1, SubSeqProperties, LenProperties
<1> HIDE DEF a, b
<1>4. \A i \in DOMAIN a : i \in DOMAIN s /\ a[i] = s[i]
  BY <1>1, <1>2
<1>5. \A i \in DOMAIN b : n + i \in DOMAIN s /\ b[i] = s[n + i]
  BY <1>1, <1>3
<1>6. \A i \in DOMAIN s : \/ i \in DOMAIN a /\ a[i] = s[i]
                          \/ i - n \in DOMAIN b /\ b[i - n] = s[i]
  <2> SUFFICES ASSUME NEW i \in DOMAIN s, ~(i <= n)
               PROVE  i - n \in DOMAIN b /\ b[i - n] = s[i]
    BY <1>1, <1>2
  <2>1. i - n \in 1..(Len(s) - n) /\ n + (i - n) = i
    BY <1>1
  <2> QED
    BY <1>3, <2>1
<1>7. InSeq(s) = InSeq(a) \cup InSeq(b)
  <2>1. ASSUME NEW x \in InSeq(s) PROVE x \in InSeq(a) \cup InSeq(b)
    <3>1. PICK i \in DOMAIN s : x = Id(s[i])
      BY DEF InSeq, Id
    <3> QED
      BY <1>6, <3>1 DEF InSeq, Id
  <2>2. InSeq(a) \subseteq InSeq(s) /\ InSeq(b) \subseteq InSeq(s)
    BY <1>4, <1>5 DEF InSeq
  <2> QED
    BY <2>1, <2>2
<1>8. ASSUME EachOnce(s)
      PROVE  EachOnce(a) /\ EachOnce(b) /\ InSeq(a) \cap InSeq(b) = {}
  <2>1. EachOnce(a)
    BY <1>4, <1>8 DEF EachOnce
  <2>2. EachOnce(b)
    <3> SUFFICES ASSUME NEW i \in DOMAIN b, NEW j \in DOMAIN b, Id(b[i]) = Id(b[j])
                 PROVE  i = j
      BY DEF EachOnce
    <3>1. n + i = n + j
      BY <1>5, <1>8 DEF EachOnce
    <3> QED
      BY <1>1, <1>3, <3>1
  <2>3. ASSUME NEW i \in DOMAIN a, NEW j \in DOMAIN b, Id(a[i]) = Id(b[j])
        PROVE  FALSE
    <3>1. i = n + j
      BY <1>4, <1>5, <1>8, <2>3 DEF EachOnce
    <3> QED
      BY <1>1, <1>2, <1>3, <3>1
  <2>4. InSeq(a) \cap InSeq(b) = {}
    <3> SUFFICES ASSUME NEW x \in InSeq(a), x \in InSeq(b) PROVE FALSE
      OBVIOUS
    <3>1. PICK i \in DOMAIN a : x = Id(a[i])
      BY DEF InSeq, Id
    <3>2. PICK j \in DOMAIN b : x = Id(b[j])
      BY DEF InSeq, Id
    <3> QED
      BY <2>3, <3>1, <3>2
  <2> QED
    BY <2>1, <2>2, <2>4
<1> QED
  BY <1>2, <1>3, <1>7, <1>8 DEF a, b

\* Appending the drained packets to the virtqueue.
LEMMA InSeqConcat ==
    ASSUME NEW s \in Seq(PacketSet), NEW t \in Seq(PacketSet)
    PROVE  /\ InSeq(s \o t) = InSeq(s) \cup InSeq(t)
           /\ EachOnce(s) /\ EachOnce(t) /\ InSeq(s) \cap InSeq(t) = {}
                => EachOnce(s \o t)
<1> DEFINE u == s \o t
<1>1. /\ Len(s) \in Nat /\ DOMAIN s = 1..Len(s)
      /\ Len(t) \in Nat /\ DOMAIN t = 1..Len(t)
      /\ u \in Seq(PacketSet) /\ DOMAIN u = 1..(Len(s) + Len(t))
      /\ \A i \in 1..(Len(s) + Len(t)) :
            u[i] = IF i <= Len(s) THEN s[i] ELSE t[i - Len(s)]
  BY ConcatProperties, LenProperties
<1> HIDE DEF u
<1>2. \A i \in DOMAIN s : i \in DOMAIN u /\ u[i] = s[i]
  BY <1>1
<1>3. \A i \in DOMAIN t : Len(s) + i \in DOMAIN u /\ u[Len(s) + i] = t[i]
  BY <1>1
<1>4. \A i \in DOMAIN u : \/ i \in DOMAIN s /\ u[i] = s[i]
                          \/ i - Len(s) \in DOMAIN t /\ u[i] = t[i - Len(s)]
  BY <1>1
<1>5. InSeq(u) = InSeq(s) \cup InSeq(t)
  <2>1. InSeq(s) \subseteq InSeq(u) /\ InSeq(t) \subseteq InSeq(u)
    <3>1. ASSUME NEW x \in InSeq(s) PROVE x \in InSeq(u)
      BY <1>2 DEF InSeq
    <3>2. ASSUME NEW x \in InSeq(t) PROVE x \in InSeq(u)
      <4>1. PICK i \in DOMAIN t : x = Id(t[i])
        BY DEF InSeq, Id
      <4> QED
        BY <1>3, <4>1 DEF InSeq, Id
    <3> QED
      BY <3>1, <3>2
  <2>2. ASSUME NEW x \in InSeq(u) PROVE x \in InSeq(s) \cup InSeq(t)
    BY <1>4 DEF InSeq
  <2> QED
    BY <2>1, <2>2
<1>6. ASSUME EachOnce(s), EachOnce(t), InSeq(s) \cap InSeq(t) = {}
      PROVE  EachOnce(u)
  <2>1. \A i \in DOMAIN s, j \in DOMAIN t : Id(s[i]) # Id(t[j])
    BY <1>6 DEF InSeq, Id
  <2> SUFFICES ASSUME NEW i \in DOMAIN u, NEW j \in DOMAIN u, Id(u[i]) = Id(u[j])
               PROVE  i = j
    BY DEF EachOnce
  <2>2. CASE i \in DOMAIN s /\ j \in DOMAIN s
    BY <1>2, <1>6, <2>2 DEF EachOnce
  <2>3. CASE i \notin DOMAIN s /\ j \notin DOMAIN s
    <3>1. i - Len(s) = j - Len(s)
      BY <1>4, <1>6, <2>3 DEF EachOnce
    <3> QED
      BY <1>1, <3>1
  <2>4. CASE ~(i \in DOMAIN s <=> j \in DOMAIN s)
    BY <1>2, <1>4, <2>1, <2>4
  <2> QED
    BY <2>2, <2>3, <2>4
<1> QED
  BY <1>5, <1>6 DEF u

\* Whoever takes a packet for a connection, by whichever queue: its identity is
\* new, so the step accepts it and no queue holds a packet twice.
LEMMA TakePacket ==
    ASSUME IInv, QueuedOnce, NEW c \in Conn, NEW p \in PacketSet,
           Id(p) = <<c, nextSeq[c] + 1>>, nextSeq[c] < MaxSeq,
           nextSeq' = [nextSeq EXCEPT ![c] = @ + 1],
           \/ hw' = Append(hw, p) /\ pending' = pending
           \/ pending' = Append(pending, p) /\ hw' = hw,
           wire' = wire
    PROVE  QueuedOnce' /\ Chan!ChanNext
<1>1. TypeOK
  BY DEF IInv
<1>2. hw \in Seq(PacketSet) /\ pending \in Seq(PacketSet) /\ nextSeq \in [Conn -> Nat]
  BY <1>1 DEF TypeOK
<1>3. Id(p) \notin Accepted
  BY <1>2 DEF QueuedOnce, Numbered
<1>4. Accepted' = Accepted \cup {Id(p)}
  <2>1. CASE hw' = Append(hw, p) /\ pending' = pending
    <3>1. InSeq(hw') = InSeq(hw) \cup {Id(p)} /\ InSeq(wire') = InSeq(wire)
      BY <1>2, <2>1, InSeqAppend
    <3> QED
      BY <2>1, <3>1 DEF Accepted
  <2>2. CASE pending' = Append(pending, p) /\ hw' = hw
    <3>1. InSeq(pending') = InSeq(pending) \cup {Id(p)} /\ InSeq(wire') = InSeq(wire)
      BY <1>2, <2>2, InSeqAppend
    <3> QED
      BY <2>2, <3>1 DEF Accepted
  <2> QED
    BY <2>1, <2>2
<1>5. EachOnce(pending)' /\ EachOnce(hw)' /\ Apart'
  <2>1. CASE hw' = Append(hw, p) /\ pending' = pending
    <3>1. InSeq(hw') = InSeq(hw) \cup {Id(p)} /\ EachOnce(hw') /\ InSeq(wire') = InSeq(wire)
      BY <1>2, <1>3, <2>1, InSeqAppend DEF QueuedOnce, Accepted
    <3> QED
      BY <1>3, <2>1, <3>1 DEF QueuedOnce, Accepted, Apart
  <2>2. CASE pending' = Append(pending, p) /\ hw' = hw
    <3>1. /\ InSeq(pending') = InSeq(pending) \cup {Id(p)} /\ EachOnce(pending')
          /\ InSeq(wire') = InSeq(wire)
      BY <1>2, <1>3, <2>2, InSeqAppend DEF QueuedOnce, Accepted
    <3> QED
      BY <1>3, <2>2, <3>1 DEF QueuedOnce, Accepted, Apart
  <2> QED
    BY <2>1, <2>2
<1>6. Numbered'
  <2> SUFFICES ASSUME NEW x \in Accepted' PROVE x[2] <= nextSeq'[x[1]]
    BY DEF Numbered
  <2>1. CASE x = Id(p)
    BY <1>2, <2>1
  <2>2. CASE x \in Accepted
    <3>1. x[1] \in Conn /\ x[2] \in Nat /\ x[2] <= nextSeq[x[1]]
      <4>1. x[2] <= nextSeq[x[1]]
        BY <2>2 DEF QueuedOnce, Numbered
      <4>2. PICK q \in PacketSet : x = Id(q)
        BY <1>1, <2>2 DEF TypeOK, Accepted, InSeq, Id
      <4> QED
        BY <4>1, <4>2 DEF PacketSet, Id
    <3> QED
      BY <1>2, <3>1
  <2> QED
    BY <1>4, <2>1, <2>2
<1>7. Id(p) \in Conn \X (1..MaxSeq)
  BY <1>2, TxAssumption
<1>8. Chan!Accept(Id(p))
  BY <1>3, <1>4 DEF Chan!Accept, Accepted
<1> QED
  BY <1>5, <1>6, <1>7, <1>8 DEF QueuedOnce, Chan!ChanNext

\* A step that moves nothing between the queues maps to a stutter.
LEMMA LeavesQueues ==
    ASSUME QueuedOnce, UNCHANGED <<hw, pending, wire, nextSeq>>
    PROVE  QueuedOnce' /\ UNCHANGED Chan!chanVars
BY DEF QueuedOnce, EachOnce, Apart, Numbered, Accepted, InSeq, Chan!chanVars

\* The identities of a packet of each kind.
LEMMA NewPacketId ==
    ASSUME NEW c \in Conn, NEW k, NEW b
    PROVE  Id(NewPacket(c, k, b)) = <<c, nextSeq[c] + 1>>
BY DEF Id, NewPacket

\* The device takes the oldest packet of the virtqueue, which it has not had.
LEMMA DeviceConsumeOnce ==
    ASSUME OnceInv, DeviceConsume
    PROVE  QueuedOnce' /\ Chan!ChanNext
<1>1. PICK h \in PacketSet : h = Head(hw)
  BY HeadTailProperties DEF OnceInv, IInv, TypeOK, DeviceConsume
<1>2. /\ hw \in Seq(PacketSet) /\ wire \in Seq(PacketSet) /\ hw # <<>>
      /\ wire' = Append(wire, h) /\ hw' = Tail(hw) /\ pending' = pending
      /\ nextSeq' = nextSeq
  BY <1>1 DEF OnceInv, IInv, TypeOK, DeviceConsume
<1>3. InSeq(wire') = InSeq(wire) \cup {Id(h)}
  BY <1>1, <1>2, InSeqAppend
<1>4. InSeq(hw) = InSeq(hw') \cup {Id(h)} /\ EachOnce(hw') /\ Id(h) \notin InSeq(hw')
  BY <1>1, <1>2, InSeqTail DEF OnceInv, QueuedOnce
<1>5. Accepted' = Accepted
  BY <1>2, <1>3, <1>4 DEF Accepted
<1>6. QueuedOnce'
  BY <1>2, <1>3, <1>4, <1>5 DEF OnceInv, QueuedOnce, Apart, Numbered, EachOnce
<1>7. Id(h) \in Accepted /\ Id(h) \notin InSeq(wire)
  BY <1>4 DEF Accepted, OnceInv, QueuedOnce, Apart
<1>8. Id(h) \in Conn \X (1..MaxSeq)
  <2>1. h.conn \in Conn /\ h.seq \in Nat \ {0} /\ h.seq <= nextSeq[h.conn]
    BY <1>1, <1>7 DEF OnceInv, QueuedOnce, Numbered, Id, PacketSet
  <2>2. nextSeq[h.conn] \in Nat /\ nextSeq[h.conn] <= MaxSeq
    <3>1. nextSeq[h.conn] \in Nat
      BY <2>1 DEF OnceInv, IInv, TypeOK
    <3>2. nextSeq[h.conn] + (IF pc[h.conn] = "idle" THEN 0 ELSE 1) <= MaxSeq
      BY <2>1 DEF OnceInv, Room
    <3> QED
      BY <3>1, <3>2, TxAssumption
  <2> QED
    BY <2>1, <2>2, TxAssumption DEF Id
<1>9. Chan!Transmit(Id(h))
  <2> DEFINE W == [i \in DOMAIN wire |-> Id(wire[i])]
             V == [i \in DOMAIN wire' |-> Id(wire'[i])]
  <2>1. V = Append(W, Id(h))
    <3>1. /\ Len(wire) \in Nat /\ DOMAIN wire = 1..Len(wire)
          /\ DOMAIN wire' = 1..(Len(wire) + 1)
          /\ \A i \in 1..Len(wire) : wire'[i] = wire[i]
          /\ wire'[Len(wire) + 1] = h
      BY <1>1, <1>2, AppendProperties, LenProperties
    <3>2. W \in Seq({Id(wire[i]) : i \in DOMAIN wire}) /\ Len(W) = Len(wire)
      BY <3>1
    <3> QED
      BY <3>1, <3>2
  <2>2. InSeq(wire) = {W[i] : i \in DOMAIN W}
    BY DEF InSeq, Id
  <2>3. Id(h) \in Accepted \ {W[i] : i \in DOMAIN W}
    BY <1>7, <2>2
  <2> QED
    BY <1>5, <2>1, <2>3 DEF Chan!Transmit, Chan!OnWire, Accepted, Id
<1> QED
  BY <1>6, <1>8, <1>9 DEF Chan!ChanNext

\* process_tx moves packets from one queue to the other: the caller of the
\* driver sees nothing.
LEMMA ProcessTxOnce ==
    ASSUME OnceInv, ProcessTx
    PROVE  QueuedOnce' /\ UNCHANGED Chan!chanVars
<1> DEFINE a == SubSeq(pending, 1, Drainable)
           b == SubSeq(pending, Drainable + 1, Len(pending))
<1>1. /\ hw \in Seq(PacketSet) /\ pending \in Seq(PacketSet)
      /\ hw' = hw \o a /\ pending' = b /\ wire' = wire /\ nextSeq' = nextSeq
  BY DEF OnceInv, IInv, TypeOK, ProcessTx, AfterDrain
<1>2. Drainable \in 0..Len(pending)
  BY <1>1, FreeDescsMeaning, LenProperties DEF Drainable, OnceInv, IInv
<1>3. /\ a \in Seq(PacketSet) /\ InSeq(pending) = InSeq(a) \cup InSeq(b)
      /\ EachOnce(a) /\ EachOnce(b) /\ InSeq(a) \cap InSeq(b) = {}
  BY <1>1, <1>2, InSeqSplit DEF OnceInv, QueuedOnce
<1> HIDE DEF a, b
<1>4. InSeq(hw') = InSeq(hw) \cup InSeq(a)
  BY <1>1, <1>3, InSeqConcat
<1>5. EachOnce(hw')
  BY <1>1, <1>3, InSeqConcat DEF OnceInv, QueuedOnce, Apart
<1>6. Accepted' = Accepted
  BY <1>1, <1>3, <1>4 DEF Accepted
<1>7. QueuedOnce'
  BY <1>1, <1>3, <1>4, <1>5, <1>6 DEF OnceInv, QueuedOnce, Apart, Numbered, EachOnce
<1> QED
  BY <1>1, <1>6, <1>7 DEF Accepted, Chan!chanVars

\* A send numbers its packet with room to spare, whoever else numbers packets
\* of the connection meanwhile.
LEMMA StepRoom ==
    ASSUME OnceInv, [Next]_vars
    PROVE  Room'
<1>1. /\ nextSeq \in [Conn -> Nat] /\ MaxSeq \in Nat
      /\ pc \in [Conn -> {"idle", "reserve", "back", "buildDirect", "buildPending",
                         "submitDirect", "submitPending"}]
  BY TxAssumption DEF OnceInv, IInv, TypeOK
<1> SUFFICES ASSUME NEW d \in Conn
             PROVE  nextSeq'[d] + (IF pc'[d] = "idle" THEN 0 ELSE 1) <= MaxSeq
  BY DEF Room
<1>2. nextSeq[d] + (IF pc[d] = "idle" THEN 0 ELSE 1) <= MaxSeq
  BY DEF OnceInv, Room
<1>3. ASSUME NEW c \in Conn, NEW len \in Lens, PrepareSend(c, len)
      PROVE  nextSeq'[d] + (IF pc'[d] = "idle" THEN 0 ELSE 1) <= MaxSeq
  <2>1. nextSeq' = nextSeq /\ nextSeq[c] < MaxSeq /\ (d # c => pc'[d] = pc[d])
    BY <1>1, <1>3 DEF PrepareSend
  <2> QED
    BY <1>1, <1>2, <2>1
<1>4. ASSUME NEW c \in Conn, SenderStep(c)
      PROVE  nextSeq'[d] + (IF pc'[d] = "idle" THEN 0 ELSE 1) <= MaxSeq
  <2>1. pc[c] # "idle" /\ (d # c => pc'[d] = pc[d] /\ nextSeq'[d] = nextSeq[d])
    BY <1>1, <1>4 DEF SenderStep, ReserveTxBytes, GiveBack, BuildPacket, BuildFails,
                      SubmitDirect, SubmitPending
  <2>2. \/ nextSeq'[c] = nextSeq[c]
        \/ nextSeq'[c] = nextSeq[c] + 1 /\ pc'[c] = "idle"
    BY <1>1, <1>4 DEF SenderStep, ReserveTxBytes, GiveBack, BuildPacket, BuildFails,
                      SubmitDirect, SubmitPending
  <2> QED
    BY <1>1, <1>2, <2>1, <2>2
<1>5. ASSUME NEW c \in Conn, SendShutdown(c) \/ SendReply(c)
      PROVE  nextSeq'[d] + (IF pc'[d] = "idle" THEN 0 ELSE 1) <= MaxSeq
  <2>1. nextSeq' = [nextSeq EXCEPT ![c] = @ + 1] /\ pc' = pc
    BY <1>5 DEF SendShutdown, SendReply, TrySend, NewPacket, senderVars
  <2>2. nextSeq[c] + (IF pc[c] = "idle" THEN 0 ELSE 1) < MaxSeq
    BY <1>1, <1>5 DEF SendShutdown, SendReply
  <2> QED
    BY <1>1, <1>2, <2>1, <2>2
<1>6. CASE DeviceConsume \/ ProcessTx \/ RunCompletion \/ UNCHANGED vars
  BY <1>2, <1>6 DEF DeviceConsume, ProcessTx, RunCompletion, senderVars, vars
<1> QED
  BY <1>3, <1>4, <1>5, <1>6 DEF Next

\* Every step of the driver accepts a packet, transmits one, or is invisible.
LEMMA StepOnce ==
    ASSUME OnceInv, [Next]_vars
    PROVE  QueuedOnce' /\ [Chan!ChanNext]_Chan!chanVars
<1> USE DEF OnceInv
<1>1. ASSUME NEW c \in Conn, NEW len \in Lens, PrepareSend(c, len)
      PROVE  QueuedOnce' /\ [Chan!ChanNext]_Chan!chanVars
  BY <1>1, LeavesQueues DEF PrepareSend
<1>2. ASSUME NEW c \in Conn,
             ReserveTxBytes(c) \/ GiveBack(c) \/ BuildPacket(c) \/ BuildFails(c)
      PROVE  QueuedOnce' /\ [Chan!ChanNext]_Chan!chanVars
  BY <1>2, LeavesQueues DEF ReserveTxBytes, GiveBack, BuildPacket, BuildFails, queueVars
<1>3. ASSUME NEW c \in Conn, SubmitDirect(c) \/ SubmitPending(c)
      PROVE  QueuedOnce' /\ [Chan!ChanNext]_Chan!chanVars
  <2>1. nextSeq[c] < MaxSeq
    <3>1. nextSeq[c] + 1 <= MaxSeq
      BY <1>3 DEF Room, SubmitDirect, SubmitPending
    <3> QED
      BY <3>1, TxAssumption DEF IInv, TypeOK
  <2>2. /\ NewPacket(c, "rw", 0) \in PacketSet
        /\ NewPacket(c, "rw", held[c]) \in PacketSet
    BY NewPacketType DEF Kind, IInv, TypeOK
  <2> QED
    BY <1>3, <2>1, <2>2, NewPacketId, TakePacket DEF SubmitDirect, SubmitPending
<1>4. ASSUME NEW c \in Conn, SendShutdown(c) \/ SendReply(c)
      PROVE  QueuedOnce' /\ [Chan!ChanNext]_Chan!chanVars
  <2>1. nextSeq[c] < MaxSeq
    BY <1>4, TxAssumption DEF SendShutdown, SendReply, IInv, TypeOK
  <2>2. PICK k \in Kind : TrySend(NewPacket(c, k, 0))
    BY <1>4 DEF SendShutdown, SendReply, Kind
  <2>3. NewPacket(c, k, 0) \in PacketSet /\ NewPacket(c, k, 0).conn = c
    BY NewPacketType DEF IInv, NewPacket
  <2> QED
    BY <2>1, <2>2, <2>3, NewPacketId, TakePacket DEF TrySend
<1>5. CASE DeviceConsume
  BY <1>5, DeviceConsumeOnce
<1>6. CASE ProcessTx
  BY <1>6, ProcessTxOnce
<1>7. CASE RunCompletion \/ UNCHANGED vars
  BY <1>7, LeavesQueues DEF RunCompletion, vars, queueVars
<1> QED
  BY <1>1, <1>2, <1>3, <1>4, <1>5, <1>6, <1>7 DEF Next, SenderStep

\* The driver implements the exactly-once channel for every queue size, budget
\* and number of connections: whatever the senders, the RX taskless, the device
\* and process_tx do in between, no packet is lost from the queues, handed to
\* the device twice, or handed over without having been accepted.
THEOREM ImplementsChannel == Spec => ExactlyOnce
<1>1. Init => OnceInv /\ Chan!ChanInit
  <2> SUFFICES ASSUME Init PROVE OnceInv /\ Chan!ChanInit
    OBVIOUS
  <2>1. IInv
    BY InitIInv
  <2>2. InSeq(pending) = {} /\ InSeq(hw) = {} /\ InSeq(wire) = {}
    BY DEF Init, InSeq
  <2>3. QueuedOnce
    BY <2>2 DEF Init, QueuedOnce, EachOnce, Apart, Numbered, Accepted
  <2>4. Room
    BY TxAssumption DEF Init, Room
  <2>5. Chan!ChanInit
    BY <2>2 DEF Init, Chan!ChanInit
  <2> QED
    BY <2>1, <2>3, <2>4, <2>5 DEF OnceInv
<1>2. OnceInv /\ [Next]_vars => OnceInv' /\ [Chan!ChanNext]_Chan!chanVars
  BY StepIInv, StepOnce, StepRoom DEF OnceInv
<1> QED
  BY <1>1, <1>2, PTL DEF Spec, ExactlyOnce, Chan!ChanSpec
-------------------------------------------------------------------------------
(* The software budget.  BytesIn is a recursive sum; what it does on a     *)
(* longer or a shorter queue follows from the one function that satisfies  *)
(* its recursion, whose existence and uniqueness are shown by looking at a *)
(* shortest counterexample.                                                *)

Bytes(p, c) == IF p.conn = c THEN p.bytes ELSE 0

\* f[n] is the sum over the first n packets of s.
IsSum(f, s, c) ==
    f = [n \in 0..Len(s) |-> IF n = 0 THEN 0 ELSE f[n - 1] + Bytes(s[n], c)]

\* Least-number principle.
LEMMA LeastNat ==
    ASSUME NEW T \in SUBSET Nat, T # {}
    PROVE  \E n \in T : \A m \in T : n <= m
<1>1. PICK n \in T : \A m \in T : <<m, n>> \notin OpToRel(<, Nat)
  BY NatLessThanWellFounded, WFMin
<1>2. \A m \in T : ~(m < n)
  BY <1>1 DEF OpToRel
<1> QED
  BY <1>2

LEMMA BytesType ==
    ASSUME NEW p \in PacketSet, NEW c \in Conn
    PROVE  Bytes(p, c) \in Nat
BY DEF Bytes, PacketSet

\* A sum of one more packet.
LEMMA SumExtends ==
    ASSUME NEW s \in Seq(PacketSet), NEW c \in Conn, NEW p \in PacketSet,
           NEW f \in [0..Len(s) -> Int], IsSum(f, s, c)
    PROVE  \E g \in [0..Len(Append(s, p)) -> Int] :
              /\ IsSum(g, Append(s, p), c)
              /\ g[Len(Append(s, p))] = f[Len(s)] + Bytes(p, c)
<1> DEFINE t == Append(s, p)
           g == [n \in 0..(Len(s) + 1) |->
                    IF n <= Len(s) THEN f[n] ELSE f[Len(s)] + Bytes(p, c)]
<1>1. /\ Len(s) \in Nat /\ Len(t) = Len(s) + 1
      /\ \A i \in 1..Len(s) : t[i] = s[i]
      /\ t[Len(s) + 1] = p
  BY AppendProperties, LenProperties
<1>2. Bytes(p, c) \in Int
  BY BytesType
<1>3. g \in [0..Len(t) -> Int]
  BY <1>1, <1>2
<1> HIDE DEF t
<1>4. ASSUME NEW n \in 0..Len(t), n # 0
      PROVE  g[n] = g[n - 1] + Bytes(t[n], c)
  <2>1. CASE n <= Len(s)
    BY <1>1, <1>4, <2>1 DEF IsSum
  <2>2. CASE n = Len(s) + 1
    BY <1>1, <2>2
  <2> QED
    BY <1>1, <2>1, <2>2
<1>5. g[0] = 0
  BY <1>1 DEF IsSum
<1>6. IsSum(g, t, c)
  BY <1>1, <1>4, <1>5 DEF IsSum
<1>7. g[Len(t)] = f[Len(s)] + Bytes(p, c)
  BY <1>1
<1> HIDE DEF g
<1> QED
  BY <1>3, <1>6, <1>7 DEF t

\* Every queue has its sum.
LEMMA SumExists ==
    ASSUME NEW c \in Conn, NEW s \in Seq(PacketSet)
    PROVE  \E f \in [0..Len(s) -> Int] : IsSum(f, s, c)
<1> DEFINE Has(t) == \E f \in [0..Len(t) -> Int] : IsSum(f, t, c)
           T == {n \in Nat : \E t \in Seq(PacketSet) : Len(t) = n /\ ~Has(t)}
<1> SUFFICES T = {}
  BY LenProperties
<1> SUFFICES ASSUME T # {} PROVE FALSE
  OBVIOUS
<1>1. PICK n \in T : \A m \in T : n <= m
  BY LeastNat
<1>2. PICK t \in Seq(PacketSet) : Len(t) = n /\ ~Has(t)
  BY <1>1
<1>3. CASE t = <<>>
  <2> DEFINE f == [k \in 0..0 |-> 0]
  <2>1. f \in [0..Len(t) -> Int] /\ IsSum(f, t, c)
    BY <1>3 DEF IsSum
  <2> HIDE DEF f
  <2> QED
    BY <1>2, <2>1
<1>4. CASE t # <<>>
  <2>1. PICK u \in Seq(PacketSet), p \in PacketSet : t = Append(u, p)
    BY <1>4, SequenceEmptyOrAppend
  <2>2. Len(u) \in Nat /\ Len(t) = Len(u) + 1
    BY <2>1, AppendProperties, LenProperties
  <2>3. Has(u)
    BY <1>1, <1>2, <2>2
  <2>4. Has(t)
    BY <2>1, <2>3, SumExtends
  <2> QED
    BY <1>2, <2>4
<1> QED
  BY <1>3, <1>4

\* And only one.
LEMMA SumUnique ==
    ASSUME NEW c \in Conn, NEW s \in Seq(PacketSet),
           NEW f, IsSum(f, s, c), NEW g, IsSum(g, s, c)
    PROVE  f[Len(s)] = g[Len(s)]
<1> DEFINE T == {n \in 0..Len(s) : f[n] # g[n]}
<1>0. Len(s) \in Nat
  BY LenProperties
<1> SUFFICES T = {}
  BY <1>0
<1> SUFFICES ASSUME T # {} PROVE FALSE
  OBVIOUS
<1>1. PICK n \in T : \A m \in T : n <= m
  <2>1. T \in SUBSET Nat
    BY <1>0
  <2> HIDE DEF T
  <2> QED
    BY <2>1, LeastNat
<1>2. n # 0
  BY <1>1, <1>0 DEF IsSum
<1>3. f[n - 1] = g[n - 1]
  BY <1>0, <1>1, <1>2
<1>4. f[n] = f[n - 1] + Bytes(s[n], c) /\ g[n] = g[n - 1] + Bytes(s[n], c)
  BY <1>0, <1>1, <1>2 DEF IsSum
<1> QED
  BY <1>1, <1>3, <1>4

\* BytesIn is the value any such function ends with.
LEMMA BytesInIsSum ==
    ASSUME NEW c \in Conn, NEW s \in Seq(PacketSet),
           NEW f \in [0..Len(s) -> Int], IsSum(f, s, c)
    PROVE  BytesIn(s, c) = f[Len(s)] /\ BytesIn(s, c) \in Int
<1> DEFINE h == CHOOSE h : IsSum(h, s, c)
<1>0. Len(s) \in Nat
  BY LenProperties
<1>1. IsSum(h, s, c)
  BY SumExists
<1>2. BytesIn(s, c) = h[Len(s)]
  BY DEF BytesIn, IsSum, Bytes
<1> HIDE DEF h
<1>3. BytesIn(s, c) = f[Len(s)]
  BY <1>1, <1>2, SumUnique
<1> QED
  BY <1>0, <1>3

LEMMA BytesInEmpty ==
    ASSUME NEW c \in Conn
    PROVE  BytesIn(<<>>, c) = 0
<1> DEFINE s == <<>>
<1>1. s \in Seq(PacketSet) /\ Len(s) = 0
  OBVIOUS
<1> HIDE DEF s
<1>2. PICK f \in [0..Len(s) -> Int] : IsSum(f, s, c)
  BY <1>1, SumExists
<1>3. f[Len(s)] = 0
  BY <1>1, <1>2 DEF IsSum
<1>4. BytesIn(s, c) = 0
  BY <1>1, <1>2, <1>3, BytesInIsSum
<1> QED
  BY <1>4 DEF s

LEMMA BytesInAppend ==
    ASSUME NEW c \in Conn, NEW s \in Seq(PacketSet), NEW p \in PacketSet
    PROVE  /\ BytesIn(s, c) \in Int
           /\ BytesIn(Append(s, p), c) = BytesIn(s, c) + Bytes(p, c)
<1>1. PICK f \in [0..Len(s) -> Int] : IsSum(f, s, c)
  BY SumExists
<1>2. PICK g \in [0..Len(Append(s, p)) -> Int] :
              /\ IsSum(g, Append(s, p), c)
              /\ g[Len(Append(s, p))] = f[Len(s)] + Bytes(p, c)
  BY <1>1, SumExtends
<1>3. Append(s, p) \in Seq(PacketSet)
  BY AppendProperties
<1> QED
  BY <1>1, <1>2, <1>3, BytesInIsSum

\* A queue cut in two carries what its parts carry.
LEMMA BytesInSplit ==
    ASSUME NEW c \in Conn, NEW s \in Seq(PacketSet), NEW n \in 0..Len(s)
    PROVE  /\ BytesIn(SubSeq(s, 1, n), c) \in Int
           /\ BytesIn(SubSeq(s, n + 1, Len(s)), c) \in Int
           /\ BytesIn(s, c) = BytesIn(SubSeq(s, 1, n), c)
                                + BytesIn(SubSeq(s, n + 1, Len(s)), c)
<1> DEFINE a == SubSeq(s, 1, n)
           b == SubSeq(s, n + 1, Len(s))
<1>1. Len(s) \in Nat /\ n \in Nat /\ n <= Len(s)
  BY LenProperties
<1>2. /\ a \in Seq(PacketSet) /\ Len(a) = n
      /\ \A i \in 1..n : a[i] = s[i]
  BY <1>1, SubSeqProperties
<1>3. /\ b \in Seq(PacketSet) /\ Len(b) = Len(s) - n
      /\ \A i \in 1..(Len(s) - n) : b[i] = s[n + i]
  BY <1>1, SubSeqProperties
<1>4. PICK f \in [0..Len(s) -> Int] : IsSum(f, s, c)
  BY SumExists
<1>5. f[0] = 0 /\ \A i \in 1..Len(s) : f[i] = f[i - 1] + Bytes(s[i], c)
  BY <1>1, <1>4 DEF IsSum
<1> HIDE DEF a, b
<1>6. BytesIn(a, c) = f[n]
  <2> DEFINE g == [i \in 0..n |-> f[i]]
  <2>1. g \in [0..Len(a) -> Int]
    BY <1>1, <1>2
  <2>2. IsSum(g, a, c)
    BY <1>1, <1>2, <1>5 DEF IsSum
  <2>3. g[Len(a)] = f[n]
    BY <1>1, <1>2
  <2> HIDE DEF g
  <2> QED
    BY <1>2, <2>1, <2>2, <2>3, BytesInIsSum
<1>7. BytesIn(b, c) = f[Len(s)] - f[n]
  <2> DEFINE g == [i \in 0..(Len(s) - n) |-> f[n + i] - f[n]]
  <2>0. \A i \in 0..(Len(s) - n) : n + i \in 0..Len(s) /\ f[n + i] \in Int
    BY <1>1
  <2>1. g \in [0..Len(b) -> Int]
    <3>1. f[n] \in Int
      BY <1>1
    <3>2. \A i \in 0..(Len(s) - n) : f[n + i] - f[n] \in Int
      BY <2>0, <3>1
    <3> QED
      BY <1>3, <3>2
  <2>2. ASSUME NEW i \in 1..(Len(s) - n) PROVE g[i] = g[i - 1] + Bytes(b[i], c)
    <3>1. f[n + i] = f[n + i - 1] + Bytes(s[n + i], c)
      BY <1>1, <1>5
    <3>2. /\ f[n + i] \in Int /\ f[n + i - 1] \in Int /\ f[n] \in Int
          /\ Bytes(s[n + i], c) \in Int
      <4>1. n + i \in 1..Len(s) /\ n + i - 1 \in 0..Len(s)
        BY <1>1
      <4>2. s[n + i] \in PacketSet
        BY <4>1, ElementOfSeq
      <4>3. f[n + i] \in Int /\ f[n + i - 1] \in Int /\ f[n] \in Int
        BY <4>1
      <4>4. Bytes(s[n + i], c) \in Nat
        BY <4>2, BytesType
      <4> QED
        BY <4>3, <4>4
    <3>3. g[i] = f[n + i] - f[n] /\ g[i - 1] = f[n + i - 1] - f[n]
      <4>1. i \in 0..(Len(s) - n) /\ i - 1 \in 0..(Len(s) - n) /\ n + (i - 1) = n + i - 1
        BY <1>1
      <4> QED
        BY <4>1
    <3> HIDE DEF g
    <3> QED
      BY <1>1, <1>3, <3>1, <3>2, <3>3
  <2>3. DOMAIN g = 0..Len(b) /\ g[0] = 0 /\ g = [i \in 0..Len(b) |-> g[i]]
    BY <1>1, <1>3
  <2>4. g[Len(b)] = f[Len(s)] - f[n]
    BY <1>1, <1>3
  <2> HIDE DEF g
  <2>5. \A i \in 0..Len(b) : g[i] = IF i = 0 THEN 0 ELSE g[i - 1] + Bytes(b[i], c)
    <3> SUFFICES ASSUME NEW i \in 0..Len(b), i # 0
                 PROVE  g[i] = g[i - 1] + Bytes(b[i], c)
      BY <2>3
    <3>1. i \in 1..(Len(s) - n)
      BY <1>1, <1>3
    <3> QED
      BY <2>2, <3>1
  <2>6. IsSum(g, b, c)
    BY <2>3, <2>5 DEF IsSum
  <2> QED
    BY <1>3, <2>1, <2>4, <2>6, BytesInIsSum
<1>8. BytesIn(s, c) = f[Len(s)]
  BY <1>4, BytesInIsSum
<1>9. f[n] \in Int /\ f[Len(s)] \in Int
  BY <1>1
<1> QED
  BY <1>6, <1>7, <1>8, <1>9 DEF a, b

\* Completions run one at a time, oldest first.
LEMMA BytesInTail ==
    ASSUME NEW c \in Conn, NEW s \in Seq(PacketSet), s # <<>>
    PROVE  /\ BytesIn(Tail(s), c) \in Int
           /\ BytesIn(s, c) = Bytes(Head(s), c) + BytesIn(Tail(s), c)
<1>1. Len(s) \in Nat /\ 1 \in 0..Len(s)
  BY LenProperties, EmptySeq
<1>2. SubSeq(s, 1 + 1, Len(s)) = Tail(s)
  BY TailIsSubSeq
<1>3. SubSeq(s, 1, 1) = Append(<<>>, Head(s)) /\ Head(s) \in PacketSet
  <2>1. Head(s) = s[1] /\ Head(s) \in PacketSet
    BY HeadTailProperties
  <2>2. /\ SubSeq(s, 1, 1) \in Seq(PacketSet) /\ Len(SubSeq(s, 1, 1)) = 1
        /\ SubSeq(s, 1, 1)[1] = s[1]
    BY <1>1, SubSeqProperties, ElementOfSeq
  <2>3. /\ Append(<<>>, Head(s)) \in Seq(PacketSet) /\ Len(Append(<<>>, Head(s))) = 1
        /\ Append(<<>>, Head(s))[1] = Head(s)
    BY <2>1
  <2> DEFINE a == SubSeq(s, 1, 1)
             e == Append(<<>>, Head(s))
  <2>4. /\ a \in Seq(PacketSet) /\ e \in Seq(PacketSet) /\ Len(a) = Len(e)
        /\ \A i \in 1..Len(a) : a[i] = e[i]
    BY <2>1, <2>2, <2>3
  <2> HIDE DEF a, e
  <2>5. a = e
    BY <2>4, SeqEqual
  <2> QED
    BY <2>1, <2>5 DEF a, e
<1>4. BytesIn(SubSeq(s, 1, 1), c) = Bytes(Head(s), c)
  <2> DEFINE e == <<>>
  <2>1. e \in Seq(PacketSet) /\ BytesIn(e, c) = 0
    BY BytesInEmpty
  <2>2. SubSeq(s, 1, 1) = Append(e, Head(s)) /\ Head(s) \in PacketSet
    BY <1>3
  <2>3. Bytes(Head(s), c) \in Nat
    BY <2>2, BytesType
  <2> HIDE DEF e
  <2>4. BytesIn(Append(e, Head(s)), c) = BytesIn(e, c) + Bytes(Head(s), c)
    BY <2>1, <2>2, BytesInAppend
  <2>5. BytesIn(SubSeq(s, 1, 1), c) = BytesIn(e, c) + Bytes(Head(s), c)
    BY <2>2, <2>4, Zenon
  <2> QED
    BY <2>1, <2>3, <2>5
<1> QED
  BY <1>1, <1>2, <1>4, BytesInSplit

\* Only a send between reserve_tx_bytes and submit_prepared holds bytes.
HeldOnlyInSend ==
    \A c \in Conn : pc[c] \notin {"back", "buildPending", "submitPending"} => held[c] = 0

BudgetInv == IInv /\ BudgetConserved /\ HeldOnlyInSend

\* The budget of one connection, and what its parts are.
Balance(d) == avail[d] + held[d] + BytesIn(pending, d) + BytesIn(completions, d)

LEMMA BalanceTypes ==
    ASSUME TypeOK, NEW d \in Conn
    PROVE  /\ avail[d] \in Nat /\ held[d] \in Nat
           /\ BytesIn(pending, d) \in Int /\ BytesIn(completions, d) \in Int
<1>1. pending \in Seq(PacketSet) /\ completions \in Seq(PacketSet)
  BY DEF TypeOK
<1>2. \A s \in Seq(PacketSet) : BytesIn(s, d) \in Int
  BY SumExists, BytesInIsSum
<1> QED
  BY <1>1, <1>2 DEF TypeOK

\* Steps of a sender outside the TX lock move bytes between avail and held.
LEMMA SenderBalance ==
    ASSUME BudgetInv, NEW c \in Conn, NEW d \in Conn,
           ReserveTxBytes(c) \/ GiveBack(c) \/ BuildPacket(c) \/ BuildFails(c)
    PROVE  /\ Balance(d)' = Balance(d)
           /\ pc'[d] \notin {"back", "buildPending", "submitPending"} => held'[d] = 0
<1> USE DEF BudgetInv, IInv
<1>1. /\ avail \in [Conn -> Nat] /\ held \in [Conn -> Nat]
      /\ pc \in [Conn -> {"idle", "reserve", "back", "buildDirect", "buildPending",
                         "submitDirect", "submitPending"}]
      /\ pending' = pending /\ completions' = completions
      /\ BytesIn(pending, d) \in Int /\ BytesIn(completions, d) \in Int
  BY BalanceTypes DEF TypeOK, ReserveTxBytes, GiveBack, BuildPacket, BuildFails, queueVars
<1>2. pc[d] \notin {"back", "buildPending", "submitPending"} => held[d] = 0
  BY DEF HeldOnlyInSend
<1>3. CASE ReserveTxBytes(c)
  <2>1. want[c] \in Nat
    BY TxAssumption DEF TypeOK
  <2>2. Granted(c) \in Nat /\ avail[c] - Granted(c) \in Nat
    BY <1>1, <2>1 DEF Granted
  <2>3. held[c] = 0
    BY <1>3 DEF ReserveTxBytes, HeldOnlyInSend
  <2>4. /\ avail' = [avail EXCEPT ![c] = avail[c] - Granted(c)]
        /\ held' = [held EXCEPT ![c] = Granted(c)]
        /\ pc' = [pc EXCEPT ![c] = AfterGrant(c)]
    BY <1>3 DEF ReserveTxBytes
  <2>5. AfterGrant(c) \in {"back", "buildPending"} \/ Granted(c) = 0
    BY DEF AfterGrant
  <2>6. avail'[d] + held'[d] = avail[d] + held[d]
    BY <1>1, <2>2, <2>3, <2>4
  <2>7. pc'[d] \notin {"back", "buildPending", "submitPending"} => held'[d] = 0
    BY <1>1, <1>2, <2>4, <2>5
  <2> QED
    BY <1>1, <2>6, <2>7 DEF Balance
<1>4. CASE GiveBack(c) \/ BuildFails(c)
  <2>1. /\ avail' = [avail EXCEPT ![c] = avail[c] + held[c]]
        /\ held' = [held EXCEPT ![c] = 0]
        /\ pc' = [pc EXCEPT ![c] = "idle"]
    BY <1>4 DEF GiveBack, BuildFails
  <2>2. avail'[d] + held'[d] = avail[d] + held[d]
    BY <1>1, <2>1
  <2>3. pc'[d] \notin {"back", "buildPending", "submitPending"} => held'[d] = 0
    BY <1>1, <1>2, <2>1
  <2> QED
    BY <1>1, <2>2, <2>3 DEF Balance
<1>5. CASE BuildPacket(c)
  <2>1. /\ avail' = avail /\ held' = held
        /\ \/ pc[c] = "buildDirect" /\ pc' = [pc EXCEPT ![c] = "submitDirect"]
           \/ pc[c] = "buildPending" /\ pc' = [pc EXCEPT ![c] = "submitPending"]
    BY <1>5 DEF BuildPacket
  <2> QED
    BY <1>1, <1>2, <2>1 DEF Balance
<1> QED
  BY <1>3, <1>4, <1>5

\* The submit steps hand the held bytes to the packet; a direct packet has none.
LEMMA SubmitBalance ==
    ASSUME BudgetInv, NEW c \in Conn, NEW d \in Conn,
           SubmitDirect(c) \/ SubmitPending(c)
    PROVE  /\ Balance(d)' = Balance(d)
           /\ pc'[d] \notin {"back", "buildPending", "submitPending"} => held'[d] = 0
<1> USE DEF BudgetInv, IInv
<1>1. /\ avail \in [Conn -> Nat] /\ held \in [Conn -> Nat]
      /\ pc \in [Conn -> {"idle", "reserve", "back", "buildDirect", "buildPending",
                         "submitDirect", "submitPending"}]
      /\ pending \in Seq(PacketSet)
      /\ BytesIn(pending, d) \in Int /\ BytesIn(completions, d) \in Int
  BY BalanceTypes DEF TypeOK
<1>2. pc[d] \notin {"back", "buildPending", "submitPending"} => held[d] = 0
  BY DEF HeldOnlyInSend
<1>3. CASE SubmitDirect(c)
  <2>1. /\ avail' = avail /\ held' = held /\ pending' = pending
        /\ completions' = completions /\ pc' = [pc EXCEPT ![c] = "idle"]
        /\ pc[c] = "submitDirect"
    BY <1>3 DEF SubmitDirect
  <2> QED
    BY <1>1, <1>2, <2>1 DEF Balance
<1>4. CASE SubmitPending(c)
  <2> DEFINE p == NewPacket(c, "rw", held[c])
  <2>1. /\ avail' = avail /\ held' = [held EXCEPT ![c] = 0]
        /\ pending' = Append(pending, p)
        /\ completions' = completions /\ pc' = [pc EXCEPT ![c] = "idle"]
    BY <1>4 DEF SubmitPending
  <2>2. p \in PacketSet
    BY <1>1, NewPacketType DEF Kind
  <2>3. Bytes(p, d) = IF d = c THEN held[c] ELSE 0
    BY DEF Bytes, NewPacket
  <2> HIDE DEF p
  <2>4. BytesIn(pending', d) = BytesIn(pending, d) + Bytes(p, d)
    BY <1>1, <2>1, <2>2, BytesInAppend
  <2>5. held'[d] + BytesIn(pending', d) = held[d] + BytesIn(pending, d)
    BY <1>1, <2>1, <2>3, <2>4
  <2>6. pc'[d] \notin {"back", "buildPending", "submitPending"} => held'[d] = 0
    BY <1>1, <1>2, <2>1
  <2>7. avail'[d] = avail[d] /\ BytesIn(completions', d) = BytesIn(completions, d)
    BY <2>1
  <2>8. held'[d] \in Nat /\ BytesIn(pending', d) \in Int /\ avail[d] \in Nat
    <3>1. Bytes(p, d) \in Nat
      BY <2>2, BytesType
    <3> QED
      BY <1>1, <2>1, <2>4, <3>1
  <2>9. Balance(d)' = Balance(d)
    <3>1. held[d] \in Nat /\ BytesIn(pending, d) \in Int /\ BytesIn(completions, d) \in Int
      BY <1>1
    <3>2. avail'[d] + held'[d] + BytesIn(pending', d) + BytesIn(completions', d)
            = avail[d] + held[d] + BytesIn(pending, d) + BytesIn(completions, d)
      BY <2>5, <2>7, <2>8, <3>1
    <3> QED
      BY <3>2 DEF Balance
  <2> QED
    BY <2>6, <2>9
<1> QED
  BY <1>3, <1>4

\* A control packet carries no bytes of the budget.
LEMMA ControlBalance ==
    ASSUME BudgetInv, NEW c \in Conn, NEW d \in Conn, SendShutdown(c) \/ SendReply(c)
    PROVE  /\ Balance(d)' = Balance(d)
           /\ pc'[d] \notin {"back", "buildPending", "submitPending"} => held'[d] = 0
<1> USE DEF BudgetInv, IInv
<1>1. pending \in Seq(PacketSet) /\ BytesIn(pending, d) \in Int
  BY BalanceTypes DEF TypeOK
<1>2. PICK k \in Kind : TrySend(NewPacket(c, k, 0))
  BY DEF SendShutdown, SendReply, Kind
<1>3. PICK p \in PacketSet : p = NewPacket(c, k, 0) /\ Bytes(p, d) = 0
  <2>1. NewPacket(c, k, 0) \in PacketSet
    BY NewPacketType
  <2>2. Bytes(NewPacket(c, k, 0), d) = 0
    BY DEF NewPacket, Bytes
  <2> QED
    BY <2>1, <2>2
<1>4. /\ avail' = avail /\ held' = held /\ pc' = pc /\ completions' = completions
      /\ pending' = pending \/ pending' = Append(pending, p)
  BY <1>2, <1>3 DEF TrySend, senderVars
<1>5. BytesIn(pending', d) = BytesIn(pending, d)
  <2>1. BytesIn(Append(pending, p), d) = BytesIn(pending, d)
    BY <1>1, <1>3, BytesInAppend
  <2> QED
    BY <1>4, <2>1, Zenon
<1> QED
  BY <1>4, <1>5 DEF Balance, HeldOnlyInSend

\* process_tx turns charged packets into completions, and a completion gives
\* back what its packet carried to the connection that sent it.
LEMMA TasklessBalance ==
    ASSUME BudgetInv, NEW d \in Conn, ProcessTx \/ RunCompletion
    PROVE  /\ Balance(d)' = Balance(d)
           /\ pc'[d] \notin {"back", "buildPending", "submitPending"} => held'[d] = 0
<1> USE DEF BudgetInv, IInv
<1>1. /\ pending \in Seq(PacketSet) /\ completions \in Seq(PacketSet)
      /\ avail \in [Conn -> Nat] /\ held \in [Conn -> Nat]
      /\ BytesIn(pending, d) \in Int /\ BytesIn(completions, d) \in Int
  BY BalanceTypes DEF TypeOK
<1>2. pc' = pc /\ held' = held
  BY DEF ProcessTx, RunCompletion, senderVars
<1>3. CASE ProcessTx
  <2>1. /\ completions = <<>> /\ avail' = avail
        /\ completions' = SubSeq(pending, 1, Drainable)
        /\ pending' = SubSeq(pending, Drainable + 1, Len(pending))
    BY <1>3 DEF ProcessTx, AfterDrain
  <2>2. Drainable \in 0..Len(pending)
    BY <1>1, FreeDescsMeaning, LenProperties DEF Drainable
  <2>3. /\ BytesIn(pending, d) = BytesIn(completions', d) + BytesIn(pending', d)
        /\ BytesIn(completions', d) \in Int /\ BytesIn(pending', d) \in Int
    BY <1>1, <2>1, <2>2, BytesInSplit
  <2>4. BytesIn(completions, d) = 0
    BY <2>1, BytesInEmpty
  <2>5. avail[d] \in Nat /\ held[d] \in Nat
    BY <1>1
  <2>6. Balance(d)' = Balance(d)
    BY <1>2, <2>1, <2>3, <2>4, <2>5 DEF Balance
  <2> QED
    BY <1>2, <2>6 DEF HeldOnlyInSend
<1>4. CASE RunCompletion
  <2>1. PICK h \in PacketSet : h = Head(completions)
    BY <1>1, <1>4, HeadTailProperties DEF RunCompletion
  <2>2. /\ completions # <<>> /\ pending' = pending
        /\ completions' = Tail(completions)
        /\ avail' = [avail EXCEPT ![h.conn] = @ + h.bytes]
    BY <1>4, <2>1 DEF RunCompletion, queueVars
  <2>3. /\ BytesIn(completions, d) = Bytes(h, d) + BytesIn(completions', d)
        /\ BytesIn(completions', d) \in Int
    BY <1>1, <2>1, <2>2, BytesInTail
  <2>4. h.conn \in Conn /\ h.bytes \in Nat
    BY DEF PacketSet
  <2>5. avail'[d] = avail[d] + Bytes(h, d) /\ Bytes(h, d) \in Nat
    BY <1>1, <2>2, <2>4 DEF Bytes
  <2>6. avail[d] \in Nat /\ held[d] \in Nat
    BY <1>1
  <2>7. Balance(d)' = Balance(d)
    BY <1>1, <1>2, <2>2, <2>3, <2>5, <2>6 DEF Balance
  <2> QED
    BY <1>2, <2>7 DEF HeldOnlyInSend
<1> QED
  BY <1>3, <1>4

\* No byte of a connection's software budget is lost or counted twice, whatever
\* fails and in whatever order completions run: a connection can always send
\* again once its packets have left.
THEOREM BudgetIsConserved == Spec => []BudgetConserved
<1>1. Init => BudgetInv
  <2> SUFFICES ASSUME Init PROVE BudgetInv
    OBVIOUS
  <2>1. \A c \in Conn : BytesIn(pending, c) = 0 /\ BytesIn(completions, c) = 0
    BY BytesInEmpty DEF Init
  <2>2. PendingBytes \in Nat
    BY TxAssumption
  <2>3. BudgetConserved
    BY <2>1, <2>2 DEF Init, BudgetConserved
  <2> QED
    BY <2>3, InitIInv DEF Init, BudgetInv, HeldOnlyInSend
<1>2. BudgetInv /\ [Next]_vars => BudgetInv'
  <2> SUFFICES ASSUME BudgetInv, [Next]_vars PROVE BudgetInv'
    OBVIOUS
  <2>1. ASSUME NEW d \in Conn
        PROVE  /\ Balance(d)' = Balance(d)
               /\ pc'[d] \notin {"back", "buildPending", "submitPending"} => held'[d] = 0
    <3>1. ASSUME NEW c \in Conn, NEW len \in Lens, PrepareSend(c, len)
          PROVE  /\ Balance(d)' = Balance(d)
                 /\ pc'[d] \notin {"back", "buildPending", "submitPending"} => held'[d] = 0
      BY <3>1 DEF PrepareSend, Balance, BudgetInv, HeldOnlyInSend, IInv, TypeOK
    <3>2. CASE DeviceConsume \/ UNCHANGED vars
      BY <3>2 DEF DeviceConsume, senderVars, vars, Balance, BudgetInv, HeldOnlyInSend
    <3> QED
      BY <3>1, <3>2, SenderBalance, SubmitBalance, ControlBalance, TasklessBalance
         DEF Next, SenderStep
  <2>2. BudgetConserved'
    BY <2>1 DEF BudgetInv, BudgetConserved, Balance
  <2>3. HeldOnlyInSend'
    BY <2>1 DEF HeldOnlyInSend
  <2>4. IInv'
    BY StepIInv DEF BudgetInv
  <2> QED
    BY <2>2, <2>3, <2>4 DEF BudgetInv
<1>3. BudgetInv => BudgetConserved
  BY DEF BudgetInv
<1> QED
  BY <1>1, <1>2, <1>3, PTL DEF Spec
===============================================================================
