------------------------------ MODULE VsockRxRing ------------------------------
(***************************************************************************)
(* The receive ring of the virtio-vsock driver: RxState and                *)
(* RxGuard::pop_used of device.rs, filled by VsockDevice::init and drained *)
(* by the RX taskless (VsockDevice::process_rx, VsockSpace::process_rx).   *)
(*                                                                         *)
(* A descriptor is named by its token.  pop_used gives the descriptor back *)
(* and takes it again for the replacement buffer, so its token does not    *)
(* change; a return in between leaves the device without it.               *)
(***************************************************************************)
EXTENDS Naturals, Sequences, FiniteSets

CONSTANTS
    Token,             \* descriptors of the RX virtqueue
    DebugAssertions,   \* whether debug_assert! evaluates its argument
    AllocCanFail,      \* whether new_rx_buffer may fail
    ShortPackets,      \* whether the device may return less than a header
    MaxPackets         \* bound: packets the device writes

ASSUME RingAssumption ==
    /\ {DebugAssertions, AllocCanFail, ShortPackets} \subseteq BOOLEAN
    /\ MaxPackets \in Nat

VARIABLES
    buffers,           \* RxState::buffers: tokens whose slot holds a buffer
    posted,            \* descriptors the device may write to
    used,              \* used ring: token and whether a header fits
    scheduled,         \* the RX taskless is scheduled (schedule_rx)
    looping,           \* VsockSpace::process_rx is in its loop
    written,           \* packets the device has written
    delivered          \* packets handed to process_rx_packet

vars == <<buffers, posted, used, scheduled, looping, written, delivered>>

Used == {used[i].token : i \in DOMAIN used}

\* VsockDevice::init posts one buffer for every descriptor.
Init ==
    /\ buffers = Token /\ posted = Token
    /\ used = <<>>
    /\ scheduled = FALSE /\ looping = FALSE
    /\ written = 0 /\ delivered = 0

\* The device fills a posted buffer and raises the interrupt.
DeviceWrites ==
    /\ written < MaxPackets
    /\ \E t \in posted, ok \in IF ShortPackets THEN BOOLEAN ELSE {TRUE} :
        /\ used' = Append(used, [token |-> t, ok |-> ok])
        /\ posted' = posted \ {t}
    /\ written' = written + 1
    /\ scheduled' = TRUE
    /\ UNCHANGED <<buffers, looping, delivered>>

\* The taskless: can_pop, then the backend's loop.
ProcessRx ==
    /\ scheduled /\ ~looping
    /\ scheduled' = FALSE
    /\ looping' = (used # <<>>)
    /\ UNCHANGED <<buffers, posted, used, written, delivered>>

Popped == Head(used)
\* mutant: the used element is left in the ring
PopFramePeeking == looping /\ used # <<>> /\ UNCHANGED <<used, scheduled, written>>
PopFrame == looping /\ used # <<>> /\ used' = Tail(used) /\ UNCHANGED <<scheduled, written>>

PopNothing ==
    /\ looping /\ used = <<>>
    /\ looping' = FALSE
    /\ UNCHANGED <<buffers, posted, used, scheduled, written, delivered>>

\* mutant: the replacement is never stored
BuffersAfterReplaceLost(t) == buffers \ {t}
\* Where the replacement goes: put_at stands inside a debug_assert!.
BuffersAfterReplace(t) == IF DebugAssertions THEN buffers ELSE buffers \ {t}

PopOnlyOne ==          \* mutant: the loop ends after one packet
    /\ PopFrame
    /\ Popped.token \in buffers /\ Popped.ok
    /\ buffers' = BuffersAfterReplace(Popped.token)
    /\ posted' = posted \cup {Popped.token}
    /\ delivered' = delivered + 1
    /\ looping' = FALSE

PopAndReplace ==
    /\ PopFrame
    /\ Popped.token \in buffers /\ Popped.ok
    /\ buffers' = BuffersAfterReplace(Popped.token)
    /\ posted' = posted \cup {Popped.token}
    /\ delivered' = delivered + 1
    /\ UNCHANGED looping

\* An empty slot, a short packet or no memory for the replacement: pop_used
\* returns None before add_dma_buf, and the loop takes that for an empty ring.
PopFails ==
    /\ PopFrame
    /\ Popped.token \notin buffers \/ ~Popped.ok \/ AllocCanFail
    /\ buffers' = buffers \ {Popped.token}
    /\ looping' = FALSE
    /\ UNCHANGED <<posted, delivered>>

Next == DeviceWrites \/ ProcessRx \/ PopNothing \/ PopAndReplace \/ PopFails

Spec == Init /\ [][Next]_vars

\* A scheduled taskless runs and its loop goes on; the device owes nothing.
Fairness == WF_vars(ProcessRx) /\ WF_vars(PopNothing \/ PopAndReplace \/ PopFails)
FairSpec == Spec /\ Fairness

-------------------------------------------------------------------------------
(* Properties.                                                             *)

\* A descriptor is with the device, in the used ring once, or lost.
TypeOK ==
    /\ buffers \subseteq Token /\ posted \subseteq Token
    /\ used \in Seq([token : Token, ok : BOOLEAN])
    /\ \A i, j \in DOMAIN used : used[i].token = used[j].token => i = j
    /\ posted \cap Used = {}
    /\ scheduled \in BOOLEAN /\ looping \in BOOLEAN
    /\ written \in Nat /\ delivered \in Nat

\* Every buffer the device may write to, or has written, is still owned by the
\* driver: its DMA memory has not been freed, and pop_used will find it.  This is
\* what init asserts of each token and pop_used must restore.
LiveBuffers == posted \cup Used \subseteq buffers

\* Every packet the device writes reaches process_rx_packet, one interrupt for
\* many packets and packets written while the loop runs included, as long as
\* pop_used has lost no descriptor: with the descriptor goes the rest of the loop.
EveryPacketDelivered ==
    \A n \in 1..MaxPackets :
        (written >= n) ~> (delivered >= n \/ posted \cup Used # Token)
================================================================================
