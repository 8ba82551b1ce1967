------------------------------ MODULE TxChannel ------------------------------
(***************************************************************************)
(* What the transmit side of the virtio-vsock driver promises its callers: *)
(* a packet it has accepted reaches the device exactly once.  The driver   *)
(* does not promise an order, and it does not say when.                    *)
(***************************************************************************)
EXTENDS Sequences

CONSTANT Packet          \* every packet a caller may hand to the driver

VARIABLES
    accepted,            \* packets the driver has taken from its callers
    wire                 \* packets the device has consumed, in order

chanVars == <<accepted, wire>>

OnWire == {wire[i] : i \in DOMAIN wire}

ChanInit == accepted = {} /\ wire = <<>>

Accept(p) ==
    /\ p \notin accepted
    /\ accepted' = accepted \cup {p}
    /\ UNCHANGED wire

Transmit(p) ==
    /\ p \in accepted \ OnWire
    /\ wire' = Append(wire, p)
    /\ UNCHANGED accepted

ChanNext == \E p \in Packet : Accept(p) \/ Transmit(p)

ChanSpec == ChanInit /\ [][ChanNext]_chanVars
==============================================================================
