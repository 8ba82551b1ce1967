---------------------------- MODULE MCVsockSpace ----------------------------
(***************************************************************************)
(* VsockSpace for TLC: a guest that only connects, and a guest that only   *)
(* accepts.  A peer's SHUTDOWN closes both directions, or only its writes. *)
(***************************************************************************)
EXTENDS VsockSpace

BothOnly == {Both}
BothOrWrite == {Both, {"write"}}
=============================================================================
