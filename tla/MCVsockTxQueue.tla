---------------------------- MODULE MCVsockTxQueue ----------------------------
(* Model-checking instance of VsockTxQueue: Tx.cfg and TxLost.cfg give the  *)
(* constants their values.                                                 *)
EXTENDS VsockTxQueue
===============================================================================
