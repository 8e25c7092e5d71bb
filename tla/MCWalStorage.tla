---------------------------- MODULE MCWalStorage ----------------------------
(***************************************************************************)
(* An instance of WalStorage for TLC: a timeline that begins in the middle *)
(* of a segment, records of one and of two cells, one of which crosses a   *)
(* boundary of segments, and an XLOG_SWITCH.                               *)
(***************************************************************************)
EXTENDS WalStorage

RecordLayout == <<5, 7, 9, 10>>
=============================================================================
