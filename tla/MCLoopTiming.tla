---------------------------- MODULE MCLoopTiming ----------------------------
(***************************************************************************)
(* Instance of LoopTiming for TLC.                                         *)
(***************************************************************************)
EXTENDS LoopTiming
=============================================================================
