------------------------- MODULE MCPacketAccounting -------------------------
(* PacketAccounting on short streams for TLC. *)
EXTENDS PacketAccounting


=============================================================================
