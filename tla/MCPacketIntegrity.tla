------------------------- MODULE MCPacketIntegrity -------------------------
(***************************************************************************)
(* Instance of PacketIntegrity for TLC.                                    *)
(***************************************************************************)
EXTENDS PacketIntegrity

\* One bit, two neighbours, the ends of a word, a scattered pattern, and all 32 bits.
MCBursts == {{0}, {0, 1}, {0, 31}, {0, 3, 4, 9, 17, 30}, 0..31}
=============================================================================
