--------------------------- MODULE MCPacketSizes ---------------------------
(***************************************************************************)
(* Instances of PacketSizes for TLC: 6 bits for a size, 4 for a length.    *)
(***************************************************************************)
EXTENDS PacketSizes

MCUnit == [k |-> 4, m |-> 16]

MCTexts == [number : {NoNumber} \cup 0..65, letters : {<<>>, <<"b">>, <<"x">>, <<"k">>, <<"m", "i", "b">>}]
=============================================================================
