--------------------------- MODULE MCPacketStream ---------------------------
(* PacketStream with a small ring and a short stream for TLC. *)
EXTENDS PacketStream

\* Between them, both values of every option.
TwoConfigurations ==
  { [wait_for_consumer |-> FALSE, policy |-> "block",   once |-> FALSE],
    [wait_for_consumer |-> TRUE,  policy |-> "discard", once |-> TRUE] }

=============================================================================
