---------------------------- MODULE RecordQueue ----------------------------
(***************************************************************************)
(* What the shared-memory ring promises to the two programs, without       *)
(* memory, counters or caches: a bounded first-in first-out queue of byte  *)
(* records with one writer and one reader.  The reader looks at the oldest *)
(* record in place and the record stays in the queue, unchanged, until it  *)
(* is released.                                                            *)
(*                                                                         *)
(* SpscRing implements this specification; the application-level module    *)
(* PacketStream is built on top of it.                                     *)
(***************************************************************************)
EXTENDS Integers, Sequences

CONSTANTS
  Capacity,   \* bytes of the data area
  Prefix,     \* bytes that a record costs on top of its own length
  Record      \* the records: sequences of bytes

VARIABLES
  queue,      \* the committed and unreleased records, oldest first
  view,       \* the record in the reader's hands: <<>> or <<record>>
  used        \* bytes occupied by the records of the queue

qvars == <<queue, view, used>>

Cost(r) == Prefix + Len(r)

Init ==
  /\ queue = <<>>
  /\ view = <<>>
  /\ used = 0

\* The writer publishes a record; it must fit next to everything unreleased.
Put(r) ==
  /\ used + Cost(r) <= Capacity
  /\ queue' = Append(queue, r)
  /\ used' = used + Cost(r)
  /\ UNCHANGED view

\* The reader is handed the oldest record.
Peek ==
  /\ view = <<>>
  /\ queue # <<>>
  /\ view' = <<Head(queue)>>
  /\ UNCHANGED <<queue, used>>

\* The reader gives the record back and its bytes can be reused.
Release ==
  /\ view # <<>>
  /\ queue' = Tail(queue)
  /\ used' = used - Cost(Head(queue))
  /\ view' = <<>>

\* A new reader takes over; a record its predecessor held is delivered again.
TakeOver ==
  /\ view' = <<>>
  /\ UNCHANGED <<queue, used>>

Next ==
  \/ \E r \in Record : Put(r)
  \/ Peek
  \/ Release
  \/ TakeOver

Spec == Init /\ [][Next]_qvars

=============================================================================
