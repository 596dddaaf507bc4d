------------------------- MODULE PacketStreamProofs -------------------------
(***************************************************************************)
(* Proofs about PacketStream for every ring size, stream length, number of *)
(* restarts and set of configurations.                                     *)
(*                                                                         *)
(* The ring always holds consecutive packets, so everything is measured by *)
(* two numbers: the oldest packet of the ring, and the front, the next     *)
(* packet that a consumer will be handed.  Releasing a record moves the    *)
(* oldest packet and not the front; only handing out a packet moves the    *)
(* front, and only a killed consumer moves it back, by the record that it  *)
(* held.                                                                   *)
(***************************************************************************)
EXTENDS PacketStream, SequenceTheorems, TLAPS

-----------------------------------------------------------------------------
(* The ring and what has been handed out of it.                             *)

Oldest == sequence - Len(queue)
Front  == Oldest + Len(view)

RingType ==
  /\ sequence \in Nat
  /\ queue \in Seq(Seq(Nat))
  /\ view \in Seq(Seq(Nat))
  /\ repeats \in Nat
  /\ kills \in Nat

\* The ring holds the packets that were sent last, in order, and the reader has
\* the oldest of them in its hands or none.
Consecutive ==
  /\ Len(queue) <= sequence
  /\ \A k \in 1 .. Len(queue) : queue[k] = <<Oldest + k - 1>>
  /\ view = <<>> \/ (queue # <<>> /\ view = <<queue[1]>>)

\* What is no longer in the ring has been handed out; of what is in the ring at
\* most the oldest packet has.
HandedOut ==
  /\ seen = 0 .. Oldest - 1 \/ (queue # <<>> /\ seen = 0 .. Oldest)
  /\ view # <<>> => seen = 0 .. Oldest

\* A packet that waits to be handed out again has cost a kill that no repeat has
\* been counted for.
RepeatsPaid ==
  /\ repeats <= kills
  /\ view = <<>> /\ Oldest \in seen => repeats < kills

DeliveryInv == RingType /\ Consecutive /\ HandedOut /\ RepeatsPaid

LEMMA OldestType == DeliveryInv => /\ Oldest \in Nat
                                   /\ Len(queue) \in Nat
                                   /\ Len(view) \in {0, 1}
                                   /\ Len(view) = 0 <=> view = <<>>
<1> SUFFICES ASSUME DeliveryInv
             PROVE  /\ Oldest \in Nat
                    /\ Len(queue) \in Nat
                    /\ Len(view) \in {0, 1}
                    /\ Len(view) = 0 <=> view = <<>>
  OBVIOUS
<1>1. Oldest \in Nat /\ Len(queue) \in Nat
  BY DEF DeliveryInv, RingType, Consecutive, Oldest
<1>2. CASE view = <<>>
  BY <1>1, <1>2
<1>3. CASE view = <<queue[1]>>
  BY <1>1, <1>3
<1> QED
  BY <1>1, <1>2, <1>3 DEF DeliveryInv, Consecutive

\* reserve() and commit() of the next packet.
LEMMA SendDelivery ==
  ASSUME DeliveryInv, Q!Put(<<sequence>>), sequence' = sequence + 1, UNCHANGED history
  PROVE  DeliveryInv' /\ Front' = Front
<1> DEFINE L == Len(queue)
<1>1. /\ queue' = Append(queue, <<sequence>>)
      /\ UNCHANGED <<view, seen, repeats, kills>>
  BY DEF Q!Put, history
<1>2. /\ sequence \in Nat /\ <<sequence>> \in Seq(Nat)
      /\ queue \in Seq(Seq(Nat)) /\ L \in Nat /\ L <= sequence
  BY DEF DeliveryInv, RingType, Consecutive
<1>3. /\ queue' \in Seq(Seq(Nat))
      /\ Len(queue') = L + 1
      /\ \A k \in 1 .. L : queue'[k] = queue[k]
      /\ queue'[L + 1] = <<sequence>>
  BY <1>1, <1>2
<1> HIDE DEF L
<1>4. Oldest' = Oldest /\ Oldest = sequence - L
  BY <1>2, <1>3 DEF Oldest, L
<1>5. RingType'
  BY <1>1, <1>2, <1>3 DEF DeliveryInv, RingType
<1>6. Consecutive'
  <2>1. Len(queue') <= sequence'
    BY <1>2, <1>3
  <2>2. ASSUME NEW k \in 1 .. L + 1
        PROVE  queue'[k] = <<Oldest' + k - 1>>
    <3>1. CASE k = L + 1
      <4>1. Oldest + k - 1 = sequence
        BY <1>2, <1>4, <3>1
      <4> QED
        BY <1>3, <1>4, <3>1, <4>1
    <3>2. CASE k \in 1 .. L
      BY <1>3, <1>4, <3>2 DEF DeliveryInv, Consecutive, L
    <3> QED
      BY <1>2, <3>1, <3>2
  <2>3. view = <<>> \/ (queue' # <<>> /\ view = <<queue'[1]>>)
    <3> SUFFICES ASSUME view # <<>> PROVE queue' # <<>> /\ view = <<queue'[1]>>
      OBVIOUS
    <3>1. queue # <<>> /\ view = <<queue[1]>>
      BY DEF DeliveryInv, Consecutive
    <3>2. 1 \in 1 .. L /\ Len(queue') # 0
      BY <1>2, <1>3, <3>1 DEF L
    <3> QED
      BY <1>3, <3>1, <3>2
  <2> QED
    BY <1>1, <1>3, <2>1, <2>2, <2>3 DEF Consecutive
<1>7. queue' # <<>>
  BY <1>2, <1>3
<1>8. HandedOut'
  BY <1>1, <1>4, <1>7 DEF DeliveryInv, HandedOut
<1>9. RepeatsPaid'
  BY <1>1, <1>4 DEF DeliveryInv, RepeatsPaid
<1>10. Front' = Front
  BY <1>1, <1>4 DEF Front
<1> QED
  BY <1>5, <1>6, <1>8, <1>9, <1>10 DEF DeliveryInv

\* receive() or while_paused() is handed the oldest packet.
LEMMA TakenDelivery ==
  ASSUME DeliveryInv, NEW n, Taken(n), UNCHANGED sequence
  PROVE  /\ DeliveryInv'
         /\ n = Front
         /\ Front' = Front + 1
<1>1. /\ view = <<>> /\ queue # <<>>
      /\ view' = <<Head(queue)>>
      /\ UNCHANGED <<queue, sequence, kills>>
      /\ <<n>> = Head(queue)
      /\ seen' = seen \cup {n}
      /\ repeats' = IF n \in seen THEN repeats + 1 ELSE repeats
  BY DEF Taken, Q!Peek
<1>2. Oldest \in Nat /\ Len(queue) \in Nat \ {0} /\ queue \in Seq(Seq(Nat)) /\ repeats \in Nat /\ kills \in Nat
  BY <1>1, OldestType DEF DeliveryInv, RingType
<1>3. Head(queue) = queue[1] /\ queue[1] \in Seq(Nat) /\ 1 \in 1 .. Len(queue)
  BY <1>1, <1>2
<1>4. n = Oldest
  <2>1. queue[1] = <<Oldest + 1 - 1>> /\ Oldest + 1 - 1 = Oldest
    BY <1>2, <1>3 DEF DeliveryInv, Consecutive
  <2>2. <<n>> = <<Oldest>>
    BY <1>1, <1>3, <2>1
  <2> QED
    BY <2>2
<1>5. Front = Oldest /\ Oldest' = Oldest /\ Front' = Oldest + 1
  BY <1>1, <1>2 DEF Front, Oldest
<1>6. view' # <<>> /\ view' = <<queue'[1]>>
  BY <1>1, <1>3
<1>7. RingType'
  BY <1>1, <1>2, <1>3 DEF DeliveryInv, RingType
<1>8. Consecutive'
  BY <1>1, <1>5, <1>6 DEF DeliveryInv, Consecutive
<1>9. HandedOut'
  <2>1. seen' = 0 .. Oldest
    BY <1>1, <1>2, <1>4 DEF DeliveryInv, HandedOut
  <2> QED
    BY <1>1, <1>5, <2>1 DEF HandedOut
<1>10. RepeatsPaid'
  BY <1>1, <1>2, <1>4, <1>6 DEF DeliveryInv, RepeatsPaid
<1> QED
  BY <1>4, <1>5, <1>7, <1>8, <1>9, <1>10 DEF DeliveryInv

\* release() of the record in hand, if there is one.
LEMMA LetGoDelivery ==
  ASSUME DeliveryInv, LetGo, UNCHANGED <<sequence, history>>
  PROVE  /\ DeliveryInv'
         /\ Front' = Front
         /\ view' = <<>>
<1>1. CASE view = <<>>
  <2>1. UNCHANGED <<queue, view, sequence, seen, repeats, kills>>
    BY <1>1 DEF LetGo, ring, history
  <2> QED
    BY <1>1, <2>1 DEF DeliveryInv, RingType, Consecutive, HandedOut, RepeatsPaid, Front, Oldest
<1>2. CASE view # <<>>
  <2> DEFINE L == Len(queue)
  <2>1. /\ queue' = Tail(queue)
        /\ view' = <<>>
        /\ UNCHANGED <<sequence, seen, repeats, kills>>
    BY <1>2 DEF LetGo, Q!Release, history
  <2>2. queue # <<>> /\ view = <<queue[1]>> /\ queue \in Seq(Seq(Nat)) /\ seen = 0 .. Oldest
    BY <1>2 DEF DeliveryInv, RingType, Consecutive, HandedOut
  <2>3. L \in Nat \ {0} /\ Oldest \in Nat /\ sequence \in Nat /\ Oldest = sequence - L
    BY <2>2, OldestType DEF Oldest, DeliveryInv, RingType
  <2>4. /\ queue' \in Seq(Seq(Nat))
        /\ Len(queue') = L - 1
        /\ \A k \in 1 .. L - 1 : queue'[k] = queue[k + 1]
    BY <2>1, <2>2, HeadTailProperties
  <2> HIDE DEF L
  <2>5. Oldest' = Oldest + 1
    BY <2>1, <2>3, <2>4 DEF Oldest
  <2>6. RingType'
    BY <2>1, <2>4 DEF DeliveryInv, RingType
  <2>7. Consecutive'
    <3>1. Len(queue') <= sequence'
      BY <2>1, <2>3, <2>4 DEF DeliveryInv, Consecutive, L
    <3>2. ASSUME NEW k \in 1 .. L - 1
          PROVE  queue'[k] = <<Oldest' + k - 1>>
      <4>1. k + 1 \in 1 .. L
        BY <2>3
      <4>2. queue[k + 1] = <<Oldest + (k + 1) - 1>>
        BY <4>1 DEF DeliveryInv, Consecutive, L
      <4>3. Oldest + (k + 1) - 1 = Oldest' + k - 1
        BY <2>3, <2>5
      <4> QED
        BY <2>4, <4>2, <4>3
    <3> QED
      BY <2>1, <2>4, <3>1, <3>2 DEF Consecutive
  <2>8. seen' = 0 .. Oldest' - 1
    BY <2>1, <2>2, <2>3, <2>5
  <2>9. HandedOut' /\ RepeatsPaid'
    <3>1. Oldest' \notin seen'
      BY <2>3, <2>5, <2>8
    <3> QED
      BY <2>1, <2>8, <3>1 DEF HandedOut, RepeatsPaid, DeliveryInv
  <2>10. Front' = Front
    <3>1. Len(view) = 1 /\ Len(view') = 0
      BY <2>1, <2>2
    <3> QED
      BY <2>3, <2>5, <3>1 DEF Front
  <2> QED
    BY <2>1, <2>6, <2>7, <2>9, <2>10 DEF DeliveryInv
<1> QED
  BY <1>1, <1>2

\* A killed consumer leaves the record in the ring.
LEMMA KillDelivery ==
  ASSUME DeliveryInv, Q!TakeOver, kills' = kills + 1, UNCHANGED <<sequence, seen, repeats>>
  PROVE  DeliveryInv' /\ view' = <<>>
<1>1. view' = <<>> /\ UNCHANGED <<queue, sequence, seen, repeats>>
  BY DEF Q!TakeOver
<1>2. Oldest' = Oldest /\ repeats \in Nat /\ kills \in Nat
  BY <1>1 DEF Oldest, DeliveryInv, RingType
<1>3. RingType' /\ Consecutive' /\ HandedOut'
  BY <1>1, <1>2 DEF DeliveryInv, RingType, Consecutive, HandedOut
<1>4. RepeatsPaid'
  BY <1>1, <1>2 DEF DeliveryInv, RepeatsPaid
<1> QED
  BY <1>1, <1>3, <1>4 DEF DeliveryInv

\* Everything else.
LEMMA SameDelivery ==
  ASSUME DeliveryInv, UNCHANGED <<ring, sequence, history>>
  PROVE  DeliveryInv' /\ Front' = Front /\ UNCHANGED <<queue, view>>
BY DEF ring, history, DeliveryInv, RingType, Consecutive, HandedOut, RepeatsPaid, Front, Oldest

-----------------------------------------------------------------------------
(* The session.                                                             *)

SessionType ==
  /\ stats \in [received : Nat, dropped : Nat, gaps : Nat, missing : Nat, rewinds : Nat]
  /\ first \in Nat
  /\ expected \in Nat
  /\ baseline \in BOOLEAN
  /\ wasPaused \in BOOLEAN
  /\ cPaused \in BOOLEAN
  /\ finished \in BOOLEAN

\* Only between two turns of the loop may a record be in hand.
HandsEmpty == cpc # "turn" => view = <<>>

\* What was_paused and the policy are where packets are taken.
PauseKnown ==
  /\ cpc \in {"receive", "status", "final"} => ~ wasPaused
  /\ cpc = "discard" => wasPaused /\ config.policy = "discard"

\* The validator expects the next packet, unless packets are being discarded.
BaselineExact ==
  Attached /\ baseline /\ ~ (wasPaused /\ config.policy = "discard") => expected = Front

\* Received and dropped packets are those that this session was handed.
CountExact == Attached => stats.received + stats.dropped = Front - first

\* A stream that the consumer has found ended does not grow any more.
StreamOver ==
  /\ finished => ppc \in {"leaving", "exited", "crashed"}
  /\ cpc \in {"final", "ended"} => finished \/ ~ ProducerAlive
  /\ cpc = "ended" => queue = <<>>

StreamInv ==
  /\ DeliveryInv /\ SessionType /\ HandsEmpty /\ PauseKnown
  /\ BaselineExact /\ CountExact /\ StreamOver /\ NoDefects

LEMMA FrontType == DeliveryInv => Front \in Nat
BY OldestType DEF Front

LEMMA InitStreamInv == Init => StreamInv
<1> SUFFICES ASSUME Init PROVE StreamInv
  OBVIOUS
<1>1. /\ queue = <<>> /\ view = <<>> /\ sequence = 0 /\ seen = {} /\ repeats = 0 /\ kills = 0
      /\ Len(queue) = 0
  BY DEF Init, Q!Init
<1>2. Oldest = 0 /\ 0 .. 0 - 1 = {}
  <2>1. Oldest = sequence - 0
    BY <1>1 DEF Oldest
  <2> QED
    BY <1>1, <2>1
<1>3. DeliveryInv
  BY <1>1, <1>2 DEF DeliveryInv, RingType, Consecutive, HandedOut, RepeatsPaid
<1>4. SessionType /\ HandsEmpty /\ PauseKnown /\ BaselineExact /\ CountExact /\ StreamOver /\ NoDefects
  BY <1>1 DEF Init, SessionType, HandsEmpty, PauseKnown, BaselineExact, CountExact, StreamOver, NoDefects,
              NoPackets, Attached, ConsumerAlive
<1> QED
  BY <1>3, <1>4 DEF StreamInv

\* The steps of the producer that leave the ring alone.
LEMMA ProducerMovesInv ==
  ASSUME StreamInv, WaitForPeer \/ ProducerTurn \/ ReserveTimeout \/ FinishStream \/ ProducerExit, UNCHANGED config
  PROVE  StreamInv'
<1> USE DEF WaitForPeer, ProducerTurn, ReserveTimeout, FinishStream, ProducerExit, ProducerUnchanged, control, session
<1>0. DeliveryInv' /\ Front' = Front /\ UNCHANGED <<queue, view>>
  BY SameDelivery DEF StreamInv
<1>1. Front \in Nat
  BY FrontType DEF StreamInv
<1>2. SessionType'
  BY <1>0, <1>1 DEF StreamInv, SessionType
<1>3. HandsEmpty'
  BY <1>0, <1>1 DEF StreamInv, HandsEmpty
<1>4. PauseKnown'
  BY <1>0, <1>1 DEF StreamInv, PauseKnown
<1>5. BaselineExact'
  BY <1>0, <1>1 DEF StreamInv, BaselineExact, PauseKnown, HandsEmpty, SessionType, Attached, ConsumerAlive
<1>6. CountExact'
  BY <1>0, <1>1 DEF StreamInv, CountExact, HandsEmpty, SessionType, Attached, ConsumerAlive
<1>7. StreamOver'
  BY <1>0, <1>1 DEF StreamInv, StreamOver, ProducerAlive, SessionType
<1>8. NoDefects'
  BY <1>0, <1>1 DEF StreamInv, NoDefects, SessionType
<1> QED
  BY <1>0, <1>2, <1>3, <1>4, <1>5, <1>6, <1>7, <1>8 DEF StreamInv

\* A packet is sent.
LEMMA SendInv ==
  ASSUME StreamInv, Send, UNCHANGED config
  PROVE  StreamInv'
<1> USE DEF Send, ProducerUnchanged, control, session
<1>0. DeliveryInv' /\ Front' = Front /\ UNCHANGED view
  BY SendDelivery DEF StreamInv, Q!Put
<1>1. Front \in Nat
  BY FrontType DEF StreamInv
<1>2. SessionType'
  BY <1>0, <1>1 DEF StreamInv, SessionType
<1>3. HandsEmpty'
  BY <1>0, <1>1 DEF StreamInv, HandsEmpty
<1>4. PauseKnown'
  BY <1>0, <1>1 DEF StreamInv, PauseKnown
<1>5. BaselineExact'
  BY <1>0, <1>1 DEF StreamInv, BaselineExact, PauseKnown, HandsEmpty, SessionType, Attached, ConsumerAlive
<1>6. CountExact'
  BY <1>0, <1>1 DEF StreamInv, CountExact, HandsEmpty, SessionType, Attached, ConsumerAlive
<1>7. StreamOver'
  BY <1>0, <1>1 DEF StreamInv, StreamOver, ProducerAlive, SessionType
<1>8. NoDefects'
  BY <1>0, <1>1 DEF StreamInv, NoDefects, SessionType
<1> QED
  BY <1>0, <1>2, <1>3, <1>4, <1>5, <1>6, <1>7, <1>8 DEF StreamInv

\* A session begins, or a stop request ends the wait for one.
LEMMA ConnectInv ==
  ASSUME StreamInv, Connect, UNCHANGED config
  PROVE  StreamInv'
<1> USE DEF Connect, NoPackets, control, session, producer
<1>0. DeliveryInv' /\ Front' = Front /\ UNCHANGED <<queue, view>>
  BY SameDelivery DEF StreamInv
<1>1. Front \in Nat
  BY FrontType DEF StreamInv
<1>2. SessionType'
  <2>1. sequence - Len(queue) \in Nat
    BY OldestType DEF StreamInv, Oldest
  <2>2. UNCHANGED <<cPaused, finished>>
    OBVIOUS
  <2>3. CASE UNCHANGED session
    BY <2>2, <2>3 DEF StreamInv, SessionType
  <2>4. CASE ~ UNCHANGED session
    <3>1. /\ stats' = NoPackets
          /\ baseline' = FALSE
          /\ wasPaused' = FALSE
          /\ first' = sequence - Len(queue)
          /\ expected' = expected
      BY <2>4
    <3> QED
      BY <2>1, <2>2, <3>1 DEF StreamInv, SessionType
  <2> QED
    BY <2>3, <2>4
<1>3. HandsEmpty'
  BY <1>0, <1>1 DEF StreamInv, HandsEmpty
<1>4. PauseKnown'
  BY <1>0, <1>1 DEF StreamInv, PauseKnown
<1>5. BaselineExact'
  BY <1>0, <1>1 DEF StreamInv, BaselineExact, PauseKnown, HandsEmpty, SessionType, Attached, ConsumerAlive
<1>6. CountExact'
  <2>1. Front = sequence - Len(queue)
    BY OldestType DEF StreamInv, HandsEmpty, Front, Oldest
  <2> QED
    BY <1>0, <1>1, <2>1 DEF CountExact, Attached, ConsumerAlive
<1>7. StreamOver'
  BY <1>0, <1>1 DEF StreamInv, StreamOver, ProducerAlive, SessionType
<1>8. NoDefects'
  BY <1>0, <1>1 DEF StreamInv, NoDefects, SessionType
<1> QED
  BY <1>0, <1>2, <1>3, <1>4, <1>5, <1>6, <1>7, <1>8 DEF StreamInv

\* The head of the session loop.
LEMMA ConsumerTurnInv ==
  ASSUME StreamInv, ConsumerTurn, UNCHANGED config
  PROVE  StreamInv'
<1> USE DEF ConsumerTurn, control, session, producer
<1>0. DeliveryInv' /\ Front' = Front /\ view' = <<>>
  BY LetGoDelivery DEF StreamInv
<1>1. Front \in Nat
  BY FrontType DEF StreamInv
<1>2. SessionType'
  BY <1>0, <1>1 DEF StreamInv, SessionType
<1>3. HandsEmpty'
  BY <1>0, <1>1 DEF StreamInv, HandsEmpty
<1>4. PauseKnown'
  BY <1>0, <1>1 DEF StreamInv, PauseKnown
<1>5. BaselineExact'
  BY <1>0, <1>1 DEF StreamInv, BaselineExact, PauseKnown, HandsEmpty, SessionType, Attached, ConsumerAlive
<1>6. CountExact'
  BY <1>0, <1>1 DEF StreamInv, CountExact, HandsEmpty, SessionType, Attached, ConsumerAlive
<1>7. StreamOver'
  BY <1>0, <1>1 DEF StreamInv, StreamOver, ProducerAlive, SessionType
<1>8. NoDefects'
  BY <1>0, <1>1 DEF StreamInv, NoDefects, SessionType
<1> QED
  BY <1>0, <1>2, <1>3, <1>4, <1>5, <1>6, <1>7, <1>8 DEF StreamInv

\* The session is stopped.
LEMMA StopSessionInv ==
  ASSUME StreamInv, StopSession, UNCHANGED config
  PROVE  StreamInv'
<1> USE DEF StopSession, control, session, producer
<1>0. DeliveryInv' /\ Front' = Front /\ view' = <<>>
  BY LetGoDelivery DEF StreamInv
<1>1. Front \in Nat
  BY FrontType DEF StreamInv
<1>2. SessionType'
  BY <1>0, <1>1 DEF StreamInv, SessionType
<1>3. HandsEmpty'
  BY <1>0, <1>1 DEF StreamInv, HandsEmpty
<1>4. PauseKnown'
  BY <1>0, <1>1 DEF StreamInv, PauseKnown
<1>5. BaselineExact'
  BY <1>0, <1>1 DEF StreamInv, BaselineExact, PauseKnown, HandsEmpty, SessionType, Attached, ConsumerAlive
<1>6. CountExact'
  BY <1>0, <1>1 DEF StreamInv, CountExact, HandsEmpty, SessionType, Attached, ConsumerAlive
<1>7. StreamOver'
  BY <1>0, <1>1 DEF StreamInv, StreamOver, ProducerAlive, SessionType
<1>8. NoDefects'
  BY <1>0, <1>1 DEF StreamInv, NoDefects, SessionType
<1> QED
  BY <1>0, <1>2, <1>3, <1>4, <1>5, <1>6, <1>7, <1>8 DEF StreamInv

\* validate() and record() of the packet that is handed out.
LEMMA ProcessInv ==
  ASSUME StreamInv, NEW n, Process(n), cpc \in {"receive", "final"}, cpc' = "turn",
         UNCHANGED <<producer, control, config>>
  PROVE  StreamInv'
<1>1. /\ DeliveryInv'
      /\ n = Front
      /\ Front' = Front + 1
      /\ Front \in Nat
  BY TakenDelivery, FrontType DEF StreamInv, Process, producer
<1>2. /\ Attached /\ Attached'
      /\ ~ wasPaused
      /\ UNCHANGED <<wasPaused, first, cPaused, finished, ppc>>
      /\ baseline' = TRUE
      /\ expected' = n + 1
  BY DEF StreamInv, PauseKnown, Attached, ConsumerAlive, Process, producer, control
<1>3. baseline => expected = n
  BY <1>1, <1>2 DEF StreamInv, BaselineExact
<1>4. stats' = [stats EXCEPT !.received = @ + 1, !.gaps = @, !.missing = @, !.rewinds = @]
  <2>1. ~ (baseline /\ n > expected) /\ ~ (baseline /\ n < expected)
    BY <1>1, <1>3
  <2> QED
    BY <2>1 DEF Process
<1>5. /\ stats'.received = stats.received + 1
      /\ stats'.dropped = stats.dropped
      /\ stats'.gaps = stats.gaps /\ stats'.missing = stats.missing /\ stats'.rewinds = stats.rewinds
      /\ stats' \in [received : Nat, dropped : Nat, gaps : Nat, missing : Nat, rewinds : Nat]
  <2>1. stats \in [received : Nat, dropped : Nat, gaps : Nat, missing : Nat, rewinds : Nat]
    BY DEF StreamInv, SessionType
  <2>2. /\ stats'.received = stats.received + 1
        /\ stats'.dropped = stats.dropped
        /\ stats'.gaps = stats.gaps /\ stats'.missing = stats.missing /\ stats'.rewinds = stats.rewinds
    BY <1>4, <2>1
  <2>3. stats' = [received |-> stats.received + 1, dropped |-> stats.dropped, gaps |-> stats.gaps,
                  missing |-> stats.missing, rewinds |-> stats.rewinds]
    BY <1>4, <2>1
  <2> QED
    BY <2>1, <2>2, <2>3
<1>6. SessionType'
  BY <1>1, <1>2, <1>5 DEF StreamInv, SessionType
<1>7. HandsEmpty' /\ PauseKnown' /\ NoDefects'
  BY <1>5 DEF StreamInv, HandsEmpty, PauseKnown, NoDefects
<1>8. BaselineExact'
  BY <1>1, <1>2 DEF BaselineExact
<1>9. CountExact'
  BY <1>1, <1>2, <1>5 DEF StreamInv, SessionType, CountExact
<1>10. StreamOver'
  BY <1>2 DEF StreamInv, StreamOver, ProducerAlive
<1> QED
  BY <1>1, <1>6, <1>7, <1>8, <1>9, <1>10 DEF StreamInv

\* A packet is received.
LEMMA ReceiveInv ==
  ASSUME StreamInv, Receive, UNCHANGED config
  PROVE  StreamInv'
BY ProcessInv DEF Receive

\* Nothing came.
LEMMA ReceiveTimeoutInv ==
  ASSUME StreamInv, ReceiveTimeout, UNCHANGED config
  PROVE  StreamInv'
<1> USE DEF ReceiveTimeout, control, session, producer
<1>0. DeliveryInv' /\ Front' = Front /\ UNCHANGED <<queue, view>>
  BY SameDelivery DEF StreamInv
<1>1. Front \in Nat
  BY FrontType DEF StreamInv
<1>2. SessionType'
  BY <1>0, <1>1 DEF StreamInv, SessionType
<1>3. HandsEmpty'
  BY <1>0, <1>1 DEF StreamInv, HandsEmpty
<1>4. PauseKnown'
  BY <1>0, <1>1 DEF StreamInv, PauseKnown
<1>5. BaselineExact'
  BY <1>0, <1>1 DEF StreamInv, BaselineExact, PauseKnown, HandsEmpty, SessionType, Attached, ConsumerAlive
<1>6. CountExact'
  BY <1>0, <1>1 DEF StreamInv, CountExact, HandsEmpty, SessionType, Attached, ConsumerAlive
<1>7. StreamOver'
  BY <1>0, <1>1 DEF StreamInv, StreamOver, ProducerAlive, SessionType
<1>8. NoDefects'
  BY <1>0, <1>1 DEF StreamInv, NoDefects, SessionType
<1> QED
  BY <1>0, <1>2, <1>3, <1>4, <1>5, <1>6, <1>7, <1>8 DEF StreamInv

\* Has the stream ended?
LEMMA CheckStatusInv ==
  ASSUME StreamInv, CheckStatus, UNCHANGED config
  PROVE  StreamInv'
<1> USE DEF CheckStatus, control, session, producer
<1>0. DeliveryInv' /\ Front' = Front /\ UNCHANGED <<queue, view>>
  BY SameDelivery DEF StreamInv
<1>1. Front \in Nat
  BY FrontType DEF StreamInv
<1>2. SessionType'
  BY <1>0, <1>1 DEF StreamInv, SessionType
<1>3. HandsEmpty'
  BY <1>0, <1>1 DEF StreamInv, HandsEmpty
<1>4. PauseKnown'
  BY <1>0, <1>1 DEF StreamInv, PauseKnown
<1>5. BaselineExact'
  BY <1>0, <1>1 DEF StreamInv, BaselineExact, PauseKnown, HandsEmpty, SessionType, Attached, ConsumerAlive
<1>6. CountExact'
  BY <1>0, <1>1 DEF StreamInv, CountExact, HandsEmpty, SessionType, Attached, ConsumerAlive
<1>7. StreamOver'
  BY <1>0, <1>1 DEF StreamInv, StreamOver, ProducerAlive, SessionType
<1>8. NoDefects'
  BY <1>0, <1>1 DEF StreamInv, NoDefects, SessionType
<1> QED
  BY <1>0, <1>2, <1>3, <1>4, <1>5, <1>6, <1>7, <1>8 DEF StreamInv

\* The last look into the ring finds a packet, or shows that it is drained.
LEMMA FinalReceiveInv ==
  ASSUME StreamInv, FinalReceive, UNCHANGED config
  PROVE  StreamInv'
<1>1. CASE (\E n \in 0 .. MaxPackets - 1 : Process(n)) /\ cpc' = "turn"
  BY <1>1, ProcessInv DEF FinalReceive
<1>2. CASE queue = <<>> /\ cpc' = "ended" /\ UNCHANGED <<ring, session, history>>
  <2>1. DeliveryInv' /\ Front' = Front /\ UNCHANGED <<queue, view>>
    BY <1>2, SameDelivery DEF StreamInv, FinalReceive, producer
  <2>2. SessionType' /\ NoDefects'
    BY <1>2 DEF StreamInv, SessionType, NoDefects, FinalReceive, session, producer, control
  <2>3. HandsEmpty' /\ PauseKnown'
    BY <1>2, <2>1 DEF StreamInv, HandsEmpty, PauseKnown, FinalReceive
  <2>4. BaselineExact' /\ CountExact'
    BY <1>2, <2>1 DEF StreamInv, BaselineExact, CountExact, FinalReceive, session, Attached, ConsumerAlive
  <2>5. StreamOver'
    BY <1>2, <2>1 DEF StreamInv, StreamOver, ProducerAlive, FinalReceive, producer
  <2> QED
    BY <2>1, <2>2, <2>3, <2>4, <2>5 DEF StreamInv
<1> QED
  BY <1>1, <1>2 DEF FinalReceive

\* The session is over.
LEMMA EndSessionInv ==
  ASSUME StreamInv, EndSession, UNCHANGED config
  PROVE  StreamInv'
<1> USE DEF EndSession, control, session, producer
<1>0. DeliveryInv' /\ Front' = Front /\ view' = <<>>
  BY LetGoDelivery DEF StreamInv
<1>1. Front \in Nat
  BY FrontType DEF StreamInv
<1>2. SessionType'
  BY <1>0, <1>1 DEF StreamInv, SessionType
<1>3. HandsEmpty'
  BY <1>0, <1>1 DEF StreamInv, HandsEmpty
<1>4. PauseKnown'
  BY <1>0, <1>1 DEF StreamInv, PauseKnown
<1>5. BaselineExact'
  BY <1>0, <1>1 DEF StreamInv, BaselineExact, PauseKnown, HandsEmpty, SessionType, Attached, ConsumerAlive
<1>6. CountExact'
  BY <1>0, <1>1 DEF StreamInv, CountExact, HandsEmpty, SessionType, Attached, ConsumerAlive
<1>7. StreamOver'
  BY <1>0, <1>1 DEF StreamInv, StreamOver, ProducerAlive, SessionType
<1>8. NoDefects'
  BY <1>0, <1>1 DEF StreamInv, NoDefects, SessionType
<1> QED
  BY <1>0, <1>2, <1>3, <1>4, <1>5, <1>6, <1>7, <1>8 DEF StreamInv

\* A packet is discarded during a pause: the front moves, and the validator does
\* not follow.
LEMMA DiscardInv ==
  ASSUME StreamInv, Discard, UNCHANGED config
  PROVE  StreamInv'
<1>1. /\ Attached /\ Attached'
      /\ cpc = "discard" /\ cpc' = "turn"
      /\ wasPaused /\ config.policy = "discard"
      /\ UNCHANGED <<wasPaused, baseline, expected, first, cPaused, finished, ppc, sequence>>
  BY DEF StreamInv, PauseKnown, Discard, Attached, ConsumerAlive, producer, control
<1>2. Front \in Nat
  BY FrontType DEF StreamInv
<1>3. DeliveryInv' /\ SessionType' /\ CountExact' /\ NoDefects'
  <2>1. ASSUME NEW n, Taken(n), stats' = [stats EXCEPT !.dropped = @ + 1]
        PROVE  DeliveryInv' /\ SessionType' /\ CountExact' /\ NoDefects'
    <3>1. DeliveryInv' /\ Front' = Front + 1
      BY <1>1, <2>1, TakenDelivery DEF StreamInv
    <3>2. /\ stats'.received = stats.received
          /\ stats'.dropped = stats.dropped + 1
          /\ stats'.gaps = stats.gaps /\ stats'.missing = stats.missing /\ stats'.rewinds = stats.rewinds
          /\ stats' \in [received : Nat, dropped : Nat, gaps : Nat, missing : Nat, rewinds : Nat]
      BY <2>1 DEF StreamInv, SessionType
    <3>3. SessionType' /\ NoDefects'
      BY <1>1, <3>2 DEF StreamInv, SessionType, NoDefects
    <3>4. CountExact'
      BY <1>1, <1>2, <3>1, <3>2 DEF StreamInv, SessionType, CountExact
    <3> QED
      BY <3>1, <3>3, <3>4
  <2>2. ASSUME UNCHANGED <<ring, stats, history>>
        PROVE  DeliveryInv' /\ SessionType' /\ CountExact' /\ NoDefects'
    <3>1. DeliveryInv' /\ Front' = Front
      BY <1>1, <2>2, SameDelivery DEF StreamInv
    <3> QED
      BY <1>1, <2>2, <3>1 DEF StreamInv, SessionType, CountExact, NoDefects
  <2> QED
    BY <2>1, <2>2 DEF Discard
<1>4. HandsEmpty' /\ PauseKnown' /\ BaselineExact'
  BY <1>1 DEF HandsEmpty, PauseKnown, BaselineExact
<1>5. StreamOver'
  BY <1>1 DEF StreamInv, StreamOver
<1> QED
  BY <1>3, <1>4, <1>5 DEF StreamInv

\* Signals and keys.
LEMMA SignalInv ==
  ASSUME StreamInv, Signal, UNCHANGED config
  PROVE  StreamInv'
<1> USE DEF Signal, control, session, producer
<1>0. DeliveryInv' /\ Front' = Front /\ UNCHANGED <<queue, view>>
  BY SameDelivery DEF StreamInv
<1>1. Front \in Nat
  BY FrontType DEF StreamInv
<1>2. SessionType'
  BY <1>0, <1>1 DEF StreamInv, SessionType
<1>3. HandsEmpty'
  BY <1>0, <1>1 DEF StreamInv, HandsEmpty
<1>4. PauseKnown'
  BY <1>0, <1>1 DEF StreamInv, PauseKnown
<1>5. BaselineExact'
  BY <1>0, <1>1 DEF StreamInv, BaselineExact, PauseKnown, HandsEmpty, SessionType, Attached, ConsumerAlive
<1>6. CountExact'
  BY <1>0, <1>1 DEF StreamInv, CountExact, HandsEmpty, SessionType, Attached, ConsumerAlive
<1>7. StreamOver'
  BY <1>0, <1>1 DEF StreamInv, StreamOver, ProducerAlive, SessionType
<1>8. NoDefects'
  BY <1>0, <1>1 DEF StreamInv, NoDefects, SessionType
<1> QED
  BY <1>0, <1>2, <1>3, <1>4, <1>5, <1>6, <1>7, <1>8 DEF StreamInv

\* The producer is killed.
LEMMA ProducerCrashInv ==
  ASSUME StreamInv, ProducerCrash, UNCHANGED config
  PROVE  StreamInv'
<1> USE DEF ProducerCrash, control, session, producer
<1>0. DeliveryInv' /\ Front' = Front /\ UNCHANGED <<queue, view>>
  BY SameDelivery DEF StreamInv
<1>1. Front \in Nat
  BY FrontType DEF StreamInv
<1>2. SessionType'
  BY <1>0, <1>1 DEF StreamInv, SessionType
<1>3. HandsEmpty'
  BY <1>0, <1>1 DEF StreamInv, HandsEmpty
<1>4. PauseKnown'
  BY <1>0, <1>1 DEF StreamInv, PauseKnown
<1>5. BaselineExact'
  BY <1>0, <1>1 DEF StreamInv, BaselineExact, PauseKnown, HandsEmpty, SessionType, Attached, ConsumerAlive
<1>6. CountExact'
  BY <1>0, <1>1 DEF StreamInv, CountExact, HandsEmpty, SessionType, Attached, ConsumerAlive
<1>7. StreamOver'
  BY <1>0, <1>1 DEF StreamInv, StreamOver, ProducerAlive, SessionType
<1>8. NoDefects'
  BY <1>0, <1>1 DEF StreamInv, NoDefects, SessionType
<1> QED
  BY <1>0, <1>2, <1>3, <1>4, <1>5, <1>6, <1>7, <1>8 DEF StreamInv

\* The consumer is killed.
LEMMA ConsumerCrashInv ==
  ASSUME StreamInv, ConsumerCrash, UNCHANGED config
  PROVE  StreamInv'
<1> USE DEF ConsumerCrash, control, session, producer
<1>0. DeliveryInv' /\ view' = <<>>
  BY KillDelivery DEF StreamInv
<1>1. Front \in Nat
  BY FrontType DEF StreamInv
<1>2. SessionType'
  BY <1>0, <1>1 DEF StreamInv, SessionType
<1>3. HandsEmpty'
  BY <1>0, <1>1 DEF StreamInv, HandsEmpty
<1>4. PauseKnown'
  BY <1>0, <1>1 DEF StreamInv, PauseKnown
<1>5. BaselineExact'
  BY <1>0, <1>1 DEF StreamInv, BaselineExact, PauseKnown, HandsEmpty, SessionType, Attached, ConsumerAlive
<1>6. CountExact'
  BY <1>0, <1>1 DEF StreamInv, CountExact, HandsEmpty, SessionType, Attached, ConsumerAlive
<1>7. StreamOver'
  BY <1>0, <1>1 DEF StreamInv, StreamOver, ProducerAlive, SessionType
<1>8. NoDefects'
  BY <1>0, <1>1 DEF StreamInv, NoDefects, SessionType
<1> QED
  BY <1>0, <1>2, <1>3, <1>4, <1>5, <1>6, <1>7, <1>8 DEF StreamInv

\* The next consumer is started.
LEMMA ConsumerRestartInv ==
  ASSUME StreamInv, ConsumerRestart, UNCHANGED config
  PROVE  StreamInv'
<1> USE DEF ConsumerRestart, control, session, producer
<1>0. DeliveryInv' /\ Front' = Front /\ UNCHANGED <<queue, view>>
  BY SameDelivery DEF StreamInv
<1>1. Front \in Nat
  BY FrontType DEF StreamInv
<1>2. SessionType'
  BY <1>0, <1>1 DEF StreamInv, SessionType
<1>3. HandsEmpty'
  BY <1>0 DEF StreamInv, HandsEmpty, ConsumerAlive
<1>4. PauseKnown'
  BY <1>0, <1>1 DEF StreamInv, PauseKnown
<1>5. BaselineExact'
  BY <1>0, <1>1 DEF StreamInv, BaselineExact, PauseKnown, HandsEmpty, SessionType, Attached, ConsumerAlive
<1>6. CountExact'
  BY <1>0, <1>1 DEF StreamInv, CountExact, HandsEmpty, SessionType, Attached, ConsumerAlive
<1>7. StreamOver'
  BY <1>0, <1>1 DEF StreamInv, StreamOver, ProducerAlive, SessionType
<1>8. NoDefects'
  BY <1>0, <1>1 DEF StreamInv, NoDefects, SessionType
<1> QED
  BY <1>0, <1>2, <1>3, <1>4, <1>5, <1>6, <1>7, <1>8 DEF StreamInv

LEMMA NextStreamInv == StreamInv /\ [Next]_vars => StreamInv'
<1> SUFFICES ASSUME StreamInv, [Next]_vars PROVE StreamInv'
  OBVIOUS
<1>1. CASE ProducerStep /\ UNCHANGED config
  BY <1>1, ProducerMovesInv, SendInv DEF ProducerStep
<1>2. CASE ConsumerStep /\ UNCHANGED config
  BY <1>2, ConnectInv, ConsumerTurnInv, StopSessionInv, ReceiveInv, ReceiveTimeoutInv, CheckStatusInv,
     FinalReceiveInv, EndSessionInv, DiscardInv DEF ConsumerStep
<1>3. CASE (Signal \/ ProducerCrash \/ ConsumerCrash \/ ConsumerRestart) /\ UNCHANGED config
  BY <1>3, SignalInv, ProducerCrashInv, ConsumerCrashInv, ConsumerRestartInv
<1>4. CASE UNCHANGED vars
  <2>1. DeliveryInv' /\ Front' = Front /\ UNCHANGED <<queue, view>>
    BY <1>4, SameDelivery DEF StreamInv, vars, producer
  <2> QED
    BY <1>4, <2>1 DEF StreamInv, vars, producer, control, session, SessionType, HandsEmpty, PauseKnown,
       BaselineExact, CountExact, StreamOver, NoDefects, Attached, ConsumerAlive, ProducerAlive
<1> QED
  BY <1>1, <1>2, <1>3, <1>4 DEF Next

-----------------------------------------------------------------------------
(* The theorems.                                                            *)

\* Between producer, ring and consumers no packet is lost, whoever is paused,
\* stopped or killed, and whenever.
THEOREM NoPacketLost == Spec => []NothingLost
<1>1. ASSUME StreamInv PROVE NothingLost
  <2>1. /\ Oldest \in Nat /\ Len(queue) \in Nat /\ sequence \in Nat
        /\ Oldest = sequence - Len(queue)
    BY <1>1, OldestType DEF StreamInv, DeliveryInv, RingType, Oldest
  <2>2. InRing = Oldest .. sequence - 1
    <3>1. \A k \in 1 .. Len(queue) : queue[k][1] = Oldest + k - 1
      BY <1>1 DEF StreamInv, DeliveryInv, Consecutive
    <3>2. ASSUME NEW n \in Oldest .. sequence - 1
          PROVE  n \in InRing
      <4>1. n - Oldest + 1 \in 1 .. Len(queue)
        BY <2>1
      <4>2. queue[n - Oldest + 1][1] = n
        BY <2>1, <3>1, <4>1
      <4> QED
        BY <4>1, <4>2 DEF InRing
    <3>3. ASSUME NEW k \in 1 .. Len(queue)
          PROVE  queue[k][1] \in Oldest .. sequence - 1
      BY <2>1, <3>1
    <3> QED
      BY <3>2, <3>3 DEF InRing
  <2>3. CASE seen = 0 .. Oldest - 1
    BY <2>1, <2>2, <2>3 DEF NothingLost
  <2>4. CASE queue # <<>> /\ seen = 0 .. Oldest
    <3>1. Len(queue) # 0
      BY <1>1, <2>4 DEF StreamInv, DeliveryInv, RingType
    <3> QED
      BY <2>1, <2>2, <2>4, <3>1 DEF NothingLost
  <2> QED
    BY <1>1, <2>3, <2>4 DEF StreamInv, DeliveryInv, HandedOut
<1> QED
  BY InitStreamInv, NextStreamInv, <1>1, PTL DEF Spec

\* receive() hands no packet out twice, but for at most one per killed consumer.
THEOREM HandedOutOnce == Spec => []DeliveredOnce
<1>1. StreamInv => DeliveredOnce
  BY DEF StreamInv, DeliveryInv, RepeatsPaid, DeliveredOnce
<1> QED
  BY InitStreamInv, NextStreamInv, <1>1, PTL DEF Spec

\* The validator never reports a gap or a rewind on a ring that works, with either
\* pause policy and through every pause, stop, kill and take-over.
THEOREM ValidatorQuiet == Spec => []NoDefects
<1>1. StreamInv => NoDefects
  BY DEF StreamInv
<1> QED
  BY InitStreamInv, NextStreamInv, <1>1, PTL DEF Spec

\* A session that ends by itself has drained the ring, and its summary accounts
\* for every packet since it attached.
THEOREM SummaryIsComplete == Spec => []SummaryComplete
<1>1. ASSUME StreamInv PROVE SummaryComplete
  <2> SUFFICES ASSUME cpc = "ended"
               PROVE  queue = <<>> /\ stats.received + stats.dropped = sequence - first
    BY DEF SummaryComplete
  <2>1. queue = <<>> /\ view = <<>>
    BY <1>1 DEF StreamInv, StreamOver, HandsEmpty
  <2>2. Front = sequence
    BY <1>1, <2>1 DEF StreamInv, DeliveryInv, RingType, Front, Oldest
  <2>3. stats.received + stats.dropped = Front - first
    BY <1>1 DEF StreamInv, CountExact, Attached, ConsumerAlive
  <2> QED
    BY <2>1, <2>2, <2>3
<1> QED
  BY InitStreamInv, NextStreamInv, <1>1, PTL DEF Spec

=============================================================================
