---------------------------- MODULE PacketStream ----------------------------
(***************************************************************************)
(* The two programs on top of one ring: the loops of ProducerApp::run      *)
(* (producer/producer_app.cpp) and ConsumerApp::run_session                *)
(* (consumer/consumer_app.cpp), the two pause policies, the sequence       *)
(* tracking of PacketValidator, the counters of ConsumerStats, and the     *)
(* RunControl flags that signals and keys set at any moment.               *)
(*                                                                         *)
(* The ring is the abstract queue of RecordQueue, which SpscRing           *)
(* implements; all packets have one size, so its capacity is counted in    *)
(* packets and a packet is its sequence number.  Consumers follow one      *)
(* another on the ring (ShmLifecycle shows that there is one at a time);   *)
(* each of them, and the producer, may be stopped, paused or killed.       *)
(***************************************************************************)
EXTENDS Integers, Sequences, FiniteSets

CONSTANTS
  Slots,            \* packets that fit into the ring
  MaxPackets,       \* ProducerConfig::max_packets (--count)
  Configurations,   \* the ways the two programs are configured: see config
  MaxRestarts,      \* bound: consumers started after the first one
  Crashes           \* programs that may be killed: subset of {"producer", "consumer"}

ASSUME StreamAssumption ==
  /\ Slots \in Nat \ {0}
  /\ MaxPackets \in Nat \ {0}
  /\ Configurations \subseteq
       [wait_for_consumer : BOOLEAN, policy : {"block", "discard"}, once : BOOLEAN]
  /\ MaxRestarts \in Nat
  /\ Crashes \subseteq {"producer", "consumer"}

VARIABLES
  config,              \* ProducerConfig::wait_for_consumer, ConsumerConfig::pause_policy and once
  queue, view, used,   \* the ring: see RecordQueue
  ppc,                 \* where the producer is
  sequence,            \* ProducerApp::run: the next sequence number
  finished,            \* RingState::ProducerFinished has been stored
  pStop, pPaused,      \* RunControl of the producer
  cpc,                 \* where the consumer is
  cStop, cPaused,      \* RunControl of the consumer
  wasPaused,           \* run_session: was_paused
  baseline, expected,  \* PacketValidator::has_baseline_, expected_sequence_
  stats,               \* ConsumerStats::totals_ of the session
  restarts,            \* consumers started after the first one
  seen,                \* history: sequence numbers some consumer processed or dropped
  repeats,             \* history: how often one of them was handed out again
  kills,               \* history: consumers that were killed
  first                \* history: the first packet this session can get

ring     == <<queue, view, used>>
producer == <<ppc, sequence, finished>>
control  == <<pStop, pPaused, cStop, cPaused>>
session  == <<wasPaused, baseline, expected, stats, first>>
history  == <<seen, repeats, kills>>
vars == <<config, ring, producer, control, cpc, session, restarts, history>>

Q == INSTANCE RecordQueue WITH
       Capacity <- Slots, Prefix <- 0,
       Record <- { <<n>> : n \in 0 .. MaxPackets - 1 }

NoPackets == [received |-> 0, dropped |-> 0, gaps |-> 0, missing |-> 0, rewinds |-> 0]

ProducerAlive == ppc \notin {"exited", "crashed"}
ConsumerAlive == cpc \notin {"exited", "crashed"}
Attached      == ConsumerAlive /\ cpc # "connect"

Init ==
  /\ config \in Configurations
  /\ Q!Init
  /\ ppc = IF config.wait_for_consumer THEN "waiting" ELSE "turn"
  /\ sequence = 0
  /\ finished = FALSE
  /\ pStop = FALSE /\ pPaused = FALSE
  /\ cStop = FALSE /\ cPaused = FALSE
  /\ cpc = "connect"
  /\ wasPaused = FALSE
  /\ baseline = FALSE
  /\ expected = 0
  /\ stats = NoPackets
  /\ first = 0
  /\ restarts = 0
  /\ seen = {}
  /\ repeats = 0
  /\ kills = 0

-----------------------------------------------------------------------------
(* ProducerApp::run.                                                        *)

ProducerUnchanged == UNCHANGED <<control, cpc, session, restarts, history>>

\* wait_for_peer(): a live consumer is attached, or a stop was requested.
WaitForPeer ==
  /\ ppc = "waiting"
  /\ \/ pStop /\ ppc' = "done"
     \/ Attached /\ ppc' = "turn"
  /\ UNCHANGED <<ring, sequence, finished>>
  /\ ProducerUnchanged

\* The head of the loop.
ProducerTurn ==
  /\ ppc = "turn"
  /\ ppc' = IF pStop \/ sequence >= MaxPackets THEN "done"
            ELSE IF pPaused THEN "turn"
            ELSE "reserve"
  /\ UNCHANGED <<ring, sequence, finished>>
  /\ ProducerUnchanged

\* sink_.reserve() succeeds, the packet is built and committed.
Send ==
  /\ ppc = "reserve"
  /\ Q!Put(<<sequence>>)
  /\ sequence' = sequence + 1
  /\ ppc' = "turn"
  /\ UNCHANGED finished
  /\ ProducerUnchanged

\* Mutant of ReserveTimeout: the wait for room has no end.
ReserveTimeoutNever ==
  /\ ppc = "reserve"
  /\ used > Slots
  /\ ppc' = "turn"
  /\ UNCHANGED <<ring, sequence, finished>>
  /\ ProducerUnchanged

\* sink_.reserve() found the ring full until its timeout or a stop request.
ReserveTimeout ==
  /\ ppc = "reserve"
  /\ used = Slots
  /\ ppc' = "turn"
  /\ UNCHANGED <<ring, sequence, finished>>
  /\ ProducerUnchanged

\* run() returned: ~ShmPacketSink() marks the stream finished, the process ends.
FinishStream ==
  /\ ppc = "done"
  /\ finished' = TRUE
  /\ ppc' = "leaving"
  /\ UNCHANGED <<ring, sequence>>
  /\ ProducerUnchanged

ProducerExit ==
  /\ ppc = "leaving"
  /\ ppc' = "exited"
  /\ UNCHANGED <<ring, sequence, finished>>
  /\ ProducerUnchanged

ProducerStep ==
  WaitForPeer \/ ProducerTurn \/ Send \/ ReserveTimeout \/ FinishStream \/ ProducerExit

-----------------------------------------------------------------------------
(* ConsumerApp.                                                             *)

\* Mutant of LetGo: a record is freed although none is in hand.
LetGoBlindly ==
  IF queue = <<>> THEN UNCHANGED ring
  ELSE queue' = Tail(queue) /\ view' = <<>> /\ used' = used - 1

\* release(): give the record in hand back, if there is one.
LetGo == IF view = <<>> THEN UNCHANGED ring ELSE Q!Release

\* connect() attaches to the ready ring of a live producer, and run_session()
\* starts from scratch; or a stop request ends the wait.
Connect ==
  /\ cpc = "connect"
  /\ \/ /\ cStop
        /\ cpc' = "exited"
        /\ UNCHANGED session
     \/ /\ ~ cStop
        /\ ProducerAlive /\ ~ finished
        /\ cpc' = "turn"
        /\ stats' = NoPackets
        /\ baseline' = FALSE
        /\ wasPaused' = FALSE
        /\ first' = sequence - Len(queue)
        /\ UNCHANGED expected
  /\ UNCHANGED <<ring, producer, control, restarts, history>>

\* Mutants of ConsumerTurn: no resync on a resume; a resume is not noticed.
ConsumerTurnWithoutResync ==
  /\ cpc = "turn"
  /\ ~ cStop
  /\ wasPaused' = cPaused
  /\ cpc' = IF ~ cPaused THEN "receive" ELSE IF config.policy = "discard" THEN "discard" ELSE "turn"
  /\ LetGo
  /\ UNCHANGED <<producer, control, baseline, expected, stats, first, restarts, history>>

ConsumerTurnStuck ==
  /\ cpc = "turn"
  /\ ~ cStop
  /\ wasPaused' = (wasPaused \/ cPaused)
  /\ cpc' = IF wasPaused' THEN "turn" ELSE "receive"
  /\ LetGo
  /\ UNCHANGED <<producer, control, baseline, expected, stats, first, restarts, history>>

\* The head of the session loop: the pause flag is read once; on a resume the
\* discarding policy makes the validator start over.
ConsumerTurn ==
  /\ cpc = "turn"
  /\ ~ cStop
  /\ wasPaused' = cPaused
  /\ baseline' = IF wasPaused /\ ~ cPaused /\ config.policy = "discard" THEN FALSE ELSE baseline
  /\ cpc' = IF ~ cPaused THEN "receive" ELSE IF config.policy = "discard" THEN "discard" ELSE "turn"
  /\ LetGo
  /\ UNCHANGED <<producer, control, expected, stats, first, restarts, history>>

\* Mutant of StopSession: disconnect() does not release the record in hand.
StopSessionHolding ==
  /\ cpc = "turn"
  /\ cStop
  /\ Q!TakeOver
  /\ cpc' = "exited"
  /\ UNCHANGED <<producer, control, session, restarts, history>>

\* The loop ends on a stop request; source_.release() and disconnect().
StopSession ==
  /\ cpc = "turn"
  /\ cStop
  /\ LetGo
  /\ cpc' = "exited"
  /\ UNCHANGED <<producer, control, session, restarts, history>>

\* A packet is handed out: it is the oldest one of the ring.
Taken(n) ==
  /\ Q!Peek
  /\ <<n>> = Head(queue)
  /\ seen' = seen \cup {n}
  /\ repeats' = IF n \in seen THEN repeats + 1 ELSE repeats
  /\ UNCHANGED kills

\* validate() and ConsumerStats::record().
Process(n) ==
  LET gap    == baseline /\ n > expected
      rewind == baseline /\ n < expected
  IN  /\ Taken(n)
      /\ stats' = [stats EXCEPT !.received = @ + 1,
                                !.gaps     = IF gap THEN @ + 1 ELSE @,
                                !.missing  = IF gap THEN @ + (n - expected) ELSE @,
                                !.rewinds  = IF rewind THEN @ + 1 ELSE @]
      /\ baseline' = TRUE
      /\ expected' = n + 1
      /\ UNCHANGED <<wasPaused, first>>

\* receive() returns a record within its timeout.
Receive ==
  /\ cpc = "receive"
  /\ \E n \in 0 .. MaxPackets - 1 : Process(n)
  /\ cpc' = "turn"
  /\ UNCHANGED <<producer, control, restarts>>

\* The ring stayed empty until the timeout or a stop request.
ReceiveTimeout ==
  /\ cpc = "receive"
  /\ queue = <<>>
  /\ cpc' = "status"
  /\ UNCHANGED <<ring, producer, control, session, restarts, history>>

\* Mutant of CheckStatus: only the Finished state is looked at.
CheckStatusFinishedOnly ==
  /\ cpc = "status"
  /\ cpc' = IF finished THEN "final" ELSE "turn"
  /\ UNCHANGED <<ring, producer, control, session, restarts, history>>

\* peer_status(): has the stream ended?
CheckStatus ==
  /\ cpc = "status"
  /\ cpc' = IF finished \/ ~ ProducerAlive THEN "final" ELSE "turn"
  /\ UNCHANGED <<ring, producer, control, session, restarts, history>>

\* Mutant of FinalReceive: the timeout before peer_status() is trusted.
FinalReceiveSkipped ==
  /\ cpc = "final"
  /\ cpc' = "ended"
  /\ UNCHANGED <<ring, producer, control, session, restarts, history>>

\* receive(0): one more look decides whether the ring is drained.
FinalReceive ==
  /\ cpc = "final"
  /\ \/ /\ \E n \in 0 .. MaxPackets - 1 : Process(n)
        /\ cpc' = "turn"
     \/ /\ queue = <<>>
        /\ cpc' = "ended"
        /\ UNCHANGED <<ring, session, history>>
  /\ UNCHANGED <<producer, control, restarts>>

\* The session is over: disconnect(), summary, and the next connect() unless
\* --once or a stop request ends the program.
EndSession ==
  /\ cpc = "ended"
  /\ LetGo
  /\ cpc' = IF config.once \/ cStop THEN "exited" ELSE "connect"
  /\ UNCHANGED <<producer, control, session, restarts, history>>

\* DiscardingPausePolicy::while_paused().
Discard ==
  /\ cpc = "discard"
  /\ \/ /\ \E n \in 0 .. MaxPackets - 1 : Taken(n)
        /\ stats' = [stats EXCEPT !.dropped = @ + 1]
     \/ /\ queue = <<>>
        /\ UNCHANGED <<ring, stats, history>>
  /\ cpc' = "turn"
  /\ UNCHANGED <<producer, control, wasPaused, baseline, expected, first, restarts>>

ConsumerStep ==
  \/ Connect \/ ConsumerTurn \/ StopSession \/ Receive \/ ReceiveTimeout
  \/ CheckStatus \/ FinalReceive \/ EndSession \/ Discard

-----------------------------------------------------------------------------
(* The environment: signals, keys, kills and restarts.                      *)

\* request_stop, and pause / resume / toggle_pause, at any moment of a program's
\* life.
Signal ==
  /\ \/ /\ ProducerAlive
        /\ \/ pStop' = TRUE /\ UNCHANGED pPaused
           \/ pPaused' = ~ pPaused /\ UNCHANGED pStop
        /\ UNCHANGED <<cStop, cPaused>>
     \/ /\ ConsumerAlive
        /\ \/ cStop' = TRUE /\ UNCHANGED cPaused
           \/ cPaused' = ~ cPaused /\ UNCHANGED cStop
        /\ UNCHANGED <<pStop, pPaused>>
  /\ UNCHANGED <<ring, producer, cpc, session, restarts, history>>

ProducerCrash ==
  /\ "producer" \in Crashes
  /\ ProducerAlive
  /\ ppc' = "crashed"
  /\ UNCHANGED <<ring, sequence, finished, control, cpc, session, restarts, history>>

\* The record in the consumer's hands stays in the ring.
ConsumerCrash ==
  /\ "consumer" \in Crashes
  /\ ConsumerAlive
  /\ cpc' = "crashed"
  /\ kills' = kills + 1
  /\ Q!TakeOver
  /\ UNCHANGED <<producer, control, session, restarts, seen, repeats>>

\* The next consumer program.
ConsumerRestart ==
  /\ ~ ConsumerAlive
  /\ restarts < MaxRestarts
  /\ restarts' = restarts + 1
  /\ cpc' = "connect"
  /\ cStop' = FALSE /\ cPaused' = FALSE
  /\ UNCHANGED <<ring, producer, pStop, pPaused, session, history>>

Next ==
  /\ \/ ProducerStep \/ ConsumerStep
     \/ Signal \/ ProducerCrash \/ ConsumerCrash \/ ConsumerRestart
  /\ UNCHANGED config

Spec == Init /\ [][Next]_vars

\* Both loops go on: every wait in them has a timeout.  Nothing is assumed of
\* signals, kills and restarts.
FairSpec == Spec /\ WF_vars(ProducerStep /\ UNCHANGED config) /\ WF_vars(ConsumerStep /\ UNCHANGED config)

-----------------------------------------------------------------------------
(* Properties.                                                              *)

InRing == { queue[k][1] : k \in 1 .. Len(queue) }

\* No pause, resume, stop, crash or take-over makes the validator report a
\* sequence defect: the stream itself never has one, and a gap that the
\* discarding policy made on purpose is not counted as one.
NoDefects == stats.gaps = 0 /\ stats.missing = 0 /\ stats.rewinds = 0

\* Every committed packet has been handed to a consumer or is still in the ring,
\* whoever was killed in between.
NothingLost == seen \cup InRing = 0 .. sequence - 1

\* A packet is handed out once, but for the one that a killed consumer had in hand and
\* its successor gets again: there are never more such repeats than kills.
DeliveredOnce == repeats <= kills

\* When the consumer decides that the stream has ended, it has drained the ring:
\* received and dropped packets of its summary add up to everything that was
\* committed since it attached.
SummaryComplete ==
  cpc = "ended" =>
    /\ queue = <<>>
    /\ stats.received + stats.dropped = sequence - first

\* A stop request ends either program wherever it waits: the producer although the
\* ring is full, the consumer is paused or gone, or none ever shows up; the consumer
\* although no producer shows up.
StopObeyed ==
  /\ pStop ~> ~ ProducerAlive
  /\ cStop ~> (~ cStop \/ ~ ConsumerAlive)

\* A consumer that is not paused for ever notices that the producer has finished
\* or was killed, and ends its session.
StreamEndNoticed == <>[](~ cPaused) => (~ ProducerAlive /\ Attached ~> ~ Attached)

\* Back-pressure is only back-pressure: when no program is stopped or killed and
\* nobody stays paused, every packet that was asked for is sent and handed out,
\* although the ring is smaller than the stream.
LeftAlone ==
  /\ ~ pStop /\ ppc # "crashed"
  /\ ~ cStop /\ cpc # "crashed"

AllDelivered ==
  []LeftAlone /\ <>[](~ pPaused /\ ~ cPaused) => <>(seen = 0 .. MaxPackets - 1)

=============================================================================
