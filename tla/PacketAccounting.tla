-------------------------- MODULE PacketAccounting --------------------------
(***************************************************************************)
(* What the consumer concludes from the packets it gets: PacketValidator   *)
(* (consumer/packet_validator.cpp), ConsumerStats                          *)
(* (consumer/consumer_stats.cpp) and ConsumerApp::process, fed by a stream *)
(* that, unlike the ring, loses, damages, delays and repeats packets,      *)
(* because that is what the validator is there to find.                    *)
(*                                                                         *)
(* A packet is its sequence number, its timestamp and the damage it        *)
(* suffered.  Damage always shows: that a checksum can collide is left     *)
(* out.  Timestamps come from CLOCK_REALTIME, which can be set back.       *)
(***************************************************************************)
EXTENDS Integers, Sequences

CONSTANTS
  MaxPackets,     \* bound: packets built
  Depth,          \* bound: packets on their way
  MaxClock,       \* bound: the last reading of the clock
  Tolerance,      \* future_tolerance_ns_
  Damages,        \* what can happen to a packet: "short", or the defect that shows
  MaxReceived     \* bound: a packet is repeated only while a session has fewer

\* The bits of kCorruptionDefects.
CorruptionDefects ==
  {"BadMagic", "BadVersion", "BadHeaderSize", "SizeMismatch", "BadChecksum", "UnknownChecksum"}

ASSUME AccountingAssumption ==
  /\ {MaxPackets, Depth, MaxClock, Tolerance, MaxReceived} \subseteq Nat
  /\ Damages \subseteq CorruptionDefects \cup {"short"}

VARIABLES
  clock,                          \* wall_clock_ns()
  sequence, inFlight,             \* the next packet to build, the packets on their way
  hasBaseline, expected, lastTimestamp,   \* PacketValidator
  totals, window, latency,        \* ConsumerStats: totals_, window_.packets_, latency_
  paused,                         \* the discarding pause policy is at work
  stepped,                        \* history: the clock was set back
  hole, skipped,                  \* history: packets lost since the last intact one; all that a gap should show
  last, again,                    \* history: the last intact packet; how often one came late or again
  past,                           \* history: the intact packets whose turn is over
  strayed,                        \* history: one of them other than the last came late or again
  reported                        \* history: packets in the intervals reported so far

stream    == <<clock, sequence, inFlight, stepped>>
validator == <<hasBaseline, expected, lastTimestamp>>
stats     == <<totals, window, latency>>
truth     == <<hole, skipped, last, again, past, strayed>>
vars == <<stream, validator, stats, paused, truth, reported>>

NoTotals == [received |-> 0, valid |-> 0, corrupted |-> 0, gaps |-> 0, missing |-> 0,
             rewinds |-> 0, anomalies |-> 0, dropped |-> 0]

\* LatencySample: count and sum; the sum is of interest only with the count.
NoLatency == [count |-> 0, sum |-> 0]

None == [sequence |-> -1, timestamp |-> 0, damage |-> "none"]

Init ==
  /\ clock = 0
  /\ sequence = 0 /\ inFlight = <<>>
  /\ hasBaseline = FALSE /\ expected = 0 /\ lastTimestamp = 0
  /\ totals = NoTotals /\ window = 0 /\ latency = NoLatency
  /\ paused = FALSE
  /\ stepped = FALSE
  /\ hole = 0 /\ skipped = 0
  /\ last = None /\ again = 0
  /\ past = {} /\ strayed = FALSE
  /\ reported = 0

-----------------------------------------------------------------------------
(* PacketValidator::validate.                                               *)

\* Structure and checksum; a record shorter than a header is not read at all.
Corruption(record) ==
  CASE record.damage = "none"  -> {}
    [] record.damage = "short" -> {"BadHeaderSize", "SizeMismatch"}
    [] OTHER                   -> {record.damage}

Gap(record)    == hasBaseline /\ record.sequence > expected
Rewind(record) == hasBaseline /\ record.sequence < expected

\* Mutant of Anomalies: equal timestamps count as going backwards.
AnomaliesStrict(record) ==
  { d \in {"SequenceGap", "SequenceRewind", "TimestampFuture", "TimestampBackward"} :
      \/ d = "SequenceGap" /\ Gap(record)
      \/ d = "SequenceRewind" /\ Rewind(record)
      \/ d = "TimestampFuture" /\ record.timestamp > clock + Tolerance
      \/ d = "TimestampBackward" /\ hasBaseline /\ record.timestamp <= lastTimestamp }

\* Sequence and timestamp of a packet that can be trusted.
Anomalies(record) ==
  { d \in {"SequenceGap", "SequenceRewind", "TimestampFuture", "TimestampBackward"} :
      \/ d = "SequenceGap" /\ Gap(record)
      \/ d = "SequenceRewind" /\ Rewind(record)
      \/ d = "TimestampFuture" /\ record.timestamp > clock + Tolerance
      \/ d = "TimestampBackward" /\ hasBaseline /\ record.timestamp < lastTimestamp }

Defects(record) == IF Corruption(record) # {} THEN Corruption(record) ELSE Anomalies(record)

\* Mutant of Track: a damaged packet moves the baseline as well.
TrackAlways(record) ==
  /\ hasBaseline' = TRUE
  /\ expected' = record.sequence + 1
  /\ lastTimestamp' = record.timestamp

\* The new baseline; a corrupted packet leaves it alone.
Track(record) ==
  IF Corruption(record) # {} THEN UNCHANGED validator
  ELSE /\ hasBaseline' = TRUE
       /\ expected' = record.sequence + 1
       /\ lastTimestamp' = record.timestamp

-----------------------------------------------------------------------------
(* ConsumerStats::record and ConsumerApp::process.                          *)

One(condition) == IF condition THEN 1 ELSE 0

Count(record) ==
  [totals EXCEPT
     !.received  = @ + 1,
     !.valid     = @ + One(Defects(record) = {}),
     !.corrupted = @ + One(Corruption(record) # {}),
     !.gaps      = @ + One("SequenceGap" \in Defects(record)),
     !.missing   = @ + (IF "SequenceGap" \in Defects(record) THEN record.sequence - expected ELSE 0),
     !.rewinds   = @ + One("SequenceRewind" \in Defects(record)),
     !.anomalies = @ + One(Defects(record) \cap {"TimestampFuture", "TimestampBackward"} # {})]

\* validate() and record(); the log of the first defects is left out.
Process(record) ==
  /\ Track(record)
  /\ totals' = Count(record)
  /\ window' = window + 1
  /\ latency' = IF Corruption(record) # {} THEN latency
                ELSE [count |-> latency.count + 1, sum |-> latency.sum + (clock - record.timestamp)]
  /\ UNCHANGED <<paused, reported>>

\* The turn of the packet at the end of the stream is over, whatever becomes of it.
TakeTurn ==
  /\ inFlight # <<>>
  /\ inFlight' = Tail(inFlight)
  /\ past' = past \cup {record \in {Head(inFlight)} : record.damage = "none"}
  /\ UNCHANGED <<clock, sequence, stepped, again, strayed>>

\* The packet at the end of the stream arrives.
Receive ==
  /\ ~ paused
  /\ TakeTurn
  /\ LET record == Head(inFlight)
         intact == record.damage = "none"
     IN  /\ Process(record)
         /\ hole'    = IF intact THEN 0 ELSE hole + 1
         /\ skipped' = IF intact /\ hasBaseline /\ last # None THEN skipped + hole ELSE skipped
         /\ last'    = IF intact THEN record ELSE last

\* A packet whose turn is over arrives: the last intact one or an older one once
\* more, or a lost one late.  (A lost packet later than the last intact one is not
\* late: it simply has its turn.)
Repeat ==
  /\ ~ paused
  /\ totals.received < MaxReceived
  /\ \E record \in past :
       /\ last # None => record.sequence <= last.sequence
       /\ Process(record)
       /\ strayed' = (strayed \/ record # last)
  /\ again' = again + One(hasBaseline)
  /\ UNCHANGED <<stream, hole, skipped, last, past>>

\* DiscardingPausePolicy: while_paused() drops what arrives, on_resume() makes the
\* validator start over.
Discard ==
  /\ paused
  /\ TakeTurn
  /\ totals' = [totals EXCEPT !.dropped = @ + 1]
  /\ last' = None
  /\ UNCHANGED <<validator, window, latency, paused, hole, skipped, reported>>

Pause ==
  /\ ~ paused
  /\ paused' = TRUE
  /\ UNCHANGED <<stream, validator, stats, truth, reported>>

Resume ==
  /\ paused
  /\ paused' = FALSE
  /\ hasBaseline' = FALSE
  /\ UNCHANGED <<stream, expected, lastTimestamp, stats, truth, reported>>

\* Mutant of TakeInterval: the window goes on.
TakeIntervalKeeping ==
  /\ reported' = reported + window
  /\ latency' = NoLatency
  /\ UNCHANGED <<stream, validator, totals, window, paused, truth>>

\* ConsumerStats::take_interval(), when the report timer is due.
TakeInterval ==
  /\ reported' = reported + window
  /\ window' = 0
  /\ latency' = NoLatency
  /\ UNCHANGED <<stream, validator, totals, paused, truth>>

\* run_session(): ConsumerStats::reset(), resync().
NewSession ==
  /\ hasBaseline' = FALSE
  /\ totals' = NoTotals /\ window' = 0 /\ latency' = NoLatency
  /\ paused' = FALSE
  /\ hole' = 0 /\ skipped' = 0 /\ last' = None /\ again' = 0
  /\ past' = {} /\ strayed' = FALSE
  /\ reported' = 0
  /\ UNCHANGED <<stream, expected, lastTimestamp>>

-----------------------------------------------------------------------------
(* The stream and the clock.                                                *)

consumer == <<validator, stats, paused, reported>>

\* PacketBuilder::build() stamps the packet; it may arrive damaged.
Build ==
  /\ sequence < MaxPackets
  /\ Len(inFlight) < Depth
  /\ \E damage \in Damages \cup {"none"} :
       inFlight' = Append(inFlight, [sequence |-> sequence, timestamp |-> clock, damage |-> damage])
  /\ sequence' = sequence + 1
  /\ UNCHANGED <<clock, stepped, consumer, truth>>

\* A packet does not arrive when it is its turn.
Lose ==
  /\ ~ paused
  /\ TakeTurn
  /\ hole' = hole + 1
  /\ UNCHANGED <<consumer, skipped, last>>

Tick ==
  /\ clock < MaxClock
  /\ clock' = clock + 1
  /\ UNCHANGED <<sequence, inFlight, stepped, consumer, truth>>

\* The clock is set back.
StepBack ==
  /\ clock > 0
  /\ clock' = clock - 1
  /\ stepped' = TRUE
  /\ UNCHANGED <<sequence, inFlight, consumer, truth>>

Next ==
  \/ Build \/ Lose \/ Tick \/ StepBack
  \/ Receive \/ Repeat \/ Discard \/ Pause \/ Resume \/ TakeInterval \/ NewSession

Spec == Init /\ [][Next]_vars

-----------------------------------------------------------------------------
(* Properties.                                                              *)

\* As long as only the last packet comes again, the summary tells what happened to
\* the stream: as many packets missing as were lost or damaged between two good ones,
\* as many rewinds as there were repeats, and nothing of what was discarded during a
\* pause.  An older or a late packet sets the baseline back, so that packets which
\* arrived count as missing and the next repeat may pass for a gap; but even then no
\* loss goes uncounted, and no rewind is counted without a repeat.
DetectionExact ==
  /\ totals.missing >= skipped /\ totals.rewinds <= again
  /\ ~ strayed => totals.missing = skipped /\ totals.rewinds = again

\* As long as nobody sets the clock back, a timestamp is reported only with a packet
\* whose sequence number goes back as well, so none while no older or late packet
\* comes, however long packets are on their way and however many share one reading of
\* the clock; and no interval has a negative latency.
TimestampsQuiet ==
  ~ stepped =>
    /\ totals.anomalies <= totals.rewinds
    /\ ~ strayed => totals.anomalies = 0
    /\ latency.sum >= 0

\* The lines of the summary add up: a packet that is neither valid nor corrupted
\* has a sequence or a timestamp anomaly or both, and none is counted twice; the
\* intervals that were reported and the current one add up to the total, and the
\* latency of an interval is averaged over its packets only.
SummaryAddsUp ==
  LET anomalous == totals.received - totals.valid - totals.corrupted
  IN  /\ totals.gaps + totals.rewinds <= anomalous
      /\ totals.anomalies <= anomalous
      /\ anomalous <= totals.gaps + totals.rewinds + totals.anomalies
      /\ reported + window = totals.received
      /\ latency.count <= window
=============================================================================
