----------------------- MODULE PacketAccountingProofs -----------------------
(***************************************************************************)
(* Proofs about PacketAccounting for every number of packets, depth of the *)
(* stream, clock, tolerance and set of damages.                            *)
(*                                                                         *)
(* The validator knows of the stream only the packets that reach it.  The  *)
(* argument ties what it remembers to the truth: the packet after the hole *)
(* is the next one on its way, and the baseline is a packet whose turn is  *)
(* over: the last intact one, unless an older one came late or again, or a *)
(* pause has discarded packets, after which there is no baseline.          *)
(***************************************************************************)
EXTENDS PacketAccounting, SequenceTheorems, TLAPS

Packet == [sequence : Nat, timestamp : Nat, damage : Damages \cup {"none"}]

Intact == {record \in Packet : record.damage = "none"}

Totals == [received : Int, valid : Int, corrupted : Int, gaps : Int, missing : Int,
           rewinds : Int, anomalies : Int, dropped : Int]

StreamType ==
  /\ clock \in Nat /\ sequence \in Nat
  /\ inFlight \in Seq(Packet)
  /\ stepped \in BOOLEAN

ConsumerType ==
  /\ hasBaseline \in BOOLEAN /\ expected \in Int /\ lastTimestamp \in Int
  /\ totals \in Totals
  /\ window \in Int /\ latency \in [count : Int, sum : Int]
  /\ paused \in BOOLEAN
  /\ reported \in Int

TruthType ==
  /\ hole \in Nat /\ skipped \in Int /\ again \in Int
  /\ past \subseteq Intact /\ strayed \in BOOLEAN
  /\ last = None \/ last \in past

TypeInv == StreamType /\ ConsumerType /\ TruthType

\* The packets on their way are numbered without a hole up to the next one to be
\* built.
InFlightNumbered ==
  \A i \in 1 .. Len(inFlight) : inFlight[i].sequence = sequence - Len(inFlight) + i - 1

\* The packets whose turn is over come before those on their way.
PastBefore == \A record \in past : record.sequence < sequence - Len(inFlight)

\* What lies between the last intact packet and the next one to arrive is the hole.
HoleExact == last # None => last.sequence + 1 + hole = sequence - Len(inFlight)

\* The validator's baseline is a packet whose turn is over, never one after the last
\* intact one, and the last intact one if no other came late or again.
BaselineInv ==
  /\ hasBaseline => \E record \in past : expected = record.sequence + 1 /\ lastTimestamp = record.timestamp
  /\ hasBaseline /\ last # None => expected <= last.sequence + 1
  /\ ~ strayed /\ hasBaseline =>
       /\ ~ paused => last # None
       /\ last # None => expected = last.sequence + 1 /\ lastTimestamp = last.timestamp

NumberingInv == InFlightNumbered /\ PastBefore /\ HoleExact /\ BaselineInv

\* As long as the clock runs forward, timestamps are in the order of the stream.
TimestampsOrdered ==
  ~ stepped =>
    /\ \A i \in 1 .. Len(inFlight) : inFlight[i].timestamp <= clock
    /\ \A i, j \in 1 .. Len(inFlight) : i < j => inFlight[i].timestamp <= inFlight[j].timestamp
    /\ \A record \in past : /\ record.timestamp <= clock
                           /\ \A i \in 1 .. Len(inFlight) : record.timestamp <= inFlight[i].timestamp
    /\ \A first, second \in past :
         first.sequence <= second.sequence => first.timestamp <= second.timestamp

AccountingInv ==
  TypeInv /\ NumberingInv /\ TimestampsOrdered /\ DetectionExact /\ TimestampsQuiet /\ SummaryAddsUp

-----------------------------------------------------------------------------
(* One packet in the validator and the statistics.                          *)

\* Corruption() is empty for an intact packet and otherwise shows none of the
\* anomalies.
LEMMA CorruptionCases ==
  ASSUME NEW record \in Packet
  PROVE  /\ record.damage = "none" => Corruption(record) = {}
         /\ record.damage # "none" =>
              /\ Corruption(record) # {}
              /\ Corruption(record)
                   \cap {"SequenceGap", "SequenceRewind", "TimestampFuture", "TimestampBackward"} = {}
<1>1. CASE record.damage = "none"
  BY <1>1 DEF Corruption
<1>2. CASE record.damage = "short"
  BY <1>2 DEF Corruption
<1>3. CASE record.damage \notin {"none", "short"}
  <2>1. Corruption(record) = {record.damage}
    BY <1>3 DEF Corruption
  <2>2. record.damage \in CorruptionDefects
    BY <1>3, AccountingAssumption DEF Packet
  <2> QED
    BY <1>3, <2>1, <2>2 DEF CorruptionDefects
<1> QED
  BY <1>1, <1>2, <1>3

LEMMA NothingCounted == NoTotals \in Totals /\ NoLatency \in [count : Int, sum : Int]
BY DEF NoTotals, Totals, NoLatency

\* The totals after a packet, and each of their fields.
After(t, valid, corrupted, gaps, missing, rewinds, anomalies) ==
  [t EXCEPT !.received = @ + 1, !.valid = @ + valid, !.corrupted = @ + corrupted,
            !.gaps = @ + gaps, !.missing = @ + missing, !.rewinds = @ + rewinds,
            !.anomalies = @ + anomalies]

LEMMA TotalsAfter ==
  ASSUME NEW t \in Totals, NEW valid \in Int, NEW corrupted \in Int, NEW gaps \in Int,
         NEW missing \in Int, NEW rewinds \in Int, NEW anomalies \in Int
  PROVE  LET u == After(t, valid, corrupted, gaps, missing, rewinds, anomalies) IN
         /\ u \in Totals
         /\ u.received = t.received + 1
         /\ u.valid = t.valid + valid /\ u.corrupted = t.corrupted + corrupted
         /\ u.gaps = t.gaps + gaps /\ u.missing = t.missing + missing
         /\ u.rewinds = t.rewinds + rewinds /\ u.anomalies = t.anomalies + anomalies
<1> DEFINE u == After(t, valid, corrupted, gaps, missing, rewinds, anomalies)
           t1 == [t EXCEPT !.received = @ + 1]
           t2 == [t1 EXCEPT !.valid = @ + valid]
           t3 == [t2 EXCEPT !.corrupted = @ + corrupted]
           t4 == [t3 EXCEPT !.gaps = @ + gaps]
           t5 == [t4 EXCEPT !.missing = @ + missing]
           t6 == [t5 EXCEPT !.rewinds = @ + rewinds]
           t7 == [t6 EXCEPT !.anomalies = @ + anomalies]
<1>0. u = t7
  BY DEF After
<1>1. /\ t1 \in Totals /\ t1.received = t.received + 1
      /\ t1.valid = t.valid /\ t1.corrupted = t.corrupted /\ t1.gaps = t.gaps /\ t1.missing = t.missing
      /\ t1.rewinds = t.rewinds /\ t1.anomalies = t.anomalies /\ t1.dropped = t.dropped
  BY DEF Totals
<1> HIDE DEF t1
<1>2. /\ t2 \in Totals /\ t2.valid = t1.valid + valid
      /\ t2.received = t1.received /\ t2.corrupted = t1.corrupted /\ t2.gaps = t1.gaps /\ t2.missing = t1.missing
      /\ t2.rewinds = t1.rewinds /\ t2.anomalies = t1.anomalies /\ t2.dropped = t1.dropped
  BY <1>1 DEF Totals
<1> HIDE DEF t2
<1>3. /\ t3 \in Totals /\ t3.corrupted = t2.corrupted + corrupted
      /\ t3.received = t2.received /\ t3.valid = t2.valid /\ t3.gaps = t2.gaps /\ t3.missing = t2.missing
      /\ t3.rewinds = t2.rewinds /\ t3.anomalies = t2.anomalies /\ t3.dropped = t2.dropped
  BY <1>2 DEF Totals
<1> HIDE DEF t3
<1>4. /\ t4 \in Totals /\ t4.gaps = t3.gaps + gaps
      /\ t4.received = t3.received /\ t4.valid = t3.valid /\ t4.corrupted = t3.corrupted /\ t4.missing = t3.missing
      /\ t4.rewinds = t3.rewinds /\ t4.anomalies = t3.anomalies /\ t4.dropped = t3.dropped
  BY <1>3 DEF Totals
<1> HIDE DEF t4
<1>5. /\ t5 \in Totals /\ t5.missing = t4.missing + missing
      /\ t5.received = t4.received /\ t5.valid = t4.valid /\ t5.corrupted = t4.corrupted /\ t5.gaps = t4.gaps
      /\ t5.rewinds = t4.rewinds /\ t5.anomalies = t4.anomalies /\ t5.dropped = t4.dropped
  BY <1>4 DEF Totals
<1> HIDE DEF t5
<1>6. /\ t6 \in Totals /\ t6.rewinds = t5.rewinds + rewinds
      /\ t6.received = t5.received /\ t6.valid = t5.valid /\ t6.corrupted = t5.corrupted /\ t6.gaps = t5.gaps
      /\ t6.missing = t5.missing /\ t6.anomalies = t5.anomalies /\ t6.dropped = t5.dropped
  BY <1>5 DEF Totals
<1> HIDE DEF t6
<1>7. /\ t7 \in Totals /\ t7.anomalies = t6.anomalies + anomalies
      /\ t7.received = t6.received /\ t7.valid = t6.valid /\ t7.corrupted = t6.corrupted /\ t7.gaps = t6.gaps
      /\ t7.missing = t6.missing /\ t7.rewinds = t6.rewinds /\ t7.dropped = t6.dropped
  BY <1>6 DEF Totals
<1> HIDE DEF t7
<1> QED
  BY <1>0, <1>1, <1>2, <1>3, <1>4, <1>5, <1>6, <1>7

Late(record)  == record.timestamp > clock + Tolerance
Early(record) == hasBaseline /\ record.timestamp < lastTimestamp

\* What an intact packet does to the validator and to the statistics.
IntactEffect(record) ==
  /\ hasBaseline' = TRUE
  /\ expected' = record.sequence + 1 /\ lastTimestamp' = record.timestamp
  /\ window' = window + 1
  /\ latency' = [count |-> latency.count + 1, sum |-> latency.sum + (clock - record.timestamp)]
  /\ UNCHANGED <<paused, reported>>
  /\ totals' \in Totals
  /\ totals'.received = totals.received + 1
  /\ totals'.valid = totals.valid
       + One(~ Gap(record) /\ ~ Rewind(record) /\ ~ Late(record) /\ ~ Early(record))
  /\ totals'.corrupted = totals.corrupted
  /\ totals'.gaps = totals.gaps + One(Gap(record))
  /\ totals'.missing = totals.missing + (IF Gap(record) THEN record.sequence - expected ELSE 0)
  /\ totals'.rewinds = totals.rewinds + One(Rewind(record))
  /\ totals'.anomalies = totals.anomalies + One(Late(record) \/ Early(record))

LEMMA ProcessIntact ==
  ASSUME TypeInv, NEW record \in Packet, record.damage = "none", Process(record)
  PROVE  IntactEffect(record)
<1>1. Corruption(record) = {} /\ Defects(record) = Anomalies(record)
  BY CorruptionCases DEF Defects
<1>2. /\ "SequenceGap" \in Anomalies(record) <=> Gap(record)
      /\ "SequenceRewind" \in Anomalies(record) <=> Rewind(record)
      /\ "TimestampFuture" \in Anomalies(record) <=> Late(record)
      /\ "TimestampBackward" \in Anomalies(record) <=> Early(record)
  BY DEF Anomalies, Late, Early
<1>3. Anomalies(record) = {} <=> ~ Gap(record) /\ ~ Rewind(record) /\ ~ Late(record) /\ ~ Early(record)
  BY <1>2 DEF Anomalies
<1>4. Anomalies(record) \cap {"TimestampFuture", "TimestampBackward"} # {} <=> Late(record) \/ Early(record)
  BY <1>2 DEF Anomalies
<1>5. /\ hasBaseline' = TRUE
      /\ expected' = record.sequence + 1 /\ lastTimestamp' = record.timestamp
      /\ window' = window + 1
      /\ latency' = [count |-> latency.count + 1, sum |-> latency.sum + (clock - record.timestamp)]
      /\ UNCHANGED <<paused, reported>>
  BY <1>1 DEF Process, Track
<1> DEFINE valid     == One(Defects(record) = {})
           gaps      == One("SequenceGap" \in Defects(record))
           missing   == IF "SequenceGap" \in Defects(record) THEN record.sequence - expected ELSE 0
           rewinds   == One("SequenceRewind" \in Defects(record))
           anomalies == One(Defects(record) \cap {"TimestampFuture", "TimestampBackward"} # {})
<1>6. /\ valid = One(~ Gap(record) /\ ~ Rewind(record) /\ ~ Late(record) /\ ~ Early(record))
      /\ gaps = One(Gap(record))
      /\ missing = IF Gap(record) THEN record.sequence - expected ELSE 0
      /\ rewinds = One(Rewind(record))
      /\ anomalies = One(Late(record) \/ Early(record))
  BY <1>1, <1>2, <1>3, <1>4 DEF One
<1>7. /\ valid \in Int /\ gaps \in Int /\ missing \in Int /\ rewinds \in Int /\ anomalies \in Int
      /\ One(Corruption(record) # {}) = 0
  BY <1>1 DEF One, TypeInv, ConsumerType, Packet
<1>8. totals' = After(totals, valid, 0, gaps, missing, rewinds, anomalies)
  BY <1>7 DEF Process, Count, After
<1>9. totals \in Totals /\ totals.corrupted \in Int
  BY DEF TypeInv, ConsumerType, Totals
<1> HIDE DEF valid, gaps, missing, rewinds, anomalies
<1>10. /\ totals' \in Totals
       /\ totals'.received = totals.received + 1
       /\ totals'.valid = totals.valid + valid
       /\ totals'.corrupted = totals.corrupted
       /\ totals'.gaps = totals.gaps + gaps
       /\ totals'.missing = totals.missing + missing
       /\ totals'.rewinds = totals.rewinds + rewinds
       /\ totals'.anomalies = totals.anomalies + anomalies
  BY <1>7, <1>8, <1>9, TotalsAfter
<1> QED
  BY <1>5, <1>6, <1>10 DEF IntactEffect

\* What a damaged one does.
LEMMA ProcessDamaged ==
  ASSUME TypeInv, NEW record \in Packet, record.damage # "none", Process(record)
  PROVE  /\ UNCHANGED <<validator, latency, paused, reported>>
         /\ window' = window + 1
         /\ totals' \in Totals
         /\ totals'.received = totals.received + 1
         /\ totals'.corrupted = totals.corrupted + 1
         /\ \A f \in {"valid", "gaps", "missing", "rewinds", "anomalies"} : totals'[f] = totals[f]
<1>1. /\ Corruption(record) # {} /\ Defects(record) # {}
      /\ "SequenceGap" \notin Defects(record) /\ "SequenceRewind" \notin Defects(record)
      /\ Defects(record) \cap {"TimestampFuture", "TimestampBackward"} = {}
  BY CorruptionCases DEF Defects
<1>2. totals' = After(totals, 0, 1, 0, 0, 0, 0)
  BY <1>1 DEF Process, Count, One, After
<1>3. totals \in Totals
  BY DEF TypeInv, ConsumerType
<1>4. /\ totals' \in Totals
      /\ totals'.received = totals.received + 1
      /\ totals'.corrupted = totals.corrupted + 1
      /\ totals'.valid = totals.valid /\ totals'.gaps = totals.gaps
      /\ totals'.missing = totals.missing /\ totals'.rewinds = totals.rewinds
      /\ totals'.anomalies = totals.anomalies
  <2>1. /\ totals.valid \in Int /\ totals.gaps \in Int /\ totals.missing \in Int /\ totals.rewinds \in Int
        /\ totals.anomalies \in Int
    BY <1>3 DEF Totals
  <2> QED
    BY <1>2, <1>3, <2>1, TotalsAfter
<1> QED
  BY <1>1, <1>4 DEF Process, Track

\* A packet keeps the summary adding up, whatever is wrong with it.
LEMMA ProcessAddsUp ==
  ASSUME TypeInv, SummaryAddsUp, NEW record \in Packet, Process(record)
  PROVE  ConsumerType' /\ SummaryAddsUp'
<1>0. /\ totals \in Totals /\ window \in Int /\ reported \in Int
      /\ latency.count \in Int /\ latency.sum \in Int /\ latency = [count |-> latency.count, sum |-> latency.sum]
      /\ clock \in Int /\ record.timestamp \in Int /\ record.sequence \in Int
  BY DEF TypeInv, ConsumerType, StreamType, Packet
<1>t. /\ totals.received \in Int /\ totals.valid \in Int /\ totals.corrupted \in Int
      /\ totals.gaps \in Int /\ totals.rewinds \in Int /\ totals.anomalies \in Int
  BY <1>0 DEF Totals
<1>1. CASE record.damage = "none"
  <2>0. IntactEffect(record)
    BY <1>1, ProcessIntact
  <2>1. ConsumerType'
    BY <1>0, <2>0 DEF TypeInv, ConsumerType, IntactEffect
  <2>2. ~ (Gap(record) /\ Rewind(record))
    BY <1>0 DEF Gap, Rewind, TypeInv, ConsumerType
  <2> DEFINE valid     == One(~ Gap(record) /\ ~ Rewind(record) /\ ~ Late(record) /\ ~ Early(record))
             gaps      == One(Gap(record))
             rewinds   == One(Rewind(record))
             anomalies == One(Late(record) \/ Early(record))
  <2>3. /\ valid \in {0, 1} /\ gaps + rewinds \in {0, 1} /\ anomalies \in {0, 1}
        /\ gaps \in Int /\ rewinds \in Int
        /\ valid = 1 => gaps + rewinds = 0 /\ anomalies = 0
        /\ valid = 0 => gaps + rewinds + anomalies >= 1
    BY <2>2 DEF One
  <2>4. /\ totals'.received = totals.received + 1 /\ totals'.valid = totals.valid + valid
        /\ totals'.corrupted = totals.corrupted
        /\ totals'.gaps = totals.gaps + gaps /\ totals'.rewinds = totals.rewinds + rewinds
        /\ totals'.anomalies = totals.anomalies + anomalies
        /\ window' = window + 1 /\ reported' = reported /\ latency'.count = latency.count + 1
    BY <2>0 DEF IntactEffect
  <2> HIDE DEF valid, gaps, rewinds, anomalies
  <2>5. SummaryAddsUp'
    BY <1>0, <1>t, <2>3, <2>4 DEF SummaryAddsUp
  <2> QED
    BY <2>1, <2>5
<1>2. CASE record.damage # "none"
  <2>1. ConsumerType'
    BY <1>0, <1>2, ProcessDamaged DEF TypeInv, ConsumerType, validator
  <2>2. /\ totals'.received = totals.received + 1 /\ totals'.valid = totals.valid
        /\ totals'.corrupted = totals.corrupted + 1
        /\ totals'.gaps = totals.gaps /\ totals'.rewinds = totals.rewinds
        /\ totals'.anomalies = totals.anomalies
        /\ window' = window + 1 /\ reported' = reported /\ latency' = latency
    BY <1>2, ProcessDamaged
  <2>3. SummaryAddsUp'
    BY <1>0, <1>t, <2>2 DEF SummaryAddsUp
  <2> QED
    BY <2>1, <2>3
<1> QED
  BY <1>1, <1>2

-----------------------------------------------------------------------------
(* The stream.                                                              *)

\* Taking the packet at the end of the stream.
LEMMA TakeOne ==
  ASSUME NEW s \in Seq(Packet), s # <<>>
  PROVE  /\ Len(s) \in Nat /\ Len(s) >= 1
         /\ Head(s) = s[1] /\ Head(s) \in Packet
         /\ Tail(s) \in Seq(Packet) /\ Len(Tail(s)) = Len(s) - 1
         /\ \A i \in 1 .. Len(Tail(s)) : Tail(s)[i] = s[i + 1] /\ i + 1 \in 1 .. Len(s)
<1>1. Len(s) \in Nat /\ Len(s) >= 1
  BY EmptySeq
<1> QED
  BY <1>1, HeadTailProperties

\* What is known of a packet whose turn is over.
LEMMA PastIntact ==
  ASSUME TypeInv, NEW record \in past
  PROVE  /\ record \in Packet /\ record.damage = "none" /\ record # None
         /\ record.sequence \in Nat /\ record.timestamp \in Nat
<1>1. record \in Packet /\ record.damage = "none"
  BY DEF TypeInv, TruthType, Intact
<1> QED
  BY <1>1 DEF Packet, None

\* When its first packet has had its turn, the stream is still numbered and ordered.
LEMMA TurnInOrder ==
  ASSUME AccountingInv, TakeTurn
  PROVE  /\ StreamType' /\ InFlightNumbered' /\ PastBefore' /\ TimestampsOrdered'
         /\ Head(inFlight) \in Packet
         /\ Head(inFlight).sequence = sequence - Len(inFlight)
         /\ sequence - Len(inFlight') = sequence - Len(inFlight) + 1
         /\ past' \subseteq Intact /\ past \subseteq past'
         /\ Head(inFlight).damage = "none" => Head(inFlight) \in past'
         /\ \A record \in past : record.sequence < Head(inFlight).sequence
         /\ ~ stepped => /\ Head(inFlight).timestamp <= clock
                         /\ \A record \in past : record.timestamp <= Head(inFlight).timestamp
<1> DEFINE head == Head(inFlight)
<1>0. /\ inFlight # <<>> /\ inFlight' = Tail(inFlight) /\ UNCHANGED <<clock, sequence, stepped>>
      /\ past' = past \cup {record \in {head} : record.damage = "none"}
  BY DEF TakeTurn
<1>1. inFlight \in Seq(Packet) /\ sequence \in Nat /\ clock \in Nat
  BY DEF AccountingInv, TypeInv, StreamType
<1>2. /\ Len(inFlight) \in Nat /\ Len(inFlight) >= 1
      /\ head = inFlight[1] /\ 1 \in 1 .. Len(inFlight) /\ head \in Packet
      /\ inFlight' \in Seq(Packet) /\ Len(inFlight') = Len(inFlight) - 1
      /\ \A i \in 1 .. Len(inFlight') : inFlight'[i] = inFlight[i + 1] /\ i + 1 \in 1 .. Len(inFlight)
  BY <1>0, <1>1, TakeOne
<1>3. StreamType'
  BY <1>0, <1>1, <1>2 DEF AccountingInv, TypeInv, StreamType
<1>4. InFlightNumbered' /\ head.sequence = sequence - Len(inFlight)
  BY <1>0, <1>1, <1>2 DEF AccountingInv, NumberingInv, InFlightNumbered
<1>5. sequence' - Len(inFlight') = sequence - Len(inFlight) + 1 /\ head.sequence \in Nat /\ head.timestamp \in Nat
  BY <1>0, <1>1, <1>2 DEF Packet
<1> HIDE DEF head
<1>6. \A record \in past' : record \in past \/ (record = head /\ record.damage = "none")
  BY <1>0
<1>7. /\ past' \subseteq Intact /\ past \subseteq past' /\ (head.damage = "none" => head \in past')
  BY <1>0, <1>2 DEF AccountingInv, TypeInv, TruthType, Intact
<1>8. \A record \in past : record.sequence \in Nat /\ record.sequence < head.sequence
  BY <1>4, PastIntact DEF AccountingInv, NumberingInv, PastBefore
<1>9. PastBefore'
  BY <1>1, <1>2, <1>4, <1>5, <1>6, <1>8 DEF PastBefore
<1>10. ~ stepped => head.timestamp <= clock /\ \A record \in past : record.timestamp <= head.timestamp
  BY <1>2 DEF AccountingInv, TimestampsOrdered
<1>11. TimestampsOrdered'
  <2> SUFFICES ASSUME ~ stepped
               PROVE  /\ \A i \in 1 .. Len(inFlight') : inFlight'[i].timestamp <= clock
                      /\ \A i, j \in 1 .. Len(inFlight') :
                           i < j => inFlight'[i].timestamp <= inFlight'[j].timestamp
                      /\ \A record \in past' :
                           /\ record.timestamp <= clock
                           /\ \A i \in 1 .. Len(inFlight') : record.timestamp <= inFlight'[i].timestamp
                      /\ \A first, second \in past' :
                           first.sequence <= second.sequence => first.timestamp <= second.timestamp
    BY <1>0 DEF TimestampsOrdered
  <2>1. /\ \A i \in 1 .. Len(inFlight) : inFlight[i].timestamp <= clock
        /\ \A i, j \in 1 .. Len(inFlight) : i < j => inFlight[i].timestamp <= inFlight[j].timestamp
        /\ \A record \in past : /\ record.timestamp <= clock
                               /\ \A i \in 1 .. Len(inFlight) : record.timestamp <= inFlight[i].timestamp
        /\ \A first, second \in past :
             first.sequence <= second.sequence => first.timestamp <= second.timestamp
    BY DEF AccountingInv, TimestampsOrdered
  <2>2. /\ \A i \in 1 .. Len(inFlight') : inFlight'[i].timestamp <= clock
        /\ \A i, j \in 1 .. Len(inFlight') : i < j => inFlight'[i].timestamp <= inFlight'[j].timestamp
        /\ \A i \in 1 .. Len(inFlight') : head.timestamp <= inFlight'[i].timestamp
    BY <1>2, <2>1
  <2>3. ASSUME NEW record \in past'
        PROVE  /\ record.timestamp <= clock
               /\ \A i \in 1 .. Len(inFlight') : record.timestamp <= inFlight'[i].timestamp
    <3>1. CASE record \in past
      BY <1>2, <2>1, <3>1
    <3>2. CASE record = head
      BY <1>10, <2>2, <3>2
    <3> QED
      BY <1>6, <3>1, <3>2
  <2>4. ASSUME NEW first \in past', NEW second \in past', first.sequence <= second.sequence
        PROVE  first.timestamp <= second.timestamp
    <3>1. CASE first \in past /\ second \in past
      BY <2>1, <2>4, <3>1
    <3>2. CASE first \in past /\ second = head
      BY <1>10, <3>2
    <3>3. CASE first = head /\ second \in past
      BY <1>5, <1>8, <2>4, <3>3
    <3>4. CASE first = head /\ second = head
      BY <1>5, <3>4
    <3> QED
      BY <1>6, <3>1, <3>2, <3>3, <3>4
  <2> QED
    BY <2>2, <2>3, <2>4
<1> QED
  BY <1>0, <1>2, <1>3, <1>4, <1>5, <1>7, <1>8, <1>9, <1>10, <1>11 DEF head

-----------------------------------------------------------------------------
(* The steps.                                                               *)

\* The hole grows when a packet does not arrive intact in its turn.
LEMMA HoleGrows ==
  ASSUME AccountingInv, sequence' = sequence, sequence - Len(inFlight') = sequence - Len(inFlight) + 1,
         hole' = hole + 1, last' = last
  PROVE  HoleExact'
<1>1. /\ hole \in Nat /\ sequence \in Nat /\ Len(inFlight) \in Nat
      /\ last # None => last.sequence \in Nat
  BY PastIntact DEF AccountingInv, TypeInv, TruthType, StreamType
<1> QED
  BY <1>1 DEF AccountingInv, NumberingInv, HoleExact

\* An intact packet arrives in its turn: it shows the hole before it.
LEMMA ReceiveIntact ==
  ASSUME AccountingInv, Receive, Head(inFlight).damage = "none"
  PROVE  AccountingInv'
<1> DEFINE record == Head(inFlight)
<1>1. /\ TakeTurn /\ UNCHANGED <<clock, sequence, stepped, again, strayed>>
      /\ ~ paused /\ Process(record)
      /\ hole' = 0 /\ skipped' = (IF hasBaseline /\ last # None THEN skipped + hole ELSE skipped)
      /\ last' = record
  BY DEF Receive, TakeTurn
<1>2. /\ StreamType' /\ InFlightNumbered' /\ PastBefore' /\ TimestampsOrdered'
      /\ record \in Packet /\ record.sequence = sequence - Len(inFlight)
      /\ sequence - Len(inFlight') = sequence - Len(inFlight) + 1
      /\ past' \subseteq Intact /\ record \in past'
      /\ \A b \in past : b.sequence < record.sequence
  BY <1>1, TurnInOrder
<1>3. ~ stepped => record.timestamp <= clock /\ \A b \in past : b.timestamp <= record.timestamp
  BY <1>1, TurnInOrder
<1>4. record.sequence \in Nat /\ record.timestamp \in Nat /\ record # None
  BY <1>2 DEF Packet, None
<1>5. /\ hasBaseline' = TRUE /\ expected' = record.sequence + 1 /\ lastTimestamp' = record.timestamp
      /\ latency'.sum = latency.sum + (clock - record.timestamp)
      /\ paused' = paused
      /\ totals'.missing = totals.missing + (IF Gap(record) THEN record.sequence - expected ELSE 0)
      /\ totals'.rewinds = totals.rewinds + One(Rewind(record))
      /\ totals'.anomalies = totals.anomalies + One(Late(record) \/ Early(record))
  <2>1. IntactEffect(record)
    BY <1>1, <1>2, ProcessIntact DEF AccountingInv
  <2> QED
    BY <2>1 DEF IntactEffect
<1>6. ConsumerType' /\ SummaryAddsUp'
  BY <1>1, <1>2, ProcessAddsUp DEF AccountingInv
<1>7. /\ hole \in Nat /\ skipped \in Int /\ again \in Int /\ expected \in Int /\ lastTimestamp \in Int
      /\ clock \in Nat /\ Tolerance \in Nat /\ latency.sum \in Int
      /\ totals.missing \in Int /\ totals.rewinds \in Int /\ totals.anomalies \in Int
      /\ strayed \in BOOLEAN /\ (last # None => last.sequence \in Nat)
  BY AccountingAssumption, PastIntact DEF AccountingInv, TypeInv, ConsumerType, TruthType, StreamType, Totals
<1> HIDE DEF record
<1>8. TruthType'
  BY <1>1, <1>2, <1>7 DEF TruthType
<1>9. hasBaseline => /\ expected <= record.sequence
                     /\ ~ stepped => lastTimestamp <= record.timestamp
  <2> SUFFICES ASSUME hasBaseline
               PROVE  expected <= record.sequence /\ (~ stepped => lastTimestamp <= record.timestamp)
    OBVIOUS
  <2>1. PICK b \in past : expected = b.sequence + 1 /\ lastTimestamp = b.timestamp
    BY DEF AccountingInv, NumberingInv, BaselineInv
  <2>2. b.sequence \in Nat /\ b.sequence < record.sequence
    BY <1>2, PastIntact DEF AccountingInv
  <2> QED
    BY <1>3, <1>4, <2>1, <2>2
<1>10. hasBaseline /\ last # None => expected + hole <= record.sequence
  BY <1>2, <1>4, <1>7 DEF AccountingInv, NumberingInv, HoleExact, BaselineInv
<1>11. hasBaseline /\ ~ strayed => last # None /\ expected + hole = record.sequence
  BY <1>1, <1>2, <1>4, <1>7 DEF AccountingInv, NumberingInv, HoleExact, BaselineInv
<1>12. NumberingInv'
  <2>1. HoleExact'
    BY <1>1, <1>2, <1>4 DEF HoleExact
  <2>2. BaselineInv'
    BY <1>1, <1>2, <1>4, <1>5 DEF BaselineInv
  <2> QED
    BY <1>2, <2>1, <2>2 DEF NumberingInv
<1>13. ~ Rewind(record) /\ totals'.rewinds = totals.rewinds
  <2>1. ~ Rewind(record)
    BY <1>4, <1>7, <1>9 DEF Rewind
  <2> QED
    BY <1>5, <1>7, <2>1 DEF One
<1>14. DetectionExact'
  <2>1. /\ totals.missing >= skipped /\ totals.rewinds <= again
        /\ ~ strayed => totals.missing = skipped /\ totals.rewinds = again
    BY DEF AccountingInv, DetectionExact
  <2>2. (IF Gap(record) THEN record.sequence - expected ELSE 0) = IF hasBaseline THEN record.sequence - expected ELSE 0
    BY <1>4, <1>7, <1>9 DEF Gap
  <2>3. totals'.missing = totals.missing + IF hasBaseline THEN record.sequence - expected ELSE 0
    BY <1>5, <2>2
  <2>4. totals'.missing >= skipped'
    BY <1>1, <1>4, <1>7, <1>9, <1>10, <2>1, <2>3
  <2>5. ~ strayed => totals'.missing = skipped'
    BY <1>1, <1>4, <1>7, <1>11, <2>1, <2>3
  <2> QED
    BY <1>1, <1>13, <2>1, <2>4, <2>5 DEF DetectionExact
<1>15. TimestampsQuiet'
  <2> SUFFICES ASSUME ~ stepped
               PROVE  /\ totals'.anomalies <= totals'.rewinds /\ (~ strayed => totals'.anomalies = 0)
                      /\ latency'.sum >= 0
    BY <1>1 DEF TimestampsQuiet
  <2>1. totals.anomalies <= totals.rewinds /\ (~ strayed => totals.anomalies = 0) /\ latency.sum >= 0
    BY DEF AccountingInv, TimestampsQuiet
  <2>2. ~ Late(record) /\ ~ Early(record)
    BY <1>3, <1>4, <1>7, <1>9 DEF Late, Early
  <2>3. totals'.anomalies = totals.anomalies
    BY <1>5, <1>7, <2>2 DEF One
  <2> QED
    BY <1>3, <1>4, <1>5, <1>7, <1>13, <2>1, <2>3
<1> QED
  BY <1>2, <1>6, <1>8, <1>12, <1>14, <1>15 DEF AccountingInv, TypeInv

\* A damaged packet arrives: it makes the hole larger.
LEMMA ReceiveDamaged ==
  ASSUME AccountingInv, Receive, Head(inFlight).damage # "none"
  PROVE  AccountingInv'
<1> DEFINE record == Head(inFlight)
<1>1. /\ TakeTurn /\ UNCHANGED <<clock, sequence, stepped, again, strayed>>
      /\ ~ paused /\ Process(record)
      /\ hole' = hole + 1 /\ skipped' = skipped /\ last' = last
  BY DEF Receive, TakeTurn
<1>2. /\ StreamType' /\ InFlightNumbered' /\ PastBefore' /\ TimestampsOrdered'
      /\ record \in Packet
      /\ sequence - Len(inFlight') = sequence - Len(inFlight) + 1
      /\ past' \subseteq Intact /\ past \subseteq past'
  BY <1>1, TurnInOrder
<1>5. /\ hasBaseline' = hasBaseline /\ expected' = expected /\ lastTimestamp' = lastTimestamp
      /\ latency' = latency /\ paused' = paused
      /\ totals'.missing = totals.missing /\ totals'.rewinds = totals.rewinds
      /\ totals'.anomalies = totals.anomalies
  BY <1>1, <1>2, ProcessDamaged DEF AccountingInv, validator
<1>6. ConsumerType' /\ SummaryAddsUp'
  BY <1>1, <1>2, ProcessAddsUp DEF AccountingInv
<1>7. TruthType'
  BY <1>1, <1>2 DEF AccountingInv, TypeInv, TruthType
<1>8. HoleExact'
  BY <1>1, <1>2, HoleGrows
<1>9. BaselineInv'
  BY <1>1, <1>2, <1>5 DEF AccountingInv, NumberingInv, BaselineInv
<1>10. DetectionExact' /\ TimestampsQuiet'
  BY <1>1, <1>5 DEF AccountingInv, DetectionExact, TimestampsQuiet
<1> QED
  BY <1>2, <1>6, <1>7, <1>8, <1>9, <1>10 DEF AccountingInv, TypeInv, NumberingInv

\* A packet arrives late or again: a rewind, unless there is no baseline or the
\* baseline was set back before.
LEMMA RepeatInv ==
  ASSUME AccountingInv, Repeat
  PROVE  AccountingInv'
<1>0. PICK record \in past : /\ last # None => record.sequence <= last.sequence
                             /\ Process(record)
                             /\ strayed' = (strayed \/ record # last)
  BY DEF Repeat
<1>1. /\ ~ paused /\ again' = again + One(hasBaseline)
      /\ UNCHANGED <<clock, sequence, inFlight, stepped, hole, skipped, last, past>>
  BY DEF Repeat, stream
<1>2. /\ record \in Packet /\ record.damage = "none" /\ record # None
      /\ record.sequence \in Nat /\ record.timestamp \in Nat
  BY PastIntact DEF AccountingInv
<1>3. IntactEffect(record)
  BY <1>0, <1>2, ProcessIntact DEF AccountingInv
<1>4. /\ hasBaseline' = TRUE /\ expected' = record.sequence + 1 /\ lastTimestamp' = record.timestamp
      /\ latency'.sum = latency.sum + (clock - record.timestamp)
      /\ paused' = paused
      /\ totals'.missing = totals.missing + (IF Gap(record) THEN record.sequence - expected ELSE 0)
      /\ totals'.rewinds = totals.rewinds + One(Rewind(record))
      /\ totals'.anomalies = totals.anomalies + One(Late(record) \/ Early(record))
  BY <1>3 DEF IntactEffect
<1>5. ConsumerType' /\ SummaryAddsUp'
  BY <1>0, <1>2, ProcessAddsUp DEF AccountingInv
<1>6. /\ skipped \in Int /\ again \in Int /\ expected \in Int /\ lastTimestamp \in Int
      /\ clock \in Nat /\ Tolerance \in Nat /\ latency.sum \in Int
      /\ totals.missing \in Int /\ totals.rewinds \in Int /\ totals.anomalies \in Int
      /\ strayed \in BOOLEAN /\ (last # None => last.sequence \in Nat)
  BY AccountingAssumption, PastIntact DEF AccountingInv, TypeInv, ConsumerType, TruthType, StreamType, Totals
<1>7. /\ strayed' \in BOOLEAN
      /\ ~ strayed' => ~ strayed /\ record = last /\ last # None
      /\ ~ strayed' /\ hasBaseline => expected = record.sequence + 1 /\ lastTimestamp = record.timestamp
  <2>1. strayed' \in BOOLEAN /\ (~ strayed' => ~ strayed /\ record = last)
    BY <1>0, <1>6, Zenon
  <2> QED
    BY <1>2, <2>1 DEF AccountingInv, NumberingInv, BaselineInv
<1>8. StreamType' /\ TruthType'
  <2>1. again' \in Int
    BY <1>1, <1>6 DEF One
  <2> QED
    BY <1>1, <1>7, <2>1 DEF AccountingInv, TypeInv, StreamType, TruthType
<1>9. NumberingInv'
  <2>1. InFlightNumbered' /\ PastBefore' /\ HoleExact'
    BY <1>1 DEF AccountingInv, NumberingInv, InFlightNumbered, PastBefore, HoleExact
  <2>2. BaselineInv'
    BY <1>0, <1>1, <1>2, <1>4, <1>6, <1>7 DEF BaselineInv
  <2> QED
    BY <2>1, <2>2 DEF NumberingInv
<1>10. TimestampsOrdered'
  BY <1>1 DEF AccountingInv, TimestampsOrdered
<1>11. DetectionExact'
  <2>1. /\ totals.missing >= skipped /\ totals.rewinds <= again
        /\ ~ strayed => totals.missing = skipped /\ totals.rewinds = again
    BY DEF AccountingInv, DetectionExact
  <2>2. totals'.missing >= totals.missing
    BY <1>2, <1>4, <1>6 DEF Gap
  <2>3. One(Rewind(record)) <= One(hasBaseline) /\ One(Rewind(record)) \in Int /\ One(hasBaseline) \in Int
    BY DEF One, Rewind
  <2>4. ASSUME ~ strayed'
        PROVE  totals'.missing = totals.missing /\ totals'.rewinds = totals.rewinds + One(hasBaseline)
    <3>1. ~ Gap(record) /\ (Rewind(record) <=> hasBaseline)
      BY <1>2, <1>6, <1>7, <2>4 DEF Gap, Rewind
    <3>2. One(Rewind(record)) = One(hasBaseline)
      BY <3>1 DEF One
    <3> QED
      BY <1>4, <1>6, <3>1, <3>2
  <2>5. totals'.missing >= skipped' /\ totals'.rewinds <= again'
    <3>1. totals'.missing \in Int
      BY <1>2, <1>4, <1>6
    <3> QED
      BY <1>1, <1>4, <1>6, <2>1, <2>2, <2>3, <3>1
  <2>6. ~ strayed' => totals'.missing = skipped' /\ totals'.rewinds = again'
    BY <1>1, <1>7, <2>1, <2>4
  <2> QED
    BY <2>5, <2>6 DEF DetectionExact
<1>12. TimestampsQuiet'
  <2> SUFFICES ASSUME ~ stepped
               PROVE  /\ totals'.anomalies <= totals'.rewinds /\ (~ strayed' => totals'.anomalies = 0)
                      /\ latency'.sum >= 0
    BY <1>1 DEF TimestampsQuiet
  <2>1. totals.anomalies <= totals.rewinds /\ (~ strayed => totals.anomalies = 0) /\ latency.sum >= 0
    BY DEF AccountingInv, TimestampsQuiet
  <2>2. /\ record.timestamp <= clock
        /\ \A b \in past : b.sequence <= record.sequence => b.timestamp <= record.timestamp
    BY DEF AccountingInv, TimestampsOrdered
  <2>3. ~ Late(record)
    BY <1>2, <1>6, <2>2 DEF Late
  <2>4. Early(record) => Rewind(record)
    <3> SUFFICES ASSUME hasBaseline, record.timestamp < lastTimestamp
                 PROVE  record.sequence < expected
      BY DEF Early, Rewind
    <3>1. PICK b \in past : expected = b.sequence + 1 /\ lastTimestamp = b.timestamp
      BY DEF AccountingInv, NumberingInv, BaselineInv
    <3>2. b.sequence \in Nat /\ b.timestamp \in Nat
      BY PastIntact DEF AccountingInv
    <3> QED
      BY <1>2, <2>2, <3>1, <3>2
  <2>5. /\ One(Late(record) \/ Early(record)) <= One(Rewind(record))
        /\ One(Late(record) \/ Early(record)) \in Int /\ One(Rewind(record)) \in Int
    BY <2>3, <2>4 DEF One
  <2>6. ~ strayed' => One(Late(record) \/ Early(record)) = 0
    BY <1>2, <1>6, <1>7, <2>3 DEF One, Early
  <2>7. latency'.sum >= 0
    BY <1>2, <1>4, <1>6, <2>1, <2>2
  <2>8. totals'.anomalies <= totals'.rewinds
    BY <1>4, <1>6, <2>1, <2>5
  <2>9. ~ strayed' => totals'.anomalies = 0
    BY <1>4, <1>6, <1>7, <2>1, <2>6
  <2> QED
    BY <2>7, <2>8, <2>9
<1> QED
  BY <1>5, <1>8, <1>9, <1>10, <1>11, <1>12 DEF AccountingInv, TypeInv

\* A packet is discarded during a pause: the last one is no longer of interest.
LEMMA DiscardInv ==
  ASSUME AccountingInv, Discard
  PROVE  AccountingInv'
<1>1. /\ paused /\ TakeTurn /\ last' = None
      /\ totals' = [totals EXCEPT !.dropped = @ + 1]
      /\ UNCHANGED <<clock, sequence, stepped, hasBaseline, expected, lastTimestamp, window, latency,
                     paused, hole, skipped, again, strayed, reported>>
  BY DEF Discard, TakeTurn, validator
<1>2. /\ StreamType' /\ InFlightNumbered' /\ PastBefore' /\ TimestampsOrdered'
      /\ past' \subseteq Intact /\ past \subseteq past'
  BY <1>1, TurnInOrder
<1>4. /\ totals' \in Totals
      /\ totals'.received = totals.received /\ totals'.valid = totals.valid
      /\ totals'.corrupted = totals.corrupted /\ totals'.gaps = totals.gaps
      /\ totals'.missing = totals.missing /\ totals'.rewinds = totals.rewinds
      /\ totals'.anomalies = totals.anomalies
  <2>1. totals \in Totals
    BY DEF AccountingInv, TypeInv, ConsumerType
  <2> QED
    BY <1>1, <2>1 DEF Totals
<1>5. ConsumerType' /\ TruthType'
  BY <1>1, <1>2, <1>4 DEF AccountingInv, TypeInv, ConsumerType, TruthType
<1>6. HoleExact' /\ BaselineInv'
  BY <1>1, <1>2 DEF AccountingInv, NumberingInv, HoleExact, BaselineInv
<1>7. DetectionExact' /\ TimestampsQuiet' /\ SummaryAddsUp'
  BY <1>1, <1>4 DEF AccountingInv, DetectionExact, TimestampsQuiet, SummaryAddsUp
<1> QED
  BY <1>2, <1>5, <1>6, <1>7 DEF AccountingInv, TypeInv, NumberingInv

\* A packet does not arrive: it makes the hole larger.
LEMMA LoseInv ==
  ASSUME AccountingInv, Lose
  PROVE  AccountingInv'
<1>1. /\ TakeTurn /\ hole' = hole + 1
      /\ UNCHANGED <<clock, sequence, stepped, hasBaseline, expected, lastTimestamp, totals, window, latency,
                     paused, reported, skipped, last, again, strayed>>
  BY DEF Lose, TakeTurn, consumer, validator, stats
<1>2. /\ StreamType' /\ InFlightNumbered' /\ PastBefore' /\ TimestampsOrdered'
      /\ sequence - Len(inFlight') = sequence - Len(inFlight) + 1
      /\ past' \subseteq Intact /\ past \subseteq past'
  BY <1>1, TurnInOrder
<1>4. ConsumerType' /\ TruthType'
  BY <1>1, <1>2 DEF AccountingInv, TypeInv, ConsumerType, TruthType
<1>5. HoleExact'
  BY <1>1, <1>2, HoleGrows
<1>6. BaselineInv'
  BY <1>1, <1>2 DEF AccountingInv, NumberingInv, BaselineInv
<1>7. DetectionExact' /\ TimestampsQuiet' /\ SummaryAddsUp'
  BY <1>1 DEF AccountingInv, DetectionExact, TimestampsQuiet, SummaryAddsUp
<1> QED
  BY <1>2, <1>4, <1>5, <1>6, <1>7 DEF AccountingInv, TypeInv, NumberingInv

\* A packet is built: it has the next number and the latest timestamp.
LEMMA BuildInv ==
  ASSUME AccountingInv, Build
  PROVE  AccountingInv'
<1>0. PICK damage \in Damages \cup {"none"} :
        inFlight' = Append(inFlight, [sequence |-> sequence, timestamp |-> clock, damage |-> damage])
  BY DEF Build
<1> DEFINE record == [sequence |-> sequence, timestamp |-> clock, damage |-> damage]
<1>1. /\ sequence' = sequence + 1
      /\ UNCHANGED <<clock, stepped, hasBaseline, expected, lastTimestamp, totals, window, latency,
                     paused, reported, hole, skipped, last, again, past, strayed>>
  BY DEF Build, consumer, validator, stats, truth
<1>2. inFlight \in Seq(Packet) /\ Len(inFlight) \in Nat /\ sequence \in Nat /\ clock \in Nat
  BY DEF AccountingInv, TypeInv, StreamType
<1>3. record \in Packet /\ record.sequence = sequence /\ record.timestamp = clock
  BY <1>2 DEF Packet
<1>4. inFlight' = Append(inFlight, record)
  BY <1>0
<1> HIDE DEF record
<1>5. /\ inFlight' \in Seq(Packet) /\ Len(inFlight') = Len(inFlight) + 1
      /\ \A i \in 1 .. Len(inFlight) : inFlight'[i] = inFlight[i]
      /\ inFlight'[Len(inFlight) + 1] = record
  BY <1>2, <1>3, <1>4, AppendProperties
<1>6. \A i \in 1 .. Len(inFlight') : i \in 1 .. Len(inFlight) \/ i = Len(inFlight) + 1
  BY <1>2, <1>5
<1>7. StreamType' /\ ConsumerType' /\ TruthType'
  BY <1>1, <1>2, <1>5 DEF AccountingInv, TypeInv, StreamType, ConsumerType, TruthType
<1>8. InFlightNumbered'
  <2> SUFFICES ASSUME NEW i \in 1 .. Len(inFlight')
               PROVE  inFlight'[i].sequence = sequence' - Len(inFlight') + i - 1
    BY DEF InFlightNumbered
  <2>1. CASE i \in 1 .. Len(inFlight)
    <3>1. inFlight[i].sequence = sequence - Len(inFlight) + i - 1 /\ inFlight'[i] = inFlight[i]
      BY <1>5, <2>1 DEF AccountingInv, NumberingInv, InFlightNumbered
    <3> QED
      BY <1>1, <1>2, <1>5, <2>1, <3>1
  <2>2. CASE i = Len(inFlight) + 1
    BY <1>1, <1>2, <1>3, <1>5, <2>2
  <2> QED
    BY <1>6, <2>1, <2>2
<1>9. PastBefore' /\ HoleExact' /\ BaselineInv'
  <2>1. sequence' - Len(inFlight') = sequence - Len(inFlight)
    BY <1>1, <1>2, <1>5
  <2> QED
    BY <1>1, <2>1 DEF AccountingInv, NumberingInv, PastBefore, HoleExact, BaselineInv
<1>10. TimestampsOrdered'
  <2> SUFFICES ASSUME ~ stepped
               PROVE  /\ \A i \in 1 .. Len(inFlight') : inFlight'[i].timestamp <= clock
                      /\ \A i, j \in 1 .. Len(inFlight') :
                           i < j => inFlight'[i].timestamp <= inFlight'[j].timestamp
                      /\ \A packet \in past :
                           /\ packet.timestamp <= clock
                           /\ \A i \in 1 .. Len(inFlight') : packet.timestamp <= inFlight'[i].timestamp
                      /\ \A first, second \in past :
                           first.sequence <= second.sequence => first.timestamp <= second.timestamp
    BY <1>1 DEF TimestampsOrdered
  <2>1. /\ \A i \in 1 .. Len(inFlight) : inFlight[i].timestamp <= clock
        /\ \A i, j \in 1 .. Len(inFlight) : i < j => inFlight[i].timestamp <= inFlight[j].timestamp
        /\ \A packet \in past : /\ packet.timestamp <= clock
                               /\ \A i \in 1 .. Len(inFlight) : packet.timestamp <= inFlight[i].timestamp
        /\ \A first, second \in past :
             first.sequence <= second.sequence => first.timestamp <= second.timestamp
    BY DEF AccountingInv, TimestampsOrdered
  <2>2. \A i \in 1 .. Len(inFlight') : inFlight'[i].timestamp <= clock
    BY <1>2, <1>3, <1>5, <1>6, <2>1
  <2>3. ASSUME NEW i \in 1 .. Len(inFlight'), NEW j \in 1 .. Len(inFlight'), i < j
        PROVE  inFlight'[i].timestamp <= inFlight'[j].timestamp
    <3>1. i \in 1 .. Len(inFlight)
      BY <1>2, <1>5, <2>3
    <3>2. CASE j \in 1 .. Len(inFlight)
      BY <1>5, <2>1, <2>3, <3>1, <3>2
    <3>3. CASE j = Len(inFlight) + 1
      BY <1>3, <1>5, <2>1, <3>1, <3>3
    <3> QED
      BY <1>6, <3>2, <3>3
  <2>4. ASSUME NEW packet \in past, NEW i \in 1 .. Len(inFlight')
        PROVE  packet.timestamp <= inFlight'[i].timestamp
    BY <1>3, <1>5, <1>6, <2>1, <2>4
  <2> QED
    BY <2>1, <2>2, <2>3, <2>4
<1>11. DetectionExact' /\ TimestampsQuiet' /\ SummaryAddsUp'
  BY <1>1 DEF AccountingInv, DetectionExact, TimestampsQuiet, SummaryAddsUp
<1> QED
  BY <1>7, <1>8, <1>9, <1>10, <1>11 DEF AccountingInv, TypeInv, NumberingInv

\* The clock.
LEMMA ClockInv ==
  ASSUME AccountingInv, Tick \/ StepBack
  PROVE  AccountingInv'
<1>1. UNCHANGED <<sequence, inFlight, hasBaseline, expected, lastTimestamp, totals, window, latency,
                  paused, reported, hole, skipped, last, again, past, strayed>>
  BY DEF Tick, StepBack, consumer, validator, stats, truth
<1>2. clock \in Nat /\ clock' \in Nat /\ (stepped' = TRUE \/ (stepped' = stepped /\ clock <= clock'))
  BY DEF Tick, StepBack, AccountingInv, TypeInv, StreamType
<1>3. TypeInv'
  BY <1>1, <1>2 DEF AccountingInv, TypeInv, StreamType, ConsumerType, TruthType
<1>4. NumberingInv'
  BY <1>1 DEF AccountingInv, NumberingInv, InFlightNumbered, PastBefore, HoleExact, BaselineInv
<1>5. DetectionExact' /\ SummaryAddsUp' /\ TimestampsQuiet'
  BY <1>1, <1>2 DEF AccountingInv, DetectionExact, SummaryAddsUp, TimestampsQuiet
<1>6. TimestampsOrdered'
  <2>1. CASE stepped' = TRUE
    BY <2>1 DEF TimestampsOrdered
  <2>2. CASE stepped' = stepped /\ clock <= clock'
    <3>1. /\ \A i \in 1 .. Len(inFlight) : inFlight[i].timestamp \in Nat
          /\ \A record \in past : record.timestamp \in Nat
      <4>1. inFlight \in Seq(Packet) /\ \A record \in past : record \in Packet
        BY PastIntact DEF AccountingInv, TypeInv, StreamType
      <4>2. \A i \in 1 .. Len(inFlight) : inFlight[i] \in Packet
        BY <4>1
      <4> QED
        BY <4>1, <4>2 DEF Packet
    <3> QED
      BY <1>1, <1>2, <2>2, <3>1 DEF AccountingInv, TimestampsOrdered
  <2> QED
    BY <1>2, <2>1, <2>2
<1> QED
  BY <1>3, <1>4, <1>5, <1>6 DEF AccountingInv

\* Pauses, intervals and sessions.
LEMMA ControlInv ==
  ASSUME AccountingInv, Pause \/ Resume \/ TakeInterval \/ NewSession
  PROVE  AccountingInv'
<1>1. UNCHANGED <<clock, sequence, inFlight, stepped>>
  BY DEF Pause, Resume, TakeInterval, NewSession, stream
<1>2. StreamType' /\ InFlightNumbered'
  BY <1>1 DEF AccountingInv, TypeInv, StreamType, NumberingInv, InFlightNumbered
<1>3. CASE Pause \/ Resume
  <2>1. /\ UNCHANGED <<expected, lastTimestamp, totals, window, latency, hole, skipped, last, again, past, strayed, reported>>
        /\ paused' \in BOOLEAN
        /\ \/ hasBaseline' = FALSE
           \/ paused' = TRUE /\ hasBaseline' = hasBaseline
    BY <1>3 DEF Pause, Resume, validator, stats, truth
  <2>2. ConsumerType' /\ TruthType'
    BY <2>1 DEF AccountingInv, TypeInv, ConsumerType, TruthType
  <2>3. PastBefore' /\ HoleExact' /\ BaselineInv'
    BY <1>1, <2>1 DEF AccountingInv, NumberingInv, PastBefore, HoleExact, BaselineInv
  <2>4. TimestampsOrdered' /\ DetectionExact' /\ TimestampsQuiet' /\ SummaryAddsUp'
    BY <1>1, <2>1 DEF AccountingInv, TimestampsOrdered, DetectionExact, TimestampsQuiet, SummaryAddsUp
  <2> QED
    BY <1>2, <2>2, <2>3, <2>4 DEF AccountingInv, TypeInv, NumberingInv
<1>4. CASE TakeInterval
  <2>1. /\ reported' = reported + window /\ window' = 0 /\ latency' = NoLatency
        /\ UNCHANGED <<hasBaseline, expected, lastTimestamp, totals, paused, hole, skipped, last, again,
                       past, strayed>>
    BY <1>4 DEF TakeInterval, validator, truth
  <2>2. ConsumerType' /\ TruthType'
    BY <2>1 DEF AccountingInv, TypeInv, ConsumerType, TruthType, NoLatency
  <2>3. PastBefore' /\ HoleExact' /\ BaselineInv'
    BY <1>1, <2>1 DEF AccountingInv, NumberingInv, PastBefore, HoleExact, BaselineInv
  <2>4. TimestampsOrdered' /\ DetectionExact' /\ TimestampsQuiet'
    BY <1>1, <2>1 DEF AccountingInv, TimestampsOrdered, DetectionExact, TimestampsQuiet, NoLatency
  <2>5. SummaryAddsUp'
    <3>1. reported \in Int /\ window \in Int /\ latency'.count = 0
      BY <2>1 DEF AccountingInv, TypeInv, ConsumerType, NoLatency
    <3> QED
      BY <2>1, <3>1 DEF AccountingInv, SummaryAddsUp
  <2> QED
    BY <1>2, <2>2, <2>3, <2>4, <2>5 DEF AccountingInv, TypeInv, NumberingInv
<1>5. CASE NewSession
  <2>1. /\ hasBaseline' = FALSE /\ totals' = NoTotals /\ window' = 0 /\ latency' = NoLatency
        /\ paused' = FALSE /\ hole' = 0 /\ skipped' = 0 /\ last' = None /\ again' = 0 /\ reported' = 0
        /\ past' = {} /\ strayed' = FALSE
        /\ UNCHANGED <<expected, lastTimestamp>>
    BY <1>5 DEF NewSession
  <2>2. ConsumerType' /\ TruthType'
    <3>1. expected' \in Int /\ lastTimestamp' \in Int
      BY <2>1 DEF AccountingInv, TypeInv, ConsumerType
    <3>2. ConsumerType'
      <4>1. hasBaseline' \in BOOLEAN /\ paused' \in BOOLEAN
        BY <2>1, Zenon
      <4>2. totals' \in Totals /\ latency' \in [count : Int, sum : Int]
        BY <2>1, NothingCounted, Zenon
      <4> QED
        BY <2>1, <3>1, <4>1, <4>2 DEF ConsumerType
    <3>3. TruthType'
      <4>1. strayed' \in BOOLEAN /\ past' \subseteq Intact
        BY <2>1, Zenon
      <4> QED
        BY <2>1, <4>1 DEF TruthType
    <3> QED
      BY <3>2, <3>3
  <2>3. PastBefore' /\ HoleExact' /\ BaselineInv'
    BY <2>1 DEF PastBefore, HoleExact, BaselineInv
  <2>4. TimestampsOrdered'
    BY <1>1, <2>1 DEF AccountingInv, TimestampsOrdered
  <2>5. DetectionExact' /\ TimestampsQuiet' /\ SummaryAddsUp'
    BY <2>1 DEF DetectionExact, TimestampsQuiet, SummaryAddsUp, NoTotals, NoLatency
  <2> QED
    BY <1>2, <2>2, <2>3, <2>4, <2>5 DEF AccountingInv, TypeInv, NumberingInv
<1> QED
  BY <1>3, <1>4, <1>5

-----------------------------------------------------------------------------
(* The invariant and what follows from it.                                  *)

LEMMA InitAccounting == Init => AccountingInv
<1> SUFFICES ASSUME Init PROVE AccountingInv
  OBVIOUS
<1>1. TypeInv
  <2>1. StreamType
    <3>1. inFlight \in Seq(Packet) /\ stepped \in BOOLEAN
      BY EmptySeq, Zenon DEF Init
    <3> QED
      BY <3>1 DEF Init, StreamType
  <2>2. ConsumerType
    <3>1. hasBaseline \in BOOLEAN /\ paused \in BOOLEAN
      BY Zenon DEF Init
    <3>2. totals \in Totals /\ latency \in [count : Int, sum : Int]
      BY NothingCounted, Zenon DEF Init
    <3> QED
      BY <3>1, <3>2 DEF Init, ConsumerType
  <2>3. TruthType
    <3>1. strayed \in BOOLEAN /\ past \subseteq Intact
      BY Zenon DEF Init
    <3> QED
      BY <3>1 DEF Init, TruthType
  <2> QED
    BY <2>1, <2>2, <2>3 DEF TypeInv
<1>2. NumberingInv /\ TimestampsOrdered
  BY DEF Init, NumberingInv, InFlightNumbered, PastBefore, HoleExact, BaselineInv, TimestampsOrdered
<1>3. DetectionExact /\ TimestampsQuiet /\ SummaryAddsUp
  BY DEF Init, DetectionExact, TimestampsQuiet, SummaryAddsUp, NoTotals, NoLatency
<1> QED
  BY <1>1, <1>2, <1>3 DEF AccountingInv

LEMMA NextAccounting == AccountingInv /\ [Next]_vars => AccountingInv'
<1> SUFFICES ASSUME AccountingInv, [Next]_vars PROVE AccountingInv'
  OBVIOUS
<1>1. CASE Next
  BY <1>1, ReceiveIntact, ReceiveDamaged, RepeatInv, DiscardInv, LoseInv, BuildInv, ClockInv, ControlInv DEF Next
<1>2. CASE UNCHANGED vars
  BY <1>2 DEF vars, stream, validator, stats, truth, AccountingInv, TypeInv, StreamType, ConsumerType,
    TruthType, NumberingInv, InFlightNumbered, PastBefore, HoleExact, BaselineInv, TimestampsOrdered,
    DetectionExact, TimestampsQuiet, SummaryAddsUp
<1> QED
  BY <1>1, <1>2

LEMMA AlwaysAccounting == Spec => []AccountingInv
BY InitAccounting, NextAccounting, PTL DEF Spec

\* Over any stream, any pauses and any sessions PacketValidator and ConsumerStats
\* count as missing no fewer packets than were lost or damaged between two good ones,
\* and as rewinds no more than there were repeats; as long as only the last packet
\* comes again, exactly as many.
THEOREM DetectionIsExact == Spec => []DetectionExact
<1>1. AccountingInv => DetectionExact
  BY DEF AccountingInv
<1> QED
  BY AlwaysAccounting, <1>1, PTL

\* While the clock is not set back, validate() reports a timestamp only with a packet
\* whose sequence number goes back as well, none while no older or late packet comes,
\* and no interval has a negative latency.
THEOREM TimestampsStayQuiet == Spec => []TimestampsQuiet
<1>1. AccountingInv => TimestampsQuiet
  BY DEF AccountingInv
<1> QED
  BY AlwaysAccounting, <1>1, PTL

\* The lines of the summary and of the intervals add up after every packet, whatever
\* is wrong with it.
THEOREM SummaryAlwaysAddsUp == Spec => []SummaryAddsUp
<1>1. AccountingInv => SummaryAddsUp
  BY DEF AccountingInv
<1> QED
  BY AlwaysAccounting, <1>1, PTL

=============================================================================
